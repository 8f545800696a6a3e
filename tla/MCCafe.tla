------------------------------- MODULE MCCafe -------------------------------
(***************************************************************************)
(* Three customers, of whom the program treats none differently: of the    *)
(* inputs that differ only in who orders what, one is taken.               *)
(***************************************************************************)
EXTENDS Cafe, Sequences

Order(a, t_, p) == [arrival_time |-> a, tolerance |-> t_, coffee_prep_time |-> p]

AllOrders == << Order(0, 0, 1), Order(0, 3, 1), Order(0, 3, 2),
                Order(1, 0, 2), Order(1, 3, 1), Order(1, 3, 2) >>

AllInputs == { [c \in Customer |-> AllOrders[f[c]]] :
                 f \in { g \in [Customer -> 1..6] : g[1] <= g[2] /\ g[2] <= g[3] } }

=============================================================================
