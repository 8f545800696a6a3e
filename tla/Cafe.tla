-------------------------------- MODULE Cafe --------------------------------
(***************************************************************************)
(* The coffee shop (concurrency/1.c): a thread per customer, a semaphore   *)
(* per barista, and a main thread that joins the customers.                *)
(*                                                                         *)
(* Time is counted in seconds since the start.  A second passes when every *)
(* thread sleeps or waits: what a thread does between two waits takes no   *)
(* time.  At most once in a behaviour a second passes although a thread    *)
(* could run, because it was preempted or because the fraction of a second *)
(* that time() drops was about to overflow; late records that.             *)
(***************************************************************************)
EXTENDS Integers, FiniteSets

CONSTANTS Customer,
          Baristas,     \* the numbers of baristas to try
          Inputs        \* the inputs to try: for each customer
                        \* [arrival_time, tolerance, coffee_prep_time]

VARIABLES B,            \* number of baristas
          order,        \* the input
          sem,          \* barista_semaphores
          now, late,
          t,            \* the thread of each customer, see Thread
          begun,        \* history: when "begins preparing" was printed
          left,         \* history: when the customer left, -1 before
          with,         \* history: the customers who left with their order
          wasted_coffee, average_wait_time,
          main          \* "join" or "done"

vars == <<B, order, sem, now, late, t, begun, left, with, wasted_coffee,
          average_wait_time, main>>

(* pc, the time it sleeps until, the loop variable i, the deadline ts, the *)
(* delay, what is left of the preparation when the customer leaves, and    *)
(* the value it has read of the counter it is adding to.                   *)
Thread == [pc |-> "try", wake |-> 0, i |-> 0, ts |-> 0, delay |-> 0, rest |-> 0, seen |-> 0]

Shared == <<B, order, late, now>>

(* get_input() and initialize_threads_semaphores(); all threads start at 0 *)
(* and sleep until their arrival time.                                     *)
Init ==
    /\ B \in Baristas
    /\ order \in Inputs
    /\ sem = [b \in 0..B-1 |-> 1]
    /\ now = 0 /\ late = FALSE
    /\ t = [c \in Customer |-> [Thread EXCEPT !.wake = order[c].arrival_time]]
    /\ left = [c \in Customer |-> -1]
    /\ begun = [c \in Customer |-> -1]
    /\ with = {}
    /\ wasted_coffee = 0 /\ average_wait_time = 0
    /\ main = "join"

(* The thread goes on at pc after sleep(n).  sleep() takes an unsigned     *)
(* number: a negative one does not end within any behaviour looked at.     *)
Sleep(c, th, n, pc) ==
    t' = [t EXCEPT ![c] = IF n < 0 THEN [th EXCEPT !.pc = "asleep"]
                          ELSE [th EXCEPT !.pc = pc, !.wake = now + n]]

Goto(c, th, pc) == t' = [t EXCEPT ![c] = [th EXCEPT !.pc = pc]]

(* Another second before the second sleep.                                 *)
Sleep2(c, th, n, pc) == IF n < 0 THEN Sleep(c, th, n, pc) ELSE Sleep(c, th, n + 1, pc)

Awake(c, pc) == t[c].pc = pc /\ now >= t[c].wake

sem_post(b) == sem' = [sem EXCEPT ![b] = @ + 1]

Leave(c, served) ==
    /\ UNCHANGED begun
    /\ left' = [left EXCEPT ![c] = now]
    /\ with' = IF served THEN with \cup {c} ELSE with

Stays == UNCHANGED <<begun, left, with>>
Counts == UNCHANGED <<wasted_coffee, average_wait_time>>

-----------------------------------------------------------------------------
(* A barista that is free at once.                                         *)

(* The customer arrives: sem_trywait() on each barista in turn; after     *)
(* the last one, the time limit is set.                                    *)
TryWait(c) ==
    LET i == t[c].i IN
    /\ Awake(c, "try")
    /\ IF sem[i] > 0
       THEN /\ sem' = [sem EXCEPT ![i] = @ - 1]
            /\ Sleep(c, t[c], 1, "begin")
       ELSE /\ UNCHANGED sem
            /\ IF i + 1 < B THEN Goto(c, [t[c] EXCEPT !.i = i + 1], "try")
               ELSE Goto(c, [t[c] EXCEPT !.i = 0, !.ts = now + order[c].tolerance], "wait")
    /\ UNCHANGED main /\ Stays /\ Counts

BeginAt(c, time) ==
    /\ begun' = [begun EXCEPT ![c] = time]
    /\ UNCHANGED <<left, with>>

(* Whether the customer can wait for the coffee is known at once.          *)
Begin(c) ==
    LET o == order[c] IN
    /\ Awake(c, "begin")
    /\ IF o.tolerance < o.coffee_prep_time
       THEN Sleep(c, [t[c] EXCEPT !.rest = o.coffee_prep_time - o.tolerance], o.tolerance,
                  "impatient")
       ELSE Sleep(c, t[c], o.coffee_prep_time, "ready")
    /\ BeginAt(c, now)
    /\ UNCHANGED <<sem, main>> /\ Counts

(* The order is complete and taken.                                        *)
Ready(c) ==
    /\ Awake(c, "ready")
    /\ sem_post(t[c].i)
    /\ Leave(c, TRUE)
    /\ Goto(c, t[c], "gone")
    /\ UNCHANGED main /\ Counts

-----------------------------------------------------------------------------
(* wasted_coffee++, which is a read and a write; mutex is never locked.    *)

ReadWasted(c) ==
    /\ \/ Awake(c, "impatient") /\ Goto(c, [t[c] EXCEPT !.seen = wasted_coffee], "impatient+1")
       \/ t[c].pc = "unserved" /\ Goto(c, [t[c] EXCEPT !.seen = wasted_coffee], "unserved+1")
    /\ UNCHANGED <<sem, main>> /\ Stays /\ Counts

(* The customer leaves; the barista finishes the coffee.                   *)
LeaveEarly(c) ==
    /\ t[c].pc = "impatient+1"
    /\ wasted_coffee' = t[c].seen + 1
    /\ Leave(c, FALSE)
    /\ Sleep(c, [t[c] EXCEPT !.seen = 0], t[c].rest, "finish")
    /\ UNCHANGED <<sem, average_wait_time, main>>

(* Variant: without the return, the end of the function counts again.      *)
Finish_falls(c) ==
    /\ Awake(c, "finish")
    /\ sem_post(t[c].i)
    /\ Goto(c, t[c], "unserved")
    /\ UNCHANGED main /\ Stays /\ Counts

Finish(c) ==
    /\ Awake(c, "finish")
    /\ sem_post(t[c].i)
    /\ Goto(c, t[c], "gone")
    /\ UNCHANGED main /\ Stays /\ Counts

-----------------------------------------------------------------------------
(* Waiting for a barista, with a time limit.                               *)

(* sem_timedwait() on barista i: a free one is taken even if the limit has *)
(* passed, otherwise the call waits for the limit and the next is tried.   *)
TimedWait(c) ==
    LET i == t[c].i IN
    /\ t[c].pc = "wait"
    /\ \/ /\ sem[i] > 0
          /\ sem' = [sem EXCEPT ![i] = @ - 1]
          /\ Goto(c, [t[c] EXCEPT !.delay = now - order[c].arrival_time, !.seen = average_wait_time],
                  "taken")
       \/ /\ sem[i] = 0 /\ now >= t[c].ts
          /\ UNCHANGED sem
          /\ IF i + 1 < B THEN Goto(c, [t[c] EXCEPT !.i = i + 1], "wait")
             ELSE Goto(c, t[c], "unserved")
    /\ UNCHANGED main /\ Stays /\ Counts

(* Variant: the commented-out printf's idea of what is left, prep time -   *)
(* tolerance - delay.                                                      *)
Taken_norest(c) ==
    LET o == order[c]
        th == [t[c] EXCEPT !.seen = 0, !.delay = 0]
    IN /\ t[c].pc = "taken"
       /\ average_wait_time' = t[c].seen + t[c].delay - 1
       /\ \/ /\ o.tolerance < t[c].delay + o.coffee_prep_time
             /\ BeginAt(c, now)
             /\ Sleep2(c, [th EXCEPT !.rest = o.coffee_prep_time - o.tolerance - t[c].delay],
                       o.tolerance - t[c].delay, "impatient")
          \/ /\ o.tolerance >= t[c].delay + o.coffee_prep_time
             /\ BeginAt(c, now + 1)
             /\ Sleep2(c, th, o.coffee_prep_time, "ready")
       /\ UNCHANGED <<sem, wasted_coffee, main>>

(* Variant: the whole tolerance is waited for a second time.               *)
Taken_nodelay(c) ==
    LET o == order[c]
        th == [t[c] EXCEPT !.seen = 0, !.delay = 0]
    IN /\ t[c].pc = "taken"
       /\ average_wait_time' = t[c].seen + t[c].delay - 1
       /\ \/ /\ o.tolerance < t[c].delay + o.coffee_prep_time
             /\ BeginAt(c, now)
             /\ Sleep2(c, [th EXCEPT !.rest = o.coffee_prep_time - o.tolerance + t[c].delay - 1],
                       o.tolerance, "impatient")
          \/ /\ o.tolerance >= t[c].delay + o.coffee_prep_time
             /\ BeginAt(c, now + 1)
             /\ Sleep2(c, th, o.coffee_prep_time, "ready")
       /\ UNCHANGED <<sem, wasted_coffee, main>>

(* average_wait_time += delay - 1, and the coffee is made, or the customer *)
(* is known to leave before it is.  The impatient branch prints "begins    *)
(* preparing" before its sleep(1), the other one after it.                 *)
Taken(c) ==
    LET o == order[c]
        th == [t[c] EXCEPT !.seen = 0, !.delay = 0]
    IN /\ t[c].pc = "taken"
       /\ average_wait_time' = t[c].seen + t[c].delay - 1
       /\ \/ /\ o.tolerance < t[c].delay + o.coffee_prep_time
             /\ BeginAt(c, now)
             /\ Sleep2(c, [th EXCEPT !.rest = o.coffee_prep_time - o.tolerance + t[c].delay - 1],
                       o.tolerance - t[c].delay, "impatient")
          \/ /\ o.tolerance >= t[c].delay + o.coffee_prep_time
             /\ BeginAt(c, now + 1)
             /\ Sleep2(c, th, o.coffee_prep_time, "ready")
       /\ UNCHANGED <<sem, wasted_coffee, main>>

(* No barista within the limit.                                            *)
Unserved(c) ==
    /\ t[c].pc = "unserved+1"
    /\ wasted_coffee' = t[c].seen + 1
    /\ Sleep(c, [t[c] EXCEPT !.seen = 0], 1, "leave")
    /\ UNCHANGED <<sem, average_wait_time, main>> /\ Stays

LeaveUnserved(c) ==
    /\ Awake(c, "leave")
    /\ Leave(c, FALSE)
    /\ Goto(c, t[c], "gone")
    /\ UNCHANGED <<sem, main>> /\ Counts

Step(c) == /\ \/ TryWait(c) \/ Begin(c) \/ Ready(c)
              \/ ReadWasted(c) \/ LeaveEarly(c) \/ Finish(c)
              \/ TimedWait(c) \/ Taken(c) \/ Unserved(c) \/ LeaveUnserved(c)
           /\ UNCHANGED Shared

-----------------------------------------------------------------------------
(* Time, and the end.                                                      *)

(* Threads that wait for something other than their turn to run.           *)
Waiting(c) == \/ t[c].pc \in {"gone", "asleep"}
              \/ t[c].pc \in {"try", "begin", "ready", "impatient", "finish", "leave"}
                 /\ now < t[c].wake
              \/ t[c].pc = "wait" /\ sem[t[c].i] = 0 /\ now < t[c].ts

Tick ==
    /\ \E c \in Customer : t[c].pc \notin {"gone", "asleep"}
    /\ \/ (\A c \in Customer : Waiting(c)) /\ UNCHANGED late
       \/ (\E c \in Customer : ~Waiting(c)) /\ ~late /\ late' = TRUE
    /\ now' = now + 1
    /\ UNCHANGED <<B, order, sem, t, begun, left, with, wasted_coffee, average_wait_time, main>>

(* main() joins every thread, then cleans up and prints the two results.   *)
Join ==
    /\ main = "join"
    /\ \A c \in Customer : t[c].pc = "gone"
    /\ main' = "done"
    /\ UNCHANGED <<B, order, sem, now, late, t, begun, left, with, wasted_coffee,
                   average_wait_time>>

(* The program has ended, or main() joins a thread that does not wake up.  *)
Quiescent ==
    /\ \/ main = "done"
       \/ \A c \in Customer : t[c].pc \in {"gone", "asleep"}
    /\ UNCHANGED vars

Next == (\E c \in Customer : Step(c)) \/ Tick \/ Join \/ Quiescent

Spec == /\ Init /\ [][Next]_vars
        /\ \A c \in Customer : WF_vars(Step(c))
        /\ WF_vars(Tick) /\ WF_vars(Join)

-----------------------------------------------------------------------------
(* Properties.                                                             *)

Holds(c, b) == t[c].i = b /\ \/ t[c].pc \in {"begin", "ready", "impatient", "impatient+1",
                                             "finish", "taken"}
                             \/ t[c].pc = "asleep"

(* A barista works for one customer at a time, until the coffee is ready   *)
(* even if the customer has left, and is free otherwise.                   *)
BaristaExclusive == \A b \in 0..B-1 :
    sem[b] = 1 - Cardinality({c \in Customer : Holds(c, b)})

Limit(c) == order[c].arrival_time + order[c].tolerance + 1

(* A customer is gone one second after the tolerance at the latest, and    *)
(* exactly then without the order; and a barista is free again exactly     *)
(* coffee_prep_time seconds after "begins preparing" was printed, also     *)
(* when the customer does not stay.  Each way through customer_handler()   *)
(* adds up different arguments of sleep() to get there.                    *)
TimesAddUp == ~late => \A c \in Customer :
    /\ left[c] # -1 => left[c] <= Limit(c)
    /\ left[c] # -1 /\ c \notin with => left[c] = Limit(c)
    /\ now > Limit(c) => left[c] # -1
    /\ t[c].pc \in {"ready", "finish"} => t[c].wake = begun[c] + order[c].coffee_prep_time

(* The baristas' semaphores and the sleeps of their customers fit together.*)
ServiceConsistent == BaristaExclusive /\ TimesAddUp

(* wasted_coffee counts no customer twice; updates can be lost, because    *)
(* nothing guards it, but not all of them.                                 *)
WastedBounds == main = "done" =>
    LET without == Cardinality(Customer \ with)
    IN /\ wasted_coffee <= without
       /\ without > 0 => wasted_coffee >= 1

(* A thread whose tolerance - delay (1.c:141) a lost second made negative.  *)
Stuck(c) == late /\ t[c].pc = "asleep"

(* Every customer leaves, every coffee is finished and main() ends; a      *)
(* customer whom a lost second puts to sleep for ever keeps main() from    *)
(* ending, but keeps no other customer in the shop.                        *)
ShopCloses ==
    <>(/\ \A c \in Customer : t[c].pc = "gone" \/ Stuck(c)
       /\ main = "done" \/ \E c \in Customer : Stuck(c))

=============================================================================
