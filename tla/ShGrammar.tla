------------------------------ MODULE ShGrammar ------------------------------
(***************************************************************************)
(* The language of the shell, as a grammar rather than as a program: the   *)
(* set of trees a line has is defined by the ways to split it.             *)
(*                                                                         *)
(*    line    ::= pipe "&"* | pipe "&"* ";" line                           *)
(*    pipe    ::= command | command "|" pipe                               *)
(*    command ::= "(" line ")" redir* | (word | redir)*                    *)
(*    redir   ::= ("<" | ">" | ">>") word                                  *)
(***************************************************************************)
EXTENDS Naturals, Sequences, FiniteSets, SequencesExt

CONSTANT MAXARGS

P == INSTANCE ShParse

IsLetter(c) == c # P!Space /\ c \notin P!Symbols

(* The positions in S, in order.                                           *)
InOrder(S, t) == SelectSeq([i \in 1..Len(t) |-> i], LAMBDA i : i \in S)

(* Positions where a token starts: a letter after something else, a        *)
(* symbol, but a ">" only if an even number of them come just before.      *)
Before(s, i) == Cardinality({j \in 1..i-1 : \A k \in j..i-1 : s[k] = ">"})
Starts(s) == { i \in 1..Len(s) :
                 \/ IsLetter(s[i]) /\ (i = 1 \/ ~IsLetter(s[i-1]))
                 \/ s[i] \in P!Symbols /\ (s[i] = ">" => Before(s, i) % 2 = 0) }

(* A symbol, or a word as the sequence of its letters.                     *)
TokenAt(s, i) ==
    IF IsLetter(s[i])
    THEN SubSeq(s, i, CHOOSE j \in i..Len(s) :
                         /\ \A k \in i..j : IsLetter(s[k])
                         /\ j = Len(s) \/ ~IsLetter(s[j+1]))
    ELSE <<IF s[i] = ">" /\ i < Len(s) /\ s[i+1] = ">" THEN "+" ELSE s[i]>>

Tokens(s) == LET at == InOrder(Starts(s), s)
             IN [i \in 1..Len(at) |-> TokenAt(s, at[i])]

IsWord(t) == IsLetter(t[1]) /\ t[1] # "+"
IsRedir(t) == t \in {<<"<">>, <<">">>, <<"+">>}

(* The places of the redirections in (word | redir)*.                      *)
Redirs(t) == {i \in 1..Len(t) : IsRedir(t[i])}
IsSimple(t) == /\ \A i \in 1..Len(t) : IsWord(t[i]) \/ IsRedir(t[i])
               /\ \A i \in Redirs(t) : i < Len(t) /\ IsWord(t[i+1])

Words(t) == LET at == InOrder({i \in 1..Len(t) : IsWord(t[i]) /\ i - 1 \notin Redirs(t)}, t)
            IN [i \in 1..Len(at) |-> t[at[i]]]

(* The first redirection is the innermost.                                 *)
Wrap(cmd, t) == FoldLeft(LAMBDA c, i : P!redircmd(c, t[i+1], t[i][1]), cmd,
                         InOrder(Redirs(t), t))

RECURSIVE Line(_), Pipe(_), Back(_, _)

Command(t) ==
    (IF IsSimple(t) /\ Len(Words(t)) < MAXARGS THEN {Wrap(P!execcmd(Words(t)), t)} ELSE {})
    \cup UNION { LET rest == SubSeq(t, k + 1, Len(t))
                 IN IF t[1] = <<"(">> /\ t[k] = <<")">> /\ IsSimple(rest) /\ Words(rest) = <<>>
                    THEN {Wrap(l, rest) : l \in Line(SubSeq(t, 2, k - 1))} ELSE {}
                 : k \in 2..Len(t) }

Pipe(t) ==
    Command(t) \cup
    UNION { IF t[k] # <<"|">> THEN {}
            ELSE { P!pipecmd(l, r) : l \in Command(SubSeq(t, 1, k - 1)),
                                     r \in Pipe(SubSeq(t, k + 1, Len(t))) }
            : k \in 1..Len(t) }

Back(cmd, n) == IF n = 0 THEN cmd ELSE Back(P!backcmd(cmd), n - 1)

Line(t) ==
    UNION { LET first == {Back(p, m - k) : p \in Pipe(SubSeq(t, 1, k))}
            IN IF \E i \in k+1..m : t[i] # <<"&">> THEN {}
               ELSE IF m = Len(t) THEN first
               ELSE IF t[m+1] # <<";">> THEN {}
               ELSE { P!listcmd(l, r) : l \in first, r \in Line(SubSeq(t, m + 2, Len(t))) }
            : <<k, m>> \in {x \in (0..Len(t)) \X (0..Len(t)) : x[1] <= x[2]} }

Trees(s) == P!Bind(Tokens(s), Line)

=============================================================================
