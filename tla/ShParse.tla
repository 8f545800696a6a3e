------------------------------- MODULE ShParse -------------------------------
(***************************************************************************)
(* The parser of the shell (user/sh.c): recursive descent over the         *)
(* characters of a line.  A position in the line stands for a pointer into *)
(* buf; *ps is passed in and returned.                                     *)
(***************************************************************************)
EXTENDS Naturals, Sequences, FiniteSets, FiniteSetsExt

CONSTANT MAXARGS

NUL == "NUL"
Symbols == {"<", "|", ">", "&", ";", "(", ")"}
Space == " "

At(s, i) == IF i <= Len(s) THEN s[i] ELSE NUL

(* Body(v), where v is evaluated first.                                    *)
Bind(v, Body(_)) == CHOOSE y \in {Body(x) : x \in {v}} : TRUE

(* The first position from i on that is not a blank, or is one.            *)
Skip(s, i) == Min({j \in i..Len(s)+1 : At(s, j) # Space})
WordEnd(s, i) == Min({j \in i..Len(s)+1 : At(s, j) \in Symbols \cup {Space, NUL}})

Kind(s, q) ==
    CASE s[q] = ">" /\ At(s, q + 1) = ">" -> "+"
      [] s[q] \in Symbols -> s[q]
      [] OTHER -> "a"

(* A token, its first position, and the position after it.                 *)
TokenFrom(s, q) ==
    IF q > Len(s) THEN [tok |-> NUL, q |-> q, eq |-> q]
    ELSE [tok |-> Kind(s, q), q |-> q,
          eq |-> CASE Kind(s, q) = "+" -> q + 2
                   [] Kind(s, q) = "a" -> WordEnd(s, q)
                   [] OTHER -> q + 1]

(* The blanks before a token are skipped, and those after it by the next   *)
(* call: *ps is eq.                                                        *)
gettoken(s, ps) == TokenFrom(s, Skip(s, ps))

peek(s, ps, toks) == At(s, Skip(s, ps)) \in toks

(* Commands; a word is the pair of its pointers q and eq.                  *)
execcmd(argv) == [type |-> "EXEC", argv |-> argv]
redircmd(cmd, file, tok) ==
    [type |-> "REDIR", cmd |-> cmd, file |-> file, mode |-> tok, fd |-> IF tok = "<" THEN 0 ELSE 1]
pipecmd(left, right) == [type |-> "PIPE", left |-> left, right |-> right]
listcmd(left, right) == [type |-> "LIST", left |-> left, right |-> right]
backcmd(cmd) == [type |-> "BACK", cmd |-> cmd]

(* panic() exits: nothing is returned.                                     *)
Panic == [type |-> "PANIC"]
Panics == [ok |-> FALSE]
Returns(cmd, ps) == [ok |-> TRUE, cmd |-> cmd, ps |-> ps]

(* Go on with what a function of the parser has returned.                  *)
With(r, Cont(_)) == Bind(r, LAMBDA x : IF x.ok THEN Cont(x) ELSE Panics)

(* Take a token that peek() has seen.                                      *)
Take(s, ps, Cont(_)) == Bind(gettoken(s, ps), LAMBDA t : Cont(t.eq))

RECURSIVE parseredirs(_, _, _), parseargs(_, _, _, _), parseline(_, _), parsepipe(_, _)
RECURSIVE Redirected(_, _)

(* The redirections in the order they were met: each one goes around the   *)
(* command so far.                                                         *)
Redirected(cmd, redirs) ==
    IF redirs = <<>> THEN cmd
    ELSE Redirected(redircmd(cmd, Head(redirs).file, Head(redirs).tok), Tail(redirs))

(* Returns the list of redirections in cmd.                                *)
parseredirs(redirs, s, ps) ==
    IF ~peek(s, ps, {"<", ">"}) THEN Returns(redirs, ps)
    ELSE Bind(gettoken(s, ps), LAMBDA t : Bind(gettoken(s, t.eq), LAMBDA f :
            IF f.tok # "a" THEN Panics
            ELSE parseredirs(Append(redirs, [tok |-> t.tok, file |-> <<f.q, f.eq>>]), s, f.eq)))

(* The loop of parseexec().  The exec command is filled in after           *)
(* redirections have been wrapped around it.                               *)
parseargs(argv, redirs, s, ps) ==
    IF peek(s, ps, {"|", ")", "&", ";", NUL})
    THEN Returns(Redirected(execcmd(argv), redirs), ps)
    ELSE Bind(gettoken(s, ps), LAMBDA t :
            IF t.tok # "a" \/ Len(argv) + 1 >= MAXARGS THEN Panics
            ELSE With(parseredirs(redirs, s, t.eq),
                      LAMBDA r : parseargs(Append(argv, <<t.q, t.eq>>), r.cmd, s, r.ps)))

(* ( line ) and redirections.                                              *)
parseblock(s, ps) ==
    Take(s, ps, LAMBDA p : With(parseline(s, p), LAMBDA b :
        IF ~peek(s, b.ps, {")"}) THEN Panics
        ELSE Take(s, b.ps, LAMBDA e : With(parseredirs(<<>>, s, e), LAMBDA r :
                Returns(Redirected(b.cmd, r.cmd), r.ps)))))

parseexec(s, ps) ==
    IF peek(s, ps, {"("}) THEN parseblock(s, ps)
    ELSE With(parseredirs(<<>>, s, ps), LAMBDA r : parseargs(<<>>, r.cmd, s, r.ps))

parsepipe(s, ps) ==
    With(parseexec(s, ps), LAMBDA l :
        IF ~peek(s, l.ps, {"|"}) THEN l
        ELSE Take(s, l.ps, LAMBDA p : With(parsepipe(s, p), LAMBDA r :
                Returns(pipecmd(l.cmd, r.cmd), r.ps))))

(* The while loop over "&".                                                *)
RECURSIVE parseback(_, _, _)
parseback(cmd, s, ps) ==
    IF peek(s, ps, {"&"}) THEN Take(s, ps, LAMBDA p : parseback(backcmd(cmd), s, p))
    ELSE Returns(cmd, ps)

(* Variant: a while loop over ";" as well, which groups to the left.       *)
RECURSIVE parselist_left(_, _)
parselist_left(s, l) ==
    IF ~peek(s, l.ps, {";"}) THEN l
    ELSE Take(s, l.ps, LAMBDA p : With(parsepipe(s, p), LAMBDA r :
            parselist_left(s, Returns(listcmd(l.cmd, r.cmd), r.ps))))

(* What may follow the ";".                                                *)
parselist(s, l) ==
    IF ~peek(s, l.ps, {";"}) THEN l
    ELSE Take(s, l.ps, LAMBDA p : With(parseline(s, p), LAMBDA r :
            Returns(listcmd(l.cmd, r.cmd), r.ps)))

parseline(s, ps) ==
    With(parsepipe(s, ps), LAMBDA p :
        With(parseback(p.cmd, s, p.ps), LAMBDA l : parselist(s, l)))

(* The positions that are set to NUL: the end of every word.               *)
RECURSIVE nulterminate(_)
nulterminate(cmd) ==
    CASE cmd.type = "EXEC" -> {cmd.argv[i][2] : i \in DOMAIN cmd.argv}
      [] cmd.type = "REDIR" -> nulterminate(cmd.cmd) \cup {cmd.file[2]}
      [] cmd.type \in {"PIPE", "LIST"} -> nulterminate(cmd.left) \cup nulterminate(cmd.right)
      [] cmd.type = "BACK" -> nulterminate(cmd.cmd)

(* The C string a word's pointer q stands for once NULs are in place.      *)
StringAt(s, nuls, q) == SubSeq(s, q, Min({j \in q..Len(s)+1 : j = Len(s) + 1 \/ j \in nuls}) - 1)

RECURSIVE Resolve(_, _, _)
Resolve(cmd, s, nuls) ==
    CASE cmd.type = "EXEC" ->
            [cmd EXCEPT !.argv = [i \in DOMAIN @ |-> StringAt(s, nuls, @[i][1])]]
      [] cmd.type = "REDIR" ->
            [cmd EXCEPT !.cmd = Resolve(@, s, nuls), !.file = StringAt(s, nuls, @[1])]
      [] cmd.type \in {"PIPE", "LIST"} ->
            [cmd EXCEPT !.left = Resolve(@, s, nuls), !.right = Resolve(@, s, nuls)]
      [] cmd.type = "BACK" -> [cmd EXCEPT !.cmd = Resolve(@, s, nuls)]

(* The tree, with the strings that runcmd() finds in it.                   *)
parsecmd(s) ==
    Bind(parseline(s, 1), LAMBDA r :
        IF ~r.ok THEN Panic
        ELSE IF Skip(s, r.ps) # Len(s) + 1 THEN Panic
        ELSE Bind(nulterminate(r.cmd), LAMBDA nuls : Resolve(r.cmd, s, nuls)))

=============================================================================
