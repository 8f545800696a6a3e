------------------------------- MODULE MCShell -------------------------------
(***************************************************************************)
(* Every line of up to three characters, every line of four characters     *)
(* without blanks, a few with more words, and a few whose programs talk    *)
(* through pipes, with a process table that is large enough or too small.  *)
(***************************************************************************)
EXTENDS Shell

CONSTANTS q0, q1, q2, q3, q4, q5, q6

Alphabet == {"a", "|", "&", ";", "(", ")", "<", ">", " "}

ShortLines == UNION {[1..n -> Alphabet] : n \in 0..3} \cup [1..4 -> Alphabet \ {" "}]

TalkingLines == {
    <<"s", "|", "f", "|", "f">>,
    <<"s", "|", "f", "|", "a">>,
    <<"s", "|", "(", "f", ";", "a", ")">>,
    <<"(", "s", ";", "s", ")", "|", "f">>,
    <<"(", "s", "&", ")", "|", "f">>,
    <<"s", "|", "a", ">", "o", ";", "f", "<", "i">>,
    <<"s", ">", "x", "|", "f">>,
    <<"f", "|", "s", "&", ";", "x">> }

(* As many words as MAXARGS allows and one more, with and without a        *)
(* redirection between them, which does not count.                         *)
WordyLines == {
    <<"a", " ", "b", ">", "o", " ">>,
    <<"a", ">", "o", " ", "b", "|", "f">>,
    <<"a", " ", "b", " ", "c">>,
    <<"a", " ", "b", "<", "i", " ", "c", ";", "a">>,
    <<"(", "a", " ", "b", ")", ">", "o", " ", "c">>}

NotThere == { <<"x">> }

AllScripts ==
    { <<7, <<l>>>> : l \in ShortLines \cup WordyLines }
    \cup { <<n, <<l>>>> : n \in 3..7, l \in TalkingLines }
    \cup { <<7, << <<"c", "d", " ", "a">>, <<"s", "&">>, <<"a">> >> >> }

=============================================================================
