SPECIFICATION Spec
CONSTANTS
    q0 = q0
    q1 = q1
    q2 = q2
    q3 = q3
    q4 = q4
    q5 = q5
    q6 = q6
    Proc = {q0, q1, q2, q3, q4, q5, q6}
    Main = q0
    NoProc = NoProc
    MAXARGS = 3
    NOFILE = 6
    Pipes = {1, 2}
    PIPESIZE = 1
    Sends = 2
    Missing <- NotThere
    Scripts <- AllScripts
CHECK_DEADLOCK FALSE
INVARIANTS
    ParsesTheGrammar
    CommandsStartClean
PROPERTIES
    AllFinish
