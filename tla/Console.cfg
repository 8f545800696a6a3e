SPECIFICATION Spec
CONSTANTS
    r1 = r1
    r2 = r2
    w1 = w1
    w2 = w2
    key1 = key1
    key2 = key2
    key3 = key3
    key4 = key4
    key5 = key5
    Reader = {r1, r2}
    Writer = {w1, w2}
    Intr = Intr
    Printer = Printer
    NoOne = NoOne
    INPUT_BUF_SIZE = 3
    UART_TX_BUF_SIZE = 2
    UINT = 6
    START = 4
    FIFO = 3
    RXFIFO = 1
    Budgets <- AllBudgets
    Letters <- Alphabet
    NL = NL
    CR = CR
    EOF = EOF
    BS = BS
    KILL = KILL
    PROCS = PROCS
    NUL = NUL
CHECK_DEADLOCK FALSE
INVARIANTS
    SleepersHaveReason
    OutputIntact
PROPERTIES
    ImplementsTty
    Settles
