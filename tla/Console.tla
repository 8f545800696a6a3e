------------------------------- MODULE Console -------------------------------
(***************************************************************************)
(* The console (kernel/console.c) and the UART below it (kernel/uart.c):   *)
(* keys come in through the UART interrupt, are edited and echoed by       *)
(* consoleintr() and read by consoleread(); write() goes through a ring    *)
(* that uartputc() fills and uartstart() empties; printf() and the echo    *)
(* write to the UART directly.                                             *)
(*                                                                         *)
(* A section under cons.lock that does not touch the UART is one step.     *)
(* Testing LSR and writing THR are two steps, because the writers hold     *)
(* different locks: uart_tx_lock, cons.lock (in the interrupt handler) and *)
(* pr.lock.                                                                *)
(***************************************************************************)
EXTENDS Naturals, Sequences, FiniteSets, FiniteSetsExt

CONSTANTS Reader, Writer, Intr, Printer, NoOne,
          INPUT_BUF_SIZE, UART_TX_BUF_SIZE,
          UINT,         \* the indices are unsigned: they wrap here
          START,        \* characters typed and read, and written, before
          FIFO,         \* bytes the UART's transmit FIFO holds
          RXFIFO,       \* keys its receive FIFO holds
          Budgets,      \* what may happen: a set of records, see left
          Letters, NL, CR, EOF, BS, KILL, PROCS, NUL    \* keys

(* The ring indices are taken modulo the sizes after wrapping.  The FIFO   *)
(* has room for a byte of each of the three locks' holders.                *)
ASSUME ConsoleAssumption ==
    /\ UINT % INPUT_BUF_SIZE = 0 /\ UINT % UART_TX_BUF_SIZE = 0
    /\ UINT > INPUT_BUF_SIZE /\ UINT > UART_TX_BUF_SIZE
    /\ START \in 0..UINT-1
    /\ FIFO >= 3
    /\ \A b \in Budgets : \A p \in Reader : 0 \notin b.ask[p]

VARIABLES cons,                                 \* [buf, r, w, e]
          reader,                               \* [Reader -> [pc, want, got]]
          killed,
          uart_tx_buf, uart_tx_w, uart_tx_r,
          uart_tx_lock,                         \* its holder
          th,                                   \* [pc, c, n] of the other threads
          fifo, rx, irq,                        \* the UART: bytes to send, keys
                                                \* received, interrupt pending
          lost,                                 \* THR was written with the FIFO full
          left,                                 \* what may still happen: [keys typed, keyset,
                                                \* bytes of each writer, sizes each reader
                                                \* asks for, prints, kills and faults]
          put, sent                             \* history: bytes into and out of the ring

consvars == <<cons, reader, killed>>
txvars == <<uart_tx_buf, uart_tx_w, uart_tx_r, uart_tx_lock, put, sent>>
uartvars == <<fifo, rx, irq, lost>>
vars == <<consvars, txvars, uartvars, th, left>>

Threads == Writer \cup {Intr, Printer}

Minus(x, y) == (x + UINT - y) % UINT
Plus(x, y) == (x + y) % UINT

(* consoleinit() and uartinit(), and START characters later: where the     *)
(* indices are does not matter otherwise.                                  *)
Init ==
    /\ cons = [buf |-> [i \in 0..INPUT_BUF_SIZE-1 |-> NUL], r |-> START, w |-> START,
               e |-> START]
    /\ reader = [p \in Reader |-> [pc |-> "idle", want |-> 0, got |-> <<>>]]
    /\ killed = {}
    /\ uart_tx_buf = [i \in 0..UART_TX_BUF_SIZE-1 |-> NUL]
    /\ uart_tx_w = START /\ uart_tx_r = START /\ uart_tx_lock = NoOne
    /\ th = [x \in Threads |-> [pc |-> "idle", c |-> NUL, n |-> 0]]
    /\ fifo = 0 /\ rx = <<>> /\ irq = FALSE /\ lost = FALSE
    /\ left \in Budgets
    /\ put = <<>> /\ sent = <<>>

Goto(x, pc) == th' = [th EXCEPT ![x].pc = pc]

-----------------------------------------------------------------------------
(* The UART (external).                                                    *)

(* LSR_TX_IDLE: the FIFO is empty.                                         *)
TxIdle == fifo = 0

WriteTHR == IF fifo = FIFO THEN lost' = TRUE /\ UNCHANGED fifo
            ELSE fifo' = fifo + 1 /\ UNCHANGED lost

(* A byte leaves on the wire; the last one raises an interrupt.            *)
Transmit ==
    /\ fifo > 0
    /\ fifo' = fifo - 1
    /\ irq' = (irq \/ fifo = 1)
    /\ UNCHANGED <<consvars, txvars, rx, lost, th, left>>

(* A key arrives; letters are told apart by when they were typed.          *)
Key ==
    /\ left.keys > 0
    /\ Len(rx) < RXFIFO
    /\ \E c \in {Letters[left.keys]} \cup left.keyset : rx' = Append(rx, c)
    /\ left' = [left EXCEPT !.keys = @ - 1]
    /\ irq' = TRUE
    /\ UNCHANGED <<consvars, txvars, fifo, lost, th>>

-----------------------------------------------------------------------------
(* Output through the ring.                                                *)

(* consolewrite() calls uartputc() with its next byte, which gets the lock *)
(* and sleeps or puts the byte in the ring.                                *)
uartputc(p) ==
    /\ th[p].pc \in {"idle", "awake"} /\ left.bytes[p] > 0
    /\ uart_tx_lock = NoOne
    /\ IF uart_tx_w = Plus(uart_tx_r, UART_TX_BUF_SIZE)
       THEN Goto(p, "asleep") /\ UNCHANGED <<txvars, left>>
       ELSE /\ uart_tx_buf' = [uart_tx_buf EXCEPT ![uart_tx_w % UART_TX_BUF_SIZE] =
                                    <<p, left.bytes[p]>>]
            /\ uart_tx_w' = Plus(uart_tx_w, 1)
            /\ uart_tx_lock' = p
            /\ put' = Append(put, <<p, left.bytes[p]>>)
            /\ left' = [left EXCEPT !.bytes[p] = @ - 1]
            /\ Goto(p, "start")
            /\ UNCHANGED <<uart_tx_r, sent>>
    /\ UNCHANGED <<consvars, uartvars>>

(* either_copyin() fails: the rest of the buffer is not written.           *)
WriteFault(p) ==
    /\ th[p].pc = "idle" /\ left.bytes[p] > 0
    /\ left.upsets > 0
    /\ left' = [left EXCEPT !.bytes[p] = 0, !.upsets = @ - 1]
    /\ UNCHANGED <<consvars, txvars, uartvars, th>>

MaySend == uart_tx_w # uart_tx_r /\ TxIdle

(* uartstart(): take the next byte of the ring and wake the sleepers, or   *)
(* return to the caller, which releases uart_tx_lock.                      *)
uartstart(x) ==
    /\ th[x].pc = "start"
    /\ IF MaySend
       THEN /\ th' = [ y \in Threads |->
                         IF y = x THEN [th[x] EXCEPT !.pc = "send",
                                            !.c = uart_tx_buf[uart_tx_r % UART_TX_BUF_SIZE]]
                         ELSE IF th[y].pc = "asleep" THEN [th[y] EXCEPT !.pc = "awake"]
                         ELSE th[y] ]
            /\ uart_tx_r' = Plus(uart_tx_r, 1)
            /\ UNCHANGED uart_tx_lock
       ELSE /\ Goto(x, "idle")
            /\ uart_tx_lock' = NoOne
            /\ UNCHANGED uart_tx_r
    /\ UNCHANGED <<consvars, uartvars, uart_tx_buf, uart_tx_w, put, sent, left>>

StartSend(x) ==
    /\ th[x].pc = "send"
    /\ WriteTHR
    /\ sent' = Append(sent, th[x].c)
    /\ th' = [th EXCEPT ![x].pc = "start", ![x].c = NUL]
    /\ UNCHANGED <<consvars, uart_tx_buf, uart_tx_w, uart_tx_r, uart_tx_lock, put, rx, irq, left>>

-----------------------------------------------------------------------------
(* Output past the ring: uartputc_sync(), n times, for a thread that holds *)
(* pr.lock or cons.lock.                                                   *)

SyncTest(x) ==
    /\ th[x].pc = "sync" /\ TxIdle
    /\ Goto(x, "syncsend")
    /\ UNCHANGED <<consvars, txvars, uartvars, left>>

SyncSend(x) ==
    /\ th[x].pc = "syncsend"
    /\ WriteTHR
    /\ th' = [th EXCEPT ![x].n = @ - 1, ![x].pc = IF th[x].n > 1 THEN "sync" ELSE "synced"]
    /\ UNCHANGED <<consvars, txvars, rx, irq, left>>

(* consputc(): the bytes an echo takes.                                    *)
consputc(n) == 3 * n

PrLockFree == th[Printer].pc = "idle" /\ ~(th[Intr].pc \in {"sync", "syncsend"} /\ th[Intr].c = PROCS)

(* printf() of a message of one byte, from some process or interrupt.      *)
Printf ==
    /\ left.prints > 0 /\ PrLockFree
    /\ left' = [left EXCEPT !.prints = @ - 1]
    /\ th' = [th EXCEPT ![Printer].pc = "sync", ![Printer].n = 1]
    /\ UNCHANGED <<consvars, txvars, uartvars>>

PrintfEnd ==
    /\ th[Printer].pc = "synced"
    /\ Goto(Printer, "idle")
    /\ UNCHANGED <<consvars, txvars, uartvars, left>>

-----------------------------------------------------------------------------
(* The interrupt handler.  The PLIC lets one CPU at a time handle the      *)
(* UART's interrupts.                                                      *)

(* devintr(): plic_claim().                                                *)
devintr ==
    /\ irq /\ th[Intr].pc = "idle"
    /\ irq' = FALSE
    /\ Goto(Intr, "getc")
    /\ UNCHANGED <<consvars, txvars, fifo, rx, lost, left>>

(* The characters of the line that ^U erases, from the end.                *)
Killed == LET keep == { k \in 0..Minus(cons.e, cons.w) : \A i \in 1..k :
                            cons.buf[Minus(cons.e, i) % INPUT_BUF_SIZE] # NL }
          IN Max(keep)

HasRoom == Minus(cons.e, cons.r) < INPUT_BUF_SIZE

(* The bytes that consoleintr() echoes for a key.                          *)
EchoOf(c) ==
    CASE c = PROCS -> 1
      [] c = KILL -> consputc(Killed)
      [] c = BS -> IF cons.e # cons.w THEN consputc(1) ELSE 0
      [] OTHER -> IF c # NUL /\ HasRoom THEN 1 ELSE 0

(* The cons record after a key.                                            *)
Stored(c) ==
    LET e == Plus(cons.e, 1)
        whole == c \in {NL, EOF} \/ Minus(e, cons.r) = INPUT_BUF_SIZE
    IN [cons EXCEPT !.buf[cons.e % INPUT_BUF_SIZE] = c, !.e = e,
                    !.w = IF whole THEN e ELSE @]

Edited(c) ==
    CASE c = KILL -> [cons EXCEPT !.e = Minus(@, Killed)]
      [] c = BS -> [cons EXCEPT !.e = IF cons.e # cons.w THEN Minus(@, 1) ELSE @]
      [] c \in {PROCS, NUL} -> cons
      [] OTHER -> IF HasRoom THEN Stored(IF c = CR THEN NL ELSE c) ELSE cons

(* cons.lock is held by consoleintr() or by a reader on its way to sleep.  *)
ConsLockFree ==
    /\ th[Intr].pc \notin {"sync", "syncsend", "synced"}
    /\ \A p \in Reader : reader[p].pc # "sleep"

(* uartgetc(): a key, which consoleintr() takes cons.lock for and echoes;  *)
(* procdump() takes pr.lock as well.                                       *)
uartgetc ==
    /\ th[Intr].pc = "getc" /\ rx # <<>> /\ ConsLockFree
    /\ Head(rx) = PROCS => PrLockFree
    /\ rx' = Tail(rx)
    /\ th' = [th EXCEPT ![Intr] =
                 [c |-> Head(rx), n |-> EchoOf(Head(rx)),
                  pc |-> IF EchoOf(Head(rx)) > 0 THEN "sync" ELSE "synced"]]
    /\ UNCHANGED <<consvars, txvars, fifo, irq, lost, left>>

(* Variant: only a newline or a ^D wakes the readers.                      *)
Wakes_line(c) == c \in {CR, EOF}

(* wakeup() is called when w moves.                                        *)
Wakes(c) == Edited(c).w # cons.w

(* The rest of consoleintr(), and the release of cons.lock.                *)
consoleintr ==
    LET c == th[Intr].c IN
    /\ th[Intr].pc = "synced"
    /\ cons' = Edited(c)
    /\ reader' = [ p \in Reader |-> IF reader[p].pc = "asleep" /\ Wakes(c)
                                    THEN [reader[p] EXCEPT !.pc = "reading"] ELSE reader[p] ]
    /\ th' = [th EXCEPT ![Intr].pc = "getc", ![Intr].c = NUL]
    /\ UNCHANGED <<killed, txvars, uartvars, left>>

(* Variant: output is looked after only if there was no input.             *)
uartintr_either ==
    /\ th[Intr].pc = "getc" /\ rx = <<>>
    /\ IF cons.e # cons.w THEN Goto(Intr, "idle") /\ UNCHANGED uart_tx_lock
       ELSE /\ uart_tx_lock = NoOne
            /\ uart_tx_lock' = Intr
            /\ Goto(Intr, "start")
    /\ UNCHANGED <<consvars, uart_tx_buf, uart_tx_w, uart_tx_r, put, sent, uartvars, left>>

(* Variant: uartstart() is called without the lock.                        *)
uartintr_nolock ==
    /\ th[Intr].pc = "getc" /\ rx = <<>>
    /\ Goto(Intr, "start")
    /\ UNCHANGED <<consvars, txvars, uartvars, left>>

(* No more input: send buffered characters.                                *)
uartintr ==
    /\ th[Intr].pc = "getc" /\ rx = <<>>
    /\ uart_tx_lock = NoOne
    /\ uart_tx_lock' = Intr
    /\ Goto(Intr, "start")
    /\ UNCHANGED <<consvars, uart_tx_buf, uart_tx_w, uart_tx_r, put, sent, uartvars, left>>

-----------------------------------------------------------------------------
(* Reading.                                                                *)

Unread == [i \in 1..Minus(cons.w, cons.r) |-> cons.buf[Plus(cons.r, i - 1) % INPUT_BUF_SIZE]]

(* read() of n bytes.                                                      *)
Ask(p) ==
    /\ reader[p].pc = "idle" /\ p \notin killed
    /\ \E n \in left.ask[p] :
          reader' = [reader EXCEPT ![p] = [pc |-> "reading", want |-> n, got |-> <<>>]]
    /\ UNCHANGED <<cons, killed, txvars, uartvars, th, left>>

(* k bytes have been taken out of the buffer, s copied to the reader.      *)
Consumed(p, k, s, pc) ==
    /\ cons' = [cons EXCEPT !.r = Plus(@, k)]
    /\ reader' = [reader EXCEPT ![p] = [pc |-> pc, got |-> @.got \o s,
                                        want |-> IF pc = "idle" THEN 0 ELSE @.want]]

(* Variant: a ^D that ends a read is not saved for the next one.           *)
SaveEof_never(some) == FALSE

(* Save ^D for next time if the caller has got some bytes.                 *)
SaveEof(some) == some

(* Where the loop ends, 0 if it uses up the buffer: the number of bytes    *)
(* that are wanted, a newline, or a ^D.                                    *)
StopAt(s, n) == LET stops == { i \in 1..Len(s) : s[i] \in {NL, EOF} \/ i = n }
                IN IF stops = {} THEN 0 ELSE Min(stops)

(* The section of consoleread() under cons.lock, up to the killed() test   *)
(* that is followed by sleep(), or up to return.                           *)
consoleread(p) ==
    /\ reader[p].pc = "reading" /\ ConsLockFree
    /\ \E s \in {Unread} : \E k \in {StopAt(s, reader[p].want - Len(reader[p].got))} :
          \/ /\ k = 0
             /\ Consumed(p, Len(s), s, IF p \in killed THEN "idle" ELSE "sleep")
          \/ /\ k > 0 /\ s[k] # EOF
             /\ Consumed(p, k, SubSeq(s, 1, k), "idle")
          \/ /\ k > 0 /\ s[k] = EOF
             /\ Consumed(p, IF SaveEof(reader[p].got # <<>> \/ k > 1) THEN k - 1 ELSE k,
                         SubSeq(s, 1, k - 1), "idle")
    /\ UNCHANGED <<killed, txvars, uartvars, th, left>>

(* sleep(): takes p->lock, which kill() also takes, and releases cons.lock;*)
(* a kill() since the killed() test does not wake the reader.              *)
consoleread_sleep(p) ==
    /\ reader[p].pc = "sleep"
    /\ reader' = [reader EXCEPT ![p].pc = "asleep"]
    /\ UNCHANGED <<cons, killed, txvars, uartvars, th, left>>

Upset == left.upsets > 0 /\ left' = [left EXCEPT !.upsets = @ - 1]

(* either_copyout() fails for the j-th byte, which is gone.                *)
ReadFault(p) ==
    /\ reader[p].pc = "reading" /\ ConsLockFree
    /\ \E s \in {Unread} : \E k \in {StopAt(s, reader[p].want - Len(reader[p].got))} :
          \E j \in 1..(IF k = 0 THEN Len(s) ELSE k) :
             s[j] # EOF /\ Consumed(p, j, SubSeq(s, 1, j - 1), "idle")
    /\ Upset
    /\ UNCHANGED <<killed, txvars, uartvars, th>>

(* kill() (external) of a process in read() wakes it if it sleeps.         *)
Kill(p) ==
    /\ reader[p].pc # "idle" /\ p \notin killed
    /\ killed' = killed \cup {p}
    /\ Upset
    /\ reader' = [reader EXCEPT ![p].pc = IF @ = "asleep" THEN "reading" ELSE @]
    /\ UNCHANGED <<cons, txvars, uartvars, th>>

-----------------------------------------------------------------------------
Handler == devintr \/ uartgetc \/ consoleintr \/ uartintr
Output(x) == uartstart(x) \/ StartSend(x) \/ SyncTest(x) \/ SyncSend(x)

Next ==
    \/ Transmit \/ Key \/ Printf \/ PrintfEnd \/ Handler
    \/ \E x \in Threads : Output(x)
    \/ \E p \in Writer : uartputc(p) \/ WriteFault(p)
    \/ \E p \in Reader : Ask(p) \/ consoleread(p) \/ consoleread_sleep(p) \/ ReadFault(p) \/ Kill(p)

(* The UART sends what it has, an interrupt that is pending is taken, and  *)
(* every thread that can run does.                                         *)
Spec == /\ Init /\ [][Next]_vars
        /\ WF_vars(Transmit) /\ WF_vars(Handler) /\ WF_vars(PrintfEnd)
        /\ \A x \in Threads : WF_vars(Output(x))
        /\ \A p \in Writer : WF_vars(uartputc(p))
        /\ \A p \in Reader : WF_vars(consoleread(p)) /\ WF_vars(consoleread_sleep(p))

-----------------------------------------------------------------------------
(* Properties.                                                             *)

T == INSTANCE Tty WITH Size <- INPUT_BUF_SIZE,
        Request <- UNION {UNION {b.ask[p] : p \in Reader} : b \in Budgets},
        Char <- {Letters[i] : i \in DOMAIN Letters} \cup {NL, EOF},
        queue <- Unread,
        line <- [i \in 1..Minus(cons.e, cons.w) |-> cons.buf[Plus(cons.w, i - 1) % INPUT_BUF_SIZE]],
        got <- [p \in Reader |-> reader[p].got],
        want <- [p \in Reader |-> reader[p].want]

(* Whatever the keys and the readers do and wherever the indices wrap, the *)
(* ring of console.c behaves as an edited line and a queue of complete     *)
(* lines: no character is lost, repeated or reordered, none appears in two *)
(* reads, an erased one is never read, and a ^D ends exactly one read with *)
(* no bytes.                                                               *)
ImplementsTty == T!Spec

(* Nobody sleeps past their wakeup: a reader sleeps only if there is no    *)
(* complete input, a writer only if the ring is full, and then the UART    *)
(* is busy, an interrupt is pending or somebody is in uartstart().  (A     *)
(* kill() between a reader's killed() test and its sleep() is not noticed  *)
(* before the next complete line.)                                         *)
SleepersHaveReason ==
    /\ \A p \in Reader : reader[p].pc = "asleep" => cons.r = cons.w
    /\ (\E p \in Writer : th[p].pc = "asleep") =>
          /\ uart_tx_w = Plus(uart_tx_r, UART_TX_BUF_SIZE)
          /\ fifo > 0 \/ irq \/ th[Intr].pc # "idle" \/ uart_tx_lock # NoOne

InFlight == LET s == {x \in Threads : th[x].pc = "send"}
            IN IF s = {} THEN <<>> ELSE <<th[CHOOSE x \in s : TRUE].c>>

(* The bytes that write() puts in the ring reach the UART once each and in *)
(* that order, and no byte of any source is written to a full UART,        *)
(* although printf() and the echo test LSR without uart_tx_lock.           *)
OutputIntact ==
    /\ ~lost
    /\ sent \o InFlight \o [i \in 1..Minus(uart_tx_w, uart_tx_r) |->
                             uart_tx_buf[Plus(uart_tx_r, i - 1) % UART_TX_BUF_SIZE]] = put

(* Once nobody types, writes or prints any more, all keys are processed,   *)
(* the ring runs empty and the writers return.                             *)
Settles == <>[](/\ rx = <<>> /\ fifo = 0 /\ uart_tx_w = uart_tx_r
                /\ \A x \in Threads : th[x].pc = "idle")

=============================================================================
