-------------------------------- MODULE Uart --------------------------------
(***************************************************************************)
(* The transmit side of the serial port (kernel/uart.c): processes in      *)
(* consolewrite() put bytes into a ring under uart_tx_lock and sleep when  *)
(* it is full; uartstart() moves them to the device, called by the writer  *)
(* and by the interrupt handler. Echo and kernel printf() go past the ring *)
(* and past the lock: uartputc_sync() polls the line status register and   *)
(* writes the same holding register. Every access to a register that a     *)
(* decision depends on is a step of its own.                               *)
(***************************************************************************)
EXTENDS Naturals, Sequences

CONSTANTS Writers,           \* processes that write to the console
          Byte,
          Free,              \* nobody holds uart_tx_lock
          UART_TX_BUF_SIZE,
          UINT64,            \* uart_tx_w and uart_tx_r are counted modulo this
          FIFO,              \* bytes the device holds when its FIFOs are on
          MaxCount,          \* bound: largest n of a write
          MaxEvents          \* bound: bytes received and messages printed

UartConstants ==
  /\ UART_TX_BUF_SIZE \in Nat \ {0}
  /\ 0 \in Byte
  /\ UINT64 \in Nat
  /\ UART_TX_BUF_SIZE < UINT64
  /\ UINT64 % UART_TX_BUF_SIZE = 0
  /\ FIFO \in Nat /\ MaxCount \in Nat /\ MaxEvents \in Nat
  /\ Free \notin Writers \cup {"intr"}

VARIABLES
  uart_tx_buf, uart_tx_w, uart_tx_r,
  tx_lock,    \* holder of uart_tx_lock: a writer, "intr" or Free
  idle,       \* uartstart() has seen LSR_TX_IDLE set
  pc,         \* where a writer is
  n,          \* bytes it has still to write
  intr,       \* where uartintr() is; the PLIC runs one at a time
  sync,       \* where the callers of uartputc_sync() are
  fifo,       \* bytes in the device's transmit FIFO
  thre,       \* the device's transmit interrupt is pending
  rx,         \* an input byte is waiting in the device
  events      \* bytes and kernel messages still to come

ring == <<uart_tx_buf, uart_tx_w, uart_tx_r>>
device == <<fifo, thre, rx, events>>
vars == <<ring, tx_lock, idle, pc, n, intr, sync, device>>

(* uartinit() sets FCR_FIFO_ENABLE; without it the device holds one byte. *)
Depth == FIFO

Init ==
  /\ uart_tx_buf = [k \in 0 .. UART_TX_BUF_SIZE - 1 |-> 0]
  /\ uart_tx_w = 0
  /\ uart_tx_r = 0
  /\ tx_lock = Free
  /\ idle = FALSE
  /\ pc = [p \in Writers |-> "idle"]
  /\ n = [p \in Writers |-> 0]
  /\ intr = "off"
  /\ sync = [a \in {"echo", "printf"} |-> "off"]
  /\ fifo = 0
  /\ thre \in BOOLEAN
  /\ rx = FALSE
  /\ events = MaxEvents

Empty == uart_tx_w = uart_tx_r

MutFullLate == uart_tx_w = (uart_tx_r + UART_TX_BUF_SIZE + 1) % UINT64

Full == uart_tx_w = (uart_tx_r + UART_TX_BUF_SIZE) % UINT64

(* WriteReg(THR, c): the byte joins the FIFO, the interrupt is dropped. *)
WriteTHR == fifo' = fifo + 1 /\ thre' = FALSE /\ UNCHANGED <<rx, events>>

-----------------------------------------------------------------------------
(* The writers *)

consolewrite(p, count) ==
  /\ pc[p] = "idle"
  /\ pc' = [pc EXCEPT ![p] = "putc"]
  /\ n' = [n EXCEPT ![p] = count]
  /\ UNCHANGED <<ring, tx_lock, idle, intr, sync, device>>

(* either_copyin() fails: the loop ends, the bytes before it are written. *)
copyin_fails(p) ==
  /\ pc[p] = "putc"
  /\ pc' = [pc EXCEPT ![p] = "idle"]
  /\ n' = [n EXCEPT ![p] = 0]
  /\ UNCHANGED <<ring, tx_lock, idle, intr, sync, device>>

(* uartputc() up to its call of uartstart(); a full ring makes it sleep,   *)
(* which releases the lock.                                                *)
uartputc(p, c) ==
  /\ pc[p] = "putc"
  /\ tx_lock = Free
  /\ \/ /\ Full
        /\ pc' = [pc EXCEPT ![p] = "asleep"]
        /\ UNCHANGED <<ring, tx_lock, n>>
     \/ /\ ~Full
        /\ uart_tx_buf' = [uart_tx_buf EXCEPT ![uart_tx_w % UART_TX_BUF_SIZE] = c]
        /\ uart_tx_w' = (uart_tx_w + 1) % UINT64
        /\ tx_lock' = p
        /\ pc' = [pc EXCEPT ![p] = "start"]
        /\ n' = [n EXCEPT ![p] = @ - 1]
        /\ UNCHANGED uart_tx_r
  /\ UNCHANGED <<idle, intr, sync, device>>

-----------------------------------------------------------------------------
(* uartstart(), called with uart_tx_lock held by a writer or by uartintr() *)

(* uartstart() returns and its caller releases the lock. *)
Return ==
  /\ tx_lock' = Free
  /\ IF tx_lock = "intr"
     THEN intr' = "off" /\ UNCHANGED pc
     ELSE /\ pc' = [pc EXCEPT ![tx_lock] = IF n[tx_lock] = 0 THEN "idle" ELSE "putc"]
          /\ UNCHANGED intr

MutReadsISR ==
  /\ tx_lock # Free
  /\ ~idle
  /\ \/ /\ Empty \/ fifo > 0 \/ thre
        /\ thre' = (thre /\ rx)
        /\ Return
        /\ UNCHANGED idle
     \/ /\ ~Empty /\ fifo = 0
        /\ idle' = TRUE
        /\ UNCHANGED <<tx_lock, pc, intr, thre>>
  /\ UNCHANGED <<ring, n, sync, fifo, rx, events>>

(* The tests: nothing to send (reading the ISR drops a transmit interrupt, *)
(* unless a receive interrupt hides it), no room, or go on to write.       *)
uartstart_test ==
  /\ tx_lock # Free
  /\ ~idle
  /\ \/ /\ Empty
        /\ thre' = (thre /\ rx)
        /\ Return
        /\ UNCHANGED idle
     \/ /\ ~Empty /\ fifo > 0
        /\ Return
        /\ UNCHANGED <<idle, thre>>
     \/ /\ ~Empty /\ fifo = 0
        /\ idle' = TRUE
        /\ UNCHANGED <<tx_lock, pc, intr, thre>>
  /\ UNCHANGED <<ring, n, sync, fifo, rx, events>>

uartstart_write ==
  /\ tx_lock # Free
  /\ idle
  /\ uart_tx_r' = (uart_tx_r + 1) % UINT64
  /\ pc' = [p \in Writers |-> IF pc[p] = "asleep" THEN "putc" ELSE pc[p]]
  /\ WriteTHR
  /\ idle' = FALSE
  /\ UNCHANGED <<uart_tx_buf, uart_tx_w, tx_lock, n, intr, sync>>

-----------------------------------------------------------------------------
(* uartintr() and the callers of uartputc_sync() *)

(* devintr() claims the interrupt; a pass of the getc loop. consoleintr()  *)
(* may echo the byte; with no input left, uartstart() under the lock.      *)
uartintr ==
  /\ \/ /\ intr = "off" /\ (thre \/ rx)
        /\ intr' = "getc"
        /\ UNCHANGED <<rx, sync, tx_lock>>
     \/ /\ intr = "getc" /\ sync["echo"] = "off" /\ rx
        /\ rx' = FALSE
        /\ sync' \in {sync, [sync EXCEPT !["echo"] = "poll"]}
        /\ UNCHANGED <<intr, tx_lock>>
     \/ /\ intr = "getc" /\ sync["echo"] = "off" /\ ~rx
        /\ tx_lock = Free
        /\ tx_lock' = "intr"
        /\ intr' = "start"
        /\ UNCHANGED <<rx, sync>>
  /\ UNCHANGED <<ring, idle, pc, n, fifo, thre, events>>

(* Kernel printf(), one at a time because of pr.lock. *)
printf ==
  /\ sync["printf"] = "off" /\ events > 0
  /\ sync' = [sync EXCEPT !["printf"] = "poll"]
  /\ events' = events - 1
  /\ UNCHANGED <<ring, tx_lock, idle, pc, n, intr, fifo, thre, rx>>

uartputc_sync(a) ==
  \/ /\ sync[a] = "poll" /\ fifo = 0
     /\ sync' = [sync EXCEPT ![a] = "write"]
     /\ UNCHANGED <<ring, tx_lock, idle, pc, n, intr, device>>
  \/ /\ sync[a] = "write"
     /\ WriteTHR
     /\ sync' = [sync EXCEPT ![a] = "off"]
     /\ UNCHANGED <<ring, tx_lock, idle, pc, n, intr>>

-----------------------------------------------------------------------------
(* The device: a byte leaves, the last one raises the interrupt. *)
device_send ==
  /\ fifo > 0
  /\ fifo' = fifo - 1
  /\ thre' = (thre \/ fifo = 1)
  /\ UNCHANGED <<ring, tx_lock, idle, pc, n, intr, sync, rx, events>>

device_recv ==
  /\ ~rx /\ events > 0
  /\ rx' = TRUE
  /\ events' = events - 1
  /\ UNCHANGED <<ring, tx_lock, idle, pc, n, intr, sync, fifo, thre>>

Putc == \E p \in Writers, c \in Byte : uartputc(p, c)
Start == uartstart_test \/ uartstart_write

Next ==
  \/ \E p \in Writers : \/ \E count \in 1 .. MaxCount : consolewrite(p, count)
                        \/ copyin_fails(p)
  \/ Putc \/ Start \/ uartintr \/ printf
  \/ \E a \in {"echo", "printf"} : uartputc_sync(a)
  \/ device_send \/ device_recv

Spec == Init /\ [][Next]_vars

(* The device sends, interrupts are taken, uartstart() runs with interrupts *)
(* off, and a polling loop that sees the register empty again and again     *)
(* leaves. uart_tx_lock, released again and again, is got. No process has   *)
(* to write. Input and kernel messages come to an end (MaxEvents): they go  *)
(* first, and an endless stream of them would keep the ring waiting.        *)
Fairness ==
  /\ WF_vars(device_send)
  /\ WF_vars(Start)
  /\ SF_vars(uartintr)
  /\ \A a \in {"echo", "printf"} : SF_vars(uartputc_sync(a))

FairSpec == Spec /\ Fairness

-----------------------------------------------------------------------------
(* Properties *)

Length == (uart_tx_w + UINT64 - uart_tx_r) % UINT64
Queue == INSTANCE ByteQueue WITH
  Size <- UART_TX_BUF_SIZE,
  queue <- [k \in 1 .. Length |-> uart_tx_buf[(uart_tx_r + k - 1) % UART_TX_BUF_SIZE]]

(* The bytes of consolewrite() reach the device in the order in which they  *)
(* entered the ring: none is lost, repeated or overwritten as the indices   *)
(* go round, although a writer and the interrupt handler both drain it. The *)
(* device never gets a byte it cannot hold: uartstart(), the echo and       *)
(* printf() each write the holding register after they have seen it empty,  *)
(* and only the first takes a lock, but the FIFO that uartinit() turns on   *)
(* has room for all three. A writer sleeps only while the ring is full:     *)
(* every byte that leaves it wakes the writers, whoever sent it.            *)
OutputOrdered ==
  /\ Queue!Spec
  /\ [](fifo <= Depth)
  /\ [](\A p \in Writers : pc[p] = "asleep" => Full)

(* What is in the ring gets out: no transmit interrupt is lost between the  *)
(* test of the status register in uartstart(), the reads of the ISR and the *)
(* bytes that echo and printf() send in between. The ring is empty again    *)
(* and again, or bytes leave it again and again.                            *)
OutputDrains == []<>Empty \/ []<><<TRUE>>_uart_tx_r
=============================================================================
