------------------------------- MODULE MCRoom -------------------------------
(***************************************************************************)
(* Processes that wait for room: in the log (module Log) and in the output *)
(* ring of the UART (Uart), in one run. A behaviour is one of the first or *)
(* one of the second, as part says; the other stays in an initial state.   *)
(***************************************************************************)
EXTENDS Log, TLC

CONSTANTS Writers, Byte, Free, UART_TX_BUF_SIZE, UINT64, FIFO, MaxCount, MaxEvents

VARIABLES part, uart_tx_buf, uart_tx_w, uart_tx_r, tx_lock, idle, upc, n, intr, sync,
          fifo, thre, rx, events

U == INSTANCE Uart WITH pc <- upc
ASSUME U!UartConstants /\ Proc = 1 .. 3

uartvars == <<uart_tx_buf, uart_tx_w, uart_tx_r, tx_lock, idle, upc, n, intr, sync,
              fifo, thre, rx, events>>
allvars == <<part, vars, uartvars>>

MCInit ==
  /\ part \in {"log", "uart"}
  /\ Init
  /\ U!Init
  /\ part = "log" => ~thre

Calls(A) == part = "log" /\ A /\ UNCHANGED <<part, uartvars>>
Output(A) == part = "uart" /\ A /\ UNCHANGED <<part, vars>>

MCNext == Calls(Next) \/ Output(U!Next)

(* The fairness of each module, for the part that runs. As only one does,  *)
(* strong fairness of a step of each of them is fairness of their union.   *)
MCFairness ==
  /\ WF_allvars(Calls(read_head \/ recover_install \/ recover_erase))
  /\ \A p \in Proc : /\ WF_allvars(Calls(log_write(p)))
                     /\ WF_allvars(Calls(commit(p)))
                     /\ WF_allvars(Calls(pc[p] = "begin" /\ begin_op(p)))
  /\ WF_allvars(Output(U!device_send)) /\ WF_allvars(Output(U!Start))
  /\ SF_allvars(Calls(end_op(1)) \/ Output(U!uartintr))
  /\ SF_allvars(Calls(end_op(2)) \/ Output(U!uartputc_sync("echo")))
  /\ SF_allvars(Calls(end_op(3)) \/ Output(U!uartputc_sync("printf")))

MCSpec == MCInit /\ [][MCNext]_allvars /\ MCFairness

(* Output reaches the device in order and in time (see Uart).               *)
OutputOrdered == U!OutputOrdered

(* Output reaches the device in the end (see Uart).                         *)
OutputDrains == U!OutputDrains
=============================================================================
