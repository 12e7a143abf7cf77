------------------------------- MODULE OcbBase -------------------------------
(***************************************************************************)
(* What all operations on one open CAN handle (a CAN_OCB of esdcan.h)      *)
(* share: the user threads inside the driver, the three wait queues wqRx,  *)
(* wqTx and wqCloseDelay, and the close_state word.                        *)
(*                                                                         *)
(* Every read and write of the handle is made with node->lock held, except *)
(* the conditions of wait_event*(): a stretch of code from OSIF_MUTEX_LOCK *)
(* to OSIF_MUTEX_UNLOCK is therefore one action, the evaluation of a wait  *)
(* condition is another one, and the callbacks of the nucleus (which calls *)
(* them with node->lock held) are the remaining ones.                      *)
(***************************************************************************)
EXTENDS Integers, FiniteSets

CONSTANTS
  Threads,   (* User threads that may be inside the driver at one time.    *)
  Ops,       (* The calls the application makes on this handle.            *)
  RxMax,     (* Frames one canRead() can get at most.                      *)
  TxMax      (* Frames the transmit queue of the handle holds.             *)

AllOps == {"read", "take", "abort_rx", "write", "send", "abort_tx", "destroy"}

ASSUME OcbAssumption ==
  /\ Threads # {}
  /\ Ops \subseteq AllOps
  /\ RxMax \in Nat \ {0}
  /\ TxMax \in Nat \ {0}

VARIABLES
  call,        (* The call each thread is inside of, "none" in user space. *)
  pc,          (* Where inside a blocking call each thread is.             *)
  signals,     (* Threads with a pending signal.                           *)
  closeState,  (* ocb->close_state.                                        *)
  freed        (* OSIF_FREE(ocb) was executed by esdcan_release.           *)

baseVars == <<call, pc, signals, closeState, freed>>

(***************************************************************************)
(* A thread that waits goes from "check" (it is on the queue and evaluates *)
(* the condition) either to "woken" (condition true), to "signalled"       *)
(* (false, interruptible, signal pending) or to "sleep"; only a wake_up of *)
(* its queue or a signal brings it back to "check".  "abort_check",        *)
(* "abort_sleep" and "aborted" are the same for the second, uninterrupted  *)
(* wait after a signal.                                                    *)
(***************************************************************************)
Calls == {"none", "read", "write", "destroy", "release"}
Pcs == {"idle", "check", "sleep", "signalled", "abort_check", "abort_sleep",
        "aborted", "woken"}

Closers == {"destroy", "release"}

HandleClosed == "HANDLE_CLOSED" \in closeState

(* wake_up(): every waiter of the queue, interruptible or not.             *)
WakeUp(queue, p) ==
  [t \in Threads |->
     IF call[t] \in queue /\ p[t] = "sleep" THEN "check"
     ELSE IF call[t] \in queue /\ p[t] = "abort_sleep" THEN "abort_check"
     ELSE p[t]]

(* wake_up_interruptible(): the waiters in wait_event_interruptible() only. *)
WakeUpInterruptible(queue, p) ==
  [t \in Threads |->
     IF call[t] \in queue /\ p[t] = "sleep" THEN "check" ELSE p[t]]

(* A read or write that leaves wakes the close that waits for it.          *)
WakeClosersNever(state, p) == p   \* mutant: the wake_up() is forgotten

WakeClosers(state, p) ==
  IF "CLOSING" \in state THEN WakeUp(Closers, p) ELSE p

(* The check of HANDLE_CLOSED every ioctl makes after taking the lock.     *)
MayCallUnchecked(t, op) ==        \* mutant: no check of HANDLE_CLOSED
  op \in Ops /\ call[t] = "none" /\ ~freed

MayCall(t, op) ==
  /\ op \in Ops
  /\ call[t] = "none"
  /\ ~HandleClosed
  /\ ~freed

Enter(t, c) == call' = [call EXCEPT ![t] = c]

(* A call returns to user space: a pending signal is taken on the way.     *)
Leave(t) ==
  /\ call' = [call EXCEPT ![t] = "none"]
  /\ signals' = signals \ {t}

(* One turn of the loop in wait_event_interruptible().                     *)
CheckInterruptible(t, cond) ==
  /\ pc[t] = "check"
  /\ pc' = [pc EXCEPT ![t] = IF cond THEN "woken"
                             ELSE IF t \in signals THEN "signalled"
                             ELSE "sleep"]

(* One turn of the loop in wait_event(): from states check, sleep, done.   *)
CheckUninterruptible(t, cond, check, sleep, done) ==
  /\ pc[t] = check
  /\ pc' = [pc EXCEPT ![t] = IF cond THEN done ELSE sleep]

(* A signal reaches a thread in an interruptible call.                     *)
Signal(t) ==
  /\ call[t] \in {"read", "write"}
  /\ t \notin signals
  /\ signals' = signals \cup {t}
  /\ pc' = [pc EXCEPT ![t] = IF @ = "sleep" THEN "check" ELSE @]
  /\ UNCHANGED <<call, closeState, freed>>

BaseTypeOK ==
  /\ call \in [Threads -> Calls]
  /\ pc \in [Threads -> Pcs]
  /\ signals \subseteq Threads
  /\ closeState \subseteq {"HANDLE_CLOSED", "CLOSE_DONE"}
  /\ freed \in BOOLEAN

BaseInit ==
  /\ call = [t \in Threads |-> "none"]
  /\ pc = [t \in Threads |-> "idle"]
  /\ signals = {}
  /\ closeState = {}
  /\ freed = FALSE

=============================================================================
