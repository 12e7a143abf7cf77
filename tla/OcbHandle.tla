------------------------------ MODULE OcbHandle ------------------------------
(***************************************************************************)
(* One open CAN handle: its receive and transmit halves together with the  *)
(* two ways it is closed, IOCTL_ESDCAN_DESTROY (canClose) and the release  *)
(* of the file, both by way of ocb_destroy.                                *)
(***************************************************************************)
EXTENDS OcbRx, OcbTx

vars == <<baseVars, rxVars, txVars>>

(***************************************************************************)
(* ocb_destroy up to its unlock: the jobs of both halves are marked        *)
(* CLOSING, then nuc_close ends the receive job and aborts the transmit    *)
(* job, whose last frames the controller may still be sending.             *)
(***************************************************************************)
ClosingUnmarked(st) == st         \* mutant: pending jobs are not marked

Closing(st) == IF st = {} THEN {} ELSE st \cup {"CLOSING"}

StartClose(t, c) ==
  /\ closeState' = closeState \cup {"HANDLE_CLOSED"}
  /\ txState' = Closing(txState)
  /\ RxAbort("ABORTED", Closing(rxState), [pc EXCEPT ![t] = "check"])
  /\ txJob' = AbortedJob
  /\ Enter(t, c)
  /\ UNCHANGED <<shadow, txCount, txResult, txOld, signals, freed>>

(* IOCTL_ESDCAN_DESTROY                                                    *)
Destroy(t) ==
  /\ MayCall(t, "destroy")
  /\ StartClose(t, "destroy")

(***************************************************************************)
(* esdcan_release: the kernel calls it once, when no call on the file is   *)
(* left.  A handle that canClose() closed before is freed at once.         *)
(***************************************************************************)
Release(t) ==
  /\ \A u \in Threads : call[u] = "none"
  /\ ~freed
  /\ IF HandleClosed
       THEN /\ freed' = TRUE
            /\ UNCHANGED <<call, pc, signals, closeState, rxVars, txVars>>
       ELSE StartClose(t, "release")

(* The condition ocb_destroy waits for on wqCloseDelay.                    *)
CloseWaitOverTxOnly ==            \* mutant: the reader is not waited for
  "CLOSE_DONE" \in closeState /\ "CLOSING" \notin txState

CloseWaitOverJobsOnly ==          \* mutant: close_done is not waited for
  "CLOSING" \notin txState /\ "CLOSING" \notin rxState

CloseWaitOver ==
  /\ "CLOSE_DONE" \in closeState
  /\ "CLOSING" \notin txState
  /\ "CLOSING" \notin rxState

CloseCheck(t) ==
  /\ call[t] \in Closers
  /\ CheckUninterruptible(t, CloseWaitOver, "check", "sleep", "woken")
  /\ UNCHANGED <<rxVars, txVars, call, signals, closeState, freed>>

CloseFinish(t) ==
  /\ call[t] \in Closers
  /\ pc[t] = "woken"
  /\ pc' = [pc EXCEPT ![t] = "idle"]
  /\ Leave(t)
  /\ freed' = (call[t] = "release")
  /\ UNCHANGED <<rxVars, txVars, closeState>>

(* The nucleus' last callback, esdcan_close_done, after every job ended.   *)
NucCloseDone ==
  /\ HandleClosed
  /\ "CLOSE_DONE" \notin closeState
  /\ ~rxJob.live
  /\ ~txJob.live
  /\ closeState' = closeState \cup {"CLOSE_DONE"}
  /\ pc' = WakeUp(Closers, pc)
  /\ UNCHANGED <<rxVars, txVars, call, signals, freed>>

(* After the free nothing is left to happen on this handle.                *)
Gone ==
  /\ freed
  /\ UNCHANGED vars

-----------------------------------------------------------------------------
RxCall(t) ==
  \/ Read(t)
  \/ Take(t)
  \/ AbortRx(t)

TxCall(t) ==
  \/ Write(t)
  \/ Send(t)
  \/ AbortTx(t)

RxStep(t) ==
  \/ ReadCheck(t)
  \/ ReadInterrupted(t)
  \/ ReadAbortCheck(t)
  \/ ReadFinish(t)

TxStep(t) ==
  \/ WriteCheck(t)
  \/ WriteInterrupted(t)
  \/ WriteAbortCheck(t)
  \/ WriteFinish(t)

CloseStep(t) ==
  \/ CloseCheck(t)
  \/ CloseFinish(t)

Next ==
  \/ \E t \in Threads :
       \/ (RxCall(t) \/ RxStep(t)) /\ UNCHANGED txVars
       \/ (TxCall(t) \/ TxStep(t)) /\ UNCHANGED rxVars
       \/ Signal(t) /\ UNCHANGED <<rxVars, txVars>>
       \/ Destroy(t)
       \/ Release(t)
       \/ CloseStep(t)
  \/ (NucRxPut \/ NucRxDone) /\ UNCHANGED txVars
  \/ (NucTxSent \/ NucTxDone) /\ UNCHANGED rxVars
  \/ NucCloseDone
  \/ Gone

Init == BaseInit /\ RxInit /\ TxInit

Spec == Init /\ [][Next]_vars

(***************************************************************************)
(* The scheduler runs every runnable thread, the nucleus' timers fire, the *)
(* controller reports the frames it was given, and a close is finished.    *)
(* Nothing makes a frame arrive or leave, a signal come or a call be made. *)
(***************************************************************************)
Fairness ==
  /\ \A t \in Threads :
       /\ WF_vars(RxStep(t) /\ UNCHANGED txVars)
       /\ WF_vars(TxStep(t) /\ UNCHANGED rxVars)
       /\ WF_vars(CloseStep(t))
  /\ WF_vars(NucRxDone /\ UNCHANGED txVars)
  /\ WF_vars(NucTxDone /\ UNCHANGED rxVars)
  /\ WF_vars(NucCloseDone)

FairSpec == Spec /\ Fairness

(* Clients that call canWrite() only when no frame of a canSend() is       *)
(* pending on the handle.                                                  *)
NotMixed == "SEND" \in txState => "WRITE" \notin txState'

UnmixedSpec == Init /\ [][Next /\ NotMixed]_vars

(* NotMixed forbids calls only, so that the steps of Fairness stay enabled.*)
FairUnmixedSpec == UnmixedSpec /\ Fairness

TypeOK == BaseTypeOK /\ RxTypeOK /\ TxTypeOK

-----------------------------------------------------------------------------
(***************************************************************************)
(* Properties of the receive half.                                         *)
(***************************************************************************)
Waiting(t, c) == call[t] = c /\ pc[t] \in {"check", "sleep", "signalled"}

(* esdcan_rx_done is never spurious: while the nucleus has a receive job,  *)
(* a thread is in the wait of esdcan_read_common and rx.state says so.     *)
RxJobHasReader ==
  rxJob.live =>
    /\ "READ" \in rxState
    /\ rxState \cap {"TAKE", "ABORT", "CLOSING"} = {}
    /\ \E t \in Threads : Waiting(t, "read")

(* A reader asleep on wqRx has a job that will wake it: no result came     *)
(* between its last look at the condition and its going to sleep.          *)
NoLostReaderWakeup ==
  \A t \in Threads :
    call[t] = "read" /\ pc[t] = "sleep" => rxJob.live /\ ~RxWaitOver

(* rx.state lets one thread at a time into esdcan_read_common, and no      *)
(* canTake() empties the buffer under a reader: the state is set exactly   *)
(* as long as one reader is inside.                                        *)
OneReader ==
  /\ (rxState # {}) <=> \E t \in Threads : call[t] = "read"
  /\ \A t, u \in Threads : call[t] = "read" /\ call[u] = "read" => t = u

(* No frame is lost or returned twice: every frame esdcan_rx_put left in   *)
(* the shadow buffer for a reader belongs to its job in flight or to the   *)
(* count it is going to return, through timeout, abort, signal and close.  *)
ShadowAccounted ==
  \A t \in Threads :
    call[t] = "read" => shadow = IF rxJob.live THEN rxJob.got ELSE rxCount

(* A canRead() that returns without a frame reports why: a nucleus result  *)
(* of its own job that is an error, unless the handle is being closed.     *)
EmptyReadHasReason ==
  [][\A t \in Threads :
       ReadFinish(t) /\ rxCount = 0 =>
         rxResult # "SUCCESS" \/ "CLOSING" \in rxState]_vars

(***************************************************************************)
(* Properties of the transmit half.                                        *)
(***************************************************************************)
(* esdcan_tx_done is not spurious on an open handle: a transmit job in     *)
(* flight is a canSend() nobody waits for or the write of a waiting thread.*)
TxJobHasOwner ==
  txJob.live /\ ~HandleClosed =>
    \/ "SEND" \in txState
    \/ "WRITE" \in txState /\ \E t \in Threads : call[t] = "write"

(* A writer asleep on wqTx has a job in flight whose tx_done will wake it, *)
(* also when ocb_destroy marked it CLOSING without waking it.              *)
NoLostWriterWakeup ==
  \A t \in Threads :
    call[t] = "write" /\ pc[t] = "sleep" => txJob.live /\ txCount = 0

(* The second wait of a write after a signal cannot be interrupted: it is  *)
(* entered only with a job in flight, whose tx_done ends it.               *)
TxAbortAnswered ==
  "SIGNAL_INTERRUPT" \in txState => txJob.live

(* canWrite() leaves when its job is finished, not before, unless the      *)
(* handle is being closed under it.                                        *)
WriteEndsWithItsJob ==
  [][\A t \in Threads :
       WriteFinish(t) => ~txJob.live \/ "CLOSING" \in txState]_vars

(* A canWrite() that returns without a frame sent reports the error of its *)
(* own job: tx.result is not reset at its start, so a stale one could show.*)
EmptyWriteHasReason ==
  [][\A t \in Threads :
       WriteFinish(t) /\ txCount - txOld <= 0 =>
         txResult # "SUCCESS" \/ "CLOSING" \in txState]_vars

(***************************************************************************)
(* Properties of closing.                                                  *)
(***************************************************************************)
(* A thread in ocb_destroy is not left asleep on wqCloseDelay once all it  *)
(* waits for has happened, whichever of the three it was that came last.   *)
NoLostCloserWakeup ==
  \A t \in Threads :
    call[t] \in Closers /\ pc[t] = "sleep" => ~CloseWaitOver

(* Once canClose() has returned, no thread is inside canRead() or          *)
(* canWrite() on the handle and the nucleus has no job left for it.        *)
ClosedIsQuiet ==
  HandleClosed /\ (\A t \in Threads : call[t] \notin Closers) =>
    /\ \A t \in Threads : call[t] = "none"
    /\ ~rxJob.live
    /\ ~txJob.live

(* The OCB is freed when nothing can touch it any more: no thread inside,  *)
(* no job, and esdcan_close_done, the last callback, has been made.        *)
FreedIsDead ==
  freed =>
    /\ \A t \in Threads : call[t] = "none"
    /\ ~rxJob.live
    /\ ~txJob.live
    /\ "CLOSE_DONE" \in closeState

(***************************************************************************)
(* Liveness.                                                               *)
(***************************************************************************)
(* Every canClose() and every release of the file gets through, whatever   *)
(* reads, writes and unsent frames it finds.                               *)
CloseCompletes ==
  \A t \in Threads : call[t] \in Closers ~> call[t] = "none"

(* Every canRead() with a receive timeout returns.                         *)
ReadReturns ==
  \A t \in Threads : call[t] = "read" ~> call[t] = "none"

(* Every canWrite() with a transmit timeout returns.                       *)
WriteReturns ==
  \A t \in Threads : call[t] = "write" ~> call[t] = "none"

-----------------------------------------------------------------------------
(***************************************************************************)
(* The contract of a handle, and this driver as an implementation of it.   *)
(***************************************************************************)
Inside(c) == {t \in Threads : call[t] = c}

Phase ==
  IF freed THEN "freed"
  ELSE IF ~HandleClosed THEN "open"
  ELSE IF \E t \in Threads : call[t] \in Closers THEN "closing"
  ELSE "closed"

(* What the shadow buffer holds for the reader inside, if there is one.    *)
Held == IF Inside("read") = {} THEN 0 ELSE shadow

Contract == INSTANCE HandleContract WITH
  phase <- Phase,
  reader <- Inside("read"),
  writer <- Inside("write"),
  held <- Held

(* Every step of the driver is a step of the contract or invisible to it.  *)
ImplementsContract == Contract!Spec

-----------------------------------------------------------------------------
(***************************************************************************)
(* The inductive invariant behind the theorems of OcbHandleProofs.         *)
(***************************************************************************)
(* A thread is idle exactly when it is inside no call, and every blocking  *)
(* call has its own part of the pc values.                                 *)
PcInv ==
  \A t \in Threads :
    /\ (call[t] = "none") <=> (pc[t] = "idle")
    /\ call[t] = "read" => pc[t] # "abort_sleep"
    /\ call[t] \in Closers => pc[t] \in {"check", "sleep", "woken"}

(* rx.state, the job of the nucleus, the count and the reader agree.       *)
RxInv ==
  /\ OneReader
  /\ ShadowAccounted
  /\ rxState \subseteq {"READ", "ABORT", "CLOSING"}
  /\ rxState # {} => "READ" \in rxState
  /\ rxState = {} => rxCount = 0
  /\ rxJob.live => rxState = {"READ"} /\ rxCount = 0
  /\ ~rxJob.live => rxJob.got = 0
  /\ \A t \in Threads : call[t] = "read" =>
       /\ rxJob.live => pc[t] \in {"check", "sleep", "signalled"}
       /\ pc[t] = "sleep" => rxJob.live
       /\ pc[t] \in {"check", "signalled", "woken"} => rxJob.live \/ RxWaitOver

(* tx.state has its PENDING_WRITE bit exactly while one writer is inside,  *)
(* and then never the PENDING_SEND bit.                                    *)
TxInv ==
  /\ ("WRITE" \in txState) <=> \E t \in Threads : call[t] = "write"
  /\ \A t, u \in Threads : call[t] = "write" /\ call[u] = "write" => t = u
  /\ ~({"SEND", "WRITE"} \subseteq txState)
  /\ txJob.sent + txJob.left <= TxMax

(* One closer at a time; CLOSING marks are set only while it is there, and *)
(* it leaves only after close_done and after both marks are gone.          *)
CloseInv ==
  /\ \A t, u \in Threads : call[t] \in Closers /\ call[u] \in Closers => t = u
  /\ \A t \in Threads : call[t] \in Closers =>
       /\ HandleClosed
       /\ pc[t] = "woken" => CloseWaitOver
       /\ pc[t] = "sleep" => ~CloseWaitOver
  /\ HandleClosed =>
       /\ rxState # {} => "CLOSING" \in rxState
       /\ txState # {} => "CLOSING" \in txState
       /\ ~rxJob.live
       /\ (\A t \in Threads : call[t] \notin Closers) => CloseWaitOver
  /\ ~HandleClosed =>
       /\ "CLOSING" \notin rxState \cup txState
       /\ "CLOSE_DONE" \notin closeState
  /\ "CLOSE_DONE" \in closeState => ~txJob.live
  /\ freed => HandleClosed /\ \A t \in Threads : call[t] = "none"

(* The conjunction is what holds initially and is kept by every step.      *)
IInv == TypeOK /\ PcInv /\ RxInv /\ TxInv /\ CloseInv

(***************************************************************************)
(* What IInv needs beside it for the results and for the transmit half;    *)
(* the properties of the latter are those of clients that do not mix.      *)
(***************************************************************************)
(* A reader whose job is over without a frame has a result of its own.     *)
ReadHasReason ==
  \A t \in Threads :
    call[t] = "read" /\ ~rxJob.live /\ rxCount = 0 =>
      rxResult # "SUCCESS" \/ "CLOSING" \in rxState

(* A writer waits for its own job, and its wait condition comes true with  *)
(* the end of that job; after a signal the SIGNAL_INTERRUPT bit and the    *)
(* job go together.                                                        *)
WriterInv ==
  \A t \in Threads : call[t] = "write" =>
    /\ txOld = 0
    /\ txJob.live => txCount = 0 /\ "ABORT" \notin txState
    /\ ~txJob.live /\ txCount = 0 =>
         txResult # "SUCCESS" \/ "CLOSING" \in txState
    /\ pc[t] = "sleep" => txJob.live
    /\ pc[t] \in {"check", "signalled"} => txJob.live \/ TxWaitOver
    /\ pc[t] = "woken" => TxWaitOver
    /\ pc[t] \in {"abort_check", "abort_sleep", "aborted"} =>
         ("SIGNAL_INTERRUPT" \in txState <=> txJob.live)
    /\ "SIGNAL_INTERRUPT" \in txState => pc[t] \in {"abort_check", "abort_sleep"}

(* Without a writer there are a canSend() and its frames, or nothing.      *)
SenderInv ==
  /\ "WRITE" \notin txState =>
       /\ txCount = 0
       /\ txState \subseteq {"SEND", "CLOSING"}
       /\ txState # {} => "SEND" \in txState
  /\ txJob.live => txJob.left + txJob.sent > 0
  /\ txJob.live /\ ~HandleClosed => txState \cap {"SEND", "WRITE"} # {}

(* Both together are kept by every step of clients that do not mix.        *)
UnmixedInv == WriterInv /\ SenderInv

=============================================================================
