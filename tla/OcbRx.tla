-------------------------------- MODULE OcbRx --------------------------------
(***************************************************************************)
(* The receive half of a CAN handle: canRead() (esdcan_read_common), the   *)
(* non-blocking canTake(), the abort of a pending read, and the callbacks  *)
(* esdcan_rx_put and esdcan_rx_done the nucleus makes for the one receive  *)
(* job it may have for a handle.                                           *)
(***************************************************************************)
EXTENDS OcbBase

VARIABLES
  rxState,   (* ocb->rx.state: the set of its RX_STATE_* bits.             *)
  rxCount,   (* ocb->rx.cm_count                                           *)
  rxResult,  (* ocb->rx.result                                             *)
  shadow,    (* ocb->rx.cmbuf_in - ocb->rx.cmbuf: frames in the buffer     *)
  rxJob      (* The nucleus' receive job: in flight, frames put so far.    *)

rxVars == <<rxState, rxCount, rxResult, shadow, rxJob>>

RxBits == {"READ", "TAKE", "ABORT", "SIGNAL_INTERRUPT", "CLOSING"}
Results == {"SUCCESS", "TIMEOUT", "ABORTED"}

NoRxJob == [live |-> FALSE, got |-> 0]

(***************************************************************************)
(* esdcan_rx_done(ocb, result, n), called while rx.state is st and the     *)
(* threads are at p.  It ends the job.  In the last case the code prints   *)
(* "spurious rx_done?" and touches nothing else.                           *)
(***************************************************************************)
RxDoneStateNoAbort(st, n) ==      \* mutant: a count of 0 sets no ABORT
  CASE "TAKE" \in st -> {}
    [] OTHER -> st \ {"SIGNAL_INTERRUPT"}

RxDoneState(st, n) ==
  CASE "TAKE" \in st -> {}
    [] "TAKE" \notin st /\ "SIGNAL_INTERRUPT" \in st -> st \ {"SIGNAL_INTERRUPT"}
    [] st \cap {"TAKE", "SIGNAL_INTERRUPT"} = {} /\ "READ" \in st ->
         IF n = 0 THEN st \cup {"ABORT"} ELSE st
    [] OTHER -> st

RxDoneWakesNobody(st, p) == p     \* mutant: no wake_up of wqRx

RxDoneWakes(st, p) ==
  CASE "TAKE" \in st -> p
    [] "TAKE" \notin st /\ "SIGNAL_INTERRUPT" \in st -> WakeUp({"read"}, p)
    [] st \cap {"TAKE", "SIGNAL_INTERRUPT"} = {} /\ "READ" \in st ->
         WakeUpInterruptible({"read"}, p)
    [] OTHER -> p

RxDone(result, n, st, p) ==
  /\ rxJob' = NoRxJob
  /\ rxResult' = result
  /\ rxCount' = n
  /\ rxState' = RxDoneState(st, n)
  /\ pc' = RxDoneWakes(st, p)

(* nuc_rx_abort(ocb, result): ends a job that is in flight, else nothing.  *)
RxAbort(result, st, p) ==
  IF rxJob.live
    THEN RxDone(result, rxJob.got, st, p)
    ELSE /\ rxState' = st
         /\ pc' = p
         /\ UNCHANGED <<rxCount, rxResult, rxJob>>

-----------------------------------------------------------------------------
(* No read or take may be pending when another one starts.                 *)
RxFreeUnlessDone ==               \* mutant: a read whose job ended is let by
  rxState = {} \/ ~rxJob.live

RxFree == rxState = {}

(* A new call starts with an empty shadow buffer and no count.             *)
RxReset ==
  /\ shadow' = 0
  /\ rxCount' = 0

(* esdcan_read_common up to the first unlock; refused when any receive     *)
(* call is pending, and undone when nuc_rx does not take the job.          *)
Read(t) ==
  /\ MayCall(t, "read")
  /\ RxFree
  /\ RxReset
  /\ rxResult' = "SUCCESS"
  /\ \/ /\ rxState' = {"READ"}
        /\ rxJob' = [live |-> TRUE, got |-> 0]
        /\ Enter(t, "read")
        /\ pc' = [pc EXCEPT ![t] = "check"]
     \/ UNCHANGED <<rxState, rxJob, call, pc>>
  /\ UNCHANGED <<signals, closeState, freed>>

RxWaitOver ==
  \/ rxCount > 0
  \/ "ABORT" \in rxState
  \/ "CLOSING" \in rxState

ReadCheck(t) ==
  /\ call[t] = "read"
  /\ CheckInterruptible(t, RxWaitOver)
  /\ UNCHANGED <<rxVars, call, signals, closeState, freed>>

(* wait_event_interruptible() returned for a signal: the condition is      *)
(* evaluated again under the lock before the job is aborted.               *)
ReadInterruptedLeaves(t) ==       \* mutant: the job is not aborted
  /\ call[t] = "read"
  /\ pc[t] = "signalled"
  /\ pc' = [pc EXCEPT ![t] = "woken"]
  /\ UNCHANGED <<rxVars, call, signals, closeState, freed>>

ReadInterrupted(t) ==
  /\ call[t] = "read"
  /\ pc[t] = "signalled"
  /\ IF RxWaitOver
       THEN /\ pc' = [pc EXCEPT ![t] = "woken"]
            /\ UNCHANGED <<rxState, rxCount, rxResult, rxJob>>
       ELSE RxAbort("ABORTED", rxState \cup {"SIGNAL_INTERRUPT"},
                    [pc EXCEPT ![t] = "abort_check"])
  /\ UNCHANGED <<shadow, call, signals, closeState, freed>>

ReadAbortCheck(t) ==
  /\ call[t] = "read"
  /\ CheckUninterruptible(t, "SIGNAL_INTERRUPT" \notin rxState,
                          "abort_check", "abort_sleep", "aborted")
  /\ UNCHANGED <<rxVars, call, signals, closeState, freed>>

(* The last locked stretch: the count decides between frames and an error, *)
(* and a close that waits for this job is woken.                           *)
ReadFinish(t) ==
  /\ call[t] = "read"
  /\ pc[t] \in {"woken", "aborted"}
  /\ rxCount' = 0
  /\ rxState' = {}
  /\ pc' = WakeClosers(rxState, [pc EXCEPT ![t] = "idle"])
  /\ Leave(t)
  /\ UNCHANGED <<rxResult, shadow, rxJob, closeState, freed>>

(***************************************************************************)
(* IOCTL_ESDCAN_TAKE never waits: the whole call is one locked stretch.    *)
(* Frames that are there go straight to the user; with none the job is     *)
(* aborted at once. In both cases esdcan_rx_done clears rx.state, and the  *)
(* count is cleared before the return; in object mode, or when nuc_rx      *)
(* fails, there is no rx_done.                                             *)
(***************************************************************************)
Take(t) ==
  /\ MayCall(t, "take")
  /\ RxFree
  /\ RxReset
  /\ \/ RxDone("SUCCESS", 0, {"TAKE"}, pc)
     \/ /\ rxState' = {}
        /\ UNCHANGED <<rxResult, rxJob, pc>>
  /\ UNCHANGED <<call, signals, closeState, freed>>

(* IOCTL_ESDCAN_RX_ABORT, from another thread.                             *)
AbortRxAsSuccess(t) ==            \* mutant: nuc_rx_abort(ocb, OSIF_SUCCESS)
  /\ MayCall(t, "abort_rx")
  /\ RxAbort("SUCCESS", rxState, pc)
  /\ UNCHANGED <<shadow, call, signals, closeState, freed>>

AbortRx(t) ==
  /\ MayCall(t, "abort_rx")
  /\ RxAbort("ABORTED", rxState, pc)
  /\ UNCHANGED <<shadow, call, signals, closeState, freed>>

-----------------------------------------------------------------------------
(* The nucleus delivers a frame: esdcan_rx_put outside of a canTake().     *)
NucRxPut ==
  /\ rxJob.live
  /\ rxJob.got < RxMax
  /\ rxJob' = [rxJob EXCEPT !.got = @ + 1]
  /\ shadow' = shadow + 1
  /\ UNCHANGED <<baseVars, rxState, rxCount, rxResult>>

(* The job ends with its frames, or for its timeout (rx.tout).             *)
NucRxDone ==
  /\ rxJob.live
  /\ RxDone(IF rxJob.got > 0 THEN "SUCCESS" ELSE "TIMEOUT",
            rxJob.got, rxState, pc)
  /\ UNCHANGED <<shadow, call, signals, closeState, freed>>

-----------------------------------------------------------------------------
RxTypeOK ==
  /\ rxState \subseteq RxBits
  /\ rxCount \in 0 .. RxMax
  /\ rxResult \in Results
  /\ shadow \in 0 .. RxMax
  /\ rxJob \in [live : BOOLEAN, got : 0 .. RxMax]

RxInit ==
  /\ rxState = {}
  /\ rxCount = 0
  /\ rxResult = "SUCCESS"
  /\ shadow = 0
  /\ rxJob = NoRxJob

=============================================================================
