-------------------------------- MODULE OcbTx --------------------------------
(***************************************************************************)
(* The transmit half of a CAN handle: canWrite() (esdcan_write_common),    *)
(* the non-blocking canSend(), the abort of a pending transmission, and    *)
(* the callback esdcan_tx_done of the nucleus.  The nucleus has at most    *)
(* one transmit job per handle: frames handed over while a canSend() job   *)
(* is in flight join that job, which is why esdcan_write_common asks for   *)
(* the number of pending frames first and subtracts it from the result.    *)
(***************************************************************************)
EXTENDS OcbBase

VARIABLES
  txState,   (* ocb->tx.state: the set of its TX_STATE_* bits.             *)
  txCount,   (* ocb->tx.cm_count                                           *)
  txResult,  (* ocb->tx.result                                             *)
  txOld,     (* old_job_tx_pending of the thread in esdcan_write_common    *)
  txJob      (* The nucleus' transmit job.                                 *)

txVars == <<txState, txCount, txResult, txOld, txJob>>

TxBits == {"WRITE", "SEND", "ABORT", "SIGNAL_INTERRUPT", "CLOSING"}
TxResults == {"SUCCESS", "TIMEOUT", "ABORTED"}

(***************************************************************************)
(* left: frames not yet on the bus; sent: frames on the bus since the last *)
(* nuc_tx; dying: nuc_tx_abort was called, but frames already given to the *)
(* controller may still be sent before tx_done; timed: tx.tout is running. *)
(***************************************************************************)
TxJobs == [live : BOOLEAN, left : 0 .. TxMax, sent : 0 .. TxMax,
           dying : BOOLEAN, timed : BOOLEAN]

NoTxJob == [live |-> FALSE, left |-> 0, sent |-> 0,
            dying |-> FALSE, timed |-> FALSE]

(* nuc_tx() takes k frames, as many as the queue has room for and          *)
(* esdcan_tx_get can copy from the user before a bad address.              *)
Accepts(k) ==
  /\ ~txJob.dying
  /\ txJob.left + k <= TxMax

AcceptedJob(k, timed) ==
  [live |-> TRUE, left |-> txJob.left + k, sent |-> 0,
   dying |-> FALSE, timed |-> timed]

(* nuc_tx_abort()                                                          *)
AbortedJob == IF txJob.live THEN [txJob EXCEPT !.dying = TRUE] ELSE txJob

(***************************************************************************)
(* esdcan_tx_done(ocb, result, n), which ends the job.  In the last case   *)
(* the code prints "spurious tx_done?" and keeps state and count.          *)
(***************************************************************************)
TxDoneStateNoAbort(n) ==          \* mutant: a count of 0 sets no ABORT
  IF "SEND" \in txState THEN {} ELSE txState \ {"SIGNAL_INTERRUPT"}

TxDoneStateKeepsMark(n) ==        \* mutant: only PENDING_SEND is cleared
  IF "SEND" \in txState THEN txState \ {"SEND"}
  ELSE txState \ {"SIGNAL_INTERRUPT"}

TxDoneState(n) ==
  CASE "SEND" \in txState -> {}
    [] "SEND" \notin txState /\ "SIGNAL_INTERRUPT" \in txState ->
         txState \ {"SIGNAL_INTERRUPT"}
    [] txState \cap {"SEND", "SIGNAL_INTERRUPT"} = {} /\ "WRITE" \in txState ->
         IF n = 0 THEN txState \cup {"ABORT"} ELSE txState
    [] OTHER -> txState

TxDoneCount(n) ==
  IF "SEND" \in txState THEN 0
  ELSE IF txState \cap {"SIGNAL_INTERRUPT", "WRITE"} # {} THEN n
  ELSE txCount

TxDoneWakes(p) ==
  IF "SEND" \in txState THEN p
  ELSE IF "SIGNAL_INTERRUPT" \in txState THEN WakeUp({"write"}, p)
  ELSE IF "WRITE" \in txState THEN WakeUpInterruptible({"write"}, p)
  ELSE p

TxDoneKeepsResult(result, n) ==   \* mutant: tx.result is not stored
  /\ txJob' = NoTxJob
  /\ txState' = TxDoneState(n)
  /\ txCount' = TxDoneCount(n)
  /\ pc' = TxDoneWakes(pc)
  /\ UNCHANGED txResult

TxDone(result, n) ==
  /\ txJob' = NoTxJob
  /\ txResult' = result
  /\ txState' = TxDoneState(n)
  /\ txCount' = TxDoneCount(n)
  /\ pc' = TxDoneWakes(pc)

-----------------------------------------------------------------------------
(* nuc_tx() inside WRITE or SEND takes no frame: the code sets tx.state    *)
(* before the call and restores old_state after it.                        *)
TxRefusedClears ==                \* mutant: tx.state is cleared instead
  txState' = {} /\ UNCHANGED <<txJob, call, pc>>

TxRefused == UNCHANGED <<txState, txJob, call, pc>>

(* A write is refused while another write is pending.                      *)
TxFreeForWrite == txState \cap {"WRITE", "ABORT"} = {}

(* esdcan_write_common up to the first unlock.                             *)
Write(t) ==
  /\ MayCall(t, "write")
  /\ TxFreeForWrite
  /\ \/ \E k \in 1 .. TxMax :
          /\ Accepts(k)
          /\ txOld' = IF "SEND" \in txState THEN txJob.left ELSE 0
          /\ txState' = {"WRITE"}
          /\ txJob' = AcceptedJob(k, TRUE)
          /\ Enter(t, "write")
          /\ pc' = [pc EXCEPT ![t] = "check"]
     \/ /\ TxRefused
        /\ UNCHANGED txOld
  /\ UNCHANGED <<txCount, txResult, signals, closeState, freed>>

TxWaitOver ==
  \/ txCount - txOld > 0
  \/ "ABORT" \in txState
  \/ "CLOSING" \in txState

WriteCheck(t) ==
  /\ call[t] = "write"
  /\ CheckInterruptible(t, TxWaitOver)
  /\ UNCHANGED <<txVars, call, signals, closeState, freed>>

(* After a signal: the job is aborted when cm_count still is equal to the  *)
(* number of frames that were pending when the write started.              *)
MustAbortWriteAlways == TRUE      \* mutant: not evaluated again

MustAbortWriteNever == FALSE      \* mutant: the job is left in flight

MustAbortWrite ==
  /\ txCount = txOld
  /\ txState \cap {"ABORT", "CLOSING"} = {}

WriteInterrupted(t) ==
  /\ call[t] = "write"
  /\ pc[t] = "signalled"
  /\ IF MustAbortWrite
       THEN /\ txState' = txState \cup {"SIGNAL_INTERRUPT"}
            /\ txJob' = AbortedJob
            /\ pc' = [pc EXCEPT ![t] = "abort_check"]
       ELSE /\ pc' = [pc EXCEPT ![t] = "woken"]
            /\ UNCHANGED <<txState, txJob>>
  /\ UNCHANGED <<txCount, txResult, txOld, call, signals, closeState, freed>>

WriteAbortCheck(t) ==
  /\ call[t] = "write"
  /\ CheckUninterruptible(t, "SIGNAL_INTERRUPT" \notin txState,
                          "abort_check", "abort_sleep", "aborted")
  /\ UNCHANGED <<txVars, call, signals, closeState, freed>>

WriteFinish(t) ==
  /\ call[t] = "write"
  /\ pc[t] \in {"woken", "aborted"}
  /\ txCount' = 0
  /\ txState' = {}
  /\ pc' = WakeClosers(txState, [pc EXCEPT ![t] = "idle"])
  /\ Leave(t)
  /\ UNCHANGED <<txResult, txOld, txJob, closeState, freed>>

(* IOCTL_ESDCAN_SEND: refused during a write only, never waits.            *)
Send(t) ==
  /\ MayCall(t, "send")
  /\ "WRITE" \notin txState
  /\ \/ \E k \in 1 .. TxMax :
          /\ Accepts(k)
          /\ txState' = {"SEND"}
          /\ txJob' = AcceptedJob(k, FALSE)
          /\ UNCHANGED <<call, pc>>
     \/ TxRefused
  /\ UNCHANGED <<txCount, txResult, txOld, signals, closeState, freed>>

(* IOCTL_ESDCAN_TX_ABORT, from another thread.                             *)
AbortTx(t) ==
  /\ MayCall(t, "abort_tx")
  /\ txJob' = AbortedJob
  /\ UNCHANGED <<baseVars, txState, txCount, txResult, txOld>>

-----------------------------------------------------------------------------
(* A frame of the job was sent on the bus.                                 *)
NucTxSent ==
  /\ txJob.live
  /\ txJob.left > 0
  /\ txJob' = [txJob EXCEPT !.left = @ - 1, !.sent = @ + 1]
  /\ UNCHANGED <<baseVars, txState, txCount, txResult, txOld>>

(* The job ends: all frames sent, aborted, or timed out.                   *)
TxOutcomes ==
  {r \in TxResults : \/ r = "SUCCESS" /\ txJob.left = 0
                     \/ r = "ABORTED" /\ txJob.dying
                     \/ r = "TIMEOUT" /\ txJob.timed /\ txJob.left > 0}

NucTxDone ==
  /\ txJob.live
  /\ \E result \in TxOutcomes : TxDone(result, txJob.sent)
  /\ UNCHANGED <<txOld, call, signals, closeState, freed>>

-----------------------------------------------------------------------------
TxTypeOK ==
  /\ txState \subseteq TxBits
  /\ txCount \in 0 .. TxMax
  /\ txResult \in TxResults
  /\ txOld \in 0 .. TxMax
  /\ txJob \in TxJobs

TxInit ==
  /\ txState = {}
  /\ txCount = 0
  /\ txResult = "SUCCESS"
  /\ txOld = 0
  /\ txJob = NoTxJob

=============================================================================
