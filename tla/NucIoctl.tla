------------------------------ MODULE NucIoctl ------------------------------
(***************************************************************************)
(* my_nuc_ioctl(): a command that is handed to the nucleus with a wait     *)
(* context on the stack of the caller.  The nucleus either answers at once *)
(* or returns EBUSY and calls esdcan_ioctl_done with that context later.   *)
(* The caller sleeps once, without looking at the context before or after. *)
(***************************************************************************)
EXTENDS FileBase, OcbCommands

CONSTANT
  Asked      (* The commands the application uses, out of Waiting.         *)

ASSUME AskedAssumption == Asked \subseteq Waiting

VARIABLES
  request,   (* The command of each thread the nucleus has to answer.      *)
  waitStatus (* wait.status of each thread: written by the nucleus?        *)

nucVars == <<request, waitStatus>>

NoRequest == "none"

(* CAN_ACTION_CHECK before the copy from the user and nuc_ioctl().         *)
Refused(c) == wrong /\ c \in Checked

(* Refused, a bad address or an immediate answer: no change but leaving.   *)
AskAnswered(t, c) ==
  /\ Dispatched(t)
  /\ c \in Asked
  /\ Leave(t)
  /\ UNCHANGED <<opened, private, wrong, ocb, nucVars>>

(* nuc_ioctl() returns EBUSY: the lock is dropped.                         *)
AskWaits(t, c) ==
  /\ Dispatched(t)
  /\ c \in Asked
  /\ ~Refused(c)
  /\ request' = [request EXCEPT ![t] = c]
  /\ waitStatus' = [waitStatus EXCEPT ![t] = FALSE]
  /\ Go(t, "asking")
  /\ UNCHANGED <<opened, private, wrong, ocb, mine>>

(* prepare_to_wait(TASK_UNINTERRUPTIBLE) and schedule(): whether the       *)
(* answer has come already is not looked at, a signal does not wake.       *)
AskSleepsInterruptible(t) ==      \* mutant: TASK_INTERRUPTIBLE, the signal
  /\ at[t] = "asking"             \* may be there
  /\ \E place \in {"asleep", "woken"} : Go(t, place)
  /\ UNCHANGED <<opened, private, wrong, ocb, mine, nucVars>>

AskSleeps(t) ==
  /\ at[t] = "asking"
  /\ Go(t, "asleep")
  /\ UNCHANGED <<opened, private, wrong, ocb, mine, nucVars>>

(* esdcan_ioctl_done(), called with node->lock held; the wake_up() is lost *)
(* on a thread that is not on the queue yet.                               *)
IoctlDone(t) ==
  /\ request[t] # NoRequest
  /\ LockFree
  /\ request' = [request EXCEPT ![t] = NoRequest]
  /\ waitStatus' = [waitStatus EXCEPT ![t] = TRUE]
  /\ at' = [at EXCEPT ![t] = IF @ = "asleep" THEN "woken" ELSE @]
  /\ UNCHANGED <<opened, private, wrong, ocb, mine>>

(* The lock is taken again, wait.status is returned, the rest is copied.   *)
AskReturns(t) ==
  /\ at[t] = "woken"
  /\ LockFree
  /\ waitStatus' = [waitStatus EXCEPT ![t] = FALSE]
  /\ Leave(t)
  /\ UNCHANGED <<opened, private, wrong, ocb, request>>

NucTypeOK ==
  /\ request \in [Threads -> Asked \cup {NoRequest}]
  /\ waitStatus \in [Threads -> BOOLEAN]

NucInit ==
  /\ request = [t \in Threads |-> NoRequest]
  /\ waitStatus = [t \in Threads |-> FALSE]

=============================================================================
