------------------------------ MODULE FileBase ------------------------------
(***************************************************************************)
(* What the calls on one open file of a CAN net share: the file itself,    *)
(* the pointer file->private_data that leads to the OCB, the OCBs, and the *)
(* user threads inside the driver.                                         *)
(*                                                                         *)
(* private_data is read without a lock at the start of every call; all     *)
(* that follows on an OCB is done with node->lock held.  A stretch of code *)
(* under the lock is one action, except the loop of id_filter, which has   *)
(* an action per turn: a thread at "turn" holds the lock between them.     *)
(***************************************************************************)
EXTENDS Integers, FiniteSets

CONSTANTS
  Threads,   (* User threads that share the file.                          *)
  Ocbs,      (* The memory there is for OCBs.                              *)
  NoOcb      (* The null pointer.                                          *)

ASSUME FileAssumption == Threads # {} /\ NoOcb \notin Ocbs

VARIABLES
  opened,    (* The file is open.                                          *)
  private,   (* file->private_data                                         *)
  wrong,     (* node->status says wrong hardware or firmware.              *)
  ocb,       (* The life of each OCB.                                      *)
  at,        (* Where inside the driver each thread is.                    *)
  mine       (* The local variable ocb of each thread.                     *)

fileVars == <<opened, private, wrong, ocb, at, mine>>

(***************************************************************************)
(* allocated: by ocb_create, unknown to the nucleus; open: nuc_open done;  *)
(* closing: HANDLE_CLOSED is set, ocb_destroy is waiting; closed: canClose *)
(* has returned, the memory stays until the release of the file.           *)
(***************************************************************************)
OcbStates == {"unused", "allocated", "open", "closing", "closed"}

OpenedByNucleus == {"open", "closing", "closed"}
HandleClosed(o) == ocb[o] \in {"closing", "closed"}

Places == {"user", "oops", "create", "create2", "ready", "entry", "poll",
           "destroy", "release", "asking", "asleep", "woken",
           "turn", "nap", "answered"}

(* node->lock is not held across two actions by any thread.                *)
LockFree == \A t \in Threads : at[t] # "turn"

Go(t, place) == at' = [at EXCEPT ![t] = place]

(* The call returns to the user.                                           *)
Leave(t) ==
  /\ Go(t, "user")
  /\ mine' = [mine EXCEPT ![t] = NoOcb]

(* The start of esdcan_ioctl: private_data is read, the lock is not taken. *)
Enter(t, place) ==
  /\ opened
  /\ at[t] = "user"
  /\ Go(t, place)
  /\ mine' = [mine EXCEPT ![t] = private]
  /\ UNCHANGED <<opened, private, wrong, ocb>>

(* The dispatcher after OSIF_MUTEX_LOCK, past its check of HANDLE_CLOSED.  *)
Dispatched(t) ==
  /\ at[t] = "entry"
  /\ LockFree
  /\ ~HandleClosed(mine[t])

FileTypeOK ==
  /\ opened \in BOOLEAN
  /\ private \in Ocbs \cup {NoOcb}
  /\ wrong \in BOOLEAN
  /\ ocb \in [Ocbs -> OcbStates]
  /\ at \in [Threads -> Places]
  /\ mine \in [Threads -> Ocbs \cup {NoOcb}]

FileInit ==
  /\ opened = FALSE
  /\ private = NoOcb
  /\ wrong \in BOOLEAN
  /\ ocb = [o \in Ocbs |-> "unused"]
  /\ at = [t \in Threads |-> "user"]
  /\ mine = [t \in Threads |-> NoOcb]

=============================================================================
