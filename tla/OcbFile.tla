------------------------------ MODULE OcbFile ------------------------------
(***************************************************************************)
(* One file of a CAN net from open() to release: the creation of the OCB   *)
(* with its error paths, poll, canClose(), the commands that wait for the  *)
(* nucleus and the ID filter, in every interleaving of the threads that    *)
(* share the file.  Reading and writing are in OcbHandle.                  *)
(***************************************************************************)
EXTENDS NucIoctl, IdFilter

vars == <<fileVars, nucVars, idVars>>

-----------------------------------------------------------------------------
(***************************************************************************)
(* open() and release().  The kernel calls release when the last reference *)
(* is gone, that is when no thread is inside a call on the file.           *)
(***************************************************************************)
Open ==
  /\ ~opened
  /\ \A t \in Threads : at[t] \in {"user", "oops"}
  /\ opened' = TRUE
  /\ private' = NoOcb
  /\ UNCHANGED <<wrong, ocb, at, mine, nucVars, idVars>>

ReleaseForgets(t) ==              \* mutant: private_data is cleared, no
  /\ opened                       \* ocb_destroy()
  /\ at[t] = "user"
  /\ \A u \in Threads : at[u] \in {"user", "oops"}
  /\ opened' = FALSE
  /\ private' = NoOcb
  /\ UNCHANGED <<wrong, ocb, at, mine, nucVars, idVars>>

Release(t) ==
  /\ opened
  /\ at[t] = "user"
  /\ \A u \in Threads : at[u] \in {"user", "oops"}
  /\ opened' = FALSE
  /\ private' = NoOcb
  /\ IF private = NoOcb
       THEN UNCHANGED <<ocb, at, mine, filter>>
       ELSE /\ filter' = [filter EXCEPT ![private] = {}]
            /\ ocb' = [ocb EXCEPT ![private] =
                         IF @ = "open" THEN "closing" ELSE @]
            /\ Go(t, "release")
            /\ mine' = [mine EXCEPT ![t] = private]
  /\ UNCHANGED <<wrong, nucVars, range>>

(* ocb_destroy() has got what it waits for (OcbHandle says what that is);  *)
(* the buffer and the OCB are freed.                                       *)
ReleaseEnds(t) ==
  /\ at[t] = "release"
  /\ ocb' = [ocb EXCEPT ![mine[t]] = "unused"]
  /\ filter' = [filter EXCEPT ![mine[t]] = {}]
  /\ Leave(t)
  /\ UNCHANGED <<opened, private, wrong, nucVars, range>>

-----------------------------------------------------------------------------
(***************************************************************************)
(* IOCTL_ESDCAN_CREATE, for a thread that has read a null private_data.    *)
(* No lock is held from that read to the assignment of private_data.       *)
(***************************************************************************)
(* ocb_create(): the net is not there or there is no memory.               *)
CreateFails(t) ==
  /\ at[t] = "create"
  /\ Leave(t)
  /\ UNCHANGED <<opened, private, wrong, ocb, nucVars, idVars>>

CreateAllocatesReady(t, o) ==     \* mutant: private_data is set before
  /\ at[t] = "create"             \* ocb_create2()
  /\ ocb[o] = "unused"
  /\ ocb' = [ocb EXCEPT ![o] = "allocated"]
  /\ private' = o
  /\ mine' = [mine EXCEPT ![t] = o]
  /\ Go(t, "create2")
  /\ UNCHANGED <<opened, wrong, nucVars, idVars>>

CreateAllocates(t, o) ==
  /\ at[t] = "create"
  /\ ocb[o] = "unused"
  /\ ocb' = [ocb EXCEPT ![o] = "allocated"]
  /\ mine' = [mine EXCEPT ![t] = o]
  /\ Go(t, "create2")
  /\ UNCHANGED <<opened, private, wrong, nucVars, idVars>>

(* ocb_create2(): the net is gone or a queue size is out of range.  The    *)
(* OCB is not freed on these two paths.                                    *)
Create2Abandons(t) ==
  /\ at[t] = "create2"
  /\ Leave(t)
  /\ UNCHANGED <<opened, private, wrong, ocb, nucVars, idVars>>

(* ocb_create2(): no listen-only mode, no memory for the receive buffer,   *)
(* or nuc_open() fails.                                                    *)
Create2Frees(t) ==
  /\ at[t] = "create2"
  /\ ocb' = [ocb EXCEPT ![mine[t]] = "unused"]
  /\ Leave(t)
  /\ UNCHANGED <<opened, private, wrong, nucVars, idVars>>

(* nuc_open() with node->lock held.                                        *)
Create2Opens(t) ==
  /\ at[t] = "create2"
  /\ LockFree
  /\ ocb' = [ocb EXCEPT ![mine[t]] = "open"]
  /\ Go(t, "ready")
  /\ UNCHANGED <<opened, private, wrong, mine, nucVars, idVars>>

(* file->private_data = ocb; nuc_check_links() follows without the lock.   *)
CreateReady(t) ==
  /\ at[t] = "ready"
  /\ private' = mine[t]
  /\ Leave(t)
  /\ UNCHANGED <<opened, wrong, ocb, nucVars, idVars>>

-----------------------------------------------------------------------------
(***************************************************************************)
(* Calls on the OCB.                                                       *)
(***************************************************************************)
Ioctl(t) ==
  /\ Enter(t, IF private = NoOcb THEN "create" ELSE "entry")
  /\ UNCHANGED <<nucVars, idVars>>

(* The handle was closed before the lock was got: INVALID_HANDLE.  A       *)
(* command without an effect on this state leaves in the same way.         *)
IoctlReturns(t) ==
  /\ at[t] = "entry"
  /\ LockFree
  /\ Leave(t)
  /\ UNCHANGED <<opened, private, wrong, ocb, nucVars, idVars>>

(* ocb_destroy(): nuc_close() takes the handle's IDs out of the nucleus.   *)
Destroy(t) ==
  /\ Dispatched(t)
  /\ ocb' = [ocb EXCEPT ![mine[t]] = "closing"]
  /\ filter' = [filter EXCEPT ![mine[t]] = {}]
  /\ range' = Disturbed(t, range[t])
  /\ Go(t, "destroy")
  /\ UNCHANGED <<opened, private, wrong, mine, nucVars>>

DestroyEnds(t) ==
  /\ at[t] = "destroy"
  /\ LockFree
  /\ ocb' = [ocb EXCEPT ![mine[t]] = "closed"]
  /\ Leave(t)
  /\ UNCHANGED <<opened, private, wrong, nucVars, idVars>>

(* esdcan_poll() uses private_data as it finds it.                         *)
Poll(t) ==
  /\ Enter(t, IF private = NoOcb THEN "oops" ELSE "poll")
  /\ UNCHANGED <<nucVars, idVars>>

PollReturns(t) ==
  /\ at[t] = "poll"
  /\ LockFree
  /\ Leave(t)
  /\ UNCHANGED <<opened, private, wrong, ocb, nucVars, idVars>>

Asking(t) ==
  /\ \/ \E c \in Asked : AskAnswered(t, c) \/ AskWaits(t, c)
     \/ AskSleeps(t)
     \/ IoctlDone(t)
     \/ AskReturns(t)
  /\ UNCHANGED idVars

RangeStep(t) ==
  \/ \E on \in BOOLEAN, arg \in RangeArgs : RangeBegin(t, on, arg[1], arg[2])
  \/ FilterTurn(t)
  \/ NapOver(t)
  \/ RangeReturns(t)
  \/ \E on \in BOOLEAN : Range20B(t, on)
  \/ \E on \in BOOLEAN, first \in Ids, n \in 1 .. IdMax + 1 :
       Region(t, on, first, n)

Filtering(t) == RangeStep(t) /\ UNCHANGED nucVars

Creating(t) ==
  \/ CreateFails(t)
  \/ \E o \in Ocbs : CreateAllocates(t, o)
  \/ Create2Abandons(t)
  \/ Create2Frees(t)
  \/ Create2Opens(t)
  \/ CreateReady(t)

Closing(t) ==
  \/ Destroy(t)
  \/ DestroyEnds(t)
  \/ Release(t)
  \/ ReleaseEnds(t)

Next ==
  \/ Open
  \/ \E t \in Threads :
       \/ Ioctl(t)
       \/ IoctlReturns(t)
       \/ Poll(t)
       \/ PollReturns(t)
       \/ Creating(t)
       \/ Closing(t)
       \/ Asking(t)
       \/ Filtering(t)

Init == FileInit /\ NucInit /\ IdInit

Spec == Init /\ [][Next]_vars

(* A thread inside a call runs on, the lock is fair, and the nucleus       *)
(* answers every request.                                                  *)
Proceeds(t) ==
  \/ IoctlReturns(t)
  \/ PollReturns(t)
  \/ Creating(t)
  \/ DestroyEnds(t)
  \/ ReleaseEnds(t)
  \/ (AskSleeps(t) \/ AskReturns(t)) /\ UNCHANGED idVars
  \/ (FilterTurn(t) \/ NapOver(t) \/ RangeReturns(t)) /\ UNCHANGED nucVars

Fairness ==
  \A t \in Threads :
    /\ SF_vars(Proceeds(t))
    /\ SF_vars(IoctlDone(t) /\ UNCHANGED idVars)

FairSpec == Spec /\ Fairness

-----------------------------------------------------------------------------
(***************************************************************************)
(* Properties.                                                             *)
(***************************************************************************)
TypeOK == FileTypeOK /\ NucTypeOK /\ IdTypeOK

OnOcb == {"entry", "poll", "destroy", "release", "asking", "asleep", "woken",
          "turn", "nap", "answered"}

(* No call finds an OCB that is half created or freed, neither through     *)
(* private_data nor through the pointer it read before another thread      *)
(* created, closed or released: ocb_create2() may fail and free until the  *)
(* last assignment, and esdcan_release frees what private_data held.       *)
CallsFindLiveOcb ==
  /\ private # NoOcb => ocb[private] \in OpenedByNucleus
  /\ \A t \in Threads :
       at[t] \in OnOcb => mine[t] \in Ocbs /\ ocb[mine[t]] \in OpenedByNucleus

(* The wait context of my_nuc_ioctl lives on the caller's stack: as long   *)
(* as the nucleus owes an answer its thread has not come back, and a       *)
(* thread that was woken reads a status the nucleus has written.           *)
RequestHasWaiter ==
  \A t \in Threads :
    /\ request[t] # NoRequest => at[t] \in {"asking", "asleep"}
    /\ at[t] = "woken" => waitStatus[t]

(* An OCB that is being created belongs to one thread alone: private_data  *)
(* does not lead to it and no other thread has it.                         *)
MakesOcb(t) == at[t] \in {"create2", "ready"}

CreatorOwns ==
  \A t \in Threads :
    /\ at[t] \in {"user", "oops", "create"} => mine[t] = NoOcb
    /\ at[t] = "create2" => mine[t] \in Ocbs /\ ocb[mine[t]] = "allocated"
    /\ at[t] = "ready" => mine[t] \in Ocbs /\ ocb[mine[t]] = "open"
    /\ MakesOcb(t) => /\ private # mine[t]
                      /\ \A u \in Threads \ {t} : mine[u] # mine[t]

(* The thread that releases the file is alone.                             *)
ReleaserAlone ==
  /\ ~opened => /\ private = NoOcb
                /\ \A t \in Threads : at[t] \in {"user", "oops", "release"}
  /\ \A t \in Threads : at[t] = "release" =>
       /\ ~opened
       /\ \A u \in Threads \ {t} : at[u] \in {"user", "oops"}

(* As long as a thread is in a call on an OCB, the file leads to one.      *)
FileHasOcb ==
  \A t \in Threads : at[t] \in OnOcb \ {"release"} => private # NoOcb

(* A card that refuses gets no range of IDs to work on.                    *)
NoRangeOnWrong ==
  wrong => \A t \in Threads : at[t] \notin {"turn", "nap", "answered"}

(* How far id_filter() has got: the IDs it has done are IDs of the node,   *)
(* on or, by the undo, off, and it ends when it has done all it wanted to. *)
Works(t) == at[t] \in {"turn", "nap", "answered"}

RangeWork(t) ==
  LET r == range[t]
      did == Piece(r.first, r.done) IN
  /\ r.done <= r.want
  /\ r.done > 0 => r.first + r.done <= IdMax + 1
  /\ r.want = IF r.undo THEN r.added ELSE Count(r.first, r.last)
  /\ r.undo => r.on
  /\ r.alone /\ Switching(r) => did \subseteq filter[mine[t]]
  /\ r.alone /\ r.undo => did \cap filter[mine[t]] = {}
  /\ at[t] = "answered" =>
       /\ r.result = "SUCCESS" => r.done = r.want
       /\ Switching(r) => r.result = "SUCCESS"

RangesAtWork == \A t \in Threads : Works(t) => RangeWork(t)

(* What the calls on one file rely on, strong enough to follow from itself:*)
(* whose an OCB is from its allocation to its end, who waits for the       *)
(* nucleus, that a file is released by one thread, in no other call, and   *)
(* how far each range of IDs has got.                                      *)
FileInv ==
  /\ TypeOK
  /\ CallsFindLiveOcb
  /\ RequestHasWaiter
  /\ CreatorOwns
  /\ ReleaserAlone
  /\ FileHasOcb
  /\ NoRangeOnWrong
  /\ RangesAtWork

(* A card with the wrong firmware or hardware gets nothing through a       *)
(* handle but the two questions an updater asks.                           *)
WrongCardUntouched ==
  wrong =>
    /\ \A o \in Ocbs : filter[o] = {}
    /\ \A t \in Threads : request[t] \in {NoRequest} \cup DebugCmd \cup InfoCmd

(* ID_RANGE_ADD is all or nothing, in as many pieces and naps as it takes: *)
(* when it returns with success its whole range is on, when it returns     *)
(* with an error and its undo got through, none of the IDs it had got to   *)
(* is left on.  The one range that is excepted is the whole number space,  *)
(* whose count wraps to 0; and other threads must have kept away.          *)
Whole(r) == Wrap(r.last - r.first + 1) = 0

RangeAddAllOrNothing ==
  \A t \in Threads :
    LET r == range[t] IN
    at[t] = "answered" /\ r.on /\ r.alone =>
      /\ ~r.undo /\ ~Whole(r) => r.first .. r.last \subseteq filter[mine[t]]
      /\ r.undo /\ r.result = "SUCCESS" =>
           Piece(r.first, r.added) \cap filter[mine[t]] = {}

(* An OCB the nucleus has opened is lost in one way only: a second creation*)
(* on the same file overwrites private_data.                               *)
Reachable(o) ==
  private = o \/ \E t \in Threads : mine[t] = o

LostOnlyToRival ==
  [][\A o \in Ocbs :
       ocb'[o] \in OpenedByNucleus /\ Reachable(o) /\ ~Reachable(o)' =>
         \/ \E t \in Threads : at[t] = "ready" /\ private = o /\ mine[t] # o
         \/ \E t \in Threads : mine[t] = o /\ private \notin {o, NoOcb}]_vars

(* A command the nucleus answers returns to the user.                      *)
AskedReturns ==
  \A t \in Threads : at[t] = "asking" ~> at[t] = "user"

=============================================================================
