--------------------------- MODULE OcbFileProofs ---------------------------
(***************************************************************************)
(* Proofs about OcbFile, for any number of threads, OCBs and IDs.          *)
(***************************************************************************)
EXTENDS OcbFile, TLAPS

(* The count and the IDs of a range stay in 32 bits.                       *)
LEMMA WrapInWords ==
  ASSUME NEW n \in Int
  PROVE  Wrap(n) \in Words
BY IdAssumption DEF Wrap, Words

(* What a piece switches are IDs of the node.                              *)
LEMMA PieceOfIds ==
  ASSUME NEW first, NEW n
  PROVE  Piece(first, n) \subseteq Ids
BY DEF Piece

LEMMA NoRangeType == NoRange \in Ranges
BY IdAssumption DEF NoRange, Ranges, Words

LEMMA DisturbedType ==
  ASSUME range \in [Threads -> Ranges], NEW t \in Threads, NEW r \in Ranges
  PROVE  Disturbed(t, r) \in [Threads -> Ranges]
BY DEF Disturbed, Ranges

LEMMA SwitchedType ==
  ASSUME filter \in [Ocbs -> SUBSET (Ids \cup {Ids20B})],
         NEW o, NEW on, NEW first, NEW n
  PROVE  SwitchedPiece(o, on, first, n) \in
           [Ocbs -> SUBSET (Ids \cup {Ids20B})]
BY PieceOfIds DEF SwitchedPiece

-----------------------------------------------------------------------------
(***************************************************************************)
(* The file, its OCBs and its threads.  The part of FileInv about them is  *)
(* inductive by itself.                                                    *)
(***************************************************************************)
FileCore ==
  FileTypeOK /\ CallsFindLiveOcb /\ CreatorOwns /\ ReleaserAlone /\ FileHasOcb

LEMMA CoreInit == Init => FileCore
BY FileAssumption
   DEF Init, FileInit, FileCore, FileTypeOK, CallsFindLiveOcb, CreatorOwns,
       ReleaserAlone, FileHasOcb, OcbStates, Places, OnOcb, MakesOcb

(* A step that only moves threads between places where they hold the same  *)
(* OCB.                                                                    *)
Quiet == {"entry", "poll", "asking", "asleep", "woken", "turn", "nap",
          "answered"}

LEMMA CoreMoves ==
  ASSUME FileCore, NEW t \in Threads, at[t] \in Quiet, NEW place \in Quiet,
         Go(t, place), UNCHANGED <<opened, private, wrong, ocb, mine>>
  PROVE  FileCore'
BY FileAssumption
   DEF FileCore, FileTypeOK, CallsFindLiveOcb, CreatorOwns, ReleaserAlone,
       FileHasOcb,
       OcbStates, Places, OnOcb, MakesOcb, Quiet, Go

LEMMA CoreLeaves ==
  ASSUME FileCore, NEW t \in Threads,
         at[t] \in Quiet \cup {"create", "create2"},
         Leave(t), UNCHANGED <<opened, private, wrong, ocb>>
  PROVE  FileCore'
BY FileAssumption
   DEF FileCore, FileTypeOK, CallsFindLiveOcb, CreatorOwns, ReleaserAlone,
       FileHasOcb,
       OcbStates, Places, OnOcb, MakesOcb, Quiet, Leave, Go

LEMMA CoreEnters ==
  ASSUME FileCore, NEW t \in Threads,
         NEW place \in {"create", "entry", "poll", "oops"},
         place \in {"create", "oops"} <=> private = NoOcb, Enter(t, place)
  PROVE  FileCore'
BY FileAssumption
   DEF FileCore, FileTypeOK, CallsFindLiveOcb, CreatorOwns, ReleaserAlone,
       FileHasOcb,
       OcbStates, Places, OnOcb, MakesOcb, Enter, Go

LEMMA CoreOpen ==
  ASSUME FileCore, Open
  PROVE  FileCore'
BY FileAssumption
   DEF FileCore, FileTypeOK, CallsFindLiveOcb, CreatorOwns, ReleaserAlone,
       FileHasOcb,
       OcbStates, Places, OnOcb, MakesOcb, Open

LEMMA CoreRelease ==
  ASSUME FileCore, NEW t \in Threads, Release(t)
  PROVE  FileCore'
<1>1. CASE private = NoOcb
  BY <1>1, FileAssumption
     DEF FileCore, FileTypeOK, CallsFindLiveOcb, CreatorOwns, ReleaserAlone,
       FileHasOcb,
         OcbStates, Places, OnOcb, MakesOcb, Release
<1>2. CASE private # NoOcb
  <2>1. private \in Ocbs /\ ocb[private] \in OpenedByNucleus
    BY <1>2 DEF FileCore, FileTypeOK, CallsFindLiveOcb
  <2>2. /\ opened' = FALSE /\ private' = NoOcb /\ wrong' = wrong
        /\ \A u \in Threads : at[u] \in {"user", "oops"}
        /\ at' = [at EXCEPT ![t] = "release"]
        /\ mine' = [mine EXCEPT ![t] = private]
        /\ ocb' = [ocb EXCEPT ![private] =
                     IF @ = "open" THEN "closing" ELSE @]
    BY <1>2 DEF Release, Go
  <2>3. FileTypeOK'
    BY <2>1, <2>2 DEF FileCore, FileTypeOK, OcbStates, Places
  <2>4. /\ at'[t] = "release" /\ mine'[t] = private
        /\ ocb'[private] \in OpenedByNucleus
        /\ \A u \in Threads \ {t} :
             at'[u] \in {"user", "oops"} /\ mine'[u] = NoOcb
    BY <2>1, <2>2
       DEF FileCore, FileTypeOK, CreatorOwns, OpenedByNucleus
  <2> QED
    BY <2>1, <2>2, <2>3, <2>4
       DEF FileCore, CallsFindLiveOcb, CreatorOwns, ReleaserAlone,
       FileHasOcb, OnOcb,
           MakesOcb
<1> QED BY <1>1, <1>2

LEMMA CoreReleaseEnds ==
  ASSUME FileCore, NEW t \in Threads, ReleaseEnds(t)
  PROVE  FileCore'
BY FileAssumption
   DEF FileCore, FileTypeOK, CallsFindLiveOcb, CreatorOwns, ReleaserAlone,
       FileHasOcb,
       OcbStates, OpenedByNucleus, Places, OnOcb, MakesOcb, ReleaseEnds,
       Leave, Go

LEMMA CoreAllocates ==
  ASSUME FileCore, NEW t \in Threads, NEW o \in Ocbs, CreateAllocates(t, o)
  PROVE  FileCore'
BY FileAssumption
   DEF FileCore, FileTypeOK, CallsFindLiveOcb, CreatorOwns, ReleaserAlone,
       FileHasOcb,
       OcbStates, OpenedByNucleus, Places, OnOcb, MakesOcb, CreateAllocates,
       Go

LEMMA CoreFrees ==
  ASSUME FileCore, NEW t \in Threads, Create2Frees(t)
  PROVE  FileCore'
BY FileAssumption
   DEF FileCore, FileTypeOK, CallsFindLiveOcb, CreatorOwns, ReleaserAlone,
       FileHasOcb,
       OcbStates, OpenedByNucleus, Places, OnOcb, MakesOcb, Create2Frees,
       Leave, Go

LEMMA CoreOpens ==
  ASSUME FileCore, NEW t \in Threads, Create2Opens(t)
  PROVE  FileCore'
BY FileAssumption
   DEF FileCore, FileTypeOK, CallsFindLiveOcb, CreatorOwns, ReleaserAlone,
       FileHasOcb,
       OcbStates, OpenedByNucleus, Places, OnOcb, MakesOcb, Create2Opens, Go

LEMMA CoreReady ==
  ASSUME FileCore, NEW t \in Threads, CreateReady(t)
  PROVE  FileCore'
BY FileAssumption
   DEF FileCore, FileTypeOK, CallsFindLiveOcb, CreatorOwns, ReleaserAlone,
       FileHasOcb,
       OcbStates, OpenedByNucleus, Places, OnOcb, MakesOcb, CreateReady,
       Leave, Go

LEMMA CoreDestroy ==
  ASSUME FileCore, NEW t \in Threads, Destroy(t)
  PROVE  FileCore'
BY FileAssumption
   DEF FileCore, FileTypeOK, CallsFindLiveOcb, CreatorOwns, ReleaserAlone,
       FileHasOcb,
       OcbStates, OpenedByNucleus, HandleClosed, Places, OnOcb, MakesOcb,
       Destroy, Dispatched, Go

LEMMA CoreDestroyEnds ==
  ASSUME FileCore, NEW t \in Threads, DestroyEnds(t)
  PROVE  FileCore'
BY FileAssumption
   DEF FileCore, FileTypeOK, CallsFindLiveOcb, CreatorOwns, ReleaserAlone,
       FileHasOcb,
       OcbStates, OpenedByNucleus, Places, OnOcb, MakesOcb, DestroyEnds,
       Leave, Go

(* The steps of FilterTurn and NapOver that end id_filter().               *)
LEMMA CoreRangeEnds ==
  ASSUME FileCore, NEW t \in Threads, at[t] \in Quiet, NEW r, NEW n,
         NEW result, RangeEnds(t, r, n, result),
         UNCHANGED <<opened, private, wrong, ocb, mine>>
  PROVE  FileCore'
<1>1. \E place \in Quiet : Go(t, place)
  BY DEF RangeEnds, Quiet
<1> QED BY <1>1, CoreMoves

LEMMA CoreAsking ==
  ASSUME FileCore, NEW t \in Threads, Asking(t)
  PROVE  FileCore'
<1>1. ASSUME NEW c \in Asked, AskAnswered(t, c) PROVE FileCore'
  BY <1>1, CoreLeaves DEF AskAnswered, Dispatched, Quiet
<1>2. ASSUME NEW c \in Asked, AskWaits(t, c) PROVE FileCore'
  BY <1>2, CoreMoves DEF AskWaits, Dispatched, Quiet
<1>3. CASE AskSleeps(t)
  BY <1>3, CoreMoves DEF AskSleeps, Quiet
<1>4. CASE IoctlDone(t)
  <2>1. CASE at[t] = "asleep"
    <3>1. Go(t, "woken")
      BY <1>4, <2>1 DEF IoctlDone, Go
    <3> QED BY <1>4, <2>1, <3>1, CoreMoves DEF IoctlDone, Quiet
  <2>2. CASE at[t] # "asleep"
    <3>1. UNCHANGED fileVars
      BY <1>4, <2>2 DEF IoctlDone, fileVars, FileCore, FileTypeOK
    <3> QED
      BY <3>1 DEF fileVars, FileCore, FileTypeOK, CallsFindLiveOcb,
                  CreatorOwns, ReleaserAlone,
       FileHasOcb, MakesOcb
  <2> QED BY <2>1, <2>2
<1>5. CASE AskReturns(t)
  BY <1>5, CoreLeaves DEF AskReturns, Quiet
<1> QED BY <1>1, <1>2, <1>3, <1>4, <1>5 DEF Asking

LEMMA CoreFiltering ==
  ASSUME FileCore, NEW t \in Threads, RangeStep(t)
  PROVE  FileCore'
<1>1. ASSUME NEW on \in BOOLEAN, NEW arg \in RangeArgs,
             RangeBegin(t, on, arg[1], arg[2])
      PROVE  FileCore'
  BY <1>1, CoreMoves DEF RangeBegin, Dispatched, Quiet
<1>2. CASE FilterTurn(t)
  <2>1. /\ at[t] \in Quiet
        /\ UNCHANGED <<opened, private, wrong, ocb, mine>>
        /\ Go(t, "nap") \/ \E r, n, result : RangeEnds(t, r, n, result)
    BY <1>2 DEF FilterTurn, Quiet
  <2> QED BY <2>1, CoreMoves, CoreRangeEnds DEF Quiet
<1>3. CASE NapOver(t)
  <2>1. /\ at[t] \in Quiet
        /\ UNCHANGED <<opened, private, wrong, ocb, mine>>
        /\ Go(t, "turn") \/ \E r, n, result : RangeEnds(t, r, n, result)
    BY <1>3 DEF NapOver, Quiet
  <2> QED BY <2>1, CoreMoves, CoreRangeEnds DEF Quiet
<1>4. CASE RangeReturns(t)
  BY <1>4, CoreLeaves DEF RangeReturns, Quiet
<1>5. ASSUME NEW on \in BOOLEAN, Range20B(t, on) PROVE FileCore'
  BY <1>5, CoreLeaves DEF Range20B, Dispatched, Quiet
<1>6. ASSUME NEW on \in BOOLEAN, NEW first \in Ids, NEW n \in 1 .. IdMax + 1,
             Region(t, on, first, n)
      PROVE  FileCore'
  BY <1>6, CoreLeaves DEF Region, Dispatched, Quiet
<1> QED BY <1>1, <1>2, <1>3, <1>4, <1>5, <1>6 DEF RangeStep

LEMMA CoreKept ==
  ASSUME FileCore, [Next]_vars
  PROVE  FileCore'
<1>1. CASE UNCHANGED vars
  BY <1>1 DEF vars, fileVars, FileCore, FileTypeOK, CallsFindLiveOcb,
              CreatorOwns, ReleaserAlone,
       FileHasOcb, MakesOcb
<1>2. CASE Open
  BY <1>2, CoreOpen
<1>3. ASSUME NEW t \in Threads, Ioctl(t) \/ Poll(t) PROVE FileCore'
  BY <1>3, CoreEnters DEF Ioctl, Poll
<1>4. ASSUME NEW t \in Threads, IoctlReturns(t) \/ PollReturns(t)
      PROVE  FileCore'
  BY <1>4, CoreLeaves DEF IoctlReturns, PollReturns, Quiet
<1>5. ASSUME NEW t \in Threads, Creating(t) PROVE FileCore'
  BY <1>5, CoreLeaves, CoreAllocates, CoreFrees, CoreOpens, CoreReady
     DEF Creating, CreateFails, Create2Abandons
<1>6. ASSUME NEW t \in Threads, Closing(t) PROVE FileCore'
  BY <1>6, CoreDestroy, CoreDestroyEnds, CoreRelease, CoreReleaseEnds
     DEF Closing
<1>7. ASSUME NEW t \in Threads, Asking(t) PROVE FileCore'
  BY <1>7, CoreAsking
<1>8. ASSUME NEW t \in Threads, Filtering(t) PROVE FileCore'
  BY <1>8, CoreFiltering DEF Filtering
<1> QED
  BY <1>1, <1>2, <1>3, <1>4, <1>5, <1>6, <1>7, <1>8 DEF Next

-----------------------------------------------------------------------------
(***************************************************************************)
(* Who waits for the nucleus: only Asking touches request and waitStatus,  *)
(* and no other step takes a thread away from where it waits.              *)
(***************************************************************************)
WaitInv == NucTypeOK /\ RequestHasWaiter

(* The places of a thread that waits.                                      *)
Waits == {"asking", "asleep", "woken"}

LEMMA WaitUnmoved ==
  ASSUME WaitInv, UNCHANGED nucVars,
         \A t \in Threads :
           at'[t] \in Waits \/ at[t] \in Waits => at'[t] = at[t]
  PROVE  WaitInv'
BY DEF WaitInv, NucTypeOK, RequestHasWaiter, Waits, nucVars

LEMMA WaitMoved ==
  ASSUME WaitInv, FileTypeOK, UNCHANGED nucVars, NEW t \in Threads,
         at[t] \notin Waits, NEW place, place \notin Waits, Go(t, place)
  PROVE  WaitInv'
BY WaitUnmoved DEF FileTypeOK, Go

LEMMA WaitAsking ==
  ASSUME WaitInv, FileTypeOK, NEW t \in Threads, Asking(t)
  PROVE  WaitInv'
<1>1. ASSUME NEW c \in Asked, AskAnswered(t, c) PROVE WaitInv'
  BY <1>1, WaitMoved DEF AskAnswered, Dispatched, Waits, Leave
<1>2. ASSUME NEW c \in Asked, AskWaits(t, c) PROVE WaitInv'
  BY <1>2 DEF AskWaits, Go, FileTypeOK, WaitInv, NucTypeOK, RequestHasWaiter
<1>3. CASE AskSleeps(t)
  BY <1>3 DEF AskSleeps, Go, FileTypeOK, WaitInv, NucTypeOK,
              RequestHasWaiter, nucVars
<1>4. CASE IoctlDone(t)
  BY <1>4 DEF IoctlDone, FileTypeOK, WaitInv, NucTypeOK, RequestHasWaiter
<1>5. CASE AskReturns(t)
  BY <1>5 DEF AskReturns, Leave, Go, FileTypeOK, WaitInv, NucTypeOK,
              RequestHasWaiter, NoRequest
<1> QED BY <1>1, <1>2, <1>3, <1>4, <1>5 DEF Asking

LEMMA WaitKept ==
  ASSUME WaitInv, FileTypeOK, [Next]_vars
  PROVE  WaitInv'
<1>1. CASE UNCHANGED vars
  BY <1>1, WaitUnmoved DEF vars, fileVars
<1>2. CASE Open
  BY <1>2, WaitUnmoved DEF Open
<1>3. ASSUME NEW t \in Threads, Ioctl(t) \/ Poll(t) PROVE WaitInv'
  <2>1. PICK place \in {"create", "entry", "poll", "oops"} : Enter(t, place)
    BY <1>3 DEF Ioctl, Poll
  <2> QED BY <1>3, <2>1, WaitMoved DEF Enter, Ioctl, Poll, Waits
<1>4. ASSUME NEW t \in Threads, IoctlReturns(t) \/ PollReturns(t)
      PROVE  WaitInv'
  BY <1>4, WaitMoved DEF IoctlReturns, PollReturns, Leave, Waits
<1>5. ASSUME NEW t \in Threads, Creating(t) PROVE WaitInv'
  BY <1>5, WaitMoved
     DEF Creating, CreateFails, CreateAllocates, Create2Abandons,
         Create2Frees, Create2Opens, CreateReady, Leave, Waits
<1>6. ASSUME NEW t \in Threads, Closing(t) PROVE WaitInv'
  <2>1. CASE Destroy(t) \/ DestroyEnds(t) \/ ReleaseEnds(t)
    BY <2>1, WaitMoved
       DEF Destroy, Dispatched, DestroyEnds, ReleaseEnds, Leave, Waits
  <2>2. CASE Release(t)
    BY <2>2, WaitMoved, WaitUnmoved DEF Release, Waits
  <2> QED BY <1>6, <2>1, <2>2 DEF Closing
<1>7. ASSUME NEW t \in Threads, Asking(t) PROVE WaitInv'
  BY <1>7, WaitAsking
<1>8. ASSUME NEW t \in Threads, Filtering(t) PROVE WaitInv'
  <2>1. UNCHANGED nucVars /\ RangeStep(t)
    BY <1>8 DEF Filtering
  <2>2. ASSUME NEW on, NEW arg, RangeBegin(t, on, arg[1], arg[2])
        PROVE  WaitInv'
    BY <2>1, <2>2, WaitMoved DEF RangeBegin, Dispatched, Waits
  <2>3. CASE FilterTurn(t)
    <3>1. /\ at[t] \notin Waits
          /\ Go(t, "turn") \/ Go(t, "nap") \/ Go(t, "answered")
      BY <2>3 DEF FilterTurn, RangeEnds, Waits
    <3> QED BY <2>1, <3>1, WaitMoved DEF Waits
  <2>4. CASE NapOver(t)
    <3>1. at[t] \notin Waits /\ (Go(t, "turn") \/ Go(t, "answered"))
      BY <2>4 DEF NapOver, RangeEnds, Waits
    <3> QED BY <2>1, <3>1, WaitMoved DEF Waits
  <2>5. CASE RangeReturns(t)
    BY <2>1, <2>5, WaitMoved DEF RangeReturns, Leave, Waits
  <2>6. ASSUME NEW on, Range20B(t, on) PROVE WaitInv'
    BY <2>1, <2>6, WaitMoved DEF Range20B, Dispatched, Leave, Waits
  <2>7. ASSUME NEW on, NEW first, NEW n, Region(t, on, first, n) PROVE WaitInv'
    BY <2>1, <2>7, WaitMoved DEF Region, Dispatched, Leave, Waits
  <2> QED BY <2>1, <2>2, <2>3, <2>4, <2>5, <2>6, <2>7 DEF RangeStep
<1> QED
  BY <1>1, <1>2, <1>3, <1>4, <1>5, <1>6, <1>7, <1>8 DEF Next

-----------------------------------------------------------------------------
(***************************************************************************)
(* The ID filter.                                                          *)
(***************************************************************************)
LEMMA IdRangeEnds ==
  ASSUME IdTypeOK, FileTypeOK, NEW t \in Threads, NEW r \in Ranges,
         NEW n \in Words, NEW result \in {"SUCCESS", "EAGAIN", "ERROR"},
         RangeEnds(t, r, n, result)
  PROVE  range' \in [Threads -> Ranges]
<1>1. [r EXCEPT !.undo = TRUE, !.added = n, !.want = n, !.done = 0] \in Ranges
  <2>1. 0 \in Words
    BY IdAssumption DEF Words
  <2> QED BY <2>1 DEF Ranges
<1>2. [r EXCEPT !.done = n, !.result = result,
                !.added = IF r.undo THEN @ ELSE n] \in Ranges
  BY DEF Ranges
<1> QED BY <1>1, <1>2, DisturbedType DEF RangeEnds, IdTypeOK

LEMMA IdTurn ==
  ASSUME IdTypeOK, FileTypeOK, NEW t \in Threads, FilterTurn(t)
  PROVE  IdTypeOK'
<1> DEFINE r == range[t]
<1>1. r \in Ranges
  BY DEF IdTypeOK
<1>2. r.done \in Words /\ r.want \in Words
  BY <1>1 DEF Ranges
<1>3. PICK answer \in Answers(Wrap(r.first + r.done), r.want - r.done) :
        /\ filter' = SwitchedPiece(mine[t], Switching(r),
                                   Wrap(r.first + r.done), answer.got)
        /\ IF answer.result = "EAGAIN"
             THEN /\ range' = Disturbed(t, [r EXCEPT !.done =
                                                  r.done + answer.got])
                  /\ Go(t, "nap")
             ELSE RangeEnds(t, r, r.done + answer.got, answer.result)
  BY DEF FilterTurn
<1>4. /\ answer.got \in 0 .. (r.want - r.done)
      /\ answer.result \in {"SUCCESS", "EAGAIN", "ERROR"}
  BY DEF Answers
<1>5. r.done + answer.got \in Words
  BY <1>2, <1>4, IdAssumption DEF Words
<1>6. filter' \in [Ocbs -> SUBSET (Ids \cup {Ids20B})]
  BY <1>3, SwitchedType DEF IdTypeOK
<1>7. range' \in [Threads -> Ranges]
  <2>1. CASE answer.result = "EAGAIN"
    <3> DEFINE q == [r EXCEPT !.done = r.done + answer.got]
    <3>1. q \in Ranges
      BY <1>1, <1>5 DEF Ranges
    <3>2. range' = Disturbed(t, q)
      BY <1>3, <2>1
    <3> HIDE DEF q
    <3> QED BY <3>1, <3>2, DisturbedType DEF IdTypeOK
  <2>2. CASE answer.result # "EAGAIN"
    BY <1>1, <1>3, <1>4, <1>5, <2>2, IdRangeEnds
  <2> QED BY <2>1, <2>2
<1> QED BY <1>6, <1>7 DEF IdTypeOK

LEMMA IdStep ==
  ASSUME IdTypeOK, FileTypeOK, NEW t \in Threads, RangeStep(t)
  PROVE  IdTypeOK'
<1>1. ASSUME NEW on \in BOOLEAN, NEW arg \in RangeArgs,
             RangeBegin(t, on, arg[1], arg[2])
      PROVE  IdTypeOK'
  <2>1. arg[1] \in Words /\ arg[2] \in Words
    BY IdAssumption DEF Words
  <2>2. Count(arg[1], arg[2]) \in Words
    <3>1. arg[2] - arg[1] + 1 \in Int
      BY <2>1, IdAssumption DEF Words
    <3> QED BY <3>1, WrapInWords DEF Count
  <2>3. [NoRange EXCEPT !.on = on, !.first = arg[1], !.last = arg[2],
                        !.want = Count(arg[1], arg[2])] \in Ranges
    BY <2>1, <2>2, NoRangeType DEF Ranges
  <2> QED BY <1>1, <2>3 DEF RangeBegin, IdTypeOK
<1>2. CASE FilterTurn(t)
  BY <1>2, IdTurn
<1>3. CASE NapOver(t)
  <2>1. range[t] \in Ranges /\ range[t].done \in Words
    BY DEF IdTypeOK, Ranges
  <2> QED BY <1>3, <2>1, IdRangeEnds DEF NapOver, IdTypeOK
<1>4. CASE RangeReturns(t)
  BY <1>4, NoRangeType DEF RangeReturns, IdTypeOK
<1>5. ASSUME NEW on \in BOOLEAN, Range20B(t, on) PROVE IdTypeOK'
  BY <1>5 DEF Range20B, IdTypeOK
<1>6. ASSUME NEW on \in BOOLEAN, NEW first \in Ids, NEW n \in 1 .. IdMax + 1,
             Region(t, on, first, n)
      PROVE  IdTypeOK'
  <2>1. filter' \in [Ocbs -> SUBSET (Ids \cup {Ids20B})]
    BY <1>6, SwitchedType DEF Region, IdTypeOK
  <2>2. range[t] \in Ranges
    BY DEF IdTypeOK
  <2> QED BY <1>6, <2>1, <2>2, DisturbedType DEF Region, IdTypeOK
<1> QED BY <1>1, <1>2, <1>3, <1>4, <1>5, <1>6 DEF RangeStep

LEMMA IdKept ==
  ASSUME IdTypeOK, FileTypeOK, [Next]_vars
  PROVE  IdTypeOK'
<1>1. ASSUME UNCHANGED idVars PROVE IdTypeOK'
  BY <1>1 DEF IdTypeOK, idVars
<1>2. ASSUME NEW t \in Threads, Closing(t) PROVE IdTypeOK'
  <2>1. CASE Destroy(t)
    <3>1. range[t] \in Ranges
      BY DEF IdTypeOK
    <3> QED BY <2>1, <3>1, DisturbedType DEF Destroy, IdTypeOK
  <2>2. CASE DestroyEnds(t)
    BY <1>1, <2>2 DEF DestroyEnds
  <2>3. CASE Release(t) \/ ReleaseEnds(t)
    BY <2>3 DEF Release, ReleaseEnds, IdTypeOK
  <2> QED BY <1>2, <2>1, <2>2, <2>3 DEF Closing
<1>3. ASSUME NEW t \in Threads, Filtering(t) PROVE IdTypeOK'
  BY <1>3, IdStep DEF Filtering
<1>4. ASSUME NEW t \in Threads,
             Ioctl(t) \/ IoctlReturns(t) \/ Poll(t) \/ PollReturns(t)
               \/ Creating(t) \/ Asking(t)
      PROVE  UNCHANGED idVars
  BY <1>4 DEF Ioctl, IoctlReturns, Poll, PollReturns, Creating, CreateFails,
              CreateAllocates, Create2Abandons, Create2Frees, Create2Opens,
              CreateReady, Asking
<1>5. CASE Open \/ UNCHANGED vars
  BY <1>1, <1>5 DEF Open, vars
<1> QED BY <1>1, <1>2, <1>3, <1>4, <1>5 DEF Next

-----------------------------------------------------------------------------
(***************************************************************************)
(* How far a range of IDs has got.                                         *)
(***************************************************************************)
(* The 32-bit counts of ranges: only that of the whole number space wraps. *)
LEMMA WrapSmall ==
  ASSUME NEW n \in Words
  PROVE  Wrap(n) = n
BY IdAssumption DEF Wrap, Words

LEMMA WrapAround == Wrap(WordMax + 1) = 0
BY IdAssumption DEF Wrap

LEMMA CountOfRange ==
  ASSUME NEW first \in Words, NEW last \in Words,
         first <= last, Count(first, last) # 0
  PROVE  Count(first, last) = last - first + 1
<1>1. last - first + 1 \in 1 .. WordMax + 1
  BY IdAssumption DEF Words
<1>2. CASE last - first + 1 = WordMax + 1
  BY <1>2, WrapAround DEF Count
<1>3. CASE last - first + 1 # WordMax + 1
  <2>1. last - first + 1 \in Words
    BY <1>1, <1>3, IdAssumption DEF Words
  <2> QED BY <2>1, WrapSmall DEF Count
<1> QED BY <1>2, <1>3

(* A thread whose range, OCB and place are left alone.                     *)
LEMMA RangeUnmoved ==
  ASSUME RangesAtWork, NEW u \in Threads, Works(u)',
         UNCHANGED <<at[u], mine[u], range[u]>>,
         filter'[mine[u]] \cap Ids = filter[mine[u]] \cap Ids
  PROVE  RangeWork(u)'
<1>1. Works(u)
  BY DEF Works
<1> QED BY <1>1, PieceOfIds DEF RangesAtWork, RangeWork, Switching

(* Another thread works on its range: if on the same OCB, this one is not  *)
(* alone any more.                                                         *)
LEMMA RangeDisturbed ==
  ASSUME RangesAtWork, IdTypeOK, FileTypeOK, NEW t \in Threads,
         NEW r \in Ranges, range' = Disturbed(t, r),
         NEW u \in Threads \ {t}, Works(u)', UNCHANGED <<at[u], mine[u]>>,
         mine[u] # mine[t] => filter'[mine[u]] = filter[mine[u]]
  PROVE  RangeWork(u)'
<1>1. range'[u] = [range[u] EXCEPT !.alone = @ /\ mine[u] # mine[t]]
  BY DEF Disturbed
<1>2. range[u] \in Ranges
  BY DEF IdTypeOK
<1>3. /\ range'[u].on = range[u].on /\ range'[u].undo = range[u].undo
      /\ range'[u].first = range[u].first /\ range'[u].last = range[u].last
      /\ range'[u].want = range[u].want /\ range'[u].done = range[u].done
      /\ range'[u].added = range[u].added
      /\ range'[u].result = range[u].result
  BY <1>1, <1>2 DEF Ranges
<1>4. range'[u].alone <=> range[u].alone /\ mine[u] # mine[t]
  BY <1>1, <1>2 DEF Ranges
<1>5. mine[u] # mine[t] => filter'[mine'[u]] = filter[mine[u]]
  OBVIOUS
<1>6. Works(u) /\ RangeWork(u)
  BY DEF Works, RangesAtWork
<1> QED BY <1>3, <1>4, <1>5, <1>6 DEF RangeWork, Switching

(* A turn switches what lies beyond the IDs that are done.                 *)
LEMMA PieceAppended ==
  ASSUME NEW first \in Words, NEW done \in Words, NEW got \in Nat
  PROVE  Piece(first, done + got) =
           Piece(first, done) \cup Piece(first + done, got)
BY IdAssumption DEF Piece, Words, Ids

(* The thread that comes out of id_filter(), or starts the undo.           *)
LEMMA RangeEnded ==
  ASSUME IdTypeOK, FileTypeOK, NEW t \in Threads, Works(t),
         NEW n \in Words, NEW result \in {"SUCCESS", "EAGAIN", "ERROR"},
         RangeEnds(t, range[t], n, result), UNCHANGED mine,
         n <= range[t].want,
         n > 0 => range[t].first + n <= IdMax + 1,
         range[t].want = IF range[t].undo THEN range[t].added
                         ELSE Count(range[t].first, range[t].last),
         range[t].undo => range[t].on,
         result = "SUCCESS" => n = range[t].want,
         range[t].alone /\ Switching(range[t]) =>
           Piece(range[t].first, n) \subseteq filter'[mine[t]],
         range[t].alone /\ range[t].undo =>
           Piece(range[t].first, n) \cap filter'[mine[t]] = {}
  PROVE  RangeWork(t)'
<1> DEFINE r == range[t]
<1>1. r \in Ranges
  BY DEF IdTypeOK
<1>2. CASE Switching(r) /\ result # "SUCCESS"
  <2> DEFINE q == [r EXCEPT !.undo = TRUE, !.added = n, !.want = n, !.done = 0]
  <2>1. range'[t] = q
    BY <1>2 DEF RangeEnds, Disturbed, Switching
  <2>2. /\ q.on /\ q.undo /\ q.first = r.first /\ q.want = n /\ q.added = n
        /\ q.done = 0
    BY <1>1, <1>2 DEF Ranges, Switching
  <2>3. Piece(r.first, 0) = {}
    <3>1. r.first \in Int
      BY <1>1, IdAssumption DEF Ranges, Words
    <3> QED BY <3>1, IdAssumption DEF Piece, Ids
  <2>4. at'[t] = "turn"
    BY <1>2 DEF RangeEnds, Switching, Go, FileTypeOK
  <2>5. 0 <= n
    BY IdAssumption DEF Words
  <2> HIDE DEF q
  <2> QED BY <2>1, <2>2, <2>3, <2>4, <2>5 DEF RangeWork, Switching
<1>3. CASE ~(Switching(r) /\ result # "SUCCESS")
  <2> DEFINE q == [r EXCEPT !.done = n, !.result = result,
                            !.added = IF r.undo THEN @ ELSE n]
  <2>1. range'[t] = q
    BY <1>3 DEF RangeEnds, Disturbed, Switching
  <2>2. /\ q.on = r.on /\ q.undo = r.undo /\ q.first = r.first
        /\ q.last = r.last /\ q.want = r.want /\ q.done = n
        /\ q.result = result /\ q.alone = r.alone
        /\ r.undo => q.added = r.added
    BY <1>1 DEF Ranges
  <2>3. Switching(r) => result = "SUCCESS"
    BY <1>3
  <2> HIDE DEF q
  <2> QED BY <2>1, <2>2, <2>3 DEF RangeWork, Switching
<1> QED BY <1>2, <1>3

(* One turn of the loop.                                                   *)
LEMMA RangeTurn ==
  ASSUME RangesAtWork, IdTypeOK, FileTypeOK, NEW t \in Threads,
         FilterTurn(t), CallsFindLiveOcb
  PROVE  RangesAtWork'
<1> DEFINE r == range[t]
           o == mine[t]
<1>1. r \in Ranges /\ r.first \in Words /\ r.done \in Words /\ r.want \in Words
  BY DEF IdTypeOK, Ranges
<1>2. Works(t) /\ RangeWork(t)
  BY DEF FilterTurn, Works, RangesAtWork
<1>3. PICK answer \in Answers(Wrap(r.first + r.done), r.want - r.done) :
        /\ filter' = SwitchedPiece(o, Switching(r), Wrap(r.first + r.done),
                                   answer.got)
        /\ IF answer.result = "EAGAIN"
             THEN /\ range' = Disturbed(t, [r EXCEPT !.done =
                                                  r.done + answer.got])
                  /\ Go(t, "nap")
             ELSE RangeEnds(t, r, r.done + answer.got, answer.result)
  BY DEF FilterTurn
<1>4. Wrap(r.first + r.done) = r.first + r.done
  <2>1. r.first + r.done \in Words
    BY <1>1, <1>2, IdAssumption DEF RangeWork, Words
  <2> QED BY <2>1, WrapSmall
<1> DEFINE n == r.done + answer.got
<1>5. /\ answer.got \in 0 .. (r.want - r.done)
      /\ answer.got > 0 => r.first + r.done + answer.got - 1 <= IdMax
      /\ answer.result \in {"SUCCESS", "EAGAIN", "ERROR"}
      /\ answer.result = "SUCCESS" => answer.got = r.want - r.done
  BY <1>4 DEF Answers
<1>6. /\ n \in Words /\ n <= r.want
      /\ n > 0 => r.first + n <= IdMax + 1
      /\ answer.result = "SUCCESS" => n = r.want
  <2>1. CASE answer.got = 0
    BY <1>1, <1>2, <1>5, <2>1, IdAssumption DEF RangeWork, Words
  <2>2. CASE answer.got > 0
    BY <1>1, <1>2, <1>5, <2>2, IdAssumption DEF Words
  <2> QED BY <1>5, <2>1, <2>2
<1>7. /\ filter'[o] = IF Switching(r)
                        THEN filter[o] \cup Piece(r.first + r.done, answer.got)
                        ELSE filter[o] \ Piece(r.first + r.done, answer.got)
      /\ \A p \in Ocbs \ {o} : filter'[p] = filter[p]
  <2>1. filter' = SwitchedPiece(o, Switching(r), r.first + r.done, answer.got)
    BY <1>3, <1>4
  <2>2. o \in Ocbs
    BY DEF CallsFindLiveOcb, FilterTurn, OnOcb
  <2>3. DOMAIN filter = Ocbs
    BY DEF IdTypeOK
  <2> HIDE DEF r, o
  <2> QED BY <2>1, <2>2, <2>3 DEF SwitchedPiece
<1>8. Piece(r.first, n) =
        Piece(r.first, r.done) \cup Piece(r.first + r.done, answer.got)
  BY <1>1, <1>5, PieceAppended
<1>9. /\ r.alone /\ Switching(r) => Piece(r.first, n) \subseteq filter'[o]
      /\ r.alone /\ r.undo => Piece(r.first, n) \cap filter'[o] = {}
  BY <1>2, <1>7, <1>8 DEF RangeWork, Switching
<1>10. UNCHANGED mine
  BY DEF FilterTurn
<1>11. RangeWork(t)'
  <2>1. CASE answer.result = "EAGAIN"
    <3> DEFINE q == [r EXCEPT !.done = n]
    <3>1. range'[t] = q /\ at'[t] = "nap"
      BY <1>3, <2>1 DEF Disturbed, Go, FileTypeOK
    <3>2. /\ q.on = r.on /\ q.undo = r.undo /\ q.first = r.first
          /\ q.last = r.last /\ q.want = r.want /\ q.done = n
          /\ q.added = r.added /\ q.alone = r.alone
      BY <1>1 DEF Ranges
    <3> HIDE DEF q
    <3> QED BY <1>2, <1>6, <1>9, <1>10, <3>1, <3>2 DEF RangeWork, Switching
  <2>2. CASE answer.result # "EAGAIN"
    <3>1. RangeEnds(t, r, n, answer.result)
      BY <1>3, <2>2
    <3> HIDE DEF n
    <3> QED BY <1>2, <1>5, <1>6, <1>9, <1>10, <3>1, RangeEnded DEF RangeWork
  <2> QED BY <2>1, <2>2
<1>12. ASSUME NEW u \in Threads \ {t}, Works(u)' PROVE RangeWork(u)'
  <2>1. PICK q \in Ranges : range' = Disturbed(t, q)
    <3>1. [r EXCEPT !.done = n] \in Ranges
      BY <1>1, <1>6 DEF Ranges
    <3>2. [r EXCEPT !.undo = TRUE, !.added = n, !.want = n, !.done = 0] \in Ranges
      <4>1. 0 \in Words
        BY IdAssumption DEF Words
      <4> QED BY <1>1, <1>6, <4>1 DEF Ranges
    <3>3. [r EXCEPT !.done = n, !.result = answer.result,
                    !.added = IF r.undo THEN @ ELSE n] \in Ranges
      BY <1>1, <1>5, <1>6 DEF Ranges
    <3>4. \/ range' = Disturbed(t, [r EXCEPT !.done = n])
          \/ range' = Disturbed(t, [r EXCEPT !.undo = TRUE, !.added = n,
                                             !.want = n, !.done = 0])
          \/ range' = Disturbed(t, [r EXCEPT !.done = n,
                                    !.result = answer.result,
                                    !.added = IF r.undo THEN @ ELSE n])
      BY <1>3 DEF RangeEnds
    <3> HIDE DEF n
    <3> QED BY <3>1, <3>2, <3>3, <3>4
  <2>2. at'[u] = at[u]
    BY <1>3 DEF RangeEnds, Go, FileTypeOK
  <2>3. mine[u] \in Ocbs
    BY <1>12, <2>2 DEF CallsFindLiveOcb, Works, OnOcb
  <2> QED BY <1>7, <1>10, <1>12, <2>1, <2>2, <2>3, RangeDisturbed
<1> QED BY <1>11, <1>12 DEF RangesAtWork

(* The nap is over.                                                        *)
LEMMA RangeNap ==
  ASSUME RangesAtWork, IdTypeOK, FileTypeOK, NEW t \in Threads, NapOver(t)
  PROVE  RangesAtWork'
<1> DEFINE r == range[t]
<1>1. r \in Ranges /\ r.done \in Words /\ r.want \in Words
  BY DEF IdTypeOK, Ranges
<1>2. Works(t) /\ RangeWork(t) /\ UNCHANGED <<mine, filter>>
  BY DEF NapOver, Works, RangesAtWork
<1>3. \A u \in Threads \ {t} : at'[u] = at[u]
  BY DEF NapOver, RangeEnds, Go, FileTypeOK
<1>4. CASE r.done < r.want
  <2>1. UNCHANGED range /\ at'[t] = "turn"
    BY <1>4 DEF NapOver, Go, FileTypeOK
  <2>2. RangeWork(t)'
    BY <1>2, <2>1 DEF RangeWork, Switching
  <2> QED BY <1>2, <1>3, <2>1, <2>2, RangeUnmoved DEF RangesAtWork
<1>5. CASE ~(r.done < r.want)
  <2>1. RangeEnds(t, r, r.done, "EAGAIN")
    BY <1>5 DEF NapOver
  <2>2. RangeWork(t)'
    BY <1>1, <1>2, <2>1, RangeEnded DEF RangeWork
  <2>3. PICK q \in Ranges : range' = Disturbed(t, q)
    <3>1. [r EXCEPT !.undo = TRUE, !.added = r.done, !.want = r.done,
                    !.done = 0] \in Ranges
      <4>1. 0 \in Words
        BY IdAssumption DEF Words
      <4> QED BY <1>1, <4>1 DEF Ranges
    <3>2. [r EXCEPT !.done = r.done, !.result = "EAGAIN",
                    !.added = IF r.undo THEN @ ELSE r.done] \in Ranges
      BY <1>1 DEF Ranges
    <3> QED BY <2>1, <3>1, <3>2 DEF RangeEnds
  <2> QED BY <1>2, <1>3, <2>2, <2>3, RangeDisturbed DEF RangesAtWork
<1> QED BY <1>4, <1>5

(* A step that leaves the ranges and the threads at work alone.            *)
LEMMA RangesUnmoved ==
  ASSUME RangesAtWork, UNCHANGED idVars,
         \A u \in Threads : Works(u)' => UNCHANGED <<at[u], mine[u]>>
  PROVE  RangesAtWork'
BY RangeUnmoved DEF RangesAtWork, idVars

LEMMA RangesMoved ==
  ASSUME RangesAtWork, FileTypeOK, UNCHANGED idVars, NEW t \in Threads,
         NEW place, place \notin {"turn", "nap", "answered"}, Go(t, place),
         \A u \in Threads \ {t} : mine'[u] = mine[u]
  PROVE  RangesAtWork'
BY RangesUnmoved DEF FileTypeOK, Go, Works

(* A new range, of which nothing is done.                                  *)
LEMMA RangeBegun ==
  ASSUME RangesAtWork, IdTypeOK, FileTypeOK, NEW t \in Threads,
         NEW on \in BOOLEAN, NEW first \in Words, NEW last \in Words,
         RangeBegin(t, on, first, last)
  PROVE  RangesAtWork'
<1> DEFINE q == [NoRange EXCEPT !.on = on, !.first = first, !.last = last,
                                !.want = Count(first, last)]
<1>1. /\ q.on = on /\ q.first = first /\ q.last = last /\ ~q.undo
      /\ q.want = Count(first, last) /\ q.done = 0
  BY DEF NoRange
<1>2. Count(first, last) >= 0
  <2>1. last - first + 1 \in Int
    BY IdAssumption DEF Words
  <2> QED BY <2>1, WrapInWords, IdAssumption DEF Count, Words
<1>3. Piece(first, 0) = {}
  BY IdAssumption DEF Piece, Ids, Words
<1>4. /\ range' = [range EXCEPT ![t] = q] /\ at' = [at EXCEPT ![t] = "turn"]
      /\ UNCHANGED <<mine, filter>>
  BY DEF RangeBegin, Go
<1>5. at'[t] = "turn" /\ range'[t] = q
  BY <1>4 DEF FileTypeOK, IdTypeOK
<1> HIDE DEF q
<1>6. RangeWork(t)'
  BY <1>1, <1>2, <1>3, <1>5 DEF RangeWork, Switching
<1>7. ASSUME NEW u \in Threads \ {t}, Works(u)' PROVE RangeWork(u)'
  BY <1>4, <1>7, RangeUnmoved DEF FileTypeOK, IdTypeOK
<1> QED BY <1>6, <1>7 DEF RangesAtWork

(* Another thread closes the handle or changes a region: the nucleus has   *)
(* switched IDs of this OCB and of no other.                               *)
LEMMA RangesDisturbed ==
  ASSUME RangesAtWork, IdTypeOK, FileTypeOK, CallsFindLiveOcb,
         NEW t \in Threads, range' = Disturbed(t, range[t]),
         NEW place, place \notin {"turn", "nap", "answered"}, Go(t, place),
         \A u \in Threads \ {t} : mine'[u] = mine[u],
         \A o \in Ocbs \ {mine[t]} : filter'[o] = filter[o]
  PROVE  RangesAtWork'
<1>1. range[t] \in Ranges
  BY DEF IdTypeOK
<1>2. ~Works(t)'
  BY DEF Works, Go, FileTypeOK
<1>3. ASSUME NEW u \in Threads \ {t}, Works(u)' PROVE RangeWork(u)'
  <2>1. at'[u] = at[u]
    BY DEF Go, FileTypeOK
  <2>2. mine[u] \in Ocbs
    BY <1>3, <2>1 DEF CallsFindLiveOcb, Works, OnOcb
  <2> QED BY <1>1, <1>3, <2>1, <2>2, RangeDisturbed
<1> QED BY <1>2, <1>3 DEF RangesAtWork

LEMMA RangesStep ==
  ASSUME RangesAtWork, IdTypeOK, FileTypeOK, CallsFindLiveOcb,
         NEW t \in Threads, RangeStep(t)
  PROVE  RangesAtWork'
<1>1. ASSUME NEW on \in BOOLEAN, NEW arg \in RangeArgs,
             RangeBegin(t, on, arg[1], arg[2])
      PROVE  RangesAtWork'
  <2>1. arg[1] \in Words /\ arg[2] \in Words
    BY IdAssumption DEF Words
  <2> QED BY <1>1, <2>1, RangeBegun
<1>2. CASE FilterTurn(t)
  BY <1>2, RangeTurn
<1>3. CASE NapOver(t)
  BY <1>3, RangeNap
<1>4. CASE RangeReturns(t)
  <2>1. ASSUME NEW u \in Threads, Works(u)'
        PROVE  UNCHANGED <<at[u], mine[u], range[u], filter>>
    BY <1>4, <2>1 DEF RangeReturns, Leave, Go, Works, FileTypeOK, IdTypeOK
  <2> QED BY <2>1, RangeUnmoved DEF RangesAtWork
<1>5. ASSUME NEW on \in BOOLEAN, Range20B(t, on) PROVE RangesAtWork'
  <2>1. ASSUME NEW u \in Threads, Works(u)'
        PROVE  UNCHANGED <<at[u], mine[u], range[u]>>
    BY <1>5, <2>1 DEF Range20B, Leave, Go, Works, FileTypeOK
  <2>2. Ids20B \notin Ids
    BY IdAssumption DEF Ids20B, Ids
  <2>3. \A o \in Ocbs : filter'[o] \cap Ids = filter[o] \cap Ids
    BY <1>5, <2>2 DEF Range20B, IdTypeOK
  <2>4. ASSUME NEW u \in Threads, Works(u)' PROVE mine[u] \in Ocbs
    BY <2>1, <2>4 DEF CallsFindLiveOcb, Works, OnOcb
  <2> QED BY <2>1, <2>3, <2>4, RangeUnmoved DEF RangesAtWork
<1>6. ASSUME NEW on \in BOOLEAN, NEW first \in Ids, NEW n \in 1 .. IdMax + 1,
             Region(t, on, first, n)
      PROVE  RangesAtWork'
  <2>1. /\ range' = Disturbed(t, range[t]) /\ Go(t, "user")
        /\ mine' = [mine EXCEPT ![t] = NoOcb]
    BY <1>6 DEF Region, Leave
  <2>2. \A o \in Ocbs \ {mine[t]} : filter'[o] = filter[o]
    BY <1>6 DEF Region, SwitchedPiece, IdTypeOK
  <2>3. \A u \in Threads \ {t} : mine'[u] = mine[u]
    BY <2>1 DEF FileTypeOK
  <2> QED BY <2>1, <2>2, <2>3, RangesDisturbed
<1> QED BY <1>1, <1>2, <1>3, <1>4, <1>5, <1>6 DEF RangeStep

LEMMA RangesKept ==
  ASSUME RangesAtWork, IdTypeOK, FileCore, [Next]_vars
  PROVE  RangesAtWork'
<1> USE DEF FileCore
<1>1. CASE Open \/ UNCHANGED vars
  BY <1>1, RangesUnmoved DEF Open, vars, fileVars
<1>2. ASSUME NEW t \in Threads, Ioctl(t) \/ Poll(t) PROVE RangesAtWork'
  <2>1. PICK place \in {"create", "entry", "poll", "oops"} : Enter(t, place)
    BY <1>2 DEF Ioctl, Poll
  <2>2. \A u \in Threads \ {t} : mine'[u] = mine[u]
    BY <2>1 DEF Enter, FileTypeOK
  <2> QED BY <1>2, <2>1, <2>2, RangesMoved DEF Enter, Ioctl, Poll
<1>3. ASSUME NEW t \in Threads, Leave(t), UNCHANGED idVars
      PROVE  RangesAtWork'
  <2>1. \A u \in Threads \ {t} : mine'[u] = mine[u]
    BY <1>3 DEF Leave, FileTypeOK
  <2> QED BY <1>3, <2>1, RangesMoved DEF Leave
<1>4. ASSUME NEW t \in Threads, IoctlReturns(t) \/ PollReturns(t)
      PROVE  RangesAtWork'
  BY <1>3, <1>4 DEF IoctlReturns, PollReturns
<1>5. ASSUME NEW t \in Threads, Creating(t) PROVE RangesAtWork'
  <2>1. CASE CreateFails(t) \/ Create2Abandons(t) \/ Create2Frees(t)
               \/ CreateReady(t)
    BY <1>3, <2>1
       DEF CreateFails, Create2Abandons, Create2Frees, CreateReady
  <2>2. ASSUME NEW o \in Ocbs, CreateAllocates(t, o) PROVE RangesAtWork'
    <3>1. \A u \in Threads \ {t} : mine'[u] = mine[u]
      BY <2>2 DEF CreateAllocates, FileTypeOK
    <3> QED BY <2>2, <3>1, RangesMoved DEF CreateAllocates
  <2>3. CASE Create2Opens(t)
    BY <2>3, RangesMoved DEF Create2Opens
  <2> QED BY <1>5, <2>1, <2>2, <2>3 DEF Creating
<1>6. ASSUME NEW t \in Threads, Closing(t) PROVE RangesAtWork'
  <2>1. CASE Destroy(t)
    <3>1. \A o \in Ocbs \ {mine[t]} : filter'[o] = filter[o]
      BY <2>1 DEF Destroy, IdTypeOK
    <3> QED BY <2>1, <3>1, RangesDisturbed DEF Destroy
  <2>2. CASE DestroyEnds(t)
    BY <1>3, <2>2 DEF DestroyEnds
  <2>3. CASE Release(t) \/ ReleaseEnds(t)
    <3>1. \A u \in Threads : ~Works(u)'
      BY <2>3 DEF Release, ReleaseEnds, Leave, Go, FileTypeOK, ReleaserAlone,
                  Works
    <3> QED BY <3>1 DEF RangesAtWork
  <2> QED BY <1>6, <2>1, <2>2, <2>3 DEF Closing
<1>7. ASSUME NEW t \in Threads, Asking(t) PROVE RangesAtWork'
  <2>1. UNCHANGED idVars
    BY <1>7 DEF Asking
  <2>2. \A u \in Threads : Works(u)' => UNCHANGED <<at[u], mine[u]>>
    BY <1>7 DEF Asking, AskAnswered, AskWaits, AskSleeps, IoctlDone,
                AskReturns, Leave, Go, FileTypeOK, Works
  <2> QED BY <2>1, <2>2, RangesUnmoved
<1>8. ASSUME NEW t \in Threads, Filtering(t) PROVE RangesAtWork'
  BY <1>8, RangesStep DEF Filtering
<1> QED
  BY <1>1, <1>2, <1>4, <1>5, <1>6, <1>7, <1>8 DEF Next

-----------------------------------------------------------------------------
(***************************************************************************)
(* A card with the wrong firmware or hardware.                             *)
(***************************************************************************)
WrongInv == WrongCardUntouched /\ NoRangeOnWrong

LEMMA WrongUnmoved ==
  ASSUME WrongInv, UNCHANGED <<wrong, filter, request>>,
         wrong => \A t \in Threads :
           at'[t] \in {"turn", "nap", "answered"} => at'[t] = at[t]
  PROVE  WrongInv'
BY DEF WrongInv, WrongCardUntouched, NoRangeOnWrong

LEMMA WrongMoved ==
  ASSUME WrongInv, FileTypeOK, UNCHANGED <<wrong, filter, request>>,
         NEW t \in Threads,
         NEW place, place \notin {"turn", "nap", "answered"}, Go(t, place)
  PROVE  WrongInv'
BY WrongUnmoved DEF FileTypeOK, Go

LEMMA WrongAsking ==
  ASSUME WrongInv, FileTypeOK, NEW t \in Threads, Asking(t)
  PROVE  WrongInv'
<1>0. UNCHANGED filter
  BY DEF Asking, idVars
<1>1. ASSUME NEW c \in Asked, AskAnswered(t, c) PROVE WrongInv'
  BY <1>0, <1>1, WrongMoved DEF AskAnswered, Leave, nucVars
<1>2. ASSUME NEW c \in Asked, AskWaits(t, c) PROVE WrongInv'
  <2>1. wrong => c \in DebugCmd \cup InfoCmd
    <3>1. c \in Waiting
      BY AskedAssumption
    <3>2. c \notin SetTimeouts \cup Purge
      BY <3>1 DEF Waiting, Forward32R, Forward32RTx, Forward32W, Forward32WTx,
                  ForwardCmd, BaudX, Timestamps, DebugCmd, InfoCmd,
                  Statistics, ErrorInjection, SetTimeouts, Purge
    <3>3. ~Refused(c)
      BY <1>2 DEF AskWaits
    <3> QED BY <3>1, <3>2, <3>3 DEF Refused, Checked
  <2>2. /\ request' = [request EXCEPT ![t] = c]
        /\ at' = [at EXCEPT ![t] = "asking"]
        /\ wrong' = wrong
    BY <1>2 DEF AskWaits, Go
  <2> QED
    BY <1>0, <2>1, <2>2 DEF WrongInv, WrongCardUntouched, NoRangeOnWrong,
                            FileTypeOK
<1>3. CASE AskSleeps(t)
  BY <1>0, <1>3, WrongMoved DEF AskSleeps, nucVars
<1>4. CASE IoctlDone(t)
  BY <1>0, <1>4 DEF IoctlDone, WrongInv, WrongCardUntouched, NoRangeOnWrong,
                    FileTypeOK
<1>5. CASE AskReturns(t)
  BY <1>0, <1>5, WrongMoved DEF AskReturns, Leave
<1> QED BY <1>1, <1>2, <1>3, <1>4, <1>5 DEF Asking

LEMMA WrongFiltering ==
  ASSUME WrongInv, FileTypeOK, NEW t \in Threads, Filtering(t)
  PROVE  WrongInv'
<1>1. UNCHANGED <<request, wrong>>
  BY DEF Filtering, nucVars, RangeStep, RangeBegin, FilterTurn, NapOver,
         RangeReturns, Range20B, Region
<1>2. CASE wrong
  <2>1. RangeReturns(t) => at[t] = "answered"
    BY DEF RangeReturns
  <2> QED
    BY <1>2, <2>1 DEF WrongInv, NoRangeOnWrong, Filtering, RangeStep,
       RangeBegin, FilterTurn, NapOver, Range20B, Region
<1>3. CASE ~wrong
  BY <1>1, <1>3 DEF WrongInv, WrongCardUntouched, NoRangeOnWrong
<1> QED BY <1>2, <1>3

LEMMA WrongKept ==
  ASSUME WrongInv, FileTypeOK, IdTypeOK, [Next]_vars
  PROVE  WrongInv'
<1>1. CASE Open \/ UNCHANGED vars
  BY <1>1, WrongUnmoved DEF Open, vars, fileVars, nucVars, idVars
<1>2. ASSUME NEW t \in Threads, Ioctl(t) \/ Poll(t) PROVE WrongInv'
  <2>1. PICK place \in {"create", "entry", "poll", "oops"} : Enter(t, place)
    BY <1>2 DEF Ioctl, Poll
  <2> QED BY <1>2, <2>1, WrongMoved DEF Enter, Ioctl, Poll, nucVars, idVars
<1>3. ASSUME NEW t \in Threads, IoctlReturns(t) \/ PollReturns(t)
      PROVE  WrongInv'
  BY <1>3, WrongMoved DEF IoctlReturns, PollReturns, Leave, nucVars, idVars
<1>4. ASSUME NEW t \in Threads, Creating(t) PROVE WrongInv'
  BY <1>4, WrongMoved
     DEF Creating, CreateFails, CreateAllocates, Create2Abandons,
         Create2Frees, Create2Opens, CreateReady, Leave, nucVars, idVars
<1>5. ASSUME NEW t \in Threads, Closing(t) PROVE WrongInv'
  <2>1. CASE DestroyEnds(t)
    BY <2>1, WrongMoved DEF DestroyEnds, Leave, nucVars, idVars
  <2>2. CASE Destroy(t) \/ Release(t) \/ ReleaseEnds(t)
    <3>1. /\ UNCHANGED <<wrong, request>>
          /\ \A o \in Ocbs : filter'[o] \in {{}, filter[o]}
      BY <2>2 DEF Destroy, Release, ReleaseEnds, nucVars, IdTypeOK
    <3>2. \A u \in Threads :
            at'[u] \in {"turn", "nap", "answered"} => at'[u] = at[u]
      BY <2>2 DEF Destroy, Release, ReleaseEnds, Leave, Go, FileTypeOK
    <3> QED BY <3>1, <3>2 DEF WrongInv, WrongCardUntouched, NoRangeOnWrong
  <2> QED BY <1>5, <2>1, <2>2 DEF Closing
<1>6. ASSUME NEW t \in Threads, Asking(t) \/ Filtering(t) PROVE WrongInv'
  BY <1>6, WrongAsking, WrongFiltering
<1> QED BY <1>1, <1>2, <1>3, <1>4, <1>5, <1>6 DEF Next

-----------------------------------------------------------------------------
(***************************************************************************)
(* Theorems.                                                               *)
(***************************************************************************)
LEMMA FileInitially == Init => FileInv /\ WrongCardUntouched
<1> SUFFICES ASSUME Init PROVE FileInv /\ WrongCardUntouched
  OBVIOUS
<1>1. FileCore
  BY CoreInit
<1>2. WaitInv
  BY DEF Init, FileInit, NucInit, WaitInv, NucTypeOK, RequestHasWaiter
<1>3. IdTypeOK
  BY NoRangeType DEF Init, IdInit, IdTypeOK
<1>4. WrongInv
  BY DEF Init, FileInit, NucInit, IdInit, WrongInv, WrongCardUntouched,
         NoRangeOnWrong
<1>5. RangesAtWork
  BY DEF Init, FileInit, RangesAtWork, Works
<1> QED BY <1>1, <1>2, <1>3, <1>4, <1>5
        DEF FileInv, TypeOK, FileCore, WaitInv, WrongInv

LEMMA FileKept ==
  ASSUME FileInv, WrongCardUntouched, [Next]_vars
  PROVE  FileInv' /\ WrongCardUntouched'
BY CoreKept, WaitKept, IdKept, RangesKept, WrongKept
   DEF FileInv, TypeOK, FileCore, WaitInv, WrongInv

(* In every run of OcbFile: an OCB belongs to the thread that creates it   *)
(* until private_data leads to it, no call finds one half created or freed,*)
(* and a request to the nucleus has a thread that waits for its answer.    *)
THEOREM FileInvariant == Spec => []FileInv
<1>1. FileInv /\ WrongCardUntouched /\ [Next]_vars
        => (FileInv /\ WrongCardUntouched)'
  BY FileKept
<1> QED BY <1>1, FileInitially, PTL DEF Spec

(* The same, for the two things the code relies on in every ioctl and poll:*)
(* the pointer it has read leads to an OCB the nucleus knows.              *)
THEOREM CallsFindLive == Spec => []CallsFindLiveOcb
<1>1. FileInv => CallsFindLiveOcb
  BY DEF FileInv
<1> QED BY <1>1, FileInvariant, PTL

(* CAN_ACTION_CHECK keeps a card with the wrong firmware or hardware from  *)
(* every command but the ones an updater needs.                            *)
THEOREM WrongCard == Spec => []WrongCardUntouched
<1>1. FileInv /\ WrongCardUntouched /\ [Next]_vars
        => (FileInv /\ WrongCardUntouched)'
  BY FileKept
<1> QED BY <1>1, FileInitially, PTL DEF Spec

(* ID_RANGE_ADD is all or nothing in however many pieces, naps and turns   *)
(* of other threads it takes: with success its whole range is on, with an  *)
(* error and a completed undo none of the IDs it had got to is left on.    *)
THEOREM RangeAllOrNothing == Spec => []RangeAddAllOrNothing
<1>1. ASSUME FileInv, NEW t \in Threads, at[t] = "answered", range[t].on,
             range[t].alone
      PROVE  LET r == range[t] IN
             /\ ~r.undo /\ ~Whole(r) =>
                  r.first .. r.last \subseteq filter[mine[t]]
             /\ r.undo /\ r.result = "SUCCESS" =>
                  Piece(r.first, r.added) \cap filter[mine[t]] = {}
  <2> DEFINE r == range[t]
  <2>1. RangeWork(t)
    BY <1>1 DEF FileInv, RangesAtWork, Works
  <2>2. r.first \in Words /\ r.last \in Words
    BY <1>1 DEF FileInv, TypeOK, IdTypeOK, Ranges
  <2>3. CASE ~r.undo /\ ~Whole(r)
    <3>1. /\ r.done = Count(r.first, r.last)
          /\ Piece(r.first, r.done) \subseteq filter[mine[t]]
          /\ r.done > 0 => r.first + r.done <= IdMax + 1
      BY <1>1, <2>1, <2>3 DEF RangeWork, Switching
    <3>2. Count(r.first, r.last) # 0
      BY <2>3 DEF Whole, Count
    <3>3. ASSUME NEW i \in r.first .. r.last PROVE i \in Piece(r.first, r.done)
      <4>1. /\ r.first \in Nat /\ r.last \in Nat /\ i \in Nat
            /\ r.first <= i /\ i <= r.last
        BY <2>2, <3>3, IdAssumption DEF Words
      <4>2. r.done = r.last - r.first + 1
        BY <2>2, <3>1, <3>2, <4>1, CountOfRange
      <4> HIDE DEF r
      <4> QED BY <3>1, <4>1, <4>2, IdAssumption DEF Piece, Ids
    <3> QED BY <2>3, <3>1, <3>3
  <2>4. CASE r.undo /\ r.result = "SUCCESS"
    BY <1>1, <2>1, <2>4 DEF RangeWork
  <2> QED BY <2>3, <2>4
<1>2. FileInv => RangeAddAllOrNothing
  BY <1>1 DEF RangeAddAllOrNothing
<1> QED BY <1>2, FileInvariant, PTL

-----------------------------------------------------------------------------
(***************************************************************************)
(* How an OCB is lost.                                                     *)
(***************************************************************************)
LostStep ==
  \A o \in Ocbs :
    ocb'[o] \in OpenedByNucleus /\ Reachable(o) /\ ~Reachable(o)' =>
      \/ \E t \in Threads : at[t] = "ready" /\ private = o /\ mine[t] # o
      \/ \E t \in Threads : mine[t] = o /\ private \notin {o, NoOcb}

LEMMA NotLost ==
  ASSUME UNCHANGED private,
         \A u \in Threads : mine[u] \in Ocbs => mine'[u] = mine[u]
  PROVE  LostStep
BY DEF LostStep, Reachable

LEMMA LostByLeaving ==
  ASSUME FileCore, NEW t \in Threads, Leave(t), UNCHANGED private,
         mine[t] \in Ocbs /\ ocb'[mine[t]] \in OpenedByNucleus
           => private # NoOcb
  PROVE  LostStep
BY DEF LostStep, Reachable, Leave, FileCore, FileTypeOK

LEMMA LostKept ==
  ASSUME FileCore, [Next]_vars
  PROVE  LostStep
<1>1. ASSUME UNCHANGED <<private, mine>> PROVE LostStep
  BY <1>1, NotLost
<1>2. ASSUME NEW t \in Threads, Leave(t), UNCHANGED private,
             at[t] \in Quiet \cup {"destroy", "create"}
      PROVE  LostStep
  <2>1. mine[t] \in Ocbs => private # NoOcb
    BY <1>2, FileAssumption
       DEF FileCore, FileHasOcb, CreatorOwns, OnOcb, Quiet
  <2> QED BY <1>2, <2>1, LostByLeaving
<1>3. CASE Open \/ UNCHANGED vars
  BY <1>1, <1>3 DEF Open, vars, fileVars, FileCore, ReleaserAlone
<1>4. ASSUME NEW t \in Threads, Ioctl(t) \/ Poll(t) PROVE LostStep
  <2>1. /\ mine[t] = NoOcb
        /\ private' = private /\ mine' = [mine EXCEPT ![t] = private]
    BY <1>4 DEF Ioctl, Poll, Enter, FileCore, CreatorOwns
  <2> QED BY <2>1, NotLost, FileAssumption DEF FileCore, FileTypeOK
<1>5. ASSUME NEW t \in Threads, IoctlReturns(t) \/ PollReturns(t)
      PROVE  LostStep
  BY <1>2, <1>5 DEF IoctlReturns, PollReturns, Quiet
<1>6. ASSUME NEW t \in Threads, Creating(t) PROVE LostStep
  <2>1. CASE CreateFails(t)
    BY <1>2, <2>1 DEF CreateFails
  <2>2. ASSUME NEW o \in Ocbs, CreateAllocates(t, o) PROVE LostStep
    BY <2>2, NotLost, FileAssumption
       DEF CreateAllocates, FileCore, FileTypeOK, CreatorOwns
  <2>3. CASE Create2Abandons(t) \/ Create2Frees(t)
    <3>1. /\ Leave(t) /\ UNCHANGED private
          /\ mine[t] \in Ocbs /\ ocb'[mine[t]] \in {"allocated", "unused"}
      BY <2>3 DEF Create2Abandons, Create2Frees, FileCore, CreatorOwns,
                  FileTypeOK
    <3> QED BY <3>1, LostByLeaving DEF OpenedByNucleus
  <2>4. CASE Create2Opens(t)
    BY <1>1, <2>4 DEF Create2Opens
  <2>5. CASE CreateReady(t)
    BY <2>5 DEF CreateReady, Leave, Go, LostStep, Reachable, FileCore,
                FileTypeOK, CreatorOwns, MakesOcb
  <2> QED BY <1>6, <2>1, <2>2, <2>3, <2>4, <2>5 DEF Creating
<1>7. ASSUME NEW t \in Threads, Closing(t) PROVE LostStep
  <2>1. CASE Destroy(t)
    BY <1>1, <2>1 DEF Destroy
  <2>2. CASE DestroyEnds(t)
    BY <1>2, <2>2 DEF DestroyEnds
  <2>3. CASE Release(t)
    <3>1. CASE private = NoOcb
      BY <1>1, <2>3, <3>1 DEF Release
    <3>2. CASE private # NoOcb
      <4>1. /\ mine' = [mine EXCEPT ![t] = private]
            /\ \A u \in Threads : mine[u] = NoOcb
        BY <2>3, <3>2 DEF Release, FileCore, CreatorOwns
      <4> QED BY <4>1, FileAssumption
              DEF LostStep, Reachable, FileCore, FileTypeOK
    <3> QED BY <3>1, <3>2
  <2>4. CASE ReleaseEnds(t)
    <3>1. /\ Leave(t) /\ UNCHANGED private
          /\ mine[t] \in Ocbs /\ ocb'[mine[t]] = "unused"
      BY <2>4 DEF ReleaseEnds, FileCore, CallsFindLiveOcb, OnOcb, FileTypeOK
    <3> QED BY <3>1, LostByLeaving DEF OpenedByNucleus
  <2> QED BY <1>7, <2>1, <2>2, <2>3, <2>4 DEF Closing
<1>8. ASSUME NEW t \in Threads, Asking(t) PROVE LostStep
  <2>1. CASE UNCHANGED <<private, mine>>
    BY <1>1, <2>1
  <2>2. CASE ~UNCHANGED <<private, mine>>
    <3>1. Leave(t) /\ UNCHANGED private /\ at[t] \in {"entry", "woken"}
      BY <1>8, <2>2 DEF Asking, AskAnswered, AskWaits, AskSleeps, IoctlDone,
                        AskReturns, Dispatched
    <3> QED BY <1>2, <3>1 DEF Quiet
  <2> QED BY <2>1, <2>2
<1>9. ASSUME NEW t \in Threads, Filtering(t) PROVE LostStep
  <2>1. CASE UNCHANGED <<private, mine>>
    BY <1>1, <2>1
  <2>2. CASE ~UNCHANGED <<private, mine>>
    <3>1. Leave(t) /\ UNCHANGED private /\ at[t] \in {"entry", "answered"}
      BY <1>9, <2>2 DEF Filtering, RangeStep, RangeBegin, FilterTurn, NapOver,
                        RangeReturns, Range20B, Region, Dispatched
    <3> QED BY <1>2, <3>1 DEF Quiet
  <2> QED BY <2>1, <2>2
<1> QED
  BY <1>3, <1>4, <1>5, <1>6, <1>7, <1>8, <1>9 DEF Next

(* An OCB the nucleus has opened is lost in one way only, by a second      *)
(* creation on the same file that overwrites private_data.                 *)
THEOREM OcbLostToRival == Spec => LostOnlyToRival
<1>1. FileInv /\ [Next]_vars => [LostStep]_vars
  BY LostKept DEF FileInv, TypeOK, FileCore
<1>2. LostOnlyToRival <=> [][LostStep]_vars
  BY DEF LostOnlyToRival, LostStep
<1> QED BY <1>1, <1>2, FileInvariant, PTL DEF Spec

=============================================================================
