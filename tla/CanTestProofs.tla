---------------------------- MODULE CanTestProofs ----------------------------
(***************************************************************************)
(* Proofs about cantest, for any command lines, any size of its buffers,   *)
(* any number of nets and of children and any answers of the driver: but   *)
(* in tests 54 and 55 no transfer is longer than its buffer, the filter is *)
(* what the user asked for, nothing is left behind, and the children find  *)
(* their handle open.                                                      *)
(***************************************************************************)
EXTENDS CanTest, TLAPS

Setting == {"args", "open", "stamps", "events", "baud", "filter", "standard"}
Helpful == {"help", "status", "describe", "details", "shut"}
Testing == {"loop", "schedule", "family"}

(***************************************************************************)
(* The parts of the inductive invariant.                                   *)
(***************************************************************************)
(* What main() knows of its command line.                                  *)
ArgInv ==
  /\ arg \in Args
  /\ ids.first \in Nat
  /\ pc \in Testing => ids.last <= StdLast
  /\ pc \in Helpful => arg.test < 0
  /\ pc \in Helpful \ {"help"} => net <= MaxNets
  /\ pc = "family" => arg.test = 54
  /\ pc = "schedule" => arg.test # 54
  /\ pc \in Setting => h = 0

(* Who may have left bus load events or a schedule behind.                 *)
CleanInv ==
  /\ pc \in {"args", "open", "stamps", "events"} \cup Helpful => ~busload
  /\ pc \in {"args", "open", "help", "exit"} => handle # "open"
  /\ busload => period # 0 \/ complained
  /\ pc \in {"close", "exit"} /\ busload => complained
  /\ objects = "running" => pc = "schedule" \/ complained
  /\ pc \in Setting \cup Helpful => objects # "running"

(* From the range of the command line to the IDs that are enabled.         *)
Asked == [first |-> arg.first, last |-> AskedLast]

ToEvents(range) ==
  IF arg.test = 4
    THEN [first |-> EvBase + (range.first % (EvLast - EvBase + 1)),
          last  |-> EvBase + (range.last % (EvLast - EvBase + 1))]
    ELSE range

EventsEnabled(range, set) ==
  range.first >= EvBase /\ range.last <= EvLast
    => range.first .. range.last \subseteq set

ExtEnabled(range, set) ==
  /\ range.first <= range.last
  /\ \/ range.last >= ExtBase /\ range.first <= StdLast
     \/ HasExtBit(range.first) /\ HasExtBit(range.last)
  => AllExt \in set

FilterInv ==
  /\ pc \in {"open", "stamps", "events"} => ids = Asked
  /\ pc \in {"baud", "filter", "standard"} => ids = ToEvents(Asked)
  /\ pc \in {"baud", "filter", "standard"} /\ ~complained => EventsEnabled(ids, enabled)
  /\ pc = "standard" /\ ~complained => ExtEnabled(ids, enabled)
  /\ pc \in Testing /\ ~complained => AskedIds \subseteq enabled

(* The clock of test 54.  The children of the first round send before      *)
(* their parent wakes up, and none of them closes the handle before that.  *)
Sends(c) == kid[c].place = "sending"
Lives(c) == kid[c].place \in {"sending", "closing"}

FamilyInv ==
  /\ \A c \in Kids : kid[c].place # "none" => arg.test = 54
  /\ arg.test = 54 => testcount # -1
  /\ pc \in {"stamps", "events", "baud", "filter", "standard"} => handle = "open"
  /\ h = 0 /\ pc # "family" => now = 0 /\ \A c \in Kids : ~Lives(c)
  /\ h = 0 /\ arg.test = 54 /\ pc = "loop" => handle = "open"
  /\ pc = "family" => now <= alarm /\ ParentSleep <= alarm
  /\ h > 0 /\ arg.test = 54 => ParentSleep <= now
  /\ \A c \in Kids : Lives(c) => now <= kid[c].wakes
  /\ \A c \in Kids : c[1] = 0 /\ Sends(c)
       => kid[c].wakes < ParentSleep /\ handle = "open"
  /\ \A c \in Kids : kid[c].place = "closing" => ParentSleep <= kid[c].wakes

(* What main() limits its count to.  It keeps to this limit always; in     *)
(* tests 54 and 55 the limit is not the size of txmsg[].                   *)
Limit == [tx |-> IF arg.test \in {54, 55} THEN MaxRx ELSE MaxTx,
          rx |-> MaxRx,
          event |-> 1]

Limited == handed.len <= Limit[handed.buffer]

Sound == TypeOK /\ Limited

CanTestIInv == Sound /\ ArgInv /\ CleanInv /\ FilterInv /\ FamilyInv

-----------------------------------------------------------------------------
(***************************************************************************)
(* Facts about the parameters.                                             *)
(***************************************************************************)
LEMMA CountFits ==
  ASSUME NEW t \in Int, NEW n \in Int
  PROVE  /\ Count(t, n) \in Nat
         /\ IsSendTest(t) \/ IsWriteTest(t) \/ t = 5 => Count(t, n) <= MaxTx
         /\ t # 124 => Count(t, n) <= MaxRx
<1>1. Magnitude(n) \in Nat
  BY DEF Magnitude
<1>2. MaxTx \in Nat /\ MaxRx \in Nat /\ MaxTx <= MaxRx
  BY ConfigAssumption
<1>3. \A a, b \in Nat : Smaller(a, b) \in Nat /\ Smaller(a, b) <= b
  BY DEF Smaller
<1>4. /\ Smaller(Magnitude(n), MaxTx) \in Nat /\ Smaller(Magnitude(n), MaxTx) <= MaxTx
      /\ Smaller(Magnitude(n), MaxRx) \in Nat /\ Smaller(Magnitude(n), MaxRx) <= MaxRx
  BY <1>1, <1>2, <1>3
<1>5. CASE IsSendTest(t) \/ IsWriteTest(t) \/ t = 5
  BY <1>2, <1>4, <1>5 DEF Count
<1>6. CASE ~(IsSendTest(t) \/ IsWriteTest(t) \/ t = 5)
  BY <1>1, <1>4, <1>6 DEF Count
<1> QED BY <1>5, <1>6

(* The events are aligned to their number, a power of two.                 *)
LEMMA EventNumber ==
  ASSUME NEW d \in 0 .. EvLast - EvBase
  PROVE  /\ d % (EvLast - EvBase + 1) = d
         /\ (EvBase + d) % (EvLast - EvBase + 1) = d
<1> DEFINE N == EvLast - EvBase + 1
           q == EvBase \div N
<1>1. EvBase \in Nat /\ N \in Nat /\ N >= 1 /\ EvBase % N = 0 /\ d \in 0 .. N - 1
  BY ConfigAssumption
<1> HIDE DEF N
<1>2. EvBase = q * N /\ q \in Nat
  BY <1>1
<1> HIDE DEF q
<1>3. \A i \in Nat, j \in Nat : i * N + j = d /\ j < N => j = d
  <2> SUFFICES ASSUME NEW i \in Nat, NEW j \in Nat, i * N + j = d, j < N
               PROVE  j = d
    OBVIOUS
  <2>1. CASE i = 0
    BY <2>1, <1>1
  <2>2. CASE i # 0
    <3>1. i * N >= N
      BY <2>2, <1>1
    <3> QED BY <3>1, <1>1
  <2> QED BY <2>1, <2>2
<1>4. d = (d \div N) * N + (d % N) /\ d \div N \in Nat /\ d % N \in 0 .. N - 1
  BY <1>1
<1>5. d % N = d
  BY <1>3, <1>4, <1>1
<1>6. (q * N + d) % N = d
  <2> DEFINE x == q * N + d
             p == x \div N
  <2>1. q * N \in Nat
    BY <1>1, <1>2
  <2>2. x \in Nat
    BY <2>1, <1>1
  <2> HIDE DEF x
  <2>3. x = p * N + (x % N) /\ p \in Nat /\ x % N \in 0 .. N - 1
    BY <2>2, <1>1
  <2> HIDE DEF p
  <2>4. (p - q) * N = p * N - q * N /\ p * N \in Nat
    BY <2>3, <1>1, <1>2
  <2>5. p * N + (x % N) = q * N + d
    BY <2>3 DEF x
  <2>6. p = q
    <3>1. CASE p - q >= 1
      <4>1. (p - q) * N >= N
        BY <3>1, <1>1, <1>2, <2>3
      <4> QED BY <4>1, <2>1, <2>3, <2>4, <2>5, <1>1
    <3>2. CASE q - p >= 1
      <4>1. (q - p) * N >= N
        BY <3>2, <1>1, <1>2, <2>3
      <4>2. (q - p) * N = q * N - p * N
        BY <1>1, <1>2, <2>3
      <4> QED BY <4>1, <4>2, <2>1, <2>3, <2>4, <2>5, <1>1
    <3> QED BY <3>1, <3>2, <1>2, <2>3
  <2>7. x % N = d
    BY <2>1, <2>3, <2>5, <2>6, <1>1
  <2> QED BY <2>7 DEF x
<1> QED BY <1>2, <1>5, <1>6 DEF N

LEMMA EventRange ==
  ASSUME NEW x \in Nat
  PROVE  x % (EvLast - EvBase + 1) \in 0 .. EvLast - EvBase
<1> DEFINE N == EvLast - EvBase + 1
<1>1. N \in Nat /\ N >= 1 /\ N - 1 = EvLast - EvBase
  BY ConfigAssumption
<1> HIDE DEF N
<1>2. x % N \in 0 .. N - 1
  BY <1>1
<1> QED BY <1>1, <1>2 DEF N

-----------------------------------------------------------------------------
(***************************************************************************)
(* One turn of the loop that is neither a fork nor a schedule: the handle  *)
(* may be closed (test 55), a transfer fits, and the set-up is not touched.*)
(***************************************************************************)
Transfers == [buffer : {"tx", "rx", "event"}, len : Int]

Fits(transfer) == transfer \in Transfers /\ transfer.len <= Limit[transfer.buffer]

OneTurn ==
  /\ pc = "loop" /\ arg.test # 54
  /\ pc' \in {"loop", "drain", "gone"}
  /\ exit' \in {exit, 1}
  /\ handle' \in {handle, "closed"}
  /\ ret' \in Results
  /\ h' \in {h, h + 1}
  /\ objects' \in {objects, "none", "created", "answering"}
  /\ handed' = handed \/ Fits(handed')
  /\ UNCHANGED <<arg, mode, ids, period, enabled, rate, busload, complained,
                 testcount, k, forkVars, net>>

LEMMA TurnResults ==
  ASSUME NEW r \in Answers \cup ReadAnswers
  PROVE  r \in Results
BY DEF Answers, ReadAnswers, Results

LEMMA MaxcountFits ==
  ASSUME TypeOK, ArgInv
  PROVE  /\ Maxcount \in Int
         /\ arg.test \in {0, 50, 90, 20, 21, 60, 61, 1, 31, 41, 51, 100, 110}
              => Maxcount <= MaxTx
         /\ arg.test # 124 => Maxcount <= MaxRx
<1>1. arg.test \in Int /\ arg.count \in Int
  BY ArgsAssumption DEF ArgInv
<1>2. arg.test \in {0, 50, 90, 20, 21, 60, 61, 1, 31, 41, 51, 100, 110}
        => arg.test % 10 = 0 \/ arg.test % 10 = 1
  <2>1. /\ 0 % 10 = 0 /\ 50 % 10 = 0 /\ 90 % 10 = 0 /\ 20 % 10 = 0
        /\ 21 % 10 = 1 /\ 60 % 10 = 0 /\ 61 % 10 = 1 /\ 1 % 10 = 1
        /\ 31 % 10 = 1 /\ 41 % 10 = 1 /\ 51 % 10 = 1 /\ 100 % 10 = 0
        /\ 110 % 10 = 0
    OBVIOUS
  <2> QED BY <2>1
<1>3. /\ Maxcount \in Nat
      /\ IsSendTest(arg.test) \/ IsWriteTest(arg.test) => Maxcount <= MaxTx
      /\ arg.test # 124 => Maxcount <= MaxRx
  BY <1>1, CountFits DEF Maxcount
<1> QED BY <1>2, <1>3 DEF IsSendTest, IsWriteTest

LEMMA ObjectLenFits ==
  ASSUME TypeOK, ArgInv, pc = "loop"
  PROVE  ObjectLen \in Int /\ ObjectLen <= MaxRx
<1>1. ids.first \in Nat /\ ids.last \in Int /\ ids.last <= StdLast
  BY DEF TypeOK, ArgInv, Testing
<1> QED BY <1>1, ConfigAssumption DEF ObjectLen

(* A transfer into or from one of the buffers.                             *)
LEMMA TransferFits ==
  ASSUME NEW n \in Int, NEW b \in {"tx", "rx", "event"}, n <= Limit[b]
  PROVE  Fits([buffer |-> b, len |-> n])
BY DEF Fits, Transfers

LEMMA TxFits ==
  ASSUME NEW n \in Int, n <= MaxTx \/ (arg.test = 55 /\ n <= MaxRx)
  PROVE  Fits([buffer |-> "tx", len |-> n])
<1>1. n <= Limit["tx"]
  BY ConfigAssumption DEF Limit
<1> QED BY <1>1, TransferFits

LEMMA RxFits ==
  ASSUME NEW n \in Int, n <= MaxRx
  PROVE  Fits([buffer |-> "rx", len |-> n])
<1>1. n <= Limit["rx"]
  BY DEF Limit
<1> QED BY <1>1, TransferFits

LEMMA EventFits == Fits([buffer |-> "event", len |-> 1])
BY DEF Fits, Transfers, Limit

LEMMA TransmittingFacts ==
  ASSUME TypeOK, ArgInv, Transmitting, UNCHANGED net
  PROVE  OneTurn
<1> USE DEF Case, Hands, Turn, Goto, Same, handleVars, forkVars, OneTurn
<1>1. CASE TestSend
  <2>1. Fits(handed')
    BY <1>1, MaxcountFits, TxFits DEF TestSend
  <2> QED BY <1>1, <2>1, TurnResults DEF TestSend
<1>2. CASE TestSendStamped
  <2>1. Fits(handed')
    BY <1>2, MaxcountFits, TxFits DEF TestSendStamped
  <2> QED BY <1>2, <2>1, TurnResults DEF TestSendStamped
<1>3. CASE TestWrite
  <2>1. Fits(handed')
    BY <1>3, MaxcountFits, TxFits DEF TestWrite
  <2> QED BY <1>3, <2>1, TurnResults DEF TestWrite
<1>4. CASE TestSendEvent
  BY <1>4, EventFits, TurnResults DEF TestSendEvent
<1> QED BY <1>1, <1>2, <1>3, <1>4 DEF Transmitting

LEMMA ReceivingFacts ==
  ASSUME TypeOK, ArgInv, Receiving, UNCHANGED net
  PROVE  OneTurn
<1> USE DEF Case, Hands, Turn, Goto, Same, handleVars, forkVars, OneTurn
<1>0. 1 <= MaxRx /\ 1 <= MaxTx
  BY ConfigAssumption
<1>1. CASE TestTake
  <2>1. Fits(handed')
    BY <1>1, MaxcountFits, ObjectLenFits, RxFits DEF TestTake
  <2> QED BY <1>1, <2>1, TurnResults DEF TestTake
<1>2. CASE TestTakeStamped
  <2>1. Fits(handed')
    BY <1>2, MaxcountFits, ObjectLenFits, RxFits DEF TestTakeStamped
  <2> QED BY <1>2, <2>1, TurnResults DEF TestTakeStamped
<1>3. CASE TestRead
  <2>1. Fits(handed')
    BY <1>3, MaxcountFits, RxFits DEF TestRead
  <2> QED BY <1>3, <2>1, TurnResults DEF TestRead
<1>4. CASE WrongFrame
  <2>1. Fits(handed')
    BY <1>4, MaxcountFits, RxFits DEF WrongFrame
  <2>2. ret' \in Results
    BY <1>4 DEF WrongFrame, TypeOK
  <2> QED BY <1>4, <2>1, <2>2 DEF WrongFrame
<1>5. CASE TestReadStamped
  <2>1. Fits(handed')
    BY <1>5, MaxcountFits, RxFits DEF TestReadStamped
  <2> QED BY <1>5, <2>1, TurnResults DEF TestReadStamped
<1>6. CASE TestReadEvent
  BY <1>6, EventFits, TurnResults DEF TestReadEvent
<1>7. CASE TestRemote
  <2>1. Fits([buffer |-> "tx", len |-> 1])
    BY <1>0, TxFits
  <2>2. Fits([buffer |-> "rx", len |-> Maxcount])
    BY <1>7, MaxcountFits, RxFits DEF TestRemote
  <2> QED BY <1>7, <2>1, <2>2, TurnResults DEF TestRemote
<1>8. CASE TestEcho
  <2>1. Fits([buffer |-> "rx", len |-> 1])
    BY <1>0, RxFits
  <2> QED BY <1>8, <2>1, TurnResults DEF TestEcho
<1> QED BY <1>1, <1>2, <1>3, <1>4, <1>5, <1>6, <1>7, <1>8 DEF Receiving

LEMMA AskingFacts ==
  ASSUME TypeOK, ArgInv, Asking, UNCHANGED net
  PROVE  OneTurn
BY TurnResults
   DEF Asking, QueryTimestamp, QueryHwTimestamp, QueryStatistic, ResetStatistic,
       QueryBitrate, QueryMonotony, Query, Case, Turn, Goto, Same, handleVars,
       forkVars, OneTurn

LEMMA AutoAnswerFacts ==
  ASSUME TypeOK, ArgInv, AutoAnswer, UNCHANGED net
  PROVE  OneTurn
BY DEF AutoAnswer, Case, Turn, Goto, Same, handleVars, forkVars, OneTurn, Results

LEMMA CloseAndSendFacts ==
  ASSUME TypeOK, ArgInv, CloseAndSend, UNCHANGED net
  PROVE  OneTurn
<1>1. Fits(handed')
  BY MaxcountFits, TxFits DEF CloseAndSend, Case, Hands
<1> QED BY <1>1
        DEF CloseAndSend, Case, Turn, Goto, forkVars, OneTurn, Results

(* The descriptions of the nets by help().                                 *)
OneHelp ==
  /\ arg.test < 0
  /\ pc \in {"args"} \cup Helpful
  /\ pc' \in Helpful \cup {"exit"}
  /\ pc' \in {"help", "exit"} => handle' # "open" \/ (handle' = handle /\ pc = "help")
  /\ handle' \in {handle, "open", "closed"}
  /\ exit' \in {exit, 0, -1}
  /\ net' \in 0 .. MaxNets + 1
  /\ pc' \in Helpful \ {"help"} => net' <= MaxNets
  /\ HelpRest

LEMMA HelpFacts ==
  ASSUME TypeOK, ArgInv, CleanInv, Helping
  PROVE  OneHelp
<1> USE DEF Helpful, OneHelp, Goto
<1>0. MaxNets \in Nat /\ net \in 0 .. MaxNets + 1
  BY NetsAssumption DEF TypeOK
<1>1. CASE HelpStarts
  BY <1>0, <1>1 DEF HelpStarts, CleanInv
<1>2. CASE HelpOpens
  BY <1>0, <1>2 DEF HelpOpens, ArgInv
<1>3. CASE HelpStatus
  BY <1>0, <1>3 DEF HelpStatus, ArgInv
<1>4. CASE HelpDescribes
  BY <1>0, <1>4 DEF HelpDescribes, ArgInv
<1>5. CASE HelpDetails
  BY <1>0, <1>5 DEF HelpDetails, ArgInv
<1>6. CASE HelpCloses
  BY <1>0, <1>6 DEF HelpCloses, ArgInv
<1>7. CASE HelpEnds
  BY <1>0, <1>7 DEF HelpEnds, ArgInv
<1> QED BY <1>1, <1>2, <1>3, <1>4, <1>5, <1>6, <1>7 DEF Helping

-----------------------------------------------------------------------------
(***************************************************************************)
(* Every kind of step keeps every part of the invariant.                   *)
(***************************************************************************)
Plain == /\ Transmitting \/ Receiving \/ Asking \/ AutoAnswer \/ CloseAndSend
         /\ UNCHANGED net

LEMMA PlainFacts ==
  ASSUME TypeOK, ArgInv, Plain
  PROVE  OneTurn
BY TransmittingFacts, ReceivingFacts, AskingFacts, AutoAnswerFacts,
   CloseAndSendFacts DEF Plain

(* Without test 54 there are no children and no clock.                     *)
LEMMA NoFamily ==
  ASSUME FamilyInv, arg.test # 54, pc # "family", pc' # "family",
         UNCHANGED <<arg, now, kid>>, h' = 0 => h = 0,
         pc' \in {"stamps", "events", "baud", "filter", "standard"}
           => handle' = "open"
  PROVE  FamilyInv'
<1>1. \A c \in Kids : kid[c].place = "none"
  BY DEF FamilyInv
<1>2. \A c \in Kids : kid'[c].place = "none"
  BY <1>1
<1>3. h' = 0 => now' = 0
  BY DEF FamilyInv
<1>4. \A c \in Kids : ~Lives(c)' /\ ~Sends(c)'
  BY <1>2 DEF Lives, Sends
<1> QED BY <1>2, <1>3, <1>4 DEF FamilyInv

LEMMA TurnKept ==
  ASSUME CanTestIInv, OneTurn
  PROVE  CanTestIInv'
<1> USE DEF CanTestIInv, OneTurn, forkVars
<1>1. TypeOK'
  <2>1. h' \in Nat
    BY DEF TypeOK, Sound
  <2>2. handed' \in [buffer : {"tx", "rx", "event"}, len : Int]
    BY DEF TypeOK, Sound, Fits, Transfers
  <2>3. objects' \in ObjectStates
    BY DEF TypeOK, Sound, ObjectStates
  <2>4. exit' \in {-1, 0, 1} /\ pc' \in Places /\ handle' \in {"none", "open", "closed"}
    BY DEF TypeOK, Sound, Places
  <2> QED BY <2>1, <2>2, <2>3, <2>4 DEF TypeOK, Sound
<1>2. Limited'
  <2>1. Limit' = Limit
    BY DEF Limit
  <2>2. handed'.len <= Limit[handed'.buffer]
    BY DEF Sound, Limited, Fits
  <2> QED BY <2>1, <2>2 DEF Limited
<1>3. ArgInv'
  BY DEF ArgInv, Testing, Helpful, Setting
<1>4. CleanInv'
  BY DEF CleanInv, Helpful, Setting
<1>5. FilterInv'
  BY DEF FilterInv, Testing, AskedIds, AskedLast
<1>6. FamilyInv'
  <2>1. h' = 0 => h = 0
    BY DEF Sound, TypeOK
  <2> QED BY <2>1, NoFamily
<1> QED BY <1>1, <1>2, <1>3, <1>4, <1>5, <1>6 DEF Sound

LEMMA HelpKept ==
  ASSUME CanTestIInv, OneHelp
  PROVE  CanTestIInv'
<1> USE DEF CanTestIInv, OneHelp, HelpRest, forkVars
<1>1. TypeOK'
  <2>1. /\ exit' \in {-1, 0, 1} /\ pc' \in Places
        /\ handle' \in {"none", "open", "closed"}
    BY DEF TypeOK, Sound, Places, Helpful
  <2> QED BY <2>1 DEF TypeOK, Sound
<1>2. Limited'
  BY DEF Sound, Limited, Limit
<1>3. ArgInv'
  BY DEF ArgInv, Testing, Helpful, Setting
<1>4. CleanInv'
  BY DEF CleanInv, Helpful, Setting
<1>5. FilterInv'
  BY DEF FilterInv, Testing, Helpful
<1>6. FamilyInv'
  <2>1. arg.test # 54
    BY DEF Sound, TypeOK
  <2> QED BY <2>1, NoFamily DEF Helpful
<1> QED BY <1>1, <1>2, <1>3, <1>4, <1>5, <1>6 DEF Sound

-----------------------------------------------------------------------------
(***************************************************************************)
(* The set-up of the filter.                                               *)
(***************************************************************************)
LEMMA AddIdsFacts ==
  ASSUME TypeOK, NEW first \in Int, NEW last \in Int, AddIds(first, last)
  PROVE  /\ enabled \subseteq enabled'
         /\ enabled' \subseteq Int
         /\ complained' \in {complained, TRUE}
         /\ complained' = FALSE => first .. last \subseteq enabled'
<1>1. enabled \subseteq Int /\ complained \in BOOLEAN
  BY DEF TypeOK
<1>2. CASE enabled' = enabled \cup (first .. last) /\ UNCHANGED complained
  BY <1>1, <1>2
<1>3. CASE \E stop \in first .. last :
             /\ enabled' = enabled \cup (first .. (stop - 1))
             /\ complained' = TRUE
  BY <1>1, <1>3
<1> QED BY <1>2, <1>3 DEF AddIds

LEMMA AskedType ==
  ASSUME TypeOK, ArgInv
  PROVE  /\ arg.first \in Nat /\ AskedLast \in Nat
         /\ Asked.first = arg.first /\ Asked.last = AskedLast
         /\ ToEvents(Asked) \in [first : Nat, last : Nat]
<1>1. arg.first \in Nat /\ arg.last \in Nat
  BY ArgsAssumption DEF ArgInv
<1>2. AskedLast \in Nat
  BY <1>1 DEF AskedLast
<1>3. EvBase \in Nat
  BY ConfigAssumption
<1>4. /\ arg.first % (EvLast - EvBase + 1) \in Nat
      /\ AskedLast % (EvLast - EvBase + 1) \in Nat
  BY <1>1, <1>2, EventRange
<1>5. ToEvents(Asked) \in [first : Nat, last : Nat]
  BY <1>1, <1>2, <1>3, <1>4 DEF ToEvents, Asked
<1> QED BY <1>1, <1>2, <1>5 DEF Asked

(* Test 4 takes events, or the numbers of events.                          *)
LEMMA EventsOfTest4 ==
  ASSUME arg.test = 4, NEW x \in Nat
  PROVE  /\ x \in EvBase .. EvLast => EvBase + (x % (EvLast - EvBase + 1)) = x
         /\ x \in 0 .. EvLast - EvBase
              => EvBase + (x % (EvLast - EvBase + 1)) = EvBase + x
         /\ EvBase + (x % (EvLast - EvBase + 1)) \in EvBase .. EvLast
<1>1. EvBase \in Nat /\ EvLast \in Nat
  BY ConfigAssumption
<1>2. ASSUME x \in EvBase .. EvLast
      PROVE  EvBase + (x % (EvLast - EvBase + 1)) = x
  <2>1. x - EvBase \in 0 .. EvLast - EvBase /\ EvBase + (x - EvBase) = x
    BY <1>1, <1>2
  <2>2. (EvBase + (x - EvBase)) % (EvLast - EvBase + 1) = x - EvBase
    BY <2>1, EventNumber
  <2>3. x % (EvLast - EvBase + 1) = x - EvBase
    BY <2>1, <2>2
  <2> QED BY <2>1, <2>3
<1>3. ASSUME x \in 0 .. EvLast - EvBase
      PROVE  EvBase + (x % (EvLast - EvBase + 1)) = EvBase + x
  BY <1>3, EventNumber
<1>4. EvBase + (x % (EvLast - EvBase + 1)) \in EvBase .. EvLast
  <2>1. x % (EvLast - EvBase + 1) \in 0 .. EvLast - EvBase
    BY EventRange
  <2> QED BY <2>1, <1>1
<1> QED BY <1>2, <1>3, <1>4

(* With an acceptance code and mask there is no ID of the range to enable. *)
LEMMA CodesAskNothing ==
  ASSUME TypeOK, ArgInv,
         IsCode(ToEvents(Asked).first), IsCode(ToEvents(Asked).last)
  PROVE  AskedIds = {}
<1>1. arg.first \in Nat /\ AskedLast \in Nat
  BY AskedType
<1>2. /\ {StdLast, ExtBase, EvBase, EvLast, CodeBase} \subseteq Nat
      /\ StdLast < ExtBase /\ ExtBase < EvBase /\ EvBase <= EvLast
      /\ EvLast < CodeBase
  BY ConfigAssumption
<1>3. arg.test # 4
  <2> SUFFICES ASSUME arg.test = 4 PROVE FALSE
    OBVIOUS
  <2>1. ToEvents(Asked).first \in EvBase .. EvLast
    BY <1>1, EventsOfTest4 DEF ToEvents, Asked
  <2> QED BY <2>1, <1>2 DEF IsCode
<1>4. CodeBase <= arg.first /\ CodeBase <= AskedLast
  BY <1>3 DEF ToEvents, Asked, IsCode
<1>5. arg.first \notin EvBase .. EvLast /\ AskedLast \notin ExtBase .. (EvBase - 1)
  BY <1>1, <1>2, <1>4
<1>6. (arg.first .. AskedLast) \cap 0 .. StdLast = {}
  BY <1>1, <1>2, <1>4
<1> QED BY <1>3, <1>5, <1>6 DEF AskedIds

(* What the three parts of the filter enable is what was asked for.        *)
LEMMA FilterDone ==
  ASSUME TypeOK, ArgInv, NEW set, NEW r, r = ToEvents(Asked),
         EventsEnabled(r, set), ExtEnabled(r, set),
         r.first .. Smaller(r.last, StdLast) \subseteq set
  PROVE  AskedIds \subseteq set
<1>1. arg.first \in Nat /\ AskedLast \in Nat
  BY AskedType
<1>2. /\ {StdLast, ExtBase, EvBase, EvLast, CodeBase} \subseteq Nat
      /\ StdLast < ExtBase /\ ExtBase < EvBase /\ EvBase <= EvLast
      /\ EvLast < CodeBase
  BY ConfigAssumption
<1> DEFINE events == EvBase .. EvLast
           numbers == 0 .. (EvLast - EvBase)
           range == arg.first .. AskedLast
<1>3. CASE {arg.first, AskedLast} \subseteq events
  <2>1. AskedIds = range
    BY <1>3 DEF AskedIds
  <2>2. r.first = arg.first /\ r.last = AskedLast
    BY <1>1, <1>3, EventsOfTest4 DEF ToEvents, Asked
  <2> QED BY <1>1, <1>2, <1>3, <2>1, <2>2 DEF EventsEnabled
<1>4. CASE ~({arg.first, AskedLast} \subseteq events) /\ arg.test = 4
  <2>1. CASE {arg.first, AskedLast} \subseteq numbers
    <3>1. AskedIds = {EvBase + id : id \in range}
      BY <1>4, <2>1 DEF AskedIds
    <3>2. r.first = EvBase + arg.first /\ r.last = EvBase + AskedLast
      BY <1>1, <1>4, <2>1, EventsOfTest4 DEF ToEvents, Asked
    <3>3. r.first .. r.last \subseteq set
      BY <1>1, <1>2, <2>1, <3>2 DEF EventsEnabled
    <3> QED BY <1>1, <1>2, <3>1, <3>2, <3>3
  <2>2. CASE ~({arg.first, AskedLast} \subseteq numbers)
    BY <1>4, <2>2 DEF AskedIds
  <2> QED BY <2>1, <2>2
<1>5. CASE ~({arg.first, AskedLast} \subseteq events) /\ arg.test # 4
  <2>1. r.first = arg.first /\ r.last = AskedLast
    BY <1>5 DEF ToEvents, Asked
  <2>2. range \cap 0 .. StdLast \subseteq set
    <3> SUFFICES ASSUME NEW id \in range, id <= StdLast PROVE id \in set
      BY <1>2
    <3>1. id \in arg.first .. Smaller(AskedLast, StdLast)
      BY <1>1, <1>2 DEF Smaller
    <3> QED BY <2>1, <3>1
  <2>3. ASSUME /\ AskedLast \in ExtBase .. (EvBase - 1)
               /\ arg.first \in (0 .. StdLast) \cup (ExtBase .. AskedLast)
        PROVE  AllExt \in set
    <3>1. arg.first <= AskedLast
      BY <1>1, <1>2, <2>3
    <3>2. CASE arg.first \in 0 .. StdLast
      BY <1>1, <1>2, <2>1, <2>3, <3>1, <3>2 DEF ExtEnabled
    <3>3. CASE arg.first \in ExtBase .. AskedLast
      <4>1. HasExtBit(arg.first) /\ HasExtBit(AskedLast)
        BY <1>1, <1>2, <2>3, <3>3 DEF HasExtBit
      <4> QED BY <2>1, <3>1, <4>1 DEF ExtEnabled
    <3> QED BY <2>3, <3>2, <3>3
  <2> QED BY <1>5, <2>2, <2>3 DEF AskedIds
<1> QED BY <1>3, <1>4, <1>5

-----------------------------------------------------------------------------
(***************************************************************************)
(* The steps of the set-up.                                                *)
(***************************************************************************)
SetupStep == Setup /\ UNCHANGED <<caseVars, forkVars, net>>

(* What the steps of the set-up have in common.                            *)
OneSetup ==
  /\ pc \in Setting
  /\ pc' \in Setting \cup {"loop", "gone"}
  /\ pc' \in {"args", "open"} => handle' = handle /\ pc \in {"args", "open"}
  /\ pc' \in {"stamps", "events", "baud", "filter", "standard"}
        => handle' = "open" \/ (handle' = handle /\ pc \notin {"args", "open"})
  /\ pc' = "loop" => handle' = handle /\ pc \in {"filter", "standard"}
  /\ handle' \in {handle, "open"}
  /\ exit' \in {exit, -1}
  /\ UNCHANGED <<arg, caseVars, forkVars, net>>

LEMMA SetupFacts ==
  ASSUME SetupStep
  PROVE  OneSetup
<1> USE DEF SetupStep, OneSetup, Setting, Goto, GiveUp, handleVars
<1>1. CASE ArgsRefused \/ ArgsParsed
  BY <1>1 DEF ArgsRefused, ArgsParsed
<1>2. CASE OpenSucceeds \/ OpenFails
  BY <1>2 DEF OpenSucceeds, OpenFails
<1>3. CASE CheckStamps
  BY <1>3 DEF CheckStamps
<1>4. CASE ConfigureEvents
  BY <1>4 DEF ConfigureEvents
<1>5. CASE ConfigureBaud
  BY <1>5 DEF ConfigureBaud
<1>6. CASE FilterByCode
  BY <1>6 DEF FilterByCode
<1>7. CASE FilterExt
  BY <1>7 DEF FilterExt
<1>8. CASE FilterStd
  BY <1>8 DEF FilterStd
<1> QED BY <1>1, <1>2, <1>3, <1>4, <1>5, <1>6, <1>7, <1>8 DEF Setup

(* The variables only the set-up writes.                                   *)
SetupVarsOK ==
  /\ mode \subseteq {"MARK_INTERACTION", "NO_INTERACTION", "LOCAL_ECHO", "FD",
                     "OBJECT", "TIMESTAMPED_TX"}
  /\ ids \in [first : Nat, last : Int]
  /\ period \in Int
  /\ enabled \subseteq Int
  /\ rate \in {"none", "DISABLE", "AUTOBAUD", "NUM", "BTR", "INDEX"}
  /\ {busload, complained} \subseteq BOOLEAN

LEMMA ConfigureEventsFacts ==
  ASSUME TypeOK, ArgInv, ConfigureEvents, ids = Asked
  PROVE  /\ ids' = ToEvents(Asked) /\ ids' \in [first : Nat, last : Nat]
         /\ enabled' \subseteq Int
         /\ complained' \in {complained, TRUE}
         /\ complained' = FALSE => EventsEnabled(ids', enabled')
         /\ period' \in Int
         /\ busload' \in BOOLEAN
         /\ busload' => busload \/ period' # 0
<1>1. ids' = ToEvents(Asked)
  BY DEF ConfigureEvents, EventIds, ToEvents
<1>2. ids' \in [first : Nat, last : Nat]
  BY <1>1, AskedType
<1>3. ids' = EventIds
  BY DEF ConfigureEvents
<1>4. arg.txtout \in Int
  BY ArgsAssumption DEF ArgInv
<1>5. enabled \subseteq Int /\ period \in Int /\ busload \in BOOLEAN
  BY DEF TypeOK
<1>6. \/ /\ ids'.last <= EvLast /\ ids'.first >= EvBase
         /\ ids'.first <= ids'.last
         /\ AddIds(ids'.first, ids'.last)
      \/ /\ ~(ids'.last <= EvLast /\ ids'.first >= EvBase) \/ ~(ids'.first <= ids'.last)
         /\ UNCHANGED <<enabled, complained>>
  BY <1>3 DEF ConfigureEvents
<1>7. /\ enabled' \subseteq Int
      /\ complained' \in {complained, TRUE}
      /\ complained' = FALSE => EventsEnabled(ids', enabled')
  <2>1. CASE AddIds(ids'.first, ids'.last)
    <3>1. ids'.first \in Int /\ ids'.last \in Int
      BY <1>2
    <3>2. /\ enabled' \subseteq Int
          /\ complained' \in {complained, TRUE}
          /\ complained' = FALSE => ids'.first .. ids'.last \subseteq enabled'
      BY <2>1, <3>1, AddIdsFacts
    <3> QED BY <3>2 DEF EventsEnabled
  <2>2. CASE /\ ~(ids'.last <= EvLast /\ ids'.first >= EvBase)
                \/ ~(ids'.first <= ids'.last)
             /\ UNCHANGED <<enabled, complained>>
    BY <1>2, <1>5, <2>2 DEF EventsEnabled
  <2> QED BY <1>6, <2>1, <2>2
<1>8. \/ period' = arg.txtout /\ busload' = busload
      \/ period' = arg.txtout /\ busload' = (arg.txtout # 0)
      \/ UNCHANGED <<period, busload>>
  BY DEF ConfigureEvents
<1>9. period' \in Int /\ busload' \in BOOLEAN /\ (busload' => busload \/ period' # 0)
  <2>1. CASE period' = arg.txtout /\ busload' = busload
    BY <1>4, <1>5, <2>1
  <2>2. CASE period' = arg.txtout /\ busload' = (arg.txtout # 0)
    <3>1. busload' \in BOOLEAN
      BY <2>2, Zenon
    <3>2. busload' => period' # 0
      BY <2>2
    <3> QED BY <1>4, <2>2, <3>1, <3>2
  <2>3. CASE UNCHANGED <<period, busload>>
    BY <1>5, <2>3
  <2> QED BY <1>8, <2>1, <2>2, <2>3
<1> QED BY <1>1, <1>2, <1>7, <1>9

LEMMA SetupTyped ==
  ASSUME CanTestIInv, SetupStep
  PROVE  SetupVarsOK'
<1> USE DEF SetupStep
<1>0. TypeOK /\ ArgInv /\ FilterInv /\ SetupVarsOK
  <2>1. ids \in [first : Nat, last : Int]
    BY DEF CanTestIInv, Sound, TypeOK, ArgInv
  <2> QED BY <2>1 DEF CanTestIInv, Sound, TypeOK, SetupVarsOK
<1>1. CASE ArgsRefused \/ OpenSucceeds \/ CheckStamps
  BY <1>0, <1>1 DEF ArgsRefused, OpenSucceeds, CheckStamps, handleVars, SetupVarsOK
<1>2. CASE ArgsParsed
  <2>1. arg.first \in Nat /\ arg.last \in Nat
    BY <1>0, ArgsAssumption DEF ArgInv
  <2>2. ids' \in [first : Nat, last : Int]
    BY <1>2, <2>1 DEF ArgsParsed
  <2> QED BY <1>0, <1>2, <2>2
          DEF ArgsParsed, handleVars, SetupVarsOK, Mode, InteractionMode, TestMode
<1>3. CASE OpenFails
  BY <1>0, <1>3 DEF OpenFails, handleVars, SetupVarsOK
<1>4. CASE ConfigureEvents
  <2>1. ids = Asked
    BY <1>0, <1>4 DEF ConfigureEvents, FilterInv
  <2>2. UNCHANGED <<mode, rate>>
    BY <1>4 DEF ConfigureEvents
  <2>3. /\ ids' \in [first : Nat, last : Nat] /\ enabled' \subseteq Int
        /\ complained' \in {complained, TRUE}
        /\ period' \in Int /\ busload' \in BOOLEAN
    BY <1>0, <1>4, <2>1, ConfigureEventsFacts
  <2>4. complained \in BOOLEAN
    BY <1>0 DEF SetupVarsOK
  <2>5. {busload', complained'} \subseteq BOOLEAN
    BY <2>3, <2>4, Zenon
  <2> QED BY <1>0, <2>2, <2>3, <2>5 DEF SetupVarsOK
<1>5. CASE ConfigureBaud
  <2>1. rate' \in {rate, BaudXMode(arg.baud), BaudMode(arg.baud)}
    BY <1>5 DEF ConfigureBaud
  <2>2. rate' \in {"none", "DISABLE", "AUTOBAUD", "NUM", "BTR", "INDEX"}
    BY <1>0, <2>1 DEF SetupVarsOK, BaudXMode, BaudMode
  <2> QED BY <1>0, <1>5, <2>2 DEF ConfigureBaud, SetupVarsOK
<1>6. CASE FilterByCode
  <2>1. StdLast + 1 \in Nat
    BY ConfigAssumption
  <2>2. ids' \in [first : Nat, last : Int]
    BY <1>0, <1>6, <2>1 DEF FilterByCode, SetupVarsOK
  <2>3. enabled' \subseteq Int
    <3>1. ids.first \in Int /\ enabled' \in {enabled, enabled \cup {ids.first}}
      BY <1>0, <1>6 DEF FilterByCode, SetupVarsOK
    <3> QED BY <1>0, <3>1 DEF SetupVarsOK
  <2> QED BY <1>0, <1>6, <2>2, <2>3 DEF FilterByCode, SetupVarsOK
<1>7. CASE FilterExt
  <2>1. AllExt \in Int
    BY ConfigAssumption DEF AllExt
  <2> QED BY <1>0, <1>7, <2>1 DEF FilterExt, SetupVarsOK
<1>8. CASE FilterStd
  <2>1. StdLast \in Nat
    BY ConfigAssumption
  <2>2. ids' \in [first : Nat, last : Int]
    BY <1>0, <1>8, <2>1 DEF FilterStd, SetupVarsOK, Smaller
  <2>3. enabled' \subseteq Int /\ complained' \in {complained, TRUE}
    <3>1. ids.first \in Int /\ ids'.last \in Int
      BY <1>0, <2>2 DEF SetupVarsOK
    <3>2. CASE AddIds(ids.first, ids'.last)
      BY <1>0, <3>1, <3>2, AddIdsFacts
    <3>3. CASE UNCHANGED <<enabled, complained>>
      BY <1>0, <3>3 DEF SetupVarsOK
    <3> QED BY <1>8, <3>2, <3>3 DEF FilterStd
  <2> QED BY <1>0, <1>8, <2>2, <2>3 DEF FilterStd, SetupVarsOK
<1> QED BY <1>1, <1>2, <1>3, <1>4, <1>5, <1>6, <1>7, <1>8 DEF Setup

(* Nothing of the set-up takes a complaint back, or forgets an ID.         *)
LEMMA SetupKeepsIds ==
  ASSUME CanTestIInv, SetupStep
  PROVE  /\ enabled \subseteq enabled'
         /\ complained => complained'
<1> USE DEF SetupStep
<1>1. TypeOK
  BY DEF CanTestIInv, Sound
<1>2. CASE ConfigureEvents
  <2>1. ids' = EventIds
    BY <1>2 DEF ConfigureEvents
  <2>2. SetupVarsOK'
    BY SetupTyped
  <2>3. ids'.first \in Int /\ ids'.last \in Int
    BY <2>2 DEF SetupVarsOK
  <2>4. CASE AddIds(ids'.first, ids'.last)
    <3>1. enabled \subseteq enabled' /\ complained' \in {complained, TRUE}
      BY <1>1, <2>3, <2>4, AddIdsFacts
    <3>2. complained => complained'
      BY <3>1, Zenon
    <3> QED BY <3>1, <3>2
  <2>5. CASE UNCHANGED <<enabled, complained>>
    BY <2>5
  <2> QED BY <1>2, <2>1, <2>4, <2>5 DEF ConfigureEvents
<1>3. CASE FilterStd
  <2>2. SetupVarsOK'
    BY SetupTyped
  <2>3. ids.first \in Int /\ ids'.last \in Int
    BY <1>1, <2>2 DEF SetupVarsOK, TypeOK
  <2>4. CASE AddIds(ids.first, ids'.last)
    <3>1. enabled \subseteq enabled' /\ complained' \in {complained, TRUE}
      BY <1>1, <2>3, <2>4, AddIdsFacts
    <3>2. complained => complained'
      BY <3>1, Zenon
    <3> QED BY <3>1, <3>2
  <2>5. CASE UNCHANGED <<enabled, complained>>
    BY <2>5
  <2> QED BY <1>3, <2>4, <2>5 DEF FilterStd
<1>4. CASE FilterExt
  BY <1>4 DEF FilterExt
<1>5. CASE FilterByCode
  BY <1>5 DEF FilterByCode
<1>6. CASE ArgsRefused \/ ArgsParsed \/ OpenSucceeds \/ OpenFails
           \/ CheckStamps \/ ConfigureBaud
  BY <1>6 DEF ArgsRefused, ArgsParsed, OpenSucceeds, OpenFails, CheckStamps,
              ConfigureBaud, handleVars
<1> QED BY <1>2, <1>3, <1>4, <1>5, <1>6 DEF Setup

LEMMA SetupArgKept ==
  ASSUME CanTestIInv, SetupStep
  PROVE  ArgInv'
<1> USE DEF SetupStep
<1>1. OneSetup /\ SetupVarsOK' /\ ArgInv /\ TypeOK
  BY SetupFacts, SetupTyped DEF CanTestIInv, Sound
<1>2. arg' \in Args /\ ids'.first \in Nat
  BY <1>1 DEF OneSetup, SetupVarsOK, ArgInv
<1>3. /\ pc' \notin Helpful \cup {"family", "schedule"}
      /\ pc' \in Testing => pc' = "loop"
  BY <1>1 DEF OneSetup, Helpful, Setting, Testing
<1>4. h' = 0
  BY <1>1 DEF OneSetup, ArgInv, caseVars
<1>5. pc' = "loop" => ids'.last <= StdLast
  <2> SUFFICES ASSUME pc' = "loop" PROVE ids'.last <= StdLast
    OBVIOUS
  <2>1. CASE FilterByCode
    <3>1. ids' = [first |-> StdLast + 1, last |-> 0]
      BY <2>1 DEF FilterByCode, Goto, GiveUp
    <3> QED BY <3>1, ConfigAssumption
  <2>2. CASE FilterStd
    <3>1. ids' = [ids EXCEPT !.last = Smaller(ids.last, StdLast)]
      BY <2>2 DEF FilterStd
    <3>2. ids'.last = Smaller(ids.last, StdLast)
      BY <1>1, <3>1 DEF TypeOK
    <3>3. StdLast \in Int /\ ids.last \in Int
      BY <1>1, ConfigAssumption DEF TypeOK
    <3> QED BY <3>2, <3>3 DEF Smaller
  <2>3. CASE ~(FilterByCode \/ FilterStd)
    BY <2>3 DEF Setup, ArgsRefused, ArgsParsed, OpenSucceeds, OpenFails,
                CheckStamps, ConfigureEvents, ConfigureBaud, FilterExt, Goto,
                GiveUp
  <2> QED BY <2>1, <2>2, <2>3
<1> QED BY <1>2, <1>3, <1>4, <1>5 DEF ArgInv

LEMMA SetupCleanKept ==
  ASSUME CanTestIInv, SetupStep
  PROVE  CleanInv'
<1> USE DEF SetupStep
<1>1. OneSetup /\ CleanInv /\ TypeOK /\ ArgInv
  BY SetupFacts DEF CanTestIInv, Sound
<1>2. pc \in Setting /\ pc' \in Setting \cup {"loop", "gone"}
  BY <1>1 DEF OneSetup
<1>3. objects' # "running"
  BY <1>1, <1>2 DEF OneSetup, CleanInv, caseVars
<1>4. pc' \in {"args", "open"} => handle' # "open"
  BY <1>1 DEF OneSetup, CleanInv
<1>5. CASE ConfigureEvents
  <2>1. ids = Asked
    BY <1>5 DEF ConfigureEvents, CanTestIInv, FilterInv
  <2>2. busload' => busload \/ period' # 0
    BY <1>1, <1>5, <2>1, ConfigureEventsFacts
  <2>3. ~busload /\ pc' = "baud"
    BY <1>1, <1>5 DEF ConfigureEvents, CleanInv, Goto
  <2> QED BY <1>3, <2>2, <2>3 DEF CleanInv, Helpful, Setting
<1>6. CASE ~ConfigureEvents
  <2>1. UNCHANGED <<busload, period>>
    BY <1>6 DEF Setup, ArgsRefused, ArgsParsed, OpenSucceeds, OpenFails,
                CheckStamps, ConfigureBaud, FilterByCode, FilterExt, FilterStd,
                handleVars
  <2>2. pc' \in {"args", "open", "stamps", "events"}
          => pc \in {"args", "open", "stamps", "events"}
    BY <1>6 DEF Setup, ArgsRefused, ArgsParsed, OpenSucceeds, OpenFails,
                CheckStamps, ConfigureBaud, FilterByCode, FilterExt, FilterStd,
                Goto, GiveUp
  <2>3. complained => complained'
    BY SetupKeepsIds
  <2> QED BY <1>1, <1>2, <1>3, <1>4, <2>1, <2>2, <2>3
          DEF CleanInv, Helpful, Setting
<1> QED BY <1>5, <1>6

LEMMA SetupFilterKept ==
  ASSUME CanTestIInv, SetupStep
  PROVE  FilterInv'
<1> USE DEF SetupStep
<1>1. OneSetup /\ FilterInv /\ TypeOK /\ ArgInv
  BY SetupFacts DEF CanTestIInv, Sound
<1>2. UNCHANGED <<arg, Asked, AskedIds, ToEvents(Asked)>>
  BY <1>1 DEF OneSetup, Asked, AskedIds, AskedLast, ToEvents
<1>3. CASE ArgsRefused \/ ArgsParsed
  <2>1. pc' = "gone" \/ (pc' = "open" /\ ids' = Asked)
    BY <1>3 DEF ArgsRefused, ArgsParsed, Goto, GiveUp, Asked, AskedLast
  <2> QED BY <1>2, <2>1 DEF FilterInv, Testing
<1>4. CASE OpenSucceeds \/ OpenFails \/ CheckStamps
  <2>1. ids' = ids /\ pc \in {"open", "stamps"}
        /\ pc' \in {"open", "stamps", "events", "gone"}
    BY <1>4 DEF OpenSucceeds, OpenFails, CheckStamps, Goto, GiveUp
  <2> QED BY <1>1, <1>2, <2>1 DEF FilterInv, Testing
<1>5. CASE ConfigureEvents
  <2>1. ids = Asked /\ pc' = "baud"
    BY <1>1, <1>5 DEF ConfigureEvents, FilterInv, Goto
  <2>2. ids' = ToEvents(Asked)
        /\ (complained' = FALSE => EventsEnabled(ids', enabled'))
    BY <1>1, <1>5, <2>1, ConfigureEventsFacts
  <2>3. complained' \in BOOLEAN
    BY SetupTyped DEF SetupVarsOK
  <2> QED BY <1>2, <2>1, <2>2, <2>3 DEF FilterInv, Testing
<1>6. CASE ConfigureBaud
  <2>1. pc = "baud" /\ pc' \in {"filter", "gone"}
        /\ UNCHANGED <<ids, enabled, complained>>
    BY <1>6 DEF ConfigureBaud, Goto, GiveUp
  <2> QED BY <1>1, <1>2, <2>1 DEF FilterInv, Testing
<1>7. CASE FilterByCode
  <2>1. pc' \in {"loop", "gone"}
    BY <1>7 DEF FilterByCode, Goto, GiveUp
  <2>2. ids = ToEvents(Asked) /\ IsCode(ids.first) /\ IsCode(ids.last)
    BY <1>1, <1>7 DEF FilterByCode, FilterInv
  <2>3. AskedIds = {}
    BY <1>1, <2>2, CodesAskNothing
  <2> QED BY <1>2, <2>1, <2>3 DEF FilterInv, Testing
<1>8. CASE FilterExt
  <2>1. pc = "filter" /\ pc' = "standard" /\ ids' = ids
    BY <1>8 DEF FilterExt, Goto
  <2>2. ids' = ToEvents(Asked)
    BY <1>1, <2>1 DEF FilterInv
  <2>3. enabled \subseteq enabled' /\ (complained => complained')
    BY SetupKeepsIds
  <2>4. ~complained' => EventsEnabled(ids', enabled')
    BY <1>1, <2>1, <2>3 DEF FilterInv, EventsEnabled
  <2>5. ~complained' => ExtEnabled(ids', enabled')
    BY <1>8, <2>1 DEF FilterExt, WantsExt, ExtEnabled
  <2> QED BY <1>2, <2>1, <2>2, <2>4, <2>5 DEF FilterInv, Testing
<1>9. CASE FilterStd
  <2>1. pc = "standard" /\ pc' = "loop"
    BY <1>9 DEF FilterStd, Goto
  <2>2. SUFFICES ASSUME ~complained' PROVE AskedIds \subseteq enabled'
    BY <1>2, <2>1 DEF FilterInv, Testing
  <2>3. enabled \subseteq enabled' /\ ~complained
    BY <2>2, SetupKeepsIds
  <2>4. ids = ToEvents(Asked)
    BY <1>1, <2>1 DEF FilterInv
  <2>5. EventsEnabled(ids, enabled') /\ ExtEnabled(ids, enabled')
    BY <1>1, <2>1, <2>3 DEF FilterInv, EventsEnabled, ExtEnabled
  <2>6. ids.first \in Int /\ ids.last \in Int /\ StdLast \in Int
    BY <1>1, ConfigAssumption DEF TypeOK
  <2>7. ids'.last = Smaller(ids.last, StdLast) /\ ids'.last \in Int
    BY <1>1, <1>9, <2>6 DEF FilterStd, Smaller, TypeOK
  <2>8. ids.first .. ids'.last \subseteq enabled'
    <3>1. CASE AddIds(ids.first, ids'.last)
      <4>1. complained' \in {complained, TRUE}
            /\ (complained' = FALSE => ids.first .. ids'.last \subseteq enabled')
        BY <1>1, <2>6, <2>7, <3>1, AddIdsFacts
      <4>2. complained' = FALSE
        BY <1>1, <2>2, <2>3, <4>1 DEF TypeOK
      <4> QED BY <4>1, <4>2
    <3>2. CASE ~(ids.first =< ids'.last)
      BY <2>6, <2>7, <3>2
    <3> QED BY <1>9, <3>1, <3>2 DEF FilterStd
  <2>9. ids.first .. Smaller(ids.last, StdLast) \subseteq enabled'
    BY <2>7, <2>8
  <2> QED BY <1>1, <2>4, <2>5, <2>9, FilterDone
<1> QED BY <1>3, <1>4, <1>5, <1>6, <1>7, <1>8, <1>9 DEF Setup

LEMMA SetupFamilyKept ==
  ASSUME CanTestIInv, SetupStep
  PROVE  FamilyInv'
<1>1. OneSetup /\ FamilyInv /\ ArgInv
  BY SetupFacts DEF CanTestIInv
<1>2. h = 0 /\ pc # "family" /\ pc' # "family"
  BY <1>1 DEF OneSetup, ArgInv, Setting
<1>3. now = 0 /\ \A c \in Kids : ~Lives(c)
  BY <1>1, <1>2 DEF FamilyInv
<1>4. UNCHANGED <<arg, now, kid, h, alarm, testcount>>
  BY <1>1 DEF OneSetup, caseVars, forkVars
<1>5. pc' \in {"stamps", "events", "baud", "filter", "standard"}
        => handle' = "open"
  BY <1>1 DEF OneSetup, FamilyInv, Setting
<1>6. pc' = "loop" => handle' = "open"
  BY <1>1 DEF OneSetup, FamilyInv
<1>7. \A c \in Kids : ~Lives(c)' /\ ~Sends(c)' /\ kid'[c].place # "closing"
  BY <1>3, <1>4 DEF Lives, Sends
<1> QED BY <1>1, <1>2, <1>3, <1>4, <1>5, <1>6, <1>7 DEF FamilyInv

LEMMA SetupKept ==
  ASSUME CanTestIInv, SetupStep
  PROVE  CanTestIInv'
<1>1. OneSetup /\ SetupVarsOK' /\ TypeOK /\ Limited
  BY SetupFacts, SetupTyped DEF CanTestIInv, Sound
<1>2. TypeOK'
  <2>1. pc' \in Places
    BY <1>1 DEF OneSetup, Setting, Places
  <2>2. exit' \in {-1, 0, 1} /\ handle' \in {"none", "open", "closed"}
    BY <1>1 DEF OneSetup, TypeOK
  <2> QED BY <1>1, <2>1, <2>2
          DEF OneSetup, SetupVarsOK, TypeOK, caseVars, forkVars
<1>3. Limited'
  BY <1>1 DEF OneSetup, Limited, Limit, caseVars
<1> QED BY <1>2, <1>3, SetupArgKept, SetupCleanKept, SetupFilterKept,
           SetupFamilyKept DEF CanTestIInv, Sound

-----------------------------------------------------------------------------
(***************************************************************************)
(* The steps of the schedule.                                              *)
(***************************************************************************)
OneOfSchedule ==
  /\ arg.test # 54
  /\ <<pc, pc'>> \in {<<"loop", "schedule">>, <<"schedule", "schedule">>,
                      <<"schedule", "loop">>}
  /\ ret' \in Results
  /\ h' \in {h, h + 1}
  /\ {testcount', k'} \subseteq Int
  /\ objects' \in ObjectStates
  /\ complained' \in BOOLEAN
  /\ complained => complained'
  /\ objects' = "running" => pc' = "schedule" \/ complained'
  /\ handed' = handed \/ Fits(handed')
  /\ UNCHANGED <<arg, exit, mode, ids, period, handle, enabled, rate, busload,
                 forkVars, net>>

LEMMA ScheduleFacts ==
  ASSUME CanTestIInv, ScheduleStart \/ ScheduleUpdate \/ ScheduleStop,
         UNCHANGED net
  PROVE  OneOfSchedule
<1> USE DEF Goto, Same, handleVars, forkVars
<1>1. /\ ret \in Results /\ h \in Nat /\ {testcount, k} \subseteq Int
      /\ objects \in ObjectStates /\ complained \in BOOLEAN
      /\ TypeOK /\ ArgInv /\ CleanInv
  BY DEF CanTestIInv, Sound, TypeOK
<1>2. CASE ScheduleStart
  <2>1. Fits(handed')
    BY <1>1, <1>2, MaxcountFits, TxFits DEF ScheduleStart, Case, Hands
  <2>2. objects' \in {"running", "created"} /\ k' = 0
    BY <1>2 DEF ScheduleStart
  <2> QED BY <1>1, <1>2, <2>1, <2>2
          DEF ScheduleStart, Case, OneOfSchedule, ObjectStates
<1>3. CASE ScheduleUpdate
  <2>1. {testcount', k'} \subseteq Int
    BY <1>1, <1>3 DEF ScheduleUpdate
  <2> QED BY <1>1, <1>3, <2>1
          DEF ScheduleUpdate, OneOfSchedule, ArgInv, CleanInv
<1>4. CASE ScheduleStop
  <2> PICK r \in Answers : /\ ret' = r
                           /\ objects' = IF r = "SUCCESS" THEN "stopped" ELSE objects
                           /\ complained' = (complained \/ r # "SUCCESS")
    BY <1>4 DEF ScheduleStop
  <2>1. r \in Results /\ {testcount', k'} \subseteq Int
    BY <1>1, <1>4, TurnResults DEF ScheduleStop
  <2>2. complained' \in BOOLEAN /\ (complained => complained')
    BY Zenon
  <2>3. objects' \in ObjectStates
    BY <1>1 DEF ObjectStates
  <2>4. r # "SUCCESS" => complained'
    BY Zenon
  <2>5. objects' = "running" => complained'
    BY <2>4
  <2> QED BY <1>1, <1>4, <2>1, <2>2, <2>3, <2>5
          DEF ScheduleStop, OneOfSchedule, ArgInv
<1> QED BY <1>2, <1>3, <1>4

LEMMA ScheduleKept ==
  ASSUME CanTestIInv, OneOfSchedule
  PROVE  CanTestIInv'
<1> USE DEF CanTestIInv, OneOfSchedule, forkVars
<1>1. TypeOK'
  <2>1. h' \in Nat
    BY DEF TypeOK, Sound
  <2>2. handed' \in [buffer : {"tx", "rx", "event"}, len : Int]
    BY DEF TypeOK, Sound, Fits, Transfers
  <2>3. pc' \in Places
    BY DEF Places
  <2>4. {busload', complained'} \subseteq BOOLEAN
    BY DEF TypeOK, Sound
  <2> QED BY <2>1, <2>2, <2>3, <2>4 DEF TypeOK, Sound
<1>2. Limited'
  <2>1. Limit' = Limit
    BY DEF Limit
  <2>2. handed'.len <= Limit[handed'.buffer]
    BY DEF Sound, Limited, Fits
  <2> QED BY <2>1, <2>2 DEF Limited
<1>3. ArgInv'
  BY DEF ArgInv, Testing, Helpful, Setting
<1>4. CleanInv'
  BY DEF CleanInv, Helpful, Setting
<1>5. FilterInv'
  BY DEF FilterInv, Testing, AskedIds, AskedLast
<1>6. FamilyInv'
  <2>1. h' = 0 => h = 0
    BY DEF Sound, TypeOK
  <2> QED BY <2>1, NoFamily
<1> QED BY <1>1, <1>2, <1>3, <1>4, <1>5, <1>6 DEF Sound

-----------------------------------------------------------------------------
(***************************************************************************)
(* The end of main().                                                      *)
(***************************************************************************)
OneOfEnd ==
  /\ \/ pc = "loop" /\ pc' = "drain" /\ handle' = handle
     \/ pc = "drain" /\ pc' = "close" /\ handle' = handle
     \/ pc = "close" /\ pc' = "exit" /\ handle' = "closed"
     \/ pc = "loop" /\ pc' = "gone" /\ handle' = "closed" /\ arg.test # 54
  /\ exit' \in {-1, 0, 1}
  /\ ret' \in Results
  /\ period' \in {period, 0}
  /\ {busload', complained'} \subseteq BOOLEAN
  /\ complained => complained'
  /\ busload' => period' # 0 \/ complained'
  /\ pc' \in {"close", "exit"} /\ busload' => complained'
  /\ UNCHANGED <<arg, mode, ids, enabled, rate, testcount, h, k, handed,
                 objects, forkVars, net>>

LEMMA EndFacts ==
  ASSUME CanTestIInv, UndefinedTest \/ LoopEnds \/ StopBusload \/ Close
  PROVE  OneOfEnd
<1> USE DEF Goto
<1>1. /\ TypeOK /\ CleanInv /\ {busload, complained} \subseteq BOOLEAN
      /\ exit \in {-1, 0, 1} /\ ret \in Results
  BY DEF CanTestIInv, Sound, TypeOK
<1>2. CASE UndefinedTest
  BY <1>1, <1>2 DEF UndefinedTest, GiveUp, KnownTests, OneOfEnd, CleanInv,
                    caseVars
<1>3. CASE LoopEnds
  BY <1>1, <1>3 DEF LoopEnds, OneOfEnd, CleanInv, caseVars, handleVars
<1>4. CASE StopBusload
  <2>1. CASE period = 0
    BY <1>1, <1>4, <2>1 DEF StopBusload, OneOfEnd, CleanInv
  <2>2. CASE period # 0
    <3> PICK r \in Answers : /\ ret' = r
                             /\ busload' = (busload /\ r # "SUCCESS")
                             /\ complained' = (complained \/ r # "SUCCESS")
      BY <1>4, <2>2 DEF StopBusload
    <3>1. {busload', complained'} \subseteq BOOLEAN
      BY Zenon
    <3>2. (complained => complained') /\ (busload' => complained')
      BY Zenon
    <3>3. r \in Results
      BY TurnResults
    <3> QED BY <1>1, <1>4, <2>2, <3>1, <3>2, <3>3 DEF StopBusload, OneOfEnd
  <2> QED BY <2>1, <2>2
<1>5. CASE Close
  BY <1>1, <1>5 DEF Close, OneOfEnd, CleanInv, Results
<1> QED BY <1>2, <1>3, <1>4, <1>5

LEMMA EndKept ==
  ASSUME CanTestIInv, OneOfEnd
  PROVE  CanTestIInv'
<1> USE DEF CanTestIInv, OneOfEnd, forkVars
<1>1. TypeOK'
  <2>1. pc' \in Places /\ handle' \in {"none", "open", "closed"}
    BY DEF Places, TypeOK, Sound
  <2>2. period' \in Int
    BY DEF TypeOK, Sound
  <2> QED BY <2>1, <2>2 DEF TypeOK, Sound
<1>2. Limited'
  BY DEF Sound, Limited, Limit
<1>3. ArgInv'
  BY DEF ArgInv, Testing, Helpful, Setting
<1>4. CleanInv'
  BY DEF CleanInv, Helpful, Setting
<1>5. FilterInv'
  BY DEF FilterInv, Testing
<1>6. FamilyInv'
  <2>1. CASE arg.test # 54
    BY <2>1, NoFamily
  <2>2. CASE arg.test = 54
    <3>1. \A c \in Kids : c[1] = 0 /\ Sends(c) => handle' = "open"
      <4>1. SUFFICES ASSUME NEW c \in Kids, c[1] = 0, Sends(c), pc = "close"
                     PROVE  FALSE
        BY <2>2 DEF FamilyInv
      <4>2. Lives(c) /\ now <= kid[c].wakes /\ kid[c].wakes < ParentSleep
        BY <4>1 DEF FamilyInv, Sends, Lives
      <4>3. h # 0
        BY <4>1, <4>2 DEF FamilyInv
      <4>4. h > 0 /\ now \in Nat /\ kid[c].wakes \in Nat
        BY <4>3 DEF TypeOK, Sound
      <4> QED BY <2>2, <4>2, <4>4 DEF FamilyInv, ParentSleep
    <3>2. \A c \in Kids : Sends(c)' = Sends(c) /\ Lives(c)' = Lives(c)
      BY DEF Sends, Lives
    <3> QED BY <2>2, <3>1, <3>2 DEF FamilyInv
  <2> QED BY <2>1, <2>2
<1> QED BY <1>1, <1>2, <1>3, <1>4, <1>5, <1>6 DEF Sound

-----------------------------------------------------------------------------
(***************************************************************************)
(* Test 54: a parent and its children.                                     *)
(***************************************************************************)
KidStates == [place : {"none", "sending", "closing", "gone"}, wakes : Nat,
              period : Int]

(* What the steps of the family have in common.                            *)
OneOfFamily ==
  /\ arg.test = 54
  /\ <<pc, pc'>> \in {<<"loop", "family">>, <<"family", "loop">>,
                      <<"family", "drain">>, <<pc, pc>>}
  /\ handle' \in {handle, "closed"}
  /\ h' = h \/ (h' = h + 1 /\ pc = "family")
  /\ handed' = handed \/ Fits(handed')
  /\ {now', alarm'} \subseteq Nat
  /\ kid' \in [Kids -> KidStates]
  /\ {busload', complained'} \subseteq BOOLEAN
  /\ busload' => busload
  /\ complained => complained'
  /\ UNCHANGED <<arg, exit, mode, ids, period, enabled, rate, ret, testcount,
                 k, objects, net>>

LEMMA FamilyTypes ==
  ASSUME CanTestIInv
  PROVE  /\ now \in Nat /\ alarm \in Nat /\ h \in Nat /\ testcount \in Int
         /\ kid \in [Kids -> KidStates]
         /\ \A c \in Kids : kid[c] \in KidStates /\ kid[c].wakes \in Nat
         /\ \A c \in Kids : Lives(c) => arg.test = 54
         /\ ParentSleep \in Nat /\ Rest \in Nat /\ Rest = ParentSleep
         /\ period \in Int /\ {busload, complained} \subseteq BOOLEAN
<1>1. /\ now \in Nat /\ alarm \in Nat /\ h \in Nat /\ testcount \in Int
      /\ kid \in [Kids -> KidStates]
      /\ period \in Int /\ {busload, complained} \subseteq BOOLEAN
  BY DEF CanTestIInv, Sound, TypeOK, KidStates
<1>2. \A c \in Kids : kid[c] \in KidStates /\ kid[c].wakes \in Nat
  BY <1>1 DEF KidStates
<1>3. \A c \in Kids : Lives(c) => arg.test = 54
  BY DEF CanTestIInv, FamilyInv, Lives
<1> QED BY <1>1, <1>2, <1>3 DEF ParentSleep, Rest

(* The part of the invariant that is not about the children.               *)
LEMMA FamilyRestKept ==
  ASSUME CanTestIInv, OneOfFamily
  PROVE  Sound' /\ ArgInv' /\ CleanInv' /\ FilterInv'
<1> USE DEF CanTestIInv, OneOfFamily
<1>1. TypeOK'
  <2>1. h' \in Nat
    BY DEF TypeOK, Sound
  <2>2. handed' \in [buffer : {"tx", "rx", "event"}, len : Int]
    BY DEF TypeOK, Sound, Fits, Transfers
  <2>3. pc' \in Places /\ handle' \in {"none", "open", "closed"}
    BY DEF Places, TypeOK, Sound
  <2> QED BY <2>1, <2>2, <2>3 DEF TypeOK, Sound, KidStates
<1>2. Limited'
  <2>1. Limit' = Limit
    BY DEF Limit
  <2>2. handed'.len <= Limit[handed'.buffer]
    BY DEF Sound, Limited, Fits
  <2> QED BY <2>1, <2>2 DEF Limited
<1>3. ArgInv'
  <2>1. pc' \in Setting => h' = 0
    BY DEF ArgInv, Setting
  <2> QED BY <2>1 DEF ArgInv, Testing, Helpful, Setting
<1>4. CleanInv'
  BY DEF CleanInv, Helpful, Setting
<1>5. FilterInv'
  <2>1. UNCHANGED <<AskedIds, Asked, ToEvents(Asked)>>
    BY DEF AskedIds, Asked, AskedLast, ToEvents
  <2> QED BY <2>1 DEF FilterInv, Testing
<1> QED BY <1>1, <1>2, <1>3, <1>4, <1>5 DEF Sound

(* The clock is at most at the next alarm, so no alarm is missed.          *)
LEMMA ForkKept ==
  ASSUME CanTestIInv, Fork, UNCHANGED net
  PROVE  OneOfFamily /\ FamilyInv'
<1> USE DEF Fork, Case, Goto, handleVars, caseVars
<1>1. /\ now \in Nat /\ h \in Nat /\ testcount \in Int /\ alarm \in Nat
      /\ kid \in [Kids -> KidStates] /\ ParentSleep \in Nat
      /\ \A c \in Kids : kid[c] \in KidStates
      /\ period \in Int /\ {busload, complained} \subseteq BOOLEAN
  BY FamilyTypes
<1>2. FamilyInv /\ arg.test = 54 /\ pc = "loop" /\ pc' = "family"
  BY DEF CanTestIInv
<1> PICK born \in SUBSET DOMAIN Delays :
      kid' = [c \in Kids |->
                IF c[1] = h /\ c[2] \in born
                  THEN [place |-> "sending", wakes |-> now + Delays[c[2]],
                        period |-> period]
                  ELSE kid[c]]
  OBVIOUS
<1>3. \A c \in Kids :
        /\ c[2] \in DOMAIN Delays
        /\ Delays[c[2]] \in Nat /\ Delays[c[2]] < ParentSleep
  BY DelaysAssumption, FamilyAssumption DEF Kids
<1>4. \A c \in Kids :
        \/ /\ c[1] = h
           /\ kid'[c] = [place |-> "sending", wakes |-> now + Delays[c[2]],
                         period |-> period]
        \/ kid'[c] = kid[c]
  OBVIOUS
<1>5. kid' \in [Kids -> KidStates]
  BY <1>1, <1>3 DEF KidStates
<1>6. alarm' = now + ParentSleep /\ alarm' \in Nat /\ now' = now
  BY <1>1
<1>7. OneOfFamily
  BY <1>1, <1>2, <1>5, <1>6 DEF OneOfFamily
<1>8. \A c \in Kids : Lives(c)' => now' <= kid'[c].wakes
  <2> SUFFICES ASSUME NEW c \in Kids, Lives(c)' PROVE now' <= kid'[c].wakes
    OBVIOUS
  <2>1. CASE kid'[c] = kid[c]
    BY <1>2, <1>6, <2>1 DEF FamilyInv, Lives
  <2>2. CASE kid'[c] = [place |-> "sending", wakes |-> now + Delays[c[2]],
                        period |-> period]
    BY <1>1, <1>3, <1>6, <2>2
  <2> QED BY <1>4, <2>1, <2>2
<1>9. \A c \in Kids : c[1] = 0 /\ Sends(c)'
        => kid'[c].wakes < ParentSleep /\ handle' = "open"
  <2> SUFFICES ASSUME NEW c \in Kids, c[1] = 0, Sends(c)'
               PROVE  kid'[c].wakes < ParentSleep /\ handle' = "open"
    OBVIOUS
  <2>1. CASE kid'[c] = kid[c]
    BY <1>2, <2>1 DEF FamilyInv, Sends
  <2>2. CASE /\ c[1] = h
             /\ kid'[c] = [place |-> "sending", wakes |-> now + Delays[c[2]],
                           period |-> period]
    <3>1. now = 0 /\ handle = "open"
      BY <1>2, <2>2 DEF FamilyInv
    <3> QED BY <1>3, <2>2, <3>1
  <2> QED BY <1>4, <2>1, <2>2
<1>10. \A c \in Kids : kid'[c].place = "closing" => ParentSleep <= kid'[c].wakes
  BY <1>2, <1>4 DEF FamilyInv
<1> QED BY <1>1, <1>2, <1>6, <1>7, <1>8, <1>9, <1>10 DEF FamilyInv

LEMMA ParentWakesKept ==
  ASSUME CanTestIInv, ParentWakes, UNCHANGED net
  PROVE  OneOfFamily /\ FamilyInv'
<1> USE DEF ParentWakes, Turn, Goto, Same, handleVars, forkVars
<1>1. /\ now \in Nat /\ h \in Nat /\ testcount \in Int /\ alarm \in Nat
      /\ kid \in [Kids -> KidStates]
      /\ {busload, complained} \subseteq BOOLEAN
  BY FamilyTypes
<1>2. FamilyInv /\ arg.test = 54 /\ pc = "family" /\ pc' \in {"loop", "drain"}
  BY DEF CanTestIInv, ArgInv
<1>3. h' = h + 1
  BY <1>2 DEF FamilyInv
<1>4. OneOfFamily
  BY <1>1, <1>2, <1>3 DEF OneOfFamily
<1>5. ParentSleep <= now
  BY <1>2 DEF FamilyInv
<1>6. \A c \in Kids : Lives(c)' = Lives(c) /\ Sends(c)' = Sends(c)
  BY DEF Lives, Sends
<1> QED BY <1>1, <1>2, <1>3, <1>4, <1>5, <1>6 DEF FamilyInv

LEMMA KidSendsKept ==
  ASSUME CanTestIInv, NEW c \in Kids, KidSends(c), UNCHANGED net
  PROVE  OneOfFamily /\ FamilyInv'
<1> USE DEF KidSends, Hands, handleVars
<1>1. /\ now \in Nat /\ h \in Nat /\ alarm \in Nat /\ ParentSleep \in Nat
      /\ kid \in [Kids -> KidStates] /\ Rest = ParentSleep
      /\ {busload, complained} \subseteq BOOLEAN
  BY FamilyTypes
<1>2. FamilyInv /\ TypeOK /\ ArgInv /\ Lives(c) /\ arg.test = 54
  BY FamilyTypes DEF CanTestIInv, Sound, Lives
<1>3. /\ kid'[c] = [kid[c] EXCEPT !.place = "closing", !.wakes = now + Rest]
      /\ kid'[c].place = "closing" /\ kid'[c].wakes = now + Rest
  <2>1. kid'[c] = [kid[c] EXCEPT !.place = "closing", !.wakes = now + Rest]
    BY <1>1
  <2>2. kid[c] \in KidStates
    BY <1>1
  <2> QED BY <2>1, <2>2 DEF KidStates
<1>4. \A b \in Kids \ {c} : kid'[b] = kid[b]
  BY <1>1
<1>5. kid' \in [Kids -> KidStates]
  <2>1. kid[c] \in KidStates /\ Rest \in Nat
    BY <1>1
  <2>2. kid'[c] \in KidStates
    <3> DEFINE old == kid[c]
    <3>1. \A x \in KidStates, w \in Nat :
            [x EXCEPT !.place = "closing", !.wakes = w] \in KidStates
      BY DEF KidStates
    <3>2. now + Rest \in Nat
      BY <1>1, <2>1
    <3>3. kid'[c] = [old EXCEPT !.place = "closing", !.wakes = now + Rest]
      BY <1>3
    <3> HIDE DEF old
    <3> QED BY <2>1, <3>1, <3>2, <3>3 DEF old
  <2>3. DOMAIN kid' = Kids /\ kid' = [b \in Kids |-> kid'[b]]
    BY <1>1
  <2> QED BY <1>1, <1>4, <2>2, <2>3
<1>6. Fits(handed')
  <2>1. Maxcount \in Int /\ Maxcount <= MaxRx
    BY <1>2, MaxcountFits
  <2>2. Maxcount <= Limit["tx"]
    BY <1>2, <2>1 DEF Limit
  <2> QED BY <2>1, <2>2, TransferFits
<1>7. OneOfFamily
  BY <1>1, <1>2, <1>5, <1>6 DEF OneOfFamily
<1>8. \A b \in Kids : Lives(b)' => now' <= kid'[b].wakes
  BY <1>1, <1>2, <1>3, <1>4 DEF FamilyInv, Lives
<1>9. \A b \in Kids : b[1] = 0 /\ Sends(b)'
        => kid'[b].wakes < ParentSleep /\ handle' = "open"
  BY <1>2, <1>3, <1>4 DEF FamilyInv, Sends
<1>10. \A b \in Kids : kid'[b].place = "closing" => ParentSleep <= kid'[b].wakes
  BY <1>1, <1>2, <1>3, <1>4 DEF FamilyInv
<1>11. ~(h = 0 /\ pc # "family")
  BY <1>2 DEF FamilyInv
<1> QED BY <1>2, <1>7, <1>8, <1>9, <1>10, <1>11 DEF FamilyInv

(* A child that closes the handle does so after the first round: no child  *)
(* of it waits to send.                                                    *)
LEMMA KidClosesKept ==
  ASSUME CanTestIInv, NEW c \in Kids, KidCloses(c), UNCHANGED net
  PROVE  OneOfFamily /\ FamilyInv'
<1> USE DEF KidCloses, caseVars
<1>1. /\ now \in Nat /\ h \in Nat /\ alarm \in Nat /\ ParentSleep \in Nat
      /\ kid \in [Kids -> KidStates]
      /\ \A b \in Kids : kid[b].wakes \in Nat
      /\ {busload, complained} \subseteq BOOLEAN
  BY FamilyTypes
<1>2. FamilyInv /\ ArgInv /\ Lives(c) /\ arg.test = 54
  BY FamilyTypes DEF CanTestIInv, Lives
<1>3. kid'[c] = [place |-> "gone", wakes |-> 0, period |-> 0]
  BY <1>1
<1>4. \A b \in Kids \ {c} : kid'[b] = kid[b]
  BY <1>1
<1>5. kid' \in [Kids -> KidStates]
  BY <1>1 DEF KidStates
<1>6. OneOfFamily
  <2>1. /\ {busload', complained'} \subseteq BOOLEAN
        /\ busload' => busload
        /\ complained => complained'
    BY <1>1
  <2> QED BY <1>1, <1>2, <1>5, <2>1 DEF OneOfFamily
<1>7. ParentSleep <= now
  BY <1>2 DEF FamilyInv
<1>8. ~(h = 0 /\ pc # "family")
  BY <1>2 DEF FamilyInv
<1>9. pc' \notin Setting
  BY <1>2, <1>8 DEF ArgInv, Setting
<1>10. \A b \in Kids : Lives(b)' => now' <= kid'[b].wakes
  BY <1>2, <1>3, <1>4 DEF FamilyInv, Lives
<1>11. \A b \in Kids : ~(b[1] = 0 /\ Sends(b)')
  <2> SUFFICES ASSUME NEW b \in Kids, b[1] = 0, Sends(b)' PROVE FALSE
    OBVIOUS
  <2>1. b # c /\ Sends(b)
    BY <1>3, <1>4 DEF Sends
  <2>2. kid[b].wakes < ParentSleep /\ now <= kid[b].wakes
    BY <1>2, <2>1 DEF FamilyInv, Sends, Lives
  <2> QED BY <1>1, <1>7, <2>2
<1>12. \A b \in Kids : kid'[b].place = "closing" => ParentSleep <= kid'[b].wakes
  BY <1>2, <1>3, <1>4 DEF FamilyInv
<1>13. \A b \in Kids : kid'[b].place # "none" => arg.test = 54
  BY <1>2
<1> QED BY <1>2, <1>6, <1>8, <1>9, <1>10, <1>11, <1>12, <1>13
        DEF FamilyInv, Setting

LEMMA TimePassesKept ==
  ASSUME CanTestIInv, TimePasses, UNCHANGED net
  PROVE  OneOfFamily /\ FamilyInv'
<1> USE DEF TimePasses, handleVars, caseVars
<1>1. /\ now \in Nat /\ h \in Nat /\ alarm \in Nat /\ ParentSleep \in Nat
      /\ kid \in [Kids -> KidStates]
      /\ \A c \in Kids : kid[c].wakes \in Nat
      /\ {busload, complained} \subseteq BOOLEAN
  BY FamilyTypes
<1>2. FamilyInv
  BY DEF CanTestIInv
<1>3. /\ now' \in Alarms /\ \A u \in Alarms : now' <= u
  OBVIOUS
<1>4. /\ \A c \in Kids : Lives(c) => kid[c].wakes \in Alarms
      /\ pc = "family" => alarm \in Alarms
  BY DEF Alarms, Lives
<1>5. \A u \in Alarms : u \in Nat /\ now <= u
  <2> SUFFICES ASSUME NEW u \in Alarms PROVE u \in Nat /\ now <= u
    OBVIOUS
  <2>1. CASE pc = "family" /\ u = alarm
    BY <1>1, <1>2, <2>1 DEF FamilyInv
  <2>2. CASE \E c \in Kids : Lives(c) /\ u = kid[c].wakes
    BY <1>1, <1>2, <2>2 DEF FamilyInv
  <2> QED BY <2>1, <2>2 DEF Alarms, Lives
<1>6. now' \in Nat /\ now <= now'
  BY <1>3, <1>5
<1>7. arg.test = 54 /\ ~(h = 0 /\ pc # "family")
  <2>1. CASE pc = "family"
    BY <2>1 DEF CanTestIInv, ArgInv
  <2>2. CASE pc # "family"
    <3> PICK c \in Kids : Lives(c)
      BY <1>3, <2>2 DEF Alarms, Lives
    <3> QED BY <1>2, FamilyTypes DEF FamilyInv
  <2> QED BY <2>1, <2>2
<1>8. OneOfFamily
  BY <1>1, <1>6, <1>7 DEF OneOfFamily
<1>9. \A c \in Kids : Lives(c)' = Lives(c) /\ Sends(c)' = Sends(c)
  BY DEF Lives, Sends
<1>10. \A c \in Kids : Lives(c) => now' <= kid[c].wakes
  BY <1>3, <1>4
<1>11. pc = "family" => now' <= alarm
  BY <1>3, <1>4
<1>12. h > 0 => ParentSleep <= now'
  BY <1>1, <1>2, <1>6, <1>7 DEF FamilyInv
<1> QED BY <1>1, <1>2, <1>7, <1>8, <1>9, <1>10, <1>11, <1>12 DEF FamilyInv

-----------------------------------------------------------------------------
(***************************************************************************)
(* The invariant holds at the start and every step keeps it.               *)
(***************************************************************************)
LEMMA InitHolds ==
  ASSUME Init
  PROVE  CanTestIInv
<1> USE DEF Init
<1>1. /\ arg.test \in Int /\ arg.first \in Nat /\ arg.testcount \in Int
      /\ arg.baud \in Bauds
  BY ArgsAssumption
<1>2. TypeOK
  <2>1. testcount \in Int
    BY <1>1 DEF TestCount
  <2>2. kid \in [Kids -> [place : {"none", "sending", "closing", "gone"},
                         wakes : Nat, period : Int]]
    BY DEF NoKid
  <2>3. net \in 0 .. MaxNets + 1
    BY NetsAssumption
  <2>4. ids \in [first : Int, last : Int]
        /\ handed \in [buffer : {"tx", "rx", "event"}, len : Int]
    OBVIOUS
  <2>5. {busload, complained} \subseteq BOOLEAN
    BY Zenon
  <2>6. /\ mode = {} /\ enabled = {} /\ rate = "none" /\ objects \in ObjectStates
        /\ ret \in Results /\ pc \in Places /\ {testcount, k} \subseteq Int
        /\ handle \in {"none", "open", "closed"}
    BY <2>1 DEF Results, ObjectStates, Places
  <2>7. exit = 0 /\ period = 0 /\ h = 0 /\ {now, alarm} \subseteq Nat
    OBVIOUS
  <2> HIDE DEF Init
  <2> QED BY <1>1, <2>2, <2>3, <2>4, <2>5, <2>6, <2>7 DEF TypeOK
<1>3. Limited
  <2>1. Limit["tx"] \in {MaxRx, MaxTx}
    BY DEF Limit
  <2> QED BY <2>1, ConfigAssumption DEF Limited
<1>4. ArgInv
  BY DEF ArgInv, Testing, Helpful, Setting
<1>5. CleanInv
  BY DEF CleanInv, Helpful, Setting
<1>6. FilterInv
  BY DEF FilterInv, Testing
<1>7. FamilyInv
  <2>1. arg.test = 54 => testcount # -1
    <3>1. SUFFICES ASSUME arg.test = 54 PROVE testcount # -1
      OBVIOUS
    <3>2. arg.testcount \in 0 .. MaxRounds /\ MaxRounds \in Nat
      BY <3>1, FamilyAssumption, DelaysAssumption
    <3>3. testcount = arg.testcount
      BY <3>2 DEF TestCount, Absent
    <3> QED BY <3>2, <3>3
  <2>2. \A c \in Kids : kid[c].place = "none"
    BY DEF NoKid
  <2> QED BY <2>1, <2>2 DEF FamilyInv, Lives, Sends
<1> QED BY <1>2, <1>3, <1>4, <1>5, <1>6, <1>7 DEF CanTestIInv, Sound

LEMMA StepKeeps ==
  ASSUME CanTestIInv, [Next]_vars
  PROVE  CanTestIInv'
<1>1. TypeOK /\ ArgInv /\ CleanInv
  BY DEF CanTestIInv, Sound
<1>2. CASE SetupStep
  BY <1>2, SetupKept
<1>3. CASE Plain
  BY <1>1, <1>3, PlainFacts, TurnKept
<1>4. CASE WithObjects /\ UNCHANGED net
  <2>1. CASE AutoAnswer
    BY <1>3, <1>4, <2>1 DEF Plain
  <2>2. CASE ScheduleStart \/ ScheduleUpdate \/ ScheduleStop
    BY <1>4, <2>2, ScheduleFacts, ScheduleKept
  <2> QED BY <1>4, <2>1, <2>2 DEF WithObjects
<1>5. CASE Forking /\ UNCHANGED net
  <2>1. OneOfFamily /\ FamilyInv'
    BY <1>5, ForkKept, ParentWakesKept, KidSendsKept, KidClosesKept,
       TimePassesKept DEF Forking
  <2> QED BY <2>1, FamilyRestKept DEF CanTestIInv
<1>6. CASE UndefinedTest \/ LoopEnds \/ StopBusload \/ Close
  BY <1>6, EndFacts, EndKept
<1>7. CASE Helping
  BY <1>1, <1>7, HelpFacts, HelpKept
<1>8. CASE UNCHANGED vars
  <2> USE <1>8 DEF vars, setupVars, handleVars, caseVars, forkVars, CanTestIInv
  <2>1. Sound'
    BY DEF Sound, TypeOK, Limited, Limit
  <2>2. ArgInv' /\ CleanInv'
    BY DEF ArgInv, CleanInv
  <2>3. FilterInv'
    <3>1. UNCHANGED <<AskedIds, Asked, ToEvents(Asked)>>
      BY DEF AskedIds, Asked, AskedLast, ToEvents
    <3> QED BY <3>1 DEF FilterInv
  <2>4. FamilyInv'
    <3>1. \A c \in Kids : Lives(c)' = Lives(c) /\ Sends(c)' = Sends(c)
      BY DEF Lives, Sends
    <3> QED BY <3>1 DEF FamilyInv
  <2> QED BY <2>1, <2>2, <2>3, <2>4
<1> QED BY <1>2, <1>3, <1>4, <1>5, <1>6, <1>7, <1>8 DEF Next, SetupStep, Plain

LEMMA CanTestIInvHolds == Spec => []CanTestIInv
<1>1. Init => CanTestIInv
  BY InitHolds
<1>2. CanTestIInv /\ [Next]_vars => CanTestIInv'
  BY StepKeeps
<1> QED BY <1>1, <1>2, PTL DEF Spec

(* Whatever the user asks for and whatever the driver answers, the         *)
(* variables of main() keep their types, and no transfer of a test other   *)
(* than 54 and 55 is longer than the buffer that main() hands over.        *)
THEOREM CanTestInvariant == Spec => []CanTestInv
<1>1. CanTestIInv => CanTestInv
  BY DEF CanTestIInv, Sound, Limited, Limit, CanTestInv, BuffersSuffice, Room,
         TypeOK
<1> QED BY <1>1, CanTestIInvHolds, PTL

(* When a test starts and nothing was complained about, the IDs of the     *)
(* command line are enabled, for any layout of the ID space in which the   *)
(* events are aligned to their number.                                     *)
THEOREM FilterIsAsAsked == Spec => []FilterAsAsked
<1>1. CanTestIInv => FilterAsAsked
  BY DEF CanTestIInv, FilterInv, FilterAsAsked, Testing
<1> QED BY <1>1, CanTestIInvHolds, PTL

(* Where main() runs to its end the handle is closed, and bus load events  *)
(* or a schedule are left behind only if the driver refused to stop them   *)
(* and a line was printed.                                                 *)
THEOREM LeavesNothing == Spec => []LeavesClean
<1>1. CanTestIInv => LeavesClean
  BY DEF CanTestIInv, CleanInv, LeavesClean
<1> QED BY <1>1, CanTestIInvHolds, PTL

(* In test 54 every child of the first round sends while the handle it     *)
(* shares with its parent is open, for any number of children whose sleeps *)
(* are shorter than that of the parent.                                    *)
THEOREM KidsHandleOpen == Spec => KidsFindHandle
<1>1. CanTestIInv /\ [Next]_vars
        => [\A c \in Kids :
              (c[1] = 0 /\ kid[c].place = "sending" /\ kid'[c].place = "closing")
                => handle = "open"]_vars
  BY DEF CanTestIInv, FamilyInv, Sends
<1> QED BY <1>1, CanTestIInvHolds, PTL DEF Spec, KidsFindHandle

=============================================================================
