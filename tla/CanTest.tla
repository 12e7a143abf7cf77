------------------------------ MODULE CanTest ------------------------------
(***************************************************************************)
(* The program cantest: its start (CanTestSetup), the turns of its test    *)
(* (CanTestCases), its end, and help(), which opens every net in turn to   *)
(* print what is there.                                                    *)
(***************************************************************************)
EXTENDS CanTestCases

CONSTANT
  MaxNets    (* NTCAN_MAX_NETS                                             *)

ASSUME NetsAssumption == MaxNets \in Nat

VARIABLE net (* The net help() looks at.                                   *)

vars == <<setupVars, handleVars, caseVars, forkVars, net>>

-----------------------------------------------------------------------------
(***************************************************************************)
(* A test that does not exist: the handle is closed and main() returns.    *)
(***************************************************************************)
KnownTests ==
  {0, 50, 90, 20, 21, 60, 61, 1, 31, 41, 51, 5, 2, 12, 32, 92, 22, 42, 62, 72,
   82, 3, 13, 33, 23, 43, 63, 73, 4, 9, 19, 120, 53, 57, 64, 74, 84, 124, 8,
   100, 110, 55, 54}

UndefinedTest ==
  /\ pc = "loop"
  /\ arg.test \notin KnownTests
  /\ More
  /\ handle' = "closed"
  /\ GiveUp
  /\ UNCHANGED <<arg, mode, ids, period, enabled, rate, busload, complained,
                 caseVars, forkVars, net>>

(***************************************************************************)
(* After the last turn: the bus load events are switched off, the handle   *)
(* is closed, and the answer of canClose() is the exit code.               *)
(***************************************************************************)
LoopEnds ==
  /\ pc = "loop"
  /\ ~More
  /\ Goto("drain")
  /\ UNCHANGED <<arg, exit, mode, ids, period, handleVars, caseVars, forkVars,
                 net>>

StopBusload ==
  /\ pc = "drain"
  /\ IF period # 0
       THEN /\ period' = 0
            /\ \E r \in Answers :
                 /\ ret' = r
                 /\ busload' = (busload /\ r # "SUCCESS")
                 /\ complained' = (complained \/ r # "SUCCESS")
       ELSE UNCHANGED <<period, ret, busload, complained>>
  /\ Goto("close")
  /\ UNCHANGED <<arg, exit, mode, ids, handle, enabled, rate, testcount, h, k,
                 handed, objects, forkVars, net>>

Close ==
  /\ pc = "close"
  /\ ret' = IF handle = "open" THEN "SUCCESS" ELSE "INVALID_HANDLE"
  /\ exit' = IF ret' = "SUCCESS" THEN 0 ELSE -1
  /\ handle' = "closed"
  /\ Goto("exit")
  /\ UNCHANGED <<arg, mode, ids, period, enabled, rate, busload, complained,
                 testcount, h, k, handed, objects, forkVars, net>>

-----------------------------------------------------------------------------
(***************************************************************************)
(* help(): every net is opened, asked and closed.  main() returns 0 after  *)
(* a negative test, -1 if there is no parameter at all.                    *)
(***************************************************************************)
HelpRest ==
  UNCHANGED <<arg, mode, ids, period, enabled, rate, busload, complained, ret,
              testcount, h, k, handed, objects, forkVars>>

HelpStarts ==
  /\ pc = "args"
  /\ arg.test < 0
  /\ Goto("help")
  /\ UNCHANGED <<exit, handle, net>> /\ HelpRest

HelpOpens ==
  /\ pc = "help"
  /\ net =< MaxNets
  /\ \/ handle' = "open" /\ Goto("status") /\ UNCHANGED net
     \/ net' = net + 1 /\ UNCHANGED <<pc, handle>>
  /\ UNCHANGED exit /\ HelpRest

(* canStatus(): without it the net is not described.                       *)
HelpStatus ==
  /\ pc = "status"
  /\ \E r \in Answers : Goto(IF r = "SUCCESS" THEN "describe" ELSE "shut")
  /\ UNCHANGED <<exit, handle, net>> /\ HelpRest

(* The card, its driver, the bit rate and the features: what cannot be     *)
(* read is not printed.                                                    *)
HelpDescribes ==
  /\ pc = "describe"
  /\ Goto("details")
  /\ UNCHANGED <<exit, handle, net>> /\ HelpRest

(* The controller, its transceiver and its counters, the timestamps, the   *)
(* window of timestamped frames: likewise.                                 *)
HelpDetails ==
  /\ pc = "details"
  /\ Goto("shut")
  /\ UNCHANGED <<exit, handle, net>> /\ HelpRest

HelpCloses ==
  /\ pc = "shut"
  /\ handle' = "closed"
  /\ net' = net + 1
  /\ Goto("help")
  /\ UNCHANGED exit /\ HelpRest

HelpEnds ==
  /\ pc = "help"
  /\ net > MaxNets
  /\ exit' \in {0, -1}
  /\ Goto("exit")
  /\ UNCHANGED <<handle, net>> /\ HelpRest

-----------------------------------------------------------------------------
Init ==
  /\ arg \in Args
  /\ pc = "args"
  /\ exit = 0
  /\ mode = {}
  /\ ids = [first |-> 0, last |-> 0]
  /\ period = 0
  /\ handle = "none"
  /\ enabled = {}
  /\ rate = "none"
  /\ busload = FALSE
  /\ complained = FALSE
  /\ ret = "SUCCESS"
  /\ testcount = TestCount(arg.test, arg.testcount)
  /\ h = 0
  /\ k = 0
  /\ handed = [buffer |-> "tx", len |-> 0]
  /\ objects = "none"
  /\ now = 0
  /\ alarm = 0
  /\ kid = [c \in Kids |-> NoKid]
  /\ net = 0

Transmitting == TestSend \/ TestSendStamped \/ TestWrite \/ TestSendEvent

Receiving ==
  \/ TestTake \/ TestTakeStamped
  \/ TestRead \/ WrongFrame \/ TestReadStamped \/ TestReadEvent
  \/ TestRemote \/ TestEcho

Asking ==
  \/ QueryTimestamp \/ QueryHwTimestamp \/ QueryStatistic \/ ResetStatistic
  \/ QueryBitrate \/ QueryMonotony

WithObjects == AutoAnswer \/ ScheduleStart \/ ScheduleUpdate \/ ScheduleStop

Forking ==
  \/ Fork \/ ParentWakes
  \/ \E c \in Kids : KidSends(c) \/ KidCloses(c)
  \/ TimePasses

Helping ==
  \/ HelpStarts \/ HelpOpens \/ HelpStatus \/ HelpDescribes \/ HelpDetails
  \/ HelpCloses \/ HelpEnds

Next ==
  \/ (Setup /\ UNCHANGED <<caseVars, forkVars, net>>)
  \/ ((Transmitting \/ Receiving \/ Asking \/ WithObjects \/ CloseAndSend
       \/ Forking) /\ UNCHANGED net)
  \/ UndefinedTest
  \/ LoopEnds \/ StopBusload \/ Close
  \/ Helping

Spec == Init /\ [][Next]_vars

-----------------------------------------------------------------------------
Places ==
  {"args", "open", "stamps", "events", "baud", "filter", "standard", "loop",
   "schedule", "family", "drain", "close", "exit", "gone", "help", "status",
   "describe", "details", "shut"}

TypeOK ==
  /\ arg.test \in Int /\ arg.baud \in Bauds
  /\ pc \in Places
  /\ exit \in {-1, 0, 1}
  /\ mode \subseteq {"MARK_INTERACTION", "NO_INTERACTION", "LOCAL_ECHO", "FD",
                     "OBJECT", "TIMESTAMPED_TX"}
  /\ ids \in [first : Int, last : Int]
  /\ period \in Int
  /\ handle \in {"none", "open", "closed"}
  /\ enabled \subseteq Int
  /\ rate \in {"none", "DISABLE", "AUTOBAUD", "NUM", "BTR", "INDEX"}
  /\ {busload, complained} \subseteq BOOLEAN
  /\ ret \in Results
  /\ {testcount, k} \subseteq Int
  /\ h \in Nat
  /\ handed \in [buffer : {"tx", "rx", "event"}, len : Int]
  /\ objects \in ObjectStates
  /\ {now, alarm} \subseteq Nat
  /\ kid \in [Kids -> [place : {"none", "sending", "closing", "gone"},
                       wakes : Nat, period : Int]]
  /\ net \in 0 .. MaxNets + 1

(* txmsg[] and its likes have MAX_TX_MSG_CNT entries, rxmsg[] and its      *)
(* likes MAX_RX_MSG_CNT, evmsg is one event.                               *)
Room == [tx |-> MaxTx, rx |-> MaxRx, event |-> 1]

(* A transfer is handed no more frames than its buffer holds, whatever the *)
(* user asks for: "Limiting count to size of rxmsg or txmsg", as the       *)
(* history of the program says.                                            *)
BuffersSuffice == handed.len =< Room[handed.buffer]

(* The state of main() stays what its variables may hold, and the buffers  *)
(* suffice for every transfer of every test but 54 and 55.  These two hand *)
(* txmsg[] to canSend() with a count that was limited to the size of       *)
(* rxmsg[]: BuffersSuffice is not true of them.                            *)
CanTestInv == TypeOK /\ (arg.test \notin {54, 55} => BuffersSuffice)

(* When the test starts and nothing was complained about, the IDs of the   *)
(* command line are enabled: the 11-bit IDs of the range, a range of       *)
(* events or, in test 4, of the numbers of events, and all 29-bit IDs when *)
(* the range leads from an 11-bit ID to one of them or lies among them.    *)
AskedLast == IF arg.test = 120 THEN arg.first ELSE arg.last

AskedIds ==
  LET range == arg.first .. AskedLast
      events == EvBase .. EvLast
      numbers == 0 .. (EvLast - EvBase) IN
  IF {arg.first, AskedLast} \subseteq events THEN range
  ELSE IF arg.test = 4
    THEN IF {arg.first, AskedLast} \subseteq numbers
           THEN {EvBase + id : id \in range} ELSE {}
  ELSE (range \cap 0 .. StdLast) \cup
       (IF /\ AskedLast \in ExtBase .. (EvBase - 1)
           /\ arg.first \in (0 .. StdLast) \cup (ExtBase .. AskedLast)
          THEN {AllExt} ELSE {})

FilterAsAsked == pc = "loop" /\ ~complained => AskedIds \subseteq enabled

(* Where main() runs to its end, nothing is left behind: the handle is     *)
(* closed, and before that the bus load events and the schedule have been  *)
(* switched off, unless the driver refused and a line was printed.         *)
LeavesClean ==
  pc = "exit" =>
    /\ handle # "open"
    /\ (busload \/ objects = "running") => complained

(* A child of the first round sends on a handle that is still open: its    *)
(* brothers and its parent close the handle they share only later.         *)
KidsFindHandle ==
  [][\A c \in Kids :
       (c[1] = 0 /\ kid[c].place = "sending" /\ kid'[c].place = "closing")
         => handle = "open"]_vars

=============================================================================
