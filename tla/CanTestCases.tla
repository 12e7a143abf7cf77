---------------------------- MODULE CanTestCases ----------------------------
(***************************************************************************)
(* The test loop of cantest: one action per group of cases of its switch.  *)
(* What is printed and how long a call took is left out; a case is the     *)
(* calls it makes on the handle, the buffer and the length it hands over,  *)
(* and the result it leaves in ret.                                        *)
(*                                                                         *)
(* Test 54 forks children that share the handle with their parent.  Its    *)
(* sleeps are modelled: a process that does not sleep takes no time, and   *)
(* the clock goes to the next alarm when all of them sleep.                *)
(***************************************************************************)
EXTENDS CanTestSetup

CONSTANTS
  Delays,       (* The lens[] of test 54: a sleep of each child.           *)
  MaxRounds     (* How often test 54 is repeated at most (bound).          *)

ASSUME DelaysAssumption ==
  /\ \A c \in DOMAIN Delays : Delays[c] \in Nat \ {0}
  /\ MaxRounds \in Nat

VARIABLES
  ret,       (* The result of the last call of the test.                   *)
  testcount, (* -1 is ever = 1.                                            *)
  h,         (* The turns that are done.                                   *)
  k,         (* The turns of the scheduling test.                          *)
  handed,    (* The buffer and the length of the last transfer (history).  *)
  objects,   (* The transmit objects of the handle.                        *)
  now,       (* The time, in hundreds of milliseconds.                     *)
  alarm,     (* When the parent of test 54 wakes up.                       *)
  kid        (* The children of test 54.                                   *)

caseVars == <<ret, testcount, h, k, handed, objects>>
forkVars == <<now, alarm, kid>>

Results == {"SUCCESS", "ERROR", "NO_ID_ENABLED", "INVALID_HANDLE"}
ObjectStates == {"none", "created", "answering", "running", "stopped"}

(* A read with no ID enabled has an answer of its own.                     *)
ReadAnswers ==
  IF handle = "open" THEN Answers \cup {"NO_ID_ENABLED"} ELSE Answers

More == h < testcount \/ testcount = -1

Case(tests) ==
  /\ pc = "loop"
  /\ arg.test \in tests
  /\ More

Maxcount == Count(arg.test, arg.count)

(* The end of the loop body: with no ID enabled testing stops.             *)
Turn(r) ==
  /\ ret' = r
  /\ h' = IF testcount = -1 THEN h ELSE h + 1
  /\ Goto(IF r = "NO_ID_ENABLED" THEN "drain" ELSE "loop")

Hands(buffer, len) == handed' = [buffer |-> buffer, len |-> len]

Same == UNCHANGED <<arg, exit, mode, ids, period, handleVars, forkVars>>

-----------------------------------------------------------------------------
(***************************************************************************)
(* Transmission.                                                           *)
(***************************************************************************)
(* canSend(), after a query of the FIFO in test 90.                        *)
TestSend ==
  /\ Case({0, 50, 90})
  /\ Hands("tx", Maxcount)
  /\ \E r \in Answers : Turn(r)
  /\ Same /\ UNCHANGED <<testcount, k, objects>>

(* A reference frame, a timestamp, and a timestamped canSendT(),           *)
(* canWriteT(), canSendX() or canWriteX(): only the last result counts.    *)
TestSendStamped ==
  /\ Case({20, 21, 60, 61})
  /\ Hands("tx", Maxcount)
  /\ \E r \in Answers : Turn(r)
  /\ Same /\ UNCHANGED <<testcount, k, objects>>

TestWrite ==
  /\ Case({1, 31, 41, 51})
  /\ Hands("tx", Maxcount)
  /\ \E r \in Answers : Turn(r)
  /\ Same /\ UNCHANGED <<testcount, k, objects>>

TestSendEvent ==
  /\ Case({5})
  /\ Hands("event", 1)
  /\ \E r \in Answers : Turn(r)
  /\ Same /\ UNCHANGED <<testcount, k, objects>>

(***************************************************************************)
(* Reception.  In object mode there is one frame per ID of the range.      *)
(***************************************************************************)
ObjectLen == ids.last - ids.first + 1

TestTake ==
  /\ Case({2, 12, 32, 92})
  /\ Hands("rx", IF arg.test = 32 THEN ObjectLen ELSE Maxcount)
  /\ \E r \in ReadAnswers : Turn(r)
  /\ Same /\ UNCHANGED <<testcount, k, objects>>

TestTakeStamped ==
  /\ Case({22, 42, 62, 72, 82})
  /\ Hands("rx", IF arg.test \in {42, 82} THEN ObjectLen ELSE Maxcount)
  /\ \E r \in ReadAnswers : Turn(r)
  /\ Same /\ UNCHANGED <<testcount, k, objects>>

TestRead ==
  /\ Case({3, 13, 33})
  /\ Hands("rx", Maxcount)
  /\ \E r \in ReadAnswers : Turn(r)
  /\ Same /\ UNCHANGED <<testcount, k, objects>>

(* A frame out of order: exit(1), the handle stays open.                   *)
WrongFrame ==
  /\ Case({33})
  /\ handle = "open"
  /\ Hands("rx", Maxcount)
  /\ Goto("gone")
  /\ exit' = 1
  /\ UNCHANGED <<arg, mode, ids, period, handleVars, forkVars, ret, testcount,
                 h, k, objects>>

TestReadStamped ==
  /\ Case({23, 43, 63, 73})
  /\ Hands("rx", Maxcount)
  /\ \E r \in ReadAnswers : Turn(r)
  /\ Same /\ UNCHANGED <<testcount, k, objects>>

TestReadEvent ==
  /\ Case({4})
  /\ Hands("event", 1)
  /\ \E r \in ReadAnswers : Turn(r)
  /\ Same /\ UNCHANGED <<testcount, k, objects>>

(* A remote request and its answer.                                        *)
TestRemote ==
  /\ Case({9, 19})
  /\ \/ /\ "ERROR" \in Answers
        /\ Hands("tx", 1)
        /\ Turn("ERROR")
     \/ /\ Hands("rx", Maxcount)
        /\ \E r \in ReadAnswers : Turn(r)
  /\ Same /\ UNCHANGED <<testcount, k, objects>>

(* Local echo: a timestamp, a frame and its echo, maxcount times; an error *)
(* goes on to the next frame, the last result counts.                      *)
TestEcho ==
  /\ Case({120})
  /\ Hands("rx", 1)
  /\ \E r \in ReadAnswers : Turn(r)
  /\ Same /\ UNCHANGED <<testcount, k, objects>>

-----------------------------------------------------------------------------
(***************************************************************************)
(* Queries: timestamps in a loop up to the first error, hardware           *)
(* timestamps, the statistics of the bus, its reset and its bit rate.      *)
(***************************************************************************)
Query(tests) ==
  /\ Case(tests)
  /\ \E r \in Answers : Turn(r)
  /\ Same /\ UNCHANGED <<testcount, k, handed, objects>>

QueryTimestamp   == Query({53})
QueryHwTimestamp == Query({57})
QueryStatistic   == Query({64})
ResetStatistic   == Query({74})
QueryBitrate     == Query({84})
QueryMonotony    == Query({124})

(***************************************************************************)
(* Test 8: a transmit object that answers remote requests.  An error ends  *)
(* the chain of calls and leaves the object as it is.                      *)
(***************************************************************************)
AutoAnswer ==
  /\ Case({8})
  /\ \/ Turn("ERROR") /\ objects' \in {objects, "created", "answering"}
     \/ Turn("SUCCESS") /\ objects' = "none"
  /\ Same /\ UNCHANGED <<testcount, k, handed>>

(***************************************************************************)
(* Tests 100 and 110: a schedule of transmit objects, updated once a       *)
(* second.  They are done in one turn of the loop of main().               *)
(***************************************************************************)
ScheduleStart ==
  /\ Case({100, 110})
  /\ \/ objects' = "running"
     \/ objects' = "created"
  /\ k' = 0
  /\ Hands("tx", Maxcount)
  /\ Goto("schedule")
  /\ Same /\ UNCHANGED <<ret, testcount, h>>

ScheduleUpdate ==
  /\ pc = "schedule"
  /\ k < testcount \/ testcount = -1
  /\ k' = IF testcount = -1 THEN k ELSE k + 1
  /\ UNCHANGED <<pc, ret, testcount, h, handed, objects>>
  /\ Same

ScheduleStopForgotten ==          \* mutant: no SCHEDULE_STOP
  /\ pc = "schedule"
  /\ k >= testcount /\ testcount # -1
  /\ testcount' = 0
  /\ ret' = "SUCCESS"
  /\ h' = h + 1
  /\ Goto("loop")
  /\ UNCHANGED <<k, handed, objects>>
  /\ Same

ScheduleStop ==
  /\ pc = "schedule"
  /\ k >= testcount /\ testcount # -1
  /\ testcount' = 0
  /\ \E r \in Answers :
       /\ ret' = r
       /\ objects' = IF r = "SUCCESS" THEN "stopped" ELSE objects
       /\ complained' = (complained \/ r # "SUCCESS")
  /\ h' = h + 1
  /\ Goto("loop")
  /\ UNCHANGED <<k, handed>>
  /\ UNCHANGED <<arg, exit, mode, ids, period, handle, enabled, rate, busload,
                 forkVars>>

-----------------------------------------------------------------------------
(***************************************************************************)
(* Test 55: the handle is closed, the canSend() after it has to fail.      *)
(***************************************************************************)
CloseAndSend ==
  /\ Case({55})
  /\ handle' = "closed"
  /\ Hands("tx", Maxcount)
  /\ Turn("INVALID_HANDLE")
  /\ UNCHANGED <<arg, exit, mode, ids, period, enabled, rate, busload,
                 complained, forkVars, testcount, k, objects>>

(***************************************************************************)
(* Test 54.                                                                *)
(***************************************************************************)
Kids == (0 .. MaxRounds - 1) \X DOMAIN Delays
NoKid == [place |-> "none", wakes |-> 0, period |-> 0]

ParentSleep == 50
RestShort == 5                    \* mutant: without SLEEP(4500)

(* SLEEP(500) and SLEEP(4500) after the canSend() of a child.              *)
Rest == 50

(* The children of a round send before their parent wakes up.  The number  *)
(* of rounds is bounded by MaxRounds.                                      *)
ASSUME FamilyAssumption ==
  /\ \A c \in DOMAIN Delays : Delays[c] < ParentSleep
  /\ \A a \in Args : a.test = 54 => a.testcount \in 0 .. MaxRounds

(* The parent starts its children, each with its own copy of the period of *)
(* the bus load events; fork() may fail for some of them.                  *)
Fork ==
  /\ Case({54})
  /\ \E born \in SUBSET DOMAIN Delays :
       kid' = [c \in Kids |->
                IF c[1] = h /\ c[2] \in born
                  THEN [place |-> "sending", wakes |-> now + Delays[c[2]],
                        period |-> period]
                  ELSE kid[c]]
  /\ alarm' = now + ParentSleep
  /\ Goto("family")
  /\ UNCHANGED <<arg, exit, mode, ids, period, handleVars, caseVars, now>>

ParentWakes ==
  /\ pc = "family"
  /\ alarm = now
  /\ Turn(ret)
  /\ Same /\ UNCHANGED <<testcount, k, handed, objects>>

KidSends(c) ==
  /\ kid[c].place = "sending"
  /\ kid[c].wakes = now
  /\ kid' = [kid EXCEPT ![c].place = "closing", ![c].wakes = now + Rest]
  /\ Hands("tx", Maxcount)
  /\ UNCHANGED <<arg, pc, exit, mode, ids, period, handleVars, ret, testcount,
                 h, k, objects, now, alarm>>

(* h = testcount takes the child out of the loop; it switches the bus load *)
(* events off, closes the handle it shares and exits.                      *)
KidCloses(c) ==
  /\ kid[c].place = "closing"
  /\ kid[c].wakes = now
  /\ IF kid[c].period # 0
       THEN \E r \in Answers :
              /\ busload' = (busload /\ r # "SUCCESS")
              /\ complained' = (complained \/ r # "SUCCESS")
       ELSE UNCHANGED <<busload, complained>>
  /\ kid' = [kid EXCEPT ![c] = [place |-> "gone", wakes |-> 0, period |-> 0]]
  /\ handle' = "closed"
  /\ UNCHANGED <<arg, pc, exit, mode, ids, period, enabled, rate, caseVars,
                 now, alarm>>

Alarms ==
  (IF pc = "family" THEN {alarm} ELSE {}) \cup
  {kid[c].wakes : c \in {b \in Kids : kid[b].place \in {"sending", "closing"}}}

TimePasses ==
  /\ pc \in {"family", "exit"}
  /\ Alarms # {}
  /\ now \notin Alarms
  /\ now' \in {t \in Alarms : \A u \in Alarms : t =< u}
  /\ UNCHANGED <<arg, pc, exit, mode, ids, period, handleVars, caseVars, alarm,
                 kid>>

=============================================================================
