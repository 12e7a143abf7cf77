--------------------------- MODULE CanTestConfig ---------------------------
(***************************************************************************)
(* The command line of the test program cantest: what main() makes of its  *)
(* parameters before it opens a handle.  A parameter is what the program   *)
(* tells apart: the number of the test, ID ranges with the bits that make  *)
(* an ID a 29-bit ID, an event or an acceptance code, the signs and the    *)
(* zeros of counts and timeouts, the kind of a bit rate.                   *)
(***************************************************************************)
EXTENDS Integers, FiniteSets

CONSTANTS
  MaxTx,     (* MAX_TX_MSG_CNT, the size of the transmit buffers.          *)
  MaxRx,     (* MAX_RX_MSG_CNT, the size of the receive buffers.           *)
  StdLast,   (* The last 11-bit ID, 2047.                                  *)
  ExtBase,   (* NTCAN_20B_BASE                                             *)
  EvBase,    (* NTCAN_EV_BASE                                              *)
  EvLast,    (* NTCAN_EV_LAST                                              *)
  EvBusload, (* NTCAN_EV_BUSLOAD                                           *)
  CodeBase   (* The bits of both: an acceptance code and mask.             *)

ASSUME ConfigAssumption ==
  /\ {MaxTx, MaxRx, StdLast, ExtBase, EvBase, EvLast, EvBusload, CodeBase}
       \subseteq Nat
  /\ 0 < MaxTx
  /\ MaxTx =< MaxRx
  /\ StdLast < MaxRx
  /\ StdLast + 1 < ExtBase
  /\ ExtBase < EvBase
  /\ EvBusload \in EvBase .. EvLast
  /\ EvLast < CodeBase
  /\ EvBase % (EvLast - EvBase + 1) = 0

(***************************************************************************)
(* The tests, by the function of the NTCAN-API they use.                   *)
(***************************************************************************)
IsSendTest(test)  == test % 10 = 0
IsWriteTest(test) == test % 10 = 1
IsTakeTest(test)  == test % 10 = 2
IsReadTest(test)  == test % 10 = 3

FdTests     == {60, 61, 62, 72, 82, 63, 73}
ObjectTests == {32, 42, 82}
StampTests  == {23, 22, 21, 20, 42, 100, 16, 63, 62, 61, 60, 82, 110, 66, 120,
                124}

(***************************************************************************)
(* Parameter 'count'.  A negative count stands for an option of the test,  *)
(* a test without such an option refuses it.                               *)
(***************************************************************************)
CountValid(test, count) ==
  count < 0 => IsReadTest(test) \/ IsWriteTest(test) \/ IsSendTest(test)

Magnitude(count) ==
  IF count = 0 THEN 1 ELSE IF count < 0 THEN -count ELSE count

Smaller(a, b) == IF a < b THEN a ELSE b

CountUnlimited(test, count) ==    \* mutant: the limit of the other buffers
  IF test = 124 THEN Magnitude(count) ELSE Smaller(Magnitude(count), MaxRx)

Count(test, count) ==
  IF IsSendTest(test) \/ IsWriteTest(test) \/ test = 5
    THEN Smaller(Magnitude(count), MaxTx)
  ELSE IF test = 124 THEN Magnitude(count)
  ELSE Smaller(Magnitude(count), MaxRx)

(* Parameter 'testcount': receive operations are repeated for ever unless  *)
(* the user says how often, the queries are made once.                     *)
Absent == -2

TestCount(test, testcount) ==
  IF testcount # Absent THEN testcount
  ELSE IF IsTakeTest(test) \/ IsReadTest(test) \/ test = 4 THEN -1
  ELSE IF test \in {64, 74, 84} THEN 1
  ELSE 10

(***************************************************************************)
(* The mode bits for canOpen().                                            *)
(***************************************************************************)
InteractionMode(test, count) ==
  {m \in {"MARK_INTERACTION", "NO_INTERACTION"} :
     /\ IsReadTest(test)
     /\ m = "MARK_INTERACTION" => count < 0
     /\ m = "NO_INTERACTION" => count = 0}

TestMode(test) ==
  {m \in {"LOCAL_ECHO", "FD", "OBJECT", "TIMESTAMPED_TX"} :
     /\ m = "LOCAL_ECHO" => test = 120
     /\ m = "FD" => test \in FdTests
     /\ m = "OBJECT" => test \in ObjectTests
     /\ m = "TIMESTAMPED_TX" => test \in {20, 21}}

Mode(test, count) == InteractionMode(test, count) \cup TestMode(test)

(***************************************************************************)
(* Parameter 'baudrate'.  nominal: nothing, "disable", "auto", an index    *)
(* into the table of bit rates, a number of bits per second, or a word     *)
(* with one of the two bits of a user-defined rate; flag: the separator    *)
(* that asks for listen-only or self-test mode.  The three words stand     *)
(* alone, so they have no flag.                                            *)
(***************************************************************************)
BaudWords == {"none", "disable", "auto"}

Bauds ==
  {b \in [nominal : BaudWords \cup {"index", "number", "user", "usernum"},
          flag : {"no", "listen", "selftest"}] :
     b.nominal \in BaudWords => b.flag = "no"}

(* An index with the bit of a flag is greater than 0xFF.                   *)
AboveIndex(b) == b.nominal = "number" \/ b.flag # "no"

(* baudx_initialize(): the mode of the structure for canSetBaudrateX().    *)
BaudXMode(b) ==
  IF b.nominal = "disable" THEN "DISABLE"
  ELSE IF b.nominal = "auto" THEN "AUTOBAUD"
  ELSE IF b.nominal = "usernum" THEN "NUM"
  ELSE IF b.nominal = "user" THEN "BTR"
  ELSE IF AboveIndex(b) THEN "NUM"
  ELSE "INDEX"

(* The word for canSetBaudrate(): without a user bit, a value above 0xFF   *)
(* gets the bit of a number; the flags are left out of that comparison.    *)
BaudMode(b) ==
  IF b.nominal = "disable" THEN "DISABLE"
  ELSE IF b.nominal = "user" THEN "BTR"
  ELSE IF b.nominal = "index" THEN "INDEX"
  ELSE "NUM"

=============================================================================
