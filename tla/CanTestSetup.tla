---------------------------- MODULE CanTestSetup ----------------------------
(***************************************************************************)
(* cantest from main() to the start of its test loop: the handle is opened,*)
(* the ID filter and the bit rate are configured.  The NTCAN library and   *)
(* the driver below it may answer every call with an error.                *)
(***************************************************************************)
EXTENDS CanTestConfig

CONSTANTS
  Args       (* The command lines.                                         *)

ASSUME ArgsAssumption ==
  Args \subseteq [test : Int, first : Nat, last : Nat, count : Int,
                  txtout : Int, baud : Bauds, testcount : Int]

VARIABLES
  arg,       (* The command line of this run.                              *)
  pc,        (* Where main() is.                                           *)
  exit,      (* The exit code.                                             *)
  mode,      (* pCtx->mode                                                 *)
  ids,       (* idstart and idend                                          *)
  period,    (* bl_event_period                                            *)
  handle,    (* h0                                                         *)
  enabled,   (* The IDs that are enabled for the handle.                   *)
  rate,      (* The kind of bit rate the driver was asked for.             *)
  busload,   (* The driver sends bus load events to the handle.            *)
  complained (* A call failed, main() printed a line and went on.          *)

setupVars == <<arg, pc, exit, mode, ids, period>>
handleVars == <<handle, enabled, rate, busload, complained>>

(* What the library may answer to a call on the handle.                    *)
Answers ==
  IF handle = "open" THEN {"SUCCESS", "ERROR"} ELSE {"INVALID_HANDLE"}

IsEvent(id) == EvBase =< id /\ id =< EvLast
IsCode(id) == CodeBase =< id
HasExtBit(id) == (ExtBase =< id /\ id < EvBase) \/ IsCode(id)

(* The 29-bit IDs are only enabled all together.                           *)
AllExt == ExtBase

Goto(place) == pc' = place

(* main() returns before the loop: an open handle is left to the kernel.   *)
GiveUp ==
  /\ Goto("gone")
  /\ exit' = -1

(***************************************************************************)
(* The parameters are parsed.  A word that is no number, a net or a data   *)
(* byte out of range, no memory: main() returns.                           *)
(***************************************************************************)
ArgsRefused ==
  /\ pc = "args"
  /\ arg.test >= 0
  /\ GiveUp
  /\ UNCHANGED <<arg, mode, ids, period, handleVars>>

ArgsParsed ==
  /\ pc = "args"
  /\ arg.test >= 0
  /\ CountValid(arg.test, arg.count)
  /\ mode' = Mode(arg.test, arg.count)
  /\ ids' = [first |-> arg.first,
             last |-> IF arg.test = 120 THEN arg.first ELSE arg.last]
  /\ Goto("open")
  /\ UNCHANGED <<arg, exit, period, handleVars>>

(***************************************************************************)
(* canOpen(), once more without NTCAN_MODE_FD if that mode was refused.    *)
(***************************************************************************)
OpenSucceeds ==
  /\ pc = "open"
  /\ handle' = "open"
  /\ Goto("stamps")
  /\ UNCHANGED <<arg, exit, mode, ids, period, enabled, rate, busload,
                 complained>>

OpenFails ==
  /\ pc = "open"
  /\ IF "FD" \in mode
       THEN mode' = mode \ {"FD"} /\ UNCHANGED <<pc, exit>>
       ELSE GiveUp /\ UNCHANGED mode
  /\ UNCHANGED <<arg, ids, period, handleVars>>

(* get_timestamp_freq(): canStatus() fails or shows no timestamps, or their*)
(* frequency cannot be read.                                               *)
TimestampFreq == IF handle = "open" THEN {0, -1} ELSE {-1}

CheckStamps ==
  /\ pc = "stamps"
  /\ \/ arg.test \in StampTests /\ -1 \in TimestampFreq /\ GiveUp
     \/ /\ arg.test \in StampTests => 0 \in TimestampFreq
        /\ Goto("events")
        /\ UNCHANGED exit
  /\ UNCHANGED <<arg, mode, ids, period, handleVars>>

(***************************************************************************)
(* The loops around set_can_id(), which tries once more when the driver    *)
(* has no resources: the IDs are added in order up to the first error.     *)
(***************************************************************************)
AddIdsWithoutLast(first, last) == \* mutant: i < idend
  \E stop \in first .. last :
    /\ enabled' = enabled \cup (first .. (stop - 1))
    /\ complained' = (complained \/ stop < last)

AddIds(first, last) ==
  \/ /\ enabled' = enabled \cup (first .. last)
     /\ UNCHANGED complained
  \/ \E stop \in first .. last :
       /\ enabled' = enabled \cup (first .. (stop - 1))
       /\ complained' = TRUE

(* The events are configured before the bit rate is, so that its change    *)
(* can be seen.  For the bus load event alone txtout is its period: the    *)
(* variable keeps it when the driver refuses, else it is what the driver   *)
(* says it has set.                                                        *)
EventIds ==
  IF arg.test = 4
    THEN [first |-> EvBase + (ids.first % (EvLast - EvBase + 1)),
          last  |-> EvBase + (ids.last % (EvLast - EvBase + 1))]
    ELSE ids

ConfigureEvents ==
  /\ pc = "events"
  /\ ids' = EventIds
  /\ LET first == EventIds.first
         last == EventIds.last IN
     IF last =< EvLast /\ first >= EvBase
       THEN /\ IF first =< last THEN AddIds(first, last)
               ELSE UNCHANGED <<enabled, complained>>
            /\ IF first = EvBusload /\ last = first
                 THEN \/ /\ period' = arg.txtout   \* SET fails
                         /\ UNCHANGED busload
                      \/ /\ period' = arg.txtout
                         /\ busload' = (arg.txtout # 0)
                 ELSE UNCHANGED <<period, busload>>
       ELSE UNCHANGED <<enabled, complained, period, busload>>
  /\ Goto("baud")
  /\ UNCHANGED <<arg, exit, mode, handle, rate>>

(* All tests but the senders of events set the bit rate.                   *)
ConfigureBaud ==
  /\ pc = "baud"
  /\ IF arg.test \in {5, 53} \/ arg.baud.nominal = "none"
       THEN Goto("filter") /\ UNCHANGED <<exit, rate>>
       ELSE \E r \in Answers :
              /\ IF r = "SUCCESS"
                   THEN /\ rate' = IF "FD" \in mode THEN BaudXMode(arg.baud)
                                   ELSE BaudMode(arg.baud)
                        /\ Goto("filter")
                        /\ UNCHANGED exit
                   ELSE GiveUp /\ UNCHANGED rate
  /\ UNCHANGED <<arg, mode, ids, period, handle, enabled, busload,
                 complained>>

(***************************************************************************)
(* The filter for received frames: an acceptance code and mask, or all     *)
(* 29-bit IDs, and the 11-bit IDs of the range.                            *)
(***************************************************************************)
FilterByCode ==
  /\ pc = "filter"
  /\ IsCode(ids.first) /\ IsCode(ids.last)
  /\ \E r \in Answers :
       /\ IF r = "SUCCESS"
            THEN /\ enabled' = enabled \cup {ids.first}
                 /\ ids' = [first |-> StdLast + 1, last |-> 0]
                 /\ Goto("loop")
                 /\ UNCHANGED exit
            ELSE GiveUp /\ UNCHANGED <<enabled, ids>>
  /\ UNCHANGED <<arg, mode, period, handle, rate, busload, complained>>

WantsExt ==
  /\ ids.first =< ids.last
  /\ \/ ids.last >= ExtBase /\ ids.first =< StdLast
     \/ HasExtBit(ids.first) /\ HasExtBit(ids.last)

FilterExt ==
  /\ pc = "filter"
  /\ ~(IsCode(ids.first) /\ IsCode(ids.last))
  /\ IF WantsExt
       THEN \E r \in Answers :
              /\ enabled' = IF r = "SUCCESS" THEN enabled \cup {AllExt}
                            ELSE enabled
              /\ complained' = (complained \/ r # "SUCCESS")
       ELSE UNCHANGED <<enabled, complained>>
  /\ Goto("standard")
  /\ UNCHANGED <<arg, exit, mode, ids, period, handle, rate, busload>>

FilterStd ==
  /\ pc = "standard"
  /\ ids' = [ids EXCEPT !.last = Smaller(@, StdLast)]
  /\ IF ids.first =< ids'.last THEN AddIds(ids.first, ids'.last)
     ELSE UNCHANGED <<enabled, complained>>
  /\ Goto("loop")
  /\ UNCHANGED <<arg, exit, mode, period, handle, rate, busload>>

Setup ==
  \/ ArgsRefused \/ ArgsParsed
  \/ OpenSucceeds \/ OpenFails
  \/ CheckStamps
  \/ ConfigureEvents
  \/ ConfigureBaud
  \/ FilterByCode \/ FilterExt \/ FilterStd

=============================================================================
