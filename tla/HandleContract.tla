--------------------------- MODULE HandleContract ---------------------------
(***************************************************************************)
(* What an application may rely on when several threads use one CAN        *)
(* handle, whatever the driver does inside: one blocking read and one      *)
(* blocking write at a time; frames the driver holds for a read are        *)
(* handed over, all of them, when that read returns; a close lets no new   *)
(* call in and ends only when nobody is inside any more; and the handle is *)
(* freed only after it was closed.                                         *)
(***************************************************************************)
EXTENDS Naturals

CONSTANTS Threads, RxMax

VARIABLES
  phase,    (* "open", "closing", "closed" or "freed"                      *)
  reader,   (* The threads in a blocking read: none or one.                *)
  writer,   (* The threads in a blocking write: none or one.               *)
  held      (* Frames received for the reader and not yet returned.        *)

cvars == <<phase, reader, writer, held>>

Init ==
  /\ phase = "open"
  /\ reader = {}
  /\ writer = {}
  /\ held = 0

BeginRead(t) ==
  /\ phase = "open"
  /\ reader = {} /\ t \notin writer
  /\ reader' = {t}
  /\ UNCHANGED <<phase, writer, held>>

Receive ==
  /\ phase = "open"
  /\ reader # {}
  /\ held < RxMax
  /\ held' = held + 1
  /\ UNCHANGED <<phase, reader, writer>>

EndRead(t) ==
  /\ reader = {t}
  /\ reader' = {}
  /\ held' = 0
  /\ UNCHANGED <<phase, writer>>

BeginWrite(t) ==
  /\ phase = "open"
  /\ writer = {} /\ t \notin reader
  /\ writer' = {t}
  /\ UNCHANGED <<phase, reader, held>>

EndWrite(t) ==
  /\ writer = {t}
  /\ writer' = {}
  /\ UNCHANGED <<phase, reader, held>>

BeginClose ==
  /\ phase = "open"
  /\ phase' = "closing"
  /\ UNCHANGED <<reader, writer, held>>

EndClose ==
  /\ phase = "closing"
  /\ reader = {} /\ writer = {}
  /\ phase' \in {"closed", "freed"}
  /\ UNCHANGED <<reader, writer, held>>

Free ==
  /\ phase = "closed"
  /\ phase' = "freed"
  /\ UNCHANGED <<reader, writer, held>>

Next ==
  \/ \E t \in Threads : BeginRead(t) \/ EndRead(t) \/ BeginWrite(t) \/ EndWrite(t)
  \/ Receive
  \/ BeginClose
  \/ EndClose
  \/ Free

Spec == Init /\ [][Next]_cvars

=============================================================================
