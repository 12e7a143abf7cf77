---------------------------- MODULE OcbCommands ----------------------------
(***************************************************************************)
(* The ioctl commands of esdcan_ioctl_internal, by the way they take       *)
(* through the dispatcher.  The commands with a behaviour of their own     *)
(* (read, take, write, send, aborts, destroy, ID ranges) are actions of    *)
(* the modules of the handle; the other ones differ in four things only:   *)
(* whether a card with the wrong firmware or hardware refuses them,        *)
(* whether they copy an argument in, whom they ask, and what they copy out.*)
(***************************************************************************)

(* They come to the label IOCTL_32_R: nucleus, 32 bits out on success.     *)
Forward32R ==
  {"GET_BAUD", "GET_BUSLOAD_INTERVAL", "GET_ERROR_COUNTER"}

Forward32RTx ==
  {"GET_TX_TS_WIN", "GET_TX_TS_TIMEOUT", "GET_TX_MESSAGES", "GET_FD_TDC"}

(* They come to the label IOCTL_32_W: 32 bits in, then the nucleus.        *)
Forward32W ==
  {"SET_BAUD", "SET_BUSLOAD_INTERVAL"}

Forward32WTx ==
  {"EEI_DESTROY", "EEI_START", "EEI_STOP", "EEI_TRIGGER_NOW",
   "SET_TX_TS_WIN", "SET_TX_TS_TIMEOUT", "SET_FD_TDC"}

(* They come to the label IOCTL_CMD: the nucleus alone.                    *)
ForwardCmd == {"RESET_BUS_STATISTIC", "RESET_CAN_ERROR_CNT"}

(* A structure of their own in, out or both.                               *)
BaudX == {"SET_BAUD_X", "GET_BAUD_X"}
Timestamps == {"GET_TIMESTAMP", "GET_TIMESTAMP_FREQ",
               "GET_HW_TIMESTAMP", "GET_HW_TIMESTAMP_EX"}
DebugCmd == {"DEBUG"}
InfoCmd == {"GET_INFO"}
Statistics == {"GET_BUS_STATISTIC", "GET_BITRATE_DETAILS",
               "SER_REG_READ", "SER_REG_WRITE"}
ErrorInjection == {"EEI_CREATE", "EEI_STATUS", "EEI_CONFIGURE"}

(* What my_nuc_ioctl() is called for.                                      *)
Waiting ==
  UNION {Forward32R, Forward32RTx, Forward32W, Forward32WTx, ForwardCmd,
         BaudX, Timestamps, DebugCmd, InfoCmd, Statistics, ErrorInjection}

(* Answered from the OCB, the node or the card, or by a call of the        *)
(* nucleus that never waits.                                               *)
TxObjects ==
  {"TX_OBJ_CREATE", "TX_OBJ_AUTOANSWER_ON", "TX_OBJ_AUTOANSWER_ONCE",
   "TX_OBJ_AUTOANSWER_OFF", "TX_OBJ_UPDATE", "TX_OBJ_DESTROY",
   "TX_OBJ_SCHEDULE", "TX_OBJ_SCHEDULE_START", "TX_OBJ_SCHEDULE_STOP"}
SetTimeouts == {"SET_TIMEOUT"}
GetCounts == {"GET_RX_MESSAGES", "GET_RX_TIMEOUT", "GET_TX_TIMEOUT"}
Masks == {"SET_20B_HND_FILTER", "SET_HND_FILTER"}
OneTimeout == {"SET_RX_TIMEOUT", "SET_TX_TIMEOUT"}
CardFacts == {"GET_SERIAL", "GET_FEATURES"}
Purge == {"FLUSH_RX_FIFO"}

Immediate ==
  UNION {TxObjects, SetTimeouts, GetCounts, Masks, OneTimeout, CardFacts,
         Purge}

(* Refused by CAN_ACTION_CHECK before anything else is done: all but the   *)
(* ones an updater of the firmware needs.                                  *)
Checked ==
  (Waiting \cup Immediate) \ UNION {DebugCmd, InfoCmd, SetTimeouts, Purge}

=============================================================================
