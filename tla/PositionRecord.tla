---------------------------- MODULE PositionRecord ----------------------------
(***************************************************************************)
(* The position record and its state machine: PositionState,               *)
(* ALLOWED_TRANSITIONS and the derived predicates of PositionRecord.       *)
(* Amounts, prices and timestamps are left out.                            *)
(***************************************************************************)

PositionState == {"pending_open", "open_confirmed", "closing_requested",
                  "close_pending", "closed", "close_failed"}

(* "none" stands for None.  The exit cycle produces the first three; no    *)
(* code sets the others.                                                   *)
CloseReason == {"none", "take_profit", "stop_loss", "force_sell",
                "manual_close", "expiry", "claim", "system_shutdown",
                "error_recovery"}

(* No record at all is a record in state "absent".                         *)
PosRec == [state : PositionState \cup {"absent"}, reason : CloseReason]

NoRec == [state |-> "absent", reason |-> "none"]

ALLOWED_TRANSITIONS ==
  [pending_open      |-> {"open_confirmed", "closed"},
   open_confirmed    |-> {"closing_requested"},
   closing_requested |-> {"close_pending", "open_confirmed"},
   close_pending     |-> {"closed", "close_failed"},
   close_failed      |-> {"closing_requested", "closed"},
   closed            |-> {}]

(* States in which the tokens bought are still held.                       *)
HoldingStates == {"open_confirmed", "closing_requested", "close_pending",
                  "close_failed"}

sold_reasons == {"take_profit", "stop_loss", "force_sell", "manual_close",
                 "system_shutdown", "error_recovery"}

was_sold(r) == r.state = "closed" /\ r.reason \in sold_reasons

needs_redeem(r) == r.state = "closed" /\ ~ was_sold(r)

(* Closed by reject_fill: no fill, no close reason.                        *)
Rejected(r) == r.state = "closed" /\ r.reason = "none"
=============================================================================
