------------------------------ MODULE EventLimit ------------------------------
(***************************************************************************)
(* What event_max promises when fills can be lost.  The counter is rebuilt *)
(* from the positions table, and a fill reaches the table by a             *)
(* fire-and-forget save: a fill whose row was never written is gone with   *)
(* the process, and so is its place in the counter.  Two history variables *)
(* beside PositionLifecycle count what really happened; no action reads    *)
(* them.                                                                   *)
(***************************************************************************)
EXTENDS PositionLifecycle

VARIABLES
  filled,  (* positions that were ever filled, whatever became of them     *)
  lost     (* fills memory dropped while the table had no row of them      *)

history == <<filled, lost>>

HInit == Init /\ filled = {} /\ lost = {}

HNext ==
  /\ Next
  /\ filled' = filled \cup Filled'
  /\ lost' = lost \cup {p \in Filled : ~ Counted(mem'[p]) /\ ~ DbFilled(p)'}

HSpec == HInit /\ [][HNext]_<<vars, history>>

(* The positions of an event that were ever filled or are pending now.     *)
EverTaken(e) ==
  {p \in Pid : EventOf[p] = e /\ (p \in filled \/ mem[p].state = "pending_open")}

LostOf(e) == {p \in lost : EventOf[p] = e}

(* event_max bounds the pending and ever-filled positions of an event,     *)
(* closed ones included, over rejections, retried orders, late and failed  *)
(* saves, stops and restarts; what exceeds it is matched one for one by    *)
(* fills that a crash or a restart dropped before their row was written    *)
(* (OrderValidator.validate reads the counter that create_pending,         *)
(* reject_fill and restore_position keep; _persist is fire-and-forget).    *)
EventMaxKept ==
  \A e \in Event : Cardinality(EverTaken(e)) <= EventMax + Cardinality(LostOf(e))
=============================================================================
