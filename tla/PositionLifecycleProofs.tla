----------------------- MODULE PositionLifecycleProofs -----------------------
(***************************************************************************)
(* Proofs about PositionLifecycle, for any finite set of positions, any    *)
(* limits, either mode and any combination of faults.                      *)
(***************************************************************************)
EXTENDS PositionLifecycle, TLAPS, FiniteSetTheorems

(* Every set of positions is finite, its cardinality a natural number.     *)
LEMMA PidSubsets ==
  ASSUME NEW S \in SUBSET Pid
  PROVE  IsFiniteSet(S) /\ Cardinality(S) \in Nat
BY FS_Subset, FS_CardinalityType, PositionConstants DEF PositionConstants

(* Changing the state of a record, or the whole record, stays in type.     *)
LEMMA RecordUpdates ==
  ASSUME NEW m \in [Pid -> PosRec], NEW p \in Pid, NEW s \in PositionState
  PROVE  /\ [m EXCEPT ![p].state = s] \in [Pid -> PosRec]
         /\ \A r \in CloseReason : [m EXCEPT ![p] = [state |-> s, reason |-> r]] \in [Pid -> PosRec]
<1>1. [m[p] EXCEPT !.state = s] \in PosRec
  BY DEF PosRec
<1>2. \A r \in CloseReason : [state |-> s, reason |-> r] \in PosRec
  BY DEF PosRec
<1>3. [m EXCEPT ![p].state = s] \in [Pid -> PosRec]
  BY <1>1
<1> QED
  BY <1>2, <1>3

(* The operators that build a new record, counter or queue stay in type.   *)
LEMMA TypeHelpers ==
  ASSUME TypeOK, NEW p \in Pid
  PROVE  /\ \A s \in PositionState : [mem EXCEPT ![p].state = s] \in [Pid -> PosRec]
         /\ \A s \in PositionState, r \in CloseReason :
              [mem EXCEPT ![p] = [state |-> s, reason |-> r]] \in [Pid -> PosRec]
         /\ persist(p) \in Seq(Pid)
         /\ create_pending(p) \in [Event -> Nat]
         /\ Triggers(p) \subseteq CloseReason \ {"none"}
         /\ NoPrice \in [Asset -> {"none", "stale", "live"}]
<1>0. mem \in [Pid -> PosRec]
  BY DEF TypeOK
<1>1. \A s \in PositionState : [mem EXCEPT ![p].state = s] \in [Pid -> PosRec]
  BY <1>0, RecordUpdates
<1>2. \A s \in PositionState, r \in CloseReason :
        [mem EXCEPT ![p] = [state |-> s, reason |-> r]] \in [Pid -> PosRec]
  BY <1>0, RecordUpdates
<1> USE PositionConstants DEF PositionConstants, TypeOK
<1>3. persist(p) \in Seq(Pid)
  BY DEF persist
<1>4. create_pending(p) \in [Event -> Nat]
  BY DEF create_pending
<1>5. Triggers(p) \subseteq CloseReason \ {"none"}
  <2>1. AssetOf[p] \in Asset
    OBVIOUS
  <2>2. price[AssetOf[p]] \in {"none", "stale", "live"}
    BY <2>1
  <2> QED
    BY <2>2 DEF Triggers, CloseReason
<1>6. NoPrice \in [Asset -> {"none", "stale", "live"}]
  BY DEF NoPrice
<1> QED
  BY <1>1, <1>2, <1>3, <1>4, <1>5, <1>6

(* The exchange account holds a natural number of lots of each token.      *)
LEMMA LotsType ==
  ASSUME TypeOK, NEW t \in Token
  PROVE  /\ Bought(t) => lots' \in [Token -> Nat]
         /\ Sold(t) => lots' \in [Token -> Nat]
         /\ BuyError(t) => lots' \in [Token -> Nat]
         /\ SellError(t) => lots' \in [Token -> Nat]
<1>1. Bought(t) => lots' \in [Token -> Nat]
  BY DEF TypeOK, Bought
<1>2. Sold(t) => lots' \in [Token -> Nat]
  BY DEF TypeOK, Sold
<1>3. UNCHANGED lots => lots' \in [Token -> Nat]
  BY DEF TypeOK
<1> QED
  BY <1>1, <1>2, <1>3 DEF BuyError, SellError

(* reject_fill keeps the counters in type whatever counter it is given.    *)
LEMMA RejectType ==
  ASSUME TypeOK, NEW p \in Pid, NEW fills \in [Event -> Nat], reject_fill(p, fills)
  PROVE  /\ mem' \in [Pid -> PosRec]
         /\ event_fills' \in [Event -> Nat]
         /\ session_trade_count' \in Nat
<1>1. mem' \in [Pid -> PosRec]
  BY TypeHelpers DEF reject_fill, PositionState
<1>2. event_fills' \in [Event -> Nat]
  BY PositionConstants DEF reject_fill, PositionConstants
<1> QED
  BY <1>1, <1>2 DEF reject_fill, TypeOK

(* confirm_fill keeps the records and the trade count in type.             *)
LEMMA ConfirmType ==
  ASSUME TypeOK, NEW p \in Pid, confirm_fill(p)
  PROVE  mem' \in [Pid -> PosRec] /\ session_trade_count' \in Nat
<1>1. mem' \in [Pid -> PosRec]
  BY TypeHelpers DEF confirm_fill, PositionState
<1> QED
  BY <1>1 DEF confirm_fill, TypeOK

(* TypeOK holds initially.                                                 *)
LEMMA TypeInit == Init => TypeOK
BY PositionConstants DEF Init, TypeOK, NoRec, NoPrice, PosRec, PositionState,
   CloseReason, PositionConstants

(* An entry step keeps every variable in its type.                         *)
LEMMA TypeEntry == TypeOK /\ EntryStep => TypeOK'
<1> SUFFICES ASSUME TypeOK, NEW p \in Pid,
                    execute_paper(p) \/ execute_live(p) \/ resume_buy(p)
             PROVE  TypeOK'
  BY DEF EntryStep
<1>0. TokenOf[p] \in Token
  BY PositionConstants DEF PositionConstants
<1>1. CASE execute_paper(p)
  BY <1>1, TypeHelpers, ConfirmType DEF execute_paper, TypeOK, cycleVars
<1>2. CASE execute_live(p)
  <2>1. /\ mem' \in [Pid -> PosRec]
        /\ event_fills' \in [Event -> Nat]
        /\ session_trade_count' \in Nat
        /\ lots' \in [Token -> Nat]
        /\ entry' \in Pid \cup {NoPid}
    <3>1. CASE confirm_fill(p) /\ event_fills' = create_pending(p)
               /\ Bought(TokenOf[p]) /\ UNCHANGED entry
      BY <1>0, <3>1, TypeHelpers, ConfirmType, LotsType DEF TypeOK
    <3>2. CASE reject_fill(p, create_pending(p)) /\ BuyError(TokenOf[p])
               /\ UNCHANGED entry
      BY <1>0, <3>2, TypeHelpers, RejectType, LotsType DEF TypeOK
    <3>3. CASE /\ mem' = [mem EXCEPT ![p].state = "pending_open"]
               /\ event_fills' = create_pending(p)
               /\ BuyError(TokenOf[p])
               /\ entry' = p
               /\ UNCHANGED session_trade_count
      BY <1>0, <3>3, TypeHelpers, LotsType DEF TypeOK, PositionState
    <3> QED
      BY <1>2, <3>1, <3>2, <3>3 DEF execute_live
  <2> QED
    BY <1>2, <2>1, TypeHelpers DEF execute_live, TypeOK, cycleVars
<1>3. CASE resume_buy(p)
  <2>1. /\ mem' \in [Pid -> PosRec]
        /\ event_fills' \in [Event -> Nat]
        /\ session_trade_count' \in Nat
        /\ lots' \in [Token -> Nat]
        /\ saves' \in Seq(Pid)
    <3>1. CASE confirm_fill(p) /\ Bought(TokenOf[p]) /\ saves' = persist(p)
               /\ UNCHANGED event_fills
      BY <1>0, <3>1, TypeHelpers, ConfirmType, LotsType DEF TypeOK
    <3>2. CASE reject_fill(p, event_fills) /\ BuyError(TokenOf[p])
               /\ UNCHANGED saves
      BY <1>0, <3>2, RejectType, LotsType DEF TypeOK
    <3> QED
      BY <1>3, <3>1, <3>2 DEF resume_buy
  <2> QED
    BY <1>3, <2>1 DEF resume_buy, TypeOK, cycleVars
<1> QED
  BY <1>1, <1>2, <1>3

(* confirm_close and close_failed keep records, queue and cooldowns in     *)
(* type.                                                                   *)
LEMMA CloseType ==
  ASSUME TypeOK, NEW p \in Pid, confirm_close(p) \/ close_failed(p)
  PROVE  mem' \in [Pid -> PosRec] /\ saves' \in Seq(Pid) /\ cooldown' \subseteq Pid
<1>1. CASE confirm_close(p)
  BY <1>1, TypeHelpers DEF confirm_close, PositionState, TypeOK
<1>2. CASE close_failed(p)
  BY <1>2, TypeHelpers DEF close_failed, PositionState, TypeOK
<1> QED
  BY <1>1, <1>2

(* A step that closes, retries or skips a position keeps the types.        *)
LEMMA TypeClose ==
  ASSUME TypeOK, NEW p \in Pid, CloseStep(p)
  PROVE  TypeOK'
<1>0. TokenOf[p] \in Token
  BY PositionConstants DEF PositionConstants
<1>1. CASE skip_close(p)
  BY <1>1 DEF skip_close, TypeOK, trackerVars
<1>2. CASE cancel_close(p)
  <2>1. mem' \in [Pid -> PosRec]
    BY <1>2, TypeHelpers DEF cancel_close, PositionState, CloseReason
  <2> QED
    BY <1>2, <2>1 DEF cancel_close, TypeOK
<1>3. CASE execute_close_paper(p)
  BY <1>3, CloseType DEF execute_close_paper, TypeOK
<1>4. CASE sell_matched(p)
  BY <1>0, <1>4, CloseType, LotsType DEF sell_matched, TypeOK
<1>5. CASE sell_refused(p)
  BY <1>0, <1>5, CloseType, LotsType DEF sell_refused, TypeOK
<1>6. CASE sell_transient(p)
  <2>1. mem' \in [Pid -> PosRec]
    BY <1>6, TypeHelpers DEF sell_transient, PositionState
  <2> QED
    BY <1>0, <1>6, <2>1, LotsType DEF sell_transient, TypeOK
<1>7. CASE resume_sell(p)
  <2>1. lots' \in [Token -> Nat] /\ (confirm_close(p) \/ close_failed(p))
    BY <1>0, <1>7, LotsType DEF resume_sell
  <2> QED
    BY <1>7, <2>1, CloseType DEF resume_sell, TypeOK
<1> QED
  BY <1>1, <1>2, <1>3, <1>4, <1>5, <1>6, <1>7 DEF CloseStep

(* A write to the database keeps it in type.                               *)
LEMMA SaveType ==
  ASSUME TypeOK, NEW p \in Pid, Save(p)
  PROVE  db' \in [Pid -> PosRec]
BY DEF TypeOK, Save

(* A flush step, periodic or final, keeps the types.                       *)
LEMMA FlushType ==
  ASSUME TypeOK, NEW p \in Pid, Flush(p)
  PROVE  TypeOK'
BY SaveType DEF Flush, TypeOK, trackerVars

(* A step of the exit cycle keeps the types.                               *)
LEMMA TypeExit == TypeOK /\ ExitStep => TypeOK'
<1> SUFFICES ASSUME TypeOK, ExitStep
             PROVE  TypeOK'
  OBVIOUS
<1>1. CASE begin_cycle
  BY <1>1 DEF begin_cycle, TypeOK, trackerVars
<1>2. CASE begin_closing
  BY <1>2 DEF begin_closing, TypeOK, trackerVars
<1>3. CASE end_cycle
  <2>1. price' \in [Asset -> {"none", "stale", "live"}]
    BY <1>3 DEF end_cycle, NoPrice
  <2> QED
    BY <1>3, <2>1 DEF end_cycle, TypeOK, trackerVars
<1>4. CASE end_flush
  BY <1>4 DEF end_flush, TypeOK, trackerVars
<1>5. ASSUME NEW p \in Pid, evaluate_position(p)
      PROVE  TypeOK'
  <2>1. mem' \in [Pid -> PosRec] /\ saves' \in Seq(Pid)
    <3>1. ASSUME NEW reason \in Triggers(p), request_close(p, reason)
          PROVE  mem' \in [Pid -> PosRec] /\ saves' \in Seq(Pid)
      BY <3>1, TypeHelpers DEF request_close, PositionState
    <3> QED
      BY <1>5, <3>1 DEF evaluate_position, TypeOK
  <2> QED
    BY <1>5, <2>1 DEF evaluate_position, TypeOK
<1> QED
  BY <1>1, <1>2, <1>3, <1>4, <1>5, TypeClose, FlushType DEF ExitStep, periodic_flush

(* The queued saves, the clock, stop, start and a crash keep the types.    *)
LEMMA TypeOther ==
  TypeOK /\ (save \/ CooldownStep \/ StopStep \/ start \/ crash) => TypeOK'
<1> SUFFICES ASSUME TypeOK, save \/ CooldownStep \/ StopStep \/ start \/ crash
             PROVE  TypeOK'
  OBVIOUS
<1>0. NoPrice \in [Asset -> {"none", "stale", "live"}]
  BY DEF NoPrice
<1>1. CASE save
  <2>1. Head(saves) \in Pid /\ Tail(saves) \in Seq(Pid)
    BY <1>1 DEF save, TypeOK
  <2> QED
    BY <1>1, <2>1, SaveType DEF save, TypeOK, trackerVars, cycleVars
<1>2. CASE CooldownStep
  BY <1>2 DEF CooldownStep, cooldown_over, TypeOK, trackerVars, cycleVars
<1>3. CASE stop
  BY <1>0, <1>3 DEF stop, TypeOK, trackerVars
<1>4. CASE stop_evaluation
  BY <1>4 DEF stop_evaluation, TypeOK, trackerVars
<1>5. CASE stopped
  BY <1>5 DEF stopped, TypeOK, trackerVars, cycleVars
<1>6. ASSUME NEW p \in Pid, flush_state(p)
      PROVE  TypeOK'
  BY <1>6, FlushType DEF flush_state
<1>7. CASE start
  <2>1. mem' \in [Pid -> PosRec]
    BY <1>7 DEF start, restore_position, TypeOK, PosRec, PositionState
  <2>2. event_fills' \in [Event -> Nat]
    BY <1>7, PidSubsets DEF start
  <2>3. session_trade_count' \in Nat
    BY <1>7, PidSubsets DEF start
  <2> QED
    BY <1>7, <2>1, <2>2, <2>3 DEF start, TypeOK
<1>8. CASE crash
  <2>1. mem' \in [Pid -> PosRec]
    BY <1>8 DEF crash, NoRec, PosRec, CloseReason
  <2> QED
    BY <1>0, <1>8, <2>1 DEF crash, TypeOK
<1> QED
  BY <1>1, <1>2, <1>3, <1>4, <1>5, <1>6, <1>7, <1>8 DEF StopStep

(* Every step keeps the types.                                             *)
LEMMA TypeStep == TypeOK /\ [Next]_vars => TypeOK'
<1>1. TypeOK /\ UNCHANGED vars => TypeOK'
  BY DEF TypeOK, vars
<1> QED
  BY <1>1, TypeEntry, TypeExit, TypeOther DEF Next

(* Type correctness of the position lifecycle: no counter becomes          *)
(* negative, no sale leaves the account with a negative balance, every     *)
(* record stays a record of PositionRecord.                                *)
THEOREM TypeCorrect == Spec => []TypeOK
BY TypeInit, TypeStep, PTL DEF Spec

-----------------------------------------------------------------------------
(* A step that changes neither which positions are counted nor which are   *)
(* pending, and writes nothing, keeps the facts about memory and database. *)
LEMMA DataQuiet ==
  ASSUME TypeOK, DataInv,
         UNCHANGED <<db, event_fills, session_trade_count>>,
         phase' # "down" \/ saves' # <<>> => phase # "down" \/ saves # <<>>,
         issued \subseteq issued',
         \A p \in Pid \ issued' : mem'[p] = NoRec,
         \A p \in Pid : /\ Counted(mem'[p]) <=> Counted(mem[p])
                        /\ mem'[p].state = "pending_open"
                             <=> mem[p].state = "pending_open"
                        /\ RecOK(mem'[p])
  PROVE  DataInv'
<1>1. \A p \in Pid : DbFilled(p)' <=> DbFilled(p)
  BY DEF DbFilled
<1>2. \A e \in Event : CountedOf(e)' = CountedOf(e) /\ DbFilledOf(e)' = DbFilledOf(e)
  BY <1>1 DEF CountedOf, DbFilledOf
<1>3. Filled' = Filled
  BY DEF Filled
<1>4. DbFilledKnown'
  BY <1>1 DEF DataInv, DbFilledKnown
<1>5. NeverUndercounts' /\ EventCap'
  BY <1>2, <1>3 DEF DataInv, NeverUndercounts, EventCap
<1> QED
  BY <1>1, <1>2, <1>4, <1>5 DEF DataInv

(* A write of the record in memory adds no fill the tracker does not       *)
(* count.                                                                  *)
LEMMA DataWrite ==
  ASSUME TypeOK, DataInv, NEW p \in Pid, Save(p),
         UNCHANGED <<mem, event_fills, session_trade_count, issued>>,
         phase # "down" \/ saves # <<>>
  PROVE  DataInv'
<1>1. CASE UNCHANGED db
  BY <1>1, DataQuiet DEF DataInv
<1>2. CASE db' = [db EXCEPT ![p] = mem[p]]
  <2>1. \A q \in Pid : db'[q] = IF q = p THEN mem[p] ELSE db[q]
    BY <1>2 DEF TypeOK
  <2>2. \A q \in Pid : DbFilled(q)' => Counted(mem[q]) /\ mem[q].state # "pending_open"
    BY <2>1 DEF DbFilled, DataInv, DbFilledKnown
  <2>3. DbFilledKnown'
    BY <2>2 DEF DbFilledKnown
  <2>4. \A e \in Event : Cardinality(DbFilledOf(e)') <= EventMax
    <3> TAKE e \in Event
    <3>1. DbFilledOf(e)' \subseteq CountedOf(e)
      BY <2>2 DEF DbFilledOf, CountedOf
    <3>2. CountedOf(e) \in SUBSET Pid /\ DbFilledOf(e)' \in SUBSET Pid
      BY DEF CountedOf, DbFilledOf
    <3>3. Cardinality(DbFilledOf(e)') <= Cardinality(CountedOf(e))
      BY <3>1, <3>2, PidSubsets, FS_Subset
    <3>4. Cardinality(CountedOf(e)) <= EventMax
      BY DEF DataInv, EventCap
    <3>5. Cardinality(DbFilledOf(e)') \in Nat /\ Cardinality(CountedOf(e)) \in Nat
      BY <3>2, PidSubsets
    <3> QED
      BY <3>3, <3>4, <3>5, PositionConstants DEF PositionConstants
  <2>5. NeverUndercounts' /\ EventCap'
    BY DEF DataInv, NeverUndercounts, EventCap, CountedOf, Filled
  <2> QED
    BY <2>1, <2>2, <2>3, <2>4, <2>5 DEF DataInv
<1> QED
  BY <1>1, <1>2 DEF Save

(* Cardinalities of sets of positions: one element more, one less, subset. *)
LEMMA PidCard ==
  ASSUME NEW S \in SUBSET Pid, NEW p \in Pid
  PROVE  /\ Cardinality(S \cup {p}) \in Nat
         /\ p \notin S => Cardinality(S \cup {p}) = Cardinality(S) + 1
         /\ p \in S => Cardinality(S \ {p}) = Cardinality(S) - 1
         /\ \A T \in SUBSET S : Cardinality(T) <= Cardinality(S)
<1>1. IsFiniteSet(S)
  BY PidSubsets
<1>2. Cardinality(S \cup {p}) \in Nat
  BY PidSubsets
<1>3. p \notin S => Cardinality(S \cup {p}) = Cardinality(S) + 1
  BY <1>1, FS_AddElement
<1>4. p \in S => Cardinality(S \ {p}) = Cardinality(S) - 1
  BY <1>1, FS_RemoveElement
<1>5. \A T \in SUBSET S : Cardinality(T) <= Cardinality(S)
  BY <1>1, FS_Subset
<1> QED
  BY <1>2, <1>3, <1>4, <1>5

(* A dispatched entry takes one slot of its event, which validate found    *)
(* free: pending (PENDING_OPEN) or filled at once.                         *)
LEMMA DataTakeSlot ==
  ASSUME TypeOK, DataInv, NEW p \in Pid, p \notin issued, validate(p),
         NEW s \in {"pending_open", "open_confirmed"},
         mem' = [mem EXCEPT ![p].state = s],
         event_fills' = create_pending(p),
         session_trade_count' = IF s = "open_confirmed"
                                THEN session_trade_count + 1
                                ELSE session_trade_count,
         issued' = issued \cup {p},
         UNCHANGED <<db, phase>>,
         phase # "down"
  PROVE  DataInv'
<1>0. mem[p] = NoRec /\ db[p] = NoRec
  BY DEF DataInv
<1>1. mem'[p] = [state |-> s, reason |-> "none"]
  BY <1>0 DEF TypeOK, NoRec, PosRec
<1>2. \A q \in Pid : q # p => mem'[q] = mem[q]
  BY DEF TypeOK
<1>3. Counted(mem'[p]) /\ ~ Counted(mem[p]) /\ RecOK(mem'[p])
  BY <1>0, <1>1 DEF Counted, NoRec, Rejected, RecOK
<1>4. \A q \in Pid : DbFilled(q)' <=> DbFilled(q)
  BY DEF DbFilled
<1>5. ~ DbFilled(p)
  BY <1>0 DEF DbFilled, Counted, NoRec
<1>6. \A q \in Pid : RecOK(mem'[q]) /\ RecOK(db'[q])
  BY <1>2, <1>3 DEF DataInv
<1>7. \A q \in Pid : mem'[q].state = "pending_open" => ~ DbFilled(q)'
  BY <1>2, <1>4, <1>5 DEF DataInv
<1>8. \A q \in Pid \ issued' : mem'[q] = NoRec /\ db'[q] = NoRec
  BY <1>2 DEF DataInv
<1>9. DbFilledKnown'
  BY <1>2, <1>3, <1>4 DEF DataInv, DbFilledKnown
<1>10. \A e \in Event : /\ Cardinality(CountedOf(e)') <= event_fills'[e]
                         /\ Cardinality(CountedOf(e)') <= EventMax
  <2> TAKE e \in Event
  <2>0. CountedOf(e) \in SUBSET Pid /\ Cardinality(CountedOf(e)) \in Nat
    BY PidSubsets DEF CountedOf
  <2>1. /\ Cardinality(CountedOf(e)) <= event_fills[e]
        /\ Cardinality(CountedOf(e)) <= EventMax
    BY DEF DataInv, NeverUndercounts, EventCap
  <2>2. CASE EventOf[p] = e
    <3>1. CountedOf(e)' = CountedOf(e) \cup {p} /\ p \notin CountedOf(e)
      BY <1>2, <1>3, <2>2 DEF CountedOf
    <3>2. Cardinality(CountedOf(e)') = Cardinality(CountedOf(e)) + 1
      BY <2>0, <3>1, PidCard
    <3>3. event_fills'[e] = event_fills[e] + 1 /\ event_fills[e] < EventMax
      BY <2>2 DEF create_pending, validate, TypeOK
    <3>4. event_fills[e] \in Nat /\ EventMax \in Nat
      BY PositionConstants DEF TypeOK, PositionConstants
    <3> QED
      BY <2>0, <2>1, <3>2, <3>3, <3>4
  <2>3. CASE EventOf[p] # e
    <3>1. CountedOf(e)' = CountedOf(e)
      BY <1>2, <2>3 DEF CountedOf
    <3>2. event_fills'[e] = event_fills[e]
      BY <2>3 DEF create_pending, TypeOK
    <3> QED
      BY <2>1, <3>1, <3>2
  <2> QED
    BY <2>2, <2>3
<1>11. Cardinality(Filled') <= session_trade_count'
  <2>0. Filled \in SUBSET Pid /\ Cardinality(Filled) \in Nat /\ p \notin Filled
    BY <1>3, PidSubsets DEF Filled
  <2>1. Cardinality(Filled) <= session_trade_count /\ session_trade_count \in Nat
    BY DEF DataInv, NeverUndercounts, TypeOK
  <2>2. CASE s = "open_confirmed"
    <3>1. Filled' = Filled \cup {p}
      BY <1>1, <1>2, <1>3, <2>2 DEF Filled
    <3> QED
      BY <2>0, <2>1, <2>2, <3>1, PidCard
  <2>3. CASE s = "pending_open"
    <3>1. Filled' = Filled
      BY <1>1, <1>2, <1>3, <2>3 DEF Filled
    <3> QED
      BY <2>1, <2>3, <3>1
  <2> QED
    BY <2>2, <2>3
<1>12. NeverUndercounts' /\ EventCap'
  BY <1>10, <1>11 DEF NeverUndercounts, EventCap
<1>13. \A e \in Event : Cardinality(DbFilledOf(e)') <= EventMax
  BY <1>4 DEF DataInv, DbFilledOf
<1> QED
  BY <1>6, <1>7, <1>8, <1>9, <1>12, <1>13 DEF DataInv

(* A fill confirmed after the sleep: the slot was taken when pending.      *)
LEMMA DataResumeFill ==
  ASSUME TypeOK, DataInv, NEW p \in Pid, mem[p].state = "pending_open",
         confirm_fill(p), UNCHANGED <<db, event_fills, issued, phase>>,
         phase # "down"
  PROVE  DataInv'
<1>1. mem'[p].state = "open_confirmed" /\ mem'[p].reason = "none"
  BY DEF confirm_fill, TypeOK, PosRec, DataInv, RecOK
<1>2. \A q \in Pid : q # p => mem'[q] = mem[q]
  BY DEF confirm_fill, TypeOK
<1>3. Counted(mem'[p]) /\ Counted(mem[p]) /\ RecOK(mem'[p])
  BY <1>1 DEF Counted, Rejected, RecOK
<1>4. \A q \in Pid : DbFilled(q)' <=> DbFilled(q)
  BY DEF DbFilled
<1>5. \A e \in Event : CountedOf(e)' = CountedOf(e) /\ DbFilledOf(e)' = DbFilledOf(e)
  BY <1>2, <1>3, <1>4 DEF CountedOf, DbFilledOf
<1>6. Cardinality(Filled') <= session_trade_count'
  <2>1. Filled' = Filled \cup {p} /\ p \notin Filled /\ Filled \in SUBSET Pid
    BY <1>1, <1>2, <1>3 DEF Filled
  <2>2. Cardinality(Filled) <= session_trade_count /\ session_trade_count \in Nat
    BY DEF DataInv, NeverUndercounts, TypeOK
  <2>3. session_trade_count' = session_trade_count + 1
    BY DEF confirm_fill
  <2> QED
    BY <2>1, <2>2, <2>3, PidCard, PidSubsets
<1>7. NeverUndercounts' /\ EventCap'
  BY <1>5, <1>6 DEF DataInv, NeverUndercounts, EventCap
<1>8. DbFilledKnown'
  BY <1>2, <1>3, <1>4 DEF DataInv, DbFilledKnown
<1>9. \A q \in Pid : /\ RecOK(mem'[q]) /\ RecOK(db'[q])
                     /\ mem'[q].state = "pending_open" => ~ DbFilled(q)'
  BY <1>1, <1>2, <1>3, <1>4 DEF DataInv
<1>10. \A q \in Pid \ issued' : mem'[q] = NoRec /\ db'[q] = NoRec
  BY <1>2 DEF DataInv, NoRec
<1> QED
  BY <1>5, <1>7, <1>8, <1>9, <1>10 DEF DataInv

(* A rejection after the sleep gives exactly the slot of p back, and no    *)
(* row of the database counts p as filled.                                 *)
LEMMA DataResumeReject ==
  ASSUME TypeOK, DataInv, NEW p \in Pid, mem[p].state = "pending_open",
         reject_fill(p, event_fills), UNCHANGED <<db, issued, phase>>,
         phase # "down"
  PROVE  DataInv'
<1>1. mem'[p].state = "closed" /\ mem'[p].reason = "none"
  BY DEF reject_fill, TypeOK, PosRec, DataInv, RecOK
<1>2. \A q \in Pid : q # p => mem'[q] = mem[q]
  BY DEF reject_fill, TypeOK
<1>3. ~ Counted(mem'[p]) /\ Counted(mem[p]) /\ RecOK(mem'[p])
  BY <1>1 DEF Counted, Rejected, RecOK
<1>4. \A q \in Pid : DbFilled(q)' <=> DbFilled(q)
  BY DEF DbFilled
<1>5. ~ DbFilled(p)
  BY DEF DataInv
<1>6. \A e \in Event : /\ Cardinality(CountedOf(e)') <= event_fills'[e]
                        /\ Cardinality(CountedOf(e)') <= EventMax
  <2> TAKE e \in Event
  <2>0. CountedOf(e) \in SUBSET Pid /\ Cardinality(CountedOf(e)) \in Nat
    BY PidSubsets DEF CountedOf
  <2>1. /\ Cardinality(CountedOf(e)) <= event_fills[e]
        /\ Cardinality(CountedOf(e)) <= EventMax
        /\ event_fills[e] \in Nat /\ EventMax \in Nat
    BY PositionConstants DEF DataInv, NeverUndercounts, EventCap, TypeOK, PositionConstants
  <2>2. CASE EventOf[p] = e
    <3>1. CountedOf(e)' = CountedOf(e) \ {p} /\ p \in CountedOf(e)
      BY <1>2, <1>3, <2>2 DEF CountedOf
    <3>2. Cardinality(CountedOf(e)') = Cardinality(CountedOf(e)) - 1
      BY <2>0, <3>1, PidCard
    <3>3. CountedOf(e)' \in SUBSET Pid
      BY <2>0, <3>1
    <3>4. Cardinality(CountedOf(e)') \in Nat
      BY <3>3, PidSubsets
    <3>5. event_fills'[e] = IF event_fills[e] > 0 THEN event_fills[e] - 1 ELSE event_fills[e]
      BY <2>2 DEF reject_fill, TypeOK
    <3> QED
      BY <2>0, <2>1, <3>2, <3>4, <3>5
  <2>3. CASE EventOf[p] # e
    <3>1. CountedOf(e)' = CountedOf(e)
      BY <1>2, <2>3 DEF CountedOf
    <3>2. event_fills'[e] = event_fills[e]
      BY <2>3 DEF reject_fill, TypeOK
    <3> QED
      BY <2>1, <3>1, <3>2
  <2> QED
    BY <2>2, <2>3
<1>7. Filled' = Filled
  BY <1>2, <1>3 DEF Filled
<1>8. NeverUndercounts' /\ EventCap'
  BY <1>6, <1>7 DEF DataInv, NeverUndercounts, EventCap, reject_fill
<1>9. DbFilledKnown'
  BY <1>2, <1>4, <1>5 DEF DataInv, DbFilledKnown
<1>10. \A q \in Pid : /\ RecOK(mem'[q]) /\ RecOK(db'[q])
                      /\ mem'[q].state = "pending_open" => ~ DbFilled(q)'
  BY <1>1, <1>2, <1>3, <1>4 DEF DataInv
<1>11. \A q \in Pid \ issued' : mem'[q] = NoRec /\ db'[q] = NoRec
  BY <1>2 DEF DataInv, NoRec
<1>12. \A e \in Event : Cardinality(DbFilledOf(e)') <= EventMax
  BY <1>4 DEF DataInv, DbFilledOf
<1> QED
  BY <1>8, <1>9, <1>10, <1>11, <1>12 DEF DataInv

(* start rebuilds memory and counters from the database: exactly the       *)
(* filled rows are counted again, a pending row is rejected.               *)
LEMMA DataStart == TypeOK /\ DataInv /\ start => DataInv'
<1> SUFFICES ASSUME TypeOK, DataInv, start
             PROVE  DataInv'
  OBVIOUS
<1>1. /\ mem' = [p \in Pid |-> restore_position(db[p])]
      /\ event_fills' = [e \in Event |->
            Cardinality({p \in Pid : EventOf[p] = e /\ RestoredFill(p)})]
      /\ session_trade_count' = Cardinality({p \in Pid : RestoredFill(p)})
      /\ db' = db /\ issued' = issued /\ saves' = saves
  BY DEF start
<1>2. \A p \in Pid : /\ Counted(mem'[p]) <=> DbFilled(p)
                     /\ mem'[p].state # "pending_open"
                     /\ DbFilled(p) => RestoredFill(p)
                     /\ RecOK(mem'[p])
                     /\ db[p] = NoRec => mem'[p] = NoRec
  <2> TAKE p \in Pid
  <2>1. RecOK(db[p]) /\ db[p] \in PosRec
    BY DEF DataInv, TypeOK
  <2>2. mem'[p] = IF db[p].state = "pending_open" THEN [db[p] EXCEPT !.state = "closed"] ELSE db[p]
    BY <1>1 DEF restore_position
  <2>3. CASE db[p].state = "pending_open"
    <3>1. mem'[p].state = "closed" /\ mem'[p].reason = "none"
      BY <2>1, <2>2, <2>3 DEF RecOK, PosRec
    <3> QED
      BY <2>3, <3>1 DEF Counted, Rejected, DbFilled, RecOK, NoRec
  <2>4. CASE db[p].state # "pending_open"
    BY <2>1, <2>2, <2>4 DEF Counted, DbFilled, RestoredFill
  <2> QED
    BY <2>3, <2>4
<1>3. \A p \in Pid : DbFilled(p)' <=> DbFilled(p)
  BY <1>1 DEF DbFilled
<1>4. \A e \in Event : CountedOf(e)' = DbFilledOf(e) /\ DbFilledOf(e)' = DbFilledOf(e)
  BY <1>2, <1>3 DEF CountedOf, DbFilledOf
<1>5. EventCap'
  BY <1>4 DEF EventCap, DataInv
<1>6. \A e \in Event : Cardinality(CountedOf(e)') <= event_fills'[e]
  <2> TAKE e \in Event
  <2> DEFINE R == {p \in Pid : EventOf[p] = e /\ RestoredFill(p)}
  <2>1. R \in SUBSET Pid /\ CountedOf(e)' \in SUBSET R
    BY <1>2 DEF CountedOf
  <2>2. event_fills'[e] = Cardinality(R)
    BY <1>1
  <2> HIDE DEF R
  <2> QED
    BY <2>1, <2>2, PidSubsets, FS_Subset
<1>7. Cardinality(Filled') <= session_trade_count'
  <2> DEFINE R == {p \in Pid : RestoredFill(p)}
  <2>1. R \in SUBSET Pid /\ Filled' \in SUBSET R
    BY <1>2 DEF Filled
  <2>2. session_trade_count' = Cardinality(R)
    BY <1>1
  <2> HIDE DEF R
  <2> QED
    BY <2>1, <2>2, PidSubsets, FS_Subset
<1>8. NeverUndercounts'
  BY <1>6, <1>7 DEF NeverUndercounts
<1>9. DbFilledKnown'
  BY <1>2, <1>3 DEF DbFilledKnown
<1>10. \A p \in Pid : /\ RecOK(mem'[p]) /\ RecOK(db'[p])
                      /\ mem'[p].state = "pending_open" => ~ DbFilled(p)'
  BY <1>1, <1>2 DEF DataInv
<1>11. \A p \in Pid \ issued' : mem'[p] = NoRec /\ db'[p] = NoRec
  BY <1>1, <1>2 DEF DataInv
<1> QED
  BY <1>4, <1>5, <1>8, <1>9, <1>10, <1>11 DEF DataInv

(* A crash forgets memory and queue; nothing is counted any more.          *)
LEMMA DataCrash == TypeOK /\ DataInv /\ crash => DataInv'
<1> SUFFICES ASSUME TypeOK, DataInv, crash
             PROVE  DataInv'
  OBVIOUS
<1>1. \A p \in Pid : mem'[p] = NoRec
  BY DEF crash
<1>2. db' = db /\ issued' = issued /\ phase' = "down" /\ saves' = <<>>
  BY DEF crash
<1>3. \A p \in Pid : DbFilled(p)' <=> DbFilled(p)
  BY <1>2 DEF DbFilled
<1>4. \A e \in Event : CountedOf(e)' = {} /\ DbFilledOf(e)' = DbFilledOf(e)
  BY <1>1, <1>3 DEF CountedOf, DbFilledOf, Counted, NoRec
<1>5. Filled' = {}
  BY <1>1 DEF Filled, Counted, NoRec
<1>6. Cardinality({}) = 0
  BY FS_EmptySet
<1>7. NeverUndercounts' /\ EventCap'
  <2>1. Cardinality(Filled') = 0 /\ \A e \in Event : Cardinality(CountedOf(e)') = 0
    BY <1>4, <1>5, <1>6
  <2>2. session_trade_count' = 0 /\ \A e \in Event : event_fills'[e] = 0
    BY DEF crash
  <2>3. NeverUndercounts'
    BY <2>1, <2>2 DEF NeverUndercounts
  <2>4. EventCap'
    BY <2>1, PositionConstants DEF EventCap, PositionConstants
  <2> QED
    BY <2>3, <2>4
<1>8. DbFilledKnown'
  BY <1>2 DEF DbFilledKnown
<1>9. \A p \in Pid : /\ RecOK(mem'[p]) /\ RecOK(db'[p])
                     /\ mem'[p].state = "pending_open" => ~ DbFilled(p)'
  BY <1>1, <1>2 DEF DataInv, RecOK, NoRec
<1>10. \A p \in Pid \ issued' : mem'[p] = NoRec /\ db'[p] = NoRec
  BY <1>1, <1>2 DEF DataInv
<1> QED
  BY <1>4, <1>7, <1>8, <1>9, <1>10 DEF DataInv

-----------------------------------------------------------------------------
(* The inductive invariant, one group of actions at a time.                *)

(* Init.                                                                   *)
LEMMA InvInit == Init => PositionInv
<1> SUFFICES ASSUME Init
             PROVE  PositionInv
  OBVIOUS
<1>1. TypeOK
  BY TypeInit
<1>2. \A p \in Pid : mem[p] = NoRec /\ db[p] = NoRec
  BY DEF Init
<1>3. \A e \in Event : CountedOf(e) = {} /\ DbFilledOf(e) = {}
  BY <1>2 DEF CountedOf, DbFilledOf, DbFilled, Counted, NoRec
<1>4. Filled = {}
  BY <1>2 DEF Filled, Counted, NoRec
<1>5. NeverUndercounts /\ EventCap
        /\ \A e \in Event : Cardinality(DbFilledOf(e)) <= EventMax
  <2>1. /\ Cardinality(Filled) = 0
        /\ \A e \in Event : /\ Cardinality(CountedOf(e)) = 0
                             /\ Cardinality(DbFilledOf(e)) = 0
    BY <1>3, <1>4, FS_EmptySet
  <2>2. session_trade_count = 0 /\ \A e \in Event : event_fills[e] = 0
    BY DEF Init
  <2>3. NeverUndercounts
    BY <2>1, <2>2 DEF NeverUndercounts
  <2>4. EventCap
    BY <2>1, PositionConstants DEF EventCap, PositionConstants
  <2>5. \A e \in Event : Cardinality(DbFilledOf(e)) <= EventMax
    BY <2>1, PositionConstants DEF PositionConstants
  <2> QED
    BY <2>3, <2>4, <2>5
<1>6. DbFilledKnown
  BY <1>2 DEF DbFilledKnown, DbFilled, Counted, NoRec
<1>7. DataInv
  BY <1>2, <1>5, <1>6 DEF DataInv, RecOK, NoRec, DbFilled, Counted
<1>8. CycleOK /\ InFlight
  BY DEF Init, CycleOK, InFlight
<1> QED
  BY <1>1, <1>7, <1>8 DEF PositionInv

(* Entry steps.                                                            *)
LEMMA InvEntry == PositionInv /\ EntryStep => DataInv' /\ CycleOK' /\ InFlight'
<1> SUFFICES ASSUME PositionInv, NEW p \in Pid,
                    execute_paper(p) \/ execute_live(p) \/ resume_buy(p)
             PROVE  DataInv' /\ CycleOK' /\ InFlight'
  BY DEF EntryStep
<1>0. TypeOK /\ DataInv /\ CycleOK /\ InFlight
  BY DEF PositionInv
<1>1. ASSUME can_dispatch(p), issued' = issued \cup {p},
             UNCHANGED <<db, cycleVars, cooldown, phase>>,
             entry' = entry,
             \/ confirm_fill(p) /\ event_fills' = create_pending(p)
             \/ reject_fill(p, create_pending(p))
      PROVE  DataInv' /\ CycleOK' /\ InFlight'
  <2>1. mem[p] = NoRec /\ p \notin issued /\ phase # "down" /\ validate(p)
    BY <1>0, <1>1 DEF can_dispatch, DataInv
  <2>2. \A q \in Pid : q # p => mem'[q] = mem[q]
    BY <1>0, <1>1 DEF confirm_fill, reject_fill, TypeOK
  <2>3. CycleOK' /\ InFlight'
    <3>1. /\ exit_pc' = exit_pc /\ todo' = todo /\ selling' = selling
          /\ phase' = phase /\ entry' = NoPid
          /\ exit_pc \notin {"evaluate", "close"}
      BY <1>1 DEF can_dispatch, LoopFree, cycleVars
    <3>2. mem[p].state = "absent"
      BY <2>1 DEF NoRec
    <3>3. CycleOK'
      BY <1>0, <2>2, <3>1, <3>2 DEF CycleOK, TypeOK
    <3>4. InFlight'
      BY <1>0, <2>2, <3>1, <3>2 DEF InFlight, TypeOK
    <3> QED
      BY <3>3, <3>4
  <2>4. CASE confirm_fill(p) /\ event_fills' = create_pending(p)
    <3>1. DataInv'
      BY <1>0, <1>1, <2>1, <2>4, DataTakeSlot DEF confirm_fill
    <3> QED
      BY <2>3, <3>1
  <2>5. CASE reject_fill(p, create_pending(p))
    <3>1. event_fills' = event_fills /\ session_trade_count' = session_trade_count
      BY <1>0, <2>5, PositionConstants
         DEF reject_fill, create_pending, TypeOK, PositionConstants
    <3>2. mem'[p].state = "closed" /\ mem'[p].reason = "none"
      BY <1>0, <2>1, <2>5 DEF reject_fill, TypeOK, PosRec, NoRec
    <3>3. \A q \in Pid : /\ Counted(mem'[q]) <=> Counted(mem[q])
                         /\ mem'[q].state = "pending_open"
                              <=> mem[q].state = "pending_open"
                         /\ RecOK(mem'[q])
      BY <1>0, <2>1, <2>2, <3>2 DEF Counted, Rejected, NoRec, RecOK, DataInv
    <3>4. \A q \in Pid \ issued' : mem'[q] = NoRec
      BY <1>0, <1>1, <2>2 DEF DataInv
    <3>5. DataInv'
      BY <1>0, <1>1, <2>1, <3>1, <3>3, <3>4, DataQuiet
    <3> QED
      BY <2>3, <3>5
  <2> QED
    BY <1>1, <2>4, <2>5
<1>2. CASE execute_paper(p)
  BY <1>1, <1>2 DEF execute_paper
<1>3. CASE execute_live(p)
  <2>1. CASE /\ mem' = [mem EXCEPT ![p].state = "pending_open"]
             /\ event_fills' = create_pending(p)
             /\ entry' = p
             /\ UNCHANGED session_trade_count
    <3>1. mem[p] = NoRec /\ p \notin issued /\ phase # "down" /\ validate(p)
      BY <1>0, <1>3 DEF execute_live, can_dispatch, DataInv
    <3>2. \A q \in Pid : q # p => mem'[q] = mem[q]
      BY <1>0, <2>1 DEF TypeOK
    <3>3. DataInv'
      BY <1>0, <1>3, <2>1, <3>1, DataTakeSlot DEF execute_live
    <3>4. mem'[p].state = "pending_open"
      BY <1>0, <2>1 DEF TypeOK, PosRec
    <3> QED
      BY <1>0, <1>3, <2>1, <3>1, <3>2, <3>3, <3>4, PositionConstants
         DEF execute_live, CycleOK, InFlight, is_open, cycleVars, NoRec, TypeOK,
             PositionConstants, can_dispatch, LoopFree
  <2> QED
    BY <1>1, <1>3, <2>1 DEF execute_live
<1>4. CASE resume_buy(p)
  <2>1. mem[p].state = "pending_open" /\ phase # "down"
    BY <1>0, <1>4, PositionConstants DEF resume_buy, InFlight, PositionConstants
  <2>2. \A q \in Pid : q # p => mem'[q] = mem[q]
    BY <1>0, <1>4 DEF resume_buy, confirm_fill, reject_fill, TypeOK
  <2>3. DataInv'
    BY <1>0, <1>4, <2>1, DataResumeFill, DataResumeReject DEF resume_buy
  <2> QED
    BY <1>0, <1>4, <2>1, <2>2, <2>3
       DEF resume_buy, CycleOK, InFlight, is_open, cycleVars, TypeOK, LoopFree
<1> QED
  BY <1>2, <1>3, <1>4

(* A held position that moves within the exit cycle, or is closed with a   *)
(* reason, stays counted: nothing about the counters changes.              *)
LEMMA DataMove ==
  ASSUME TypeOK, DataInv, NEW p \in Pid,
         mem[p].state \in HoldingStates,
         \A q \in Pid : q # p => mem'[q] = mem[q],
         mem'[p].state \in HoldingStates \cup {"closed"},
         mem'[p].state # "open_confirmed" => mem'[p].reason # "none",
         mem'[p].state = "open_confirmed" => mem'[p].reason = "none",
         UNCHANGED <<db, event_fills, session_trade_count, issued, phase>>,
         phase = "up"
  PROVE  DataInv'
<1>1. /\ Counted(mem'[p]) /\ Counted(mem[p]) /\ RecOK(mem'[p])
      /\ mem'[p].state # "pending_open" /\ mem[p].state # "pending_open"
  BY DEF HoldingStates, Counted, Rejected, RecOK
<1>2. \A q \in Pid : /\ Counted(mem'[q]) <=> Counted(mem[q])
                     /\ mem'[q].state = "pending_open"
                          <=> mem[q].state = "pending_open"
                     /\ RecOK(mem'[q])
  BY <1>1 DEF DataInv
<1>3. \A q \in Pid \ issued' : mem'[q] = NoRec
  BY DEF DataInv, NoRec, HoldingStates
<1> QED
  BY <1>2, <1>3, DataQuiet

(* Steps of the exit cycle that leave memory and database alone.           *)
LEMMA InvExitQuiet ==
  PositionInv /\ (begin_cycle \/ begin_closing \/ end_cycle \/ end_flush
                    \/ \E p \in Pid : skip_close(p))
    => DataInv' /\ CycleOK' /\ InFlight'
<1> SUFFICES ASSUME PositionInv,
                    begin_cycle \/ begin_closing \/ end_cycle \/ end_flush
                      \/ \E p \in Pid : skip_close(p)
             PROVE  DataInv' /\ CycleOK' /\ InFlight'
  OBVIOUS
<1>0. TypeOK /\ DataInv /\ CycleOK /\ InFlight
  BY DEF PositionInv
<1>1. UNCHANGED <<mem, event_fills, session_trade_count, db, saves, issued,
                  phase, entry, selling>>
  BY DEF begin_cycle, begin_closing, end_cycle, end_flush, skip_close, trackerVars
<1>2. DataInv'
  BY <1>0, <1>1, DataQuiet DEF DataInv
<1>3. InFlight'
  BY <1>0, <1>1 DEF InFlight
<1>4. CycleOK'
  BY <1>0, <1>1
     DEF begin_cycle, begin_closing, end_cycle, end_flush, skip_close, CycleOK,
         is_open, InFlight
<1> QED
  BY <1>2, <1>3, <1>4

(* A trigger moves an open position to closing_requested with a reason.    *)
LEMMA InvEvaluate ==
  ASSUME PositionInv, NEW p \in Pid, evaluate_position(p)
  PROVE  DataInv' /\ CycleOK' /\ InFlight'
<1>0. TypeOK /\ DataInv /\ CycleOK /\ InFlight
  BY DEF PositionInv
<1>1. /\ exit_pc = "evaluate" /\ p \in todo /\ todo' = todo \ {p}
      /\ UNCHANGED <<event_fills, session_trade_count, db, issued, entry,
                     selling, exit_pc, phase>>
  BY DEF evaluate_position
<1>2. phase = "up" /\ mem[p].state = "open_confirmed" /\ selling = NoPid
  BY <1>0, <1>1 DEF CycleOK, is_open
<1>3. CASE UNCHANGED <<mem, saves>>
  <2>1. DataInv'
    BY <1>0, <1>1, <1>3, DataQuiet DEF DataInv
  <2> QED
    BY <1>0, <1>1, <1>3, <2>1 DEF CycleOK, InFlight, is_open
<1>4. ASSUME NEW reason \in Triggers(p), request_close(p, reason)
      PROVE  DataInv' /\ CycleOK' /\ InFlight'
  <2>1. mem'[p].state = "closing_requested" /\ mem'[p].reason = reason
    BY <1>0, <1>4 DEF request_close, TypeOK
  <2>2. \A q \in Pid : q # p => mem'[q] = mem[q]
    BY <1>0, <1>4 DEF request_close, TypeOK
  <2>3. reason # "none"
    BY <1>0, TypeHelpers
  <2>4. DataInv'
    BY <1>0, <1>1, <1>2, <2>1, <2>2, <2>3, DataMove DEF HoldingStates
  <2>5. CycleOK'
    BY <1>0, <1>1, <1>2, <2>2 DEF CycleOK, is_open, TypeOK
  <2>6. InFlight'
    BY <1>0, <1>1, <1>2, <2>2 DEF InFlight, TypeOK
  <2> QED
    BY <2>4, <2>5, <2>6
<1> QED
  BY <1>3, <1>4 DEF evaluate_position

(* A position due for closing that is cancelled, closed, refused or put to *)
(* sleep in the middle of its sale.                                        *)
LEMMA InvClose ==
  ASSUME PositionInv, NEW p \in Pid,
         \/ cancel_close(p) \/ execute_close_paper(p) \/ sell_matched(p)
         \/ sell_refused(p) \/ sell_transient(p) \/ resume_sell(p)
  PROVE  DataInv' /\ CycleOK' /\ InFlight'
<1>0. TypeOK /\ DataInv /\ CycleOK /\ InFlight
  BY DEF PositionInv
<1>1. UNCHANGED <<event_fills, session_trade_count, db, issued, entry, phase>>
  BY DEF cancel_close, execute_close_paper, sell_matched, sell_refused,
         sell_transient, resume_sell
<1>2. /\ exit_pc \in {"close", "sleep"} /\ phase = "up"
      /\ mem[p].state \in {"closing_requested", "close_pending", "close_failed"}
      /\ p \in todo \/ selling = p
  BY <1>0, PositionConstants
     DEF cancel_close, execute_close_paper, sell_matched, sell_refused,
         sell_transient, resume_sell, SellDue, CycleOK, InFlight, PositionConstants
<1>3. \A q \in Pid : q # p => mem'[q] = mem[q]
  BY <1>0
     DEF cancel_close, execute_close_paper, sell_matched, sell_refused,
         sell_transient, resume_sell, confirm_close, close_failed, TypeOK
<1>4. /\ mem'[p].state \in {"open_confirmed", "close_pending", "close_failed", "closed"}
      /\ mem'[p].state = "open_confirmed" => mem'[p].reason = "none"
      /\ mem'[p].state # "open_confirmed" => mem'[p].reason = mem[p].reason
  BY <1>0
     DEF cancel_close, execute_close_paper, sell_matched, sell_refused,
         sell_transient, resume_sell, confirm_close, close_failed, TypeOK, PosRec
<1>5. mem[p].reason # "none"
  BY <1>0, <1>2 DEF DataInv, RecOK
<1>6. DataInv'
  BY <1>0, <1>1, <1>2, <1>3, <1>4, <1>5, DataMove DEF HoldingStates
<1>7. \A q \in Pid : mem[q].state = "pending_open" => mem'[q].state = "pending_open"
  BY <1>2, <1>3
<1>8. CASE resume_sell(p)
  <2>1. selling' = NoPid /\ exit_pc' = "close" /\ todo' = todo
    BY <1>8 DEF resume_sell
  <2>2. exit_pc = "sleep" /\ mem[p].state = "close_pending"
    BY <1>0, <1>8, PositionConstants DEF resume_sell, InFlight, PositionConstants
  <2>3. p \notin todo
    BY <1>0, <2>2 DEF CycleOK
  <2>4. CycleOK'
    BY <1>0, <1>1, <1>2, <1>3, <2>1, <2>2, <2>3 DEF CycleOK, TypeOK
  <2>5. InFlight'
    BY <1>0, <1>1, <1>7, <2>1 DEF InFlight, TypeOK
  <2> QED
    BY <1>6, <2>4, <2>5
<1>9. CASE sell_transient(p)
  <2>1. selling' = p /\ exit_pc' = "sleep" /\ todo' = todo \ {p}
        /\ exit_pc = "close"
    BY <1>9 DEF sell_transient, SellDue
  <2>2. mem'[p].state = "close_pending"
    BY <1>0, <1>9 DEF sell_transient, TypeOK, PosRec
  <2>3. CycleOK'
    BY <1>0, <1>1, <1>2, <1>3, <2>1 DEF CycleOK, TypeOK
  <2>4. InFlight'
    BY <1>0, <1>1, <1>7, <2>1, <2>2 DEF InFlight, TypeOK
  <2> QED
    BY <1>6, <2>3, <2>4
<1>10. CASE cancel_close(p) \/ execute_close_paper(p) \/ sell_matched(p)
              \/ sell_refused(p)
  <2>1. exit_pc = "close" /\ UNCHANGED <<selling, exit_pc>> /\ todo' = todo \ {p}
    BY <1>10 DEF cancel_close, execute_close_paper, sell_matched, sell_refused,
                 SellDue
  <2>2. CycleOK'
    BY <1>0, <1>1, <1>2, <1>3, <2>1 DEF CycleOK, TypeOK
  <2>3. InFlight'
    BY <1>0, <1>1, <1>7, <2>1 DEF InFlight, CycleOK, TypeOK
  <2> QED
    BY <1>6, <2>2, <2>3
<1> QED
  BY <1>8, <1>9, <1>10

(* A flush step writes one record of a live memory.                        *)
LEMMA InvFlush ==
  ASSUME PositionInv, NEW p \in Pid, periodic_flush(p) \/ flush_state(p)
  PROVE  DataInv' /\ CycleOK' /\ InFlight'
<1>0. TypeOK /\ DataInv /\ CycleOK /\ InFlight
  BY DEF PositionInv
<1>1. Flush(p) /\ phase # "down" /\ exit_pc \notin {"evaluate", "close", "sleep"}
  BY <1>0 DEF periodic_flush, flush_state, CycleOK
<1>2. DataInv'
  BY <1>0, <1>1, DataWrite DEF Flush, trackerVars
<1>3. CycleOK' /\ InFlight'
  BY <1>0, <1>1 DEF Flush, trackerVars, CycleOK, InFlight
<1> QED
  BY <1>2, <1>3

(* Saves, the clock, stop, start, crash.                                   *)
LEMMA InvOther ==
  PositionInv /\ (save \/ CooldownStep \/ stop \/ stop_evaluation \/ stopped
                    \/ start \/ crash)
    => DataInv' /\ CycleOK' /\ InFlight'
<1> SUFFICES ASSUME PositionInv,
                    save \/ CooldownStep \/ stop \/ stop_evaluation \/ stopped
                      \/ start \/ crash
             PROVE  DataInv' /\ CycleOK' /\ InFlight'
  OBVIOUS
<1>0. TypeOK /\ DataInv /\ CycleOK /\ InFlight
  BY DEF PositionInv
<1>1. CASE save
  <2>1. Head(saves) \in Pid
    BY <1>0, <1>1 DEF save, TypeOK
  <2>2. DataInv'
    BY <1>0, <1>1, <2>1, DataWrite DEF save, trackerVars
  <2> QED
    BY <1>0, <1>1, <2>2 DEF save, trackerVars, cycleVars, CycleOK, InFlight, is_open
<1>2. CASE CooldownStep \/ stop \/ stop_evaluation \/ stopped
  <2>1. /\ UNCHANGED <<mem, event_fills, session_trade_count, db, saves, issued>>
        /\ phase' # "down" => phase # "down"
    BY <1>2 DEF CooldownStep, cooldown_over, stop, stop_evaluation, stopped, trackerVars
  <2>2. DataInv'
    BY <1>0, <2>1, DataQuiet DEF DataInv
  <2>3. InFlight'
    BY <1>0, <1>2, <2>1
       DEF CooldownStep, cooldown_over, stop, stop_evaluation, stopped, InFlight,
           cycleVars
  <2>4. CycleOK'
    <3>1. CASE CooldownStep
      BY <1>0, <2>1, <3>1
         DEF CooldownStep, cooldown_over, CycleOK, is_open, cycleVars
    <3>2. CASE stop
      BY <1>0, <2>1, <3>2 DEF stop, CycleOK
    <3>3. CASE stop_evaluation
      BY <1>0, <2>1, <3>3 DEF stop_evaluation, CycleOK
    <3>4. CASE stopped
      BY <1>0, <2>1, <3>4 DEF stopped, CycleOK, cycleVars
    <3> QED
      BY <1>2, <3>1, <3>2, <3>3, <3>4
  <2> QED
    BY <2>2, <2>3, <2>4
<1>3. CASE start
  <2>1. DataInv'
    BY <1>0, <1>3, DataStart
  <2>2. entry = NoPid /\ selling = NoPid
    BY <1>0, <1>3 DEF start, CycleOK
  <2> QED
    BY <1>3, <2>1, <2>2 DEF start, CycleOK, InFlight
<1>4. CASE crash
  BY <1>0, <1>4, DataCrash DEF crash, CycleOK, InFlight
<1> QED
  BY <1>1, <1>2, <1>3, <1>4

(* PositionInv is inductive.                                               *)
LEMMA InvStep == PositionInv /\ [Next]_vars => PositionInv'
<1> SUFFICES ASSUME PositionInv, [Next]_vars
             PROVE  PositionInv'
  OBVIOUS
<1>1. TypeOK'
  BY TypeStep DEF PositionInv
<1>2. DataInv' /\ CycleOK' /\ InFlight'
  <2>1. CASE UNCHANGED vars
    <3>1. DataInv'
      BY <2>1, DataQuiet DEF PositionInv, DataInv, vars
    <3> QED
      BY <2>1, <3>1 DEF PositionInv, CycleOK, InFlight, is_open, vars
  <2>2. CASE EntryStep
    BY <2>2, InvEntry
  <2>3. CASE ExitStep
    BY <2>3, InvExitQuiet, InvEvaluate, InvClose, InvFlush DEF ExitStep, CloseStep
  <2>4. CASE save \/ CooldownStep \/ StopStep \/ start \/ crash
    BY <2>4, InvOther, InvFlush DEF StopStep
  <2> QED
    BY <2>1, <2>2, <2>3, <2>4 DEF Next
<1> QED
  BY <1>1, <1>2 DEF PositionInv

(* The inductive invariant holds in every reachable state.                 *)
THEOREM PositionInvariant == Spec => []PositionInv
BY InvInit, InvStep, PTL DEF Spec

(* The counters the limits are read from never undercount.                 *)
THEOREM CountersSound == Spec => []NeverUndercounts
<1>1. PositionInv => NeverUndercounts
  BY DEF PositionInv, DataInv
<1> QED
  BY <1>1, PositionInvariant, PTL

(* A coroutine resumed after a sleep finds its position in the state it    *)
(* left it in.                                                             *)
THEOREM ResumedOrdersFresh == Spec => []InFlight
<1>1. PositionInv => InFlight
  BY DEF PositionInv
<1> QED
  BY <1>1, PositionInvariant, PTL
=============================================================================
