--------------------------- MODULE EventLimitProofs ---------------------------
(***************************************************************************)
(* Proofs about event_max over the history of fills.  EventMaxRespected    *)
(* holds for any positions, events, limits and faults, in either mode;     *)
(* EventMaxExact for graceful stops and restarts (Undisturbed).            *)
(***************************************************************************)
EXTENDS EventLimit, PositionBookProofs

(* Memory knows every filled row of the table, or it knows nothing: a      *)
(* process that was killed and has not started again.                      *)
MemoryKnows ==
  \/ \A p \in Pid : DbFilled(p) => Counted(mem[p])
  \/ phase = "down" /\ saves = <<>> /\ \A p \in Pid : mem[p] = NoRec

(* A fill is remembered by memory or by the table, or it was lost.         *)
Remembered(p) == Counted(mem[p]) \/ DbFilled(p) \/ p \in lost

(* The inductive invariant behind EventMaxKept.  Ids are issued once, so a *)
(* pending position was never filled: reject_fill forgets no fill.         *)
LimitInv ==
  /\ MemoryKnows
  /\ filled \subseteq issued
  /\ lost \subseteq Pid
  /\ \A p \in filled : Remembered(p) /\ mem[p].state # "pending_open"

-----------------------------------------------------------------------------
(* Which steps end a process's memory, and where the bot is down after.    *)
LEMMA DownSteps ==
  ASSUME PositionInv, [Next]_vars, phase' = "down"
  PROVE  crash \/ stopped \/ (phase = "down" /\ (save \/ CooldownStep \/ UNCHANGED vars))
<1> USE DEF PositionInv
<1>1. CASE UNCHANGED vars
  BY <1>1 DEF vars
<1>2. CASE EntryStep
  BY <1>2, EntryRecord
<1>3. CASE ExitStep
  BY <1>3, ExitRecord
<1>4. CASE save
  BY <1>4 DEF save
<1>5. CASE CooldownStep
  BY <1>5 DEF CooldownStep, cooldown_over
<1>6. CASE StopStep
  BY <1>6 DEF StopStep, stop, stop_evaluation, flush_state, Flush
<1>7. CASE start
  BY <1>7 DEF start
<1> QED
  BY <1>1, <1>2, <1>3, <1>4, <1>5, <1>6, <1>7 DEF Next

(* What steps a bot that is down and has no saves left may take.           *)
LEMMA StepsWhenDown ==
  ASSUME PositionInv, [Next]_vars, phase = "down", saves = <<>>
  PROVE  start \/ CooldownStep \/ UNCHANGED vars
<1> USE DEF PositionInv
<1>1. CASE EntryStep
  BY <1>1, EntryRecord
<1>2. CASE ExitStep
  BY <1>2, ExitRecord
<1>3. CASE StopStep
  BY <1>3 DEF StopStep, stop, stop_evaluation, stopped, flush_state
<1>4. ~ save /\ ~ crash
  BY DEF save, crash
<1> QED
  BY <1>1, <1>2, <1>3, <1>4 DEF Next

(* A position becomes pending only when its id is issued.                  *)
LEMMA PendingIsFresh ==
  ASSUME PositionInv, [Next]_vars, NEW p \in Pid, p \in issued,
         mem'[p].state = "pending_open"
  PROVE  mem[p].state = "pending_open"
<1>0. TypeOK /\ InFlight
  BY DEF PositionInv
<1>1. CASE UNCHANGED vars
  BY <1>1 DEF vars
<1>2. CASE EntryStep
  <2>1. PICK q \in Pid : execute_paper(q) \/ execute_live(q) \/ resume_buy(q)
    BY <1>2 DEF EntryStep
  <2>2. CASE execute_paper(q) \/ execute_live(q)
    BY <1>0, <2>2 DEF execute_paper, execute_live, can_dispatch, confirm_fill, reject_fill, TypeOK
  <2>3. CASE resume_buy(q)
    BY <1>0, <2>3, PositionConstants
       DEF resume_buy, confirm_fill, reject_fill, InFlight, TypeOK, PosRec, PositionConstants
  <2> QED
    BY <2>1, <2>2, <2>3
<1>3. CASE ExitStep
  <2>1. CASE begin_cycle \/ begin_closing \/ end_cycle \/ end_flush
               \/ \E q \in Pid : periodic_flush(q) \/ skip_close(q)
    BY <2>1 DEF begin_cycle, begin_closing, end_cycle, end_flush, periodic_flush, Flush,
       skip_close, trackerVars
  <2>2. CASE \E q \in Pid : evaluate_position(q)
    <3>1. PICK q \in Pid : evaluate_position(q)
      BY <2>2
    <3>2. \/ mem' = mem
          \/ \E r \in Triggers(q) :
               mem' = [mem EXCEPT ![q] = [state |-> "closing_requested", reason |-> r]]
      BY <3>1 DEF evaluate_position, request_close
    <3>3. mem \in [Pid -> PosRec]
      BY <1>0 DEF TypeOK
    <3>4. mem'[p] = mem[p] \/ mem'[p].state = "closing_requested"
      BY <3>2, <3>3
    <3> QED
      BY <3>4
  <2>3. ASSUME NEW q \in Pid,
               cancel_close(q) \/ execute_close_paper(q) \/ sell_matched(q)
                 \/ sell_refused(q) \/ sell_transient(q) \/ resume_sell(q)
        PROVE  mem[p].state = "pending_open"
    <3>1. \/ mem' = [mem EXCEPT ![q] = [state |-> "open_confirmed", reason |-> "none"]]
          \/ \E s \in {"closed", "close_failed", "close_pending"} :
               mem' = [mem EXCEPT ![q].state = s]
      BY <2>3 DEF cancel_close, execute_close_paper, sell_matched, sell_refused, sell_transient,
         resume_sell, confirm_close, close_failed
    <3>2. mem \in [Pid -> PosRec]
      BY <1>0 DEF TypeOK
    <3> QED
      BY <3>1, <3>2 DEF PosRec
  <2> QED
    BY <1>3, <2>1, <2>2, <2>3 DEF ExitStep, CloseStep
<1>4. CASE save \/ CooldownStep \/ StopStep
  BY <1>4 DEF save, CooldownStep, cooldown_over, StopStep, stop, stop_evaluation, stopped,
     flush_state, Flush, trackerVars
<1>5. CASE start
  BY <1>0, <1>5 DEF start, restore_position, TypeOK, PosRec
<1>6. CASE crash
  BY <1>6 DEF crash, NoRec
<1> QED
  BY <1>1, <1>2, <1>3, <1>4, <1>5, <1>6 DEF Next

(* Ids stay issued.                                                        *)
LEMMA IssuedGrows ==
  ASSUME [Next]_vars
  PROVE  issued \subseteq issued'
<1>1. CASE EntryStep
  BY <1>1 DEF EntryStep, execute_paper, execute_live, resume_buy
<1>2. CASE ExitStep
  BY <1>2 DEF ExitStep, begin_cycle, begin_closing, end_cycle, end_flush, evaluate_position,
     CloseStep, skip_close, cancel_close, execute_close_paper, sell_matched, sell_refused,
     sell_transient, resume_sell, periodic_flush, Flush
<1>3. CASE save \/ CooldownStep \/ StopStep \/ start \/ crash \/ UNCHANGED vars
  BY <1>3 DEF save, CooldownStep, cooldown_over, StopStep, stop, stop_evaluation, stopped,
     flush_state, Flush, start, crash, vars
<1> QED
  BY <1>1, <1>2, <1>3 DEF Next

-----------------------------------------------------------------------------
(* LimitInv is inductive on top of PositionInv.                            *)

(* Fills that were remembered stay so, or are booked as lost.              *)
LEMMA FillsRemembered ==
  ASSUME PositionInv, LimitInv, HNext, PositionInv'
  PROVE  \A p \in filled' : Remembered(p)'
<1> TAKE p \in filled'
<1>1. filled' = filled \cup Filled' /\ lost \subseteq lost'
  BY DEF HNext
<1>2. CASE p \in Filled'
  BY <1>2 DEF Filled, Remembered
<1>3. CASE p \in filled /\ p \in lost
  BY <1>1, <1>3 DEF Remembered
<1>4. CASE p \in filled /\ Counted(mem[p])
  <2>1. p \in Pid /\ p \in Filled
    BY <1>4 DEF LimitInv, Filled, PositionInv, TypeOK
  <2>2. p \in lost' \/ Counted(mem'[p]) \/ DbFilled(p)'
    BY <2>1 DEF HNext
  <2> QED
    BY <2>2 DEF Remembered
<1>5. CASE p \in filled /\ DbFilled(p) /\ ~ Counted(mem[p])
  <2>1. p \in Pid /\ phase = "down" /\ saves = <<>>
    BY <1>5 DEF LimitInv, MemoryKnows, PositionInv, TypeOK
  <2>2. start \/ CooldownStep \/ UNCHANGED vars
    BY <2>1, StepsWhenDown DEF HNext
  <2>3. db' = db
    BY <2>2 DEF start, CooldownStep, cooldown_over, vars
  <2>4. DbFilled(p)'
    BY <1>5, <2>3 DEF DbFilled
  <2> QED
    BY <2>4 DEF Remembered
<1> QED
  BY <1>1, <1>2, <1>3, <1>4, <1>5 DEF LimitInv, Remembered

(* Memory knows the table's fills unless the process has just died.        *)
LEMMA KnowledgeKept ==
  ASSUME PositionInv, MemoryKnows, [Next]_vars, PositionInv'
  PROVE  MemoryKnows'
<1>1. CASE phase' # "down" \/ saves' # <<>>
  BY <1>1 DEF PositionInv, DataInv, DbFilledKnown, MemoryKnows
<1>2. CASE phase' = "down" /\ saves' = <<>>
  <2>1. CASE crash
    BY <2>1 DEF crash, MemoryKnows
  <2>2. CASE stopped
    BY <2>2 DEF stopped, trackerVars, PositionInv, DataInv, DbFilledKnown, MemoryKnows, DbFilled
  <2>3. CASE save
    <3>1. \A p \in Pid : DbFilled(p) => Counted(mem[p])
      BY <2>3 DEF save, PositionInv, DataInv, DbFilledKnown
    <3>2. Head(saves) \in Pid /\ mem' = mem
      BY <2>3 DEF save, trackerVars, PositionInv, TypeOK
    <3>3. \A p \in Pid : db'[p] = db[p] \/ db'[p] = mem[p]
      BY <2>3, <3>2 DEF save, Save, PositionInv, TypeOK
    <3> QED
      BY <3>1, <3>2, <3>3 DEF MemoryKnows, DbFilled
  <2>4. CASE CooldownStep \/ UNCHANGED vars
    BY <2>4 DEF CooldownStep, cooldown_over, trackerVars, vars, MemoryKnows, DbFilled
  <2> QED
    BY <1>2, <2>1, <2>2, <2>3, <2>4, DownSteps
<1> QED
  BY <1>1, <1>2

LEMMA LimitStep ==
  ASSUME PositionInv, LimitInv, [HNext]_<<vars, history>>
  PROVE  LimitInv'
<1>1. CASE UNCHANGED <<vars, history>>
  BY <1>1 DEF vars, history, LimitInv, MemoryKnows, Remembered, DbFilled
<1>2. CASE HNext
  <2>1. PositionInv'
    BY <1>2, InvStep DEF HNext
  <2>2. MemoryKnows'
    BY <1>2, <2>1, KnowledgeKept DEF HNext, LimitInv
  <2>3. Filled' \subseteq issued'
    BY <2>1 DEF Filled, Counted, PositionInv, DataInv, NoRec
  <2>4. issued \subseteq issued'
    BY <1>2, IssuedGrows DEF HNext
  <2>5. filled' \subseteq issued' /\ lost' \subseteq Pid
    BY <1>2, <2>3, <2>4 DEF HNext, LimitInv, Filled
  <2>6. \A p \in filled' : mem'[p].state # "pending_open"
    <3> SUFFICES ASSUME NEW p \in filled', mem'[p].state = "pending_open"
                 PROVE  FALSE
      OBVIOUS
    <3>1. p \in filled
      BY <1>2 DEF HNext, Filled
    <3>2. p \in Pid /\ p \in issued /\ mem[p].state # "pending_open"
      BY <3>1 DEF LimitInv, PositionInv, TypeOK
    <3> QED
      BY <1>2, <3>2, PendingIsFresh DEF HNext
  <2> QED
    BY <1>2, <2>1, <2>2, <2>5, <2>6, FillsRemembered DEF LimitInv
<1> QED
  BY <1>1, <1>2

LEMMA LimitAlways == HSpec => [](PositionInv /\ LimitInv)
<1>1. HInit => PositionInv /\ LimitInv
  BY InvInit DEF HInit, Init, LimitInv, MemoryKnows
<1>2. PositionInv /\ [HNext]_<<vars, history>> => PositionInv'
  BY InvStep DEF HNext
<1>3. PositionInv /\ LimitInv /\ [HNext]_<<vars, history>> => (PositionInv /\ LimitInv)'
  BY <1>2, LimitStep
<1> QED
  BY <1>1, <1>3, PTL DEF HSpec

-----------------------------------------------------------------------------
(* The fills the tracker or the table knows of never exceed event_max.     *)
LEMMA KnownFits ==
  ASSUME PositionInv, LimitInv, NEW e \in Event
  PROVE  \E K \in SUBSET Pid : Cardinality(K) <= EventMax /\ EverTaken(e) \subseteq LostOf(e) \cup K
<1>1. CASE \A p \in Pid : DbFilled(p) => Counted(mem[p])
  <2>1. EverTaken(e) \subseteq LostOf(e) \cup CountedOf(e)
    BY <1>1 DEF EverTaken, LostOf, CountedOf, LimitInv, Remembered, Counted, Rejected
  <2>2. CountedOf(e) \in SUBSET Pid /\ Cardinality(CountedOf(e)) <= EventMax
    BY DEF CountedOf, PositionInv, DataInv, EventCap
  <2> QED
    BY <2>1, <2>2
<1>2. CASE \A p \in Pid : mem[p] = NoRec
  <2>1. EverTaken(e) \subseteq LostOf(e) \cup DbFilledOf(e)
    BY <1>2 DEF EverTaken, LostOf, DbFilledOf, LimitInv, Remembered, Counted, NoRec
  <2>2. DbFilledOf(e) \in SUBSET Pid /\ Cardinality(DbFilledOf(e)) <= EventMax
    BY DEF DbFilledOf, PositionInv, DataInv
  <2> QED
    BY <2>1, <2>2
<1> QED
  BY <1>1, <1>2 DEF LimitInv, MemoryKnows

(* A set covered by two others has no more elements than they have         *)
(* together.                                                               *)
LEMMA CoverCard ==
  ASSUME NEW S \in SUBSET Pid, NEW A \in SUBSET Pid, NEW K \in SUBSET Pid, S \subseteq A \cup K
  PROVE  Cardinality(S) <= Cardinality(A) + Cardinality(K)
<1>1. A \cup K \in SUBSET Pid
  OBVIOUS
<1>2. /\ IsFiniteSet(A) /\ IsFiniteSet(K) /\ IsFiniteSet(A \cup K)
      /\ Cardinality(S) \in Nat /\ Cardinality(A) \in Nat /\ Cardinality(K) \in Nat
      /\ Cardinality(A \cup K) \in Nat /\ Cardinality(A \cap K) \in Nat
  BY <1>1, PidSubsets
<1>3. Cardinality(A \cup K) = Cardinality(A) + Cardinality(K) - Cardinality(A \cap K)
  BY <1>2, FS_Union
<1>4. Cardinality(S) <= Cardinality(A \cup K)
  BY <1>2, FS_Subset
<1> QED
  BY <1>2, <1>3, <1>4

(* However often orders are rejected, replies and writes are lost and the  *)
(* process crashes, stops and restarts: the positions of an event that     *)
(* were ever filled or are pending exceed event_max by no more than the    *)
(* fills that were lost before their row was written.                      *)
THEOREM EventMaxRespected == HSpec => []EventMaxKept
<1>1. PositionInv /\ LimitInv => EventMaxKept
  <2> SUFFICES ASSUME PositionInv, LimitInv, NEW e \in Event
               PROVE  Cardinality(EverTaken(e)) <= EventMax + Cardinality(LostOf(e))
    BY DEF EventMaxKept
  <2>1. PICK K \in SUBSET Pid : /\ Cardinality(K) <= EventMax
                                /\ EverTaken(e) \subseteq LostOf(e) \cup K
    BY KnownFits
  <2>2. EverTaken(e) \in SUBSET Pid /\ LostOf(e) \in SUBSET Pid
    BY DEF EverTaken, LostOf, LimitInv
  <2>3. Cardinality(EverTaken(e)) <= Cardinality(LostOf(e)) + Cardinality(K)
    BY <2>1, <2>2, CoverCard
  <2>4. /\ Cardinality(EverTaken(e)) \in Nat /\ Cardinality(LostOf(e)) \in Nat
        /\ Cardinality(K) \in Nat
    BY <2>2, PidSubsets
  <2> QED
    BY <2>1, <2>3, <2>4, PositionConstants DEF PositionConstants
<1> QED
  BY <1>1, LimitAlways, PTL

-----------------------------------------------------------------------------
(* Without crashes and failing writes nothing is lost.                     *)

(* No step but a start or a crash forgets a fill.                          *)
LEMMA FillsStay ==
  ASSUME PositionInv, [Next]_vars, ~ start, ~ crash, NEW p \in Filled
  PROVE  Counted(mem'[p])
<1> USE DEF PositionInv
<1>0. p \in Pid /\ Counted(mem[p]) /\ mem[p].state # "pending_open"
  BY DEF Filled
<1>1. CASE UNCHANGED vars
  BY <1>0, <1>1 DEF vars
<1>2. CASE EntryStep
  <2>1. PICK q \in Pid : execute_paper(q) \/ execute_live(q) \/ resume_buy(q)
    BY <1>2 DEF EntryStep
  <2>2. q # p
    <3>1. CASE execute_paper(q) \/ execute_live(q)
      BY <1>0, <3>1 DEF execute_paper, execute_live, can_dispatch, DataInv, Counted, NoRec
    <3>2. CASE resume_buy(q)
      BY <1>0, <3>2, PositionConstants DEF resume_buy, InFlight, PositionConstants
    <3> QED
      BY <2>1, <3>1, <3>2
  <2>3. mem'[p] = mem[p]
    BY <1>0, <2>1, <2>2 DEF execute_paper, execute_live, resume_buy, confirm_fill, reject_fill,
       TypeOK
  <2> QED
    BY <1>0, <2>3
<1>3. CASE ExitStep
  <2>1. CASE begin_cycle \/ begin_closing \/ end_cycle \/ end_flush
               \/ \E q \in Pid : periodic_flush(q) \/ skip_close(q)
    BY <1>0, <2>1 DEF begin_cycle, begin_closing, end_cycle, end_flush, periodic_flush, Flush,
       skip_close, trackerVars
  <2>2. CASE \E q \in Pid : evaluate_position(q)
    <3>1. PICK q \in Pid : evaluate_position(q)
      BY <2>2
    <3>2. \/ mem' = mem
          \/ \E r \in Triggers(q) :
               mem' = [mem EXCEPT ![q] = [state |-> "closing_requested", reason |-> r]]
      BY <3>1 DEF evaluate_position, request_close
    <3>3. mem'[p] = mem[p] \/ mem'[p].state = "closing_requested"
      BY <1>0, <3>2 DEF TypeOK
    <3> QED
      BY <1>0, <3>3 DEF Counted, Rejected
  <2>3. ASSUME NEW q \in Pid,
               cancel_close(q) \/ execute_close_paper(q) \/ sell_matched(q)
                 \/ sell_refused(q) \/ sell_transient(q) \/ resume_sell(q)
        PROVE  Counted(mem'[p])
    <3>1. mem[q].state \in {"closing_requested", "close_pending", "close_failed"}
      BY <2>3, PositionConstants
         DEF cancel_close, execute_close_paper, sell_matched, sell_refused, sell_transient,
             resume_sell, SellDue, CycleOK, InFlight, PositionConstants
    <3>2. mem[q].reason # "none"
      BY <3>1 DEF DataInv, RecOK
    <3>3. \/ mem' = [mem EXCEPT ![q] = [state |-> "open_confirmed", reason |-> "none"]]
          \/ \E s \in {"closed", "close_failed", "close_pending"} :
               mem' = [mem EXCEPT ![q].state = s]
      BY <2>3 DEF cancel_close, execute_close_paper, sell_matched, sell_refused, sell_transient,
         resume_sell, confirm_close, close_failed
    <3>4. \/ mem'[p] = mem[p]
          \/ mem'[p].state = "open_confirmed"
          \/ /\ mem'[p].state \in {"closed", "close_failed", "close_pending"}
             /\ mem'[p].reason # "none"
      BY <1>0, <3>2, <3>3 DEF TypeOK, PosRec
    <3> QED
      BY <1>0, <3>4 DEF Counted, Rejected
  <2> QED
    BY <1>3, <2>1, <2>2, <2>3 DEF ExitStep, CloseStep
<1>4. CASE save \/ CooldownStep \/ StopStep
  BY <1>0, <1>4 DEF save, CooldownStep, cooldown_over, StopStep, stop, stop_evaluation, stopped,
     flush_state, Flush, trackerVars
<1> QED
  BY <1>1, <1>2, <1>3, <1>4 DEF Next

LEMMA NothingLost ==
  ASSUME Undisturbed, PositionInv, StopInv, lost = {}, [HNext]_<<vars, history>>
  PROVE  lost' = {}
<1>1. CASE UNCHANGED <<vars, history>>
  BY <1>1 DEF history
<1>2. CASE HNext
  <2> SUFFICES ASSUME NEW p \in Filled
               PROVE  Counted(mem'[p]) \/ DbFilled(p)'
    BY <1>2 DEF HNext
  <2>1. ~ crash
    BY DEF crash, Undisturbed
  <2>2. CASE start
    <3>1. db[p] = mem[p] /\ db' = db
      BY <2>2 DEF start, StopInv, FlushComplete, Present, Filled, Counted
    <3> QED
      BY <3>1 DEF DbFilled, Filled
  <2>3. CASE ~ start
    BY <1>2, <2>1, <2>3, FillsStay DEF HNext
  <2> QED
    BY <2>2, <2>3
<1> QED
  BY <1>1, <1>2

(* As long as the bot is stopped rather than killed and writes succeed,    *)
(* event_max bounds the positions ever filled exactly, in either mode and  *)
(* over any number of stops and restarts.                                  *)
THEOREM EventMaxExact ==
  ASSUME Undisturbed
  PROVE  HSpec => [](\A e \in Event : Cardinality(EverTaken(e)) <= EventMax)
<1>1. HSpec => Spec
  <2>1. HInit => Init
    BY DEF HInit
  <2>2. [HNext]_<<vars, history>> => [Next]_vars
    BY DEF HNext
  <2> QED
    BY <2>1, <2>2, PTL DEF HSpec, Spec
<1>2. HInit => lost = {}
  BY DEF HInit
<1>3. PositionInv /\ StopInv /\ lost = {} /\ [HNext]_<<vars, history>> => (lost = {})'
  BY NothingLost
<1>4. EventMaxKept /\ lost = {} => \A e \in Event : Cardinality(EverTaken(e)) <= EventMax
  <2> SUFFICES ASSUME EventMaxKept, lost = {}, NEW e \in Event
               PROVE  Cardinality(EverTaken(e)) <= EventMax
    OBVIOUS
  <2>1. Cardinality(LostOf(e)) = 0
    BY FS_EmptySet DEF LostOf
  <2> QED
    BY <2>1, PositionConstants DEF EventMaxKept, PositionConstants
<1> QED
  BY <1>1, <1>2, <1>3, <1>4, UndisturbedInv, EventMaxRespected, PTL DEF HSpec
=============================================================================
