--------------------------- MODULE PaperModeProofs ---------------------------
(***************************************************************************)
(* Proofs about paper trading, where neither an entry nor a close          *)
(* suspends: what a sale is priced at, whatever fails, and how many        *)
(* positions are open after a crash, provided writes succeed.              *)
(***************************************************************************)
EXTENDS PositionLifecycleProofs

-----------------------------------------------------------------------------
(* Prices of sales.                                                        *)

(* A close is decided and carried out in one cycle, so nobody else ever    *)
(* sees it, the table included; and the table never runs ahead of memory.  *)
PaperInv ==
  /\ \A p \in Pid : mem[p].state \in {"absent", "open_confirmed", "closing_requested", "closed"}
  /\ \A p \in Pid : db[p].state \in {"absent", "open_confirmed", "closed"}
  /\ \A p \in Pid : db[p].state = "closed" => mem[p].state \in {"absent", "closed"}
  /\ \A p \in Pid : mem[p].state = "closing_requested" =>
        /\ exit_pc \in {"evaluate", "close"}
        /\ exit_pc = "close" => p \in todo
        /\ price[AssetOf[p]] # "none"

(* Orders that sleep are not met with.                                     *)
LEMMA NobodySleeps ==
  ASSUME PaperMode, PositionInv, PaperInv
  PROVE  /\ \A p \in Pid : ~ resume_buy(p) /\ ~ resume_sell(p) /\ ~ execute_live(p)
         /\ \A p \in Pid : ~ sell_matched(p) /\ ~ sell_refused(p) /\ ~ sell_transient(p)
<1>1. \A p \in Pid : p # NoPid
  BY PositionConstants DEF PositionConstants
<1>2. \A p \in Pid : ~ resume_buy(p) /\ ~ resume_sell(p)
  BY <1>1 DEF resume_buy, resume_sell, PositionInv, InFlight, PaperInv
<1> QED
  BY <1>2 DEF execute_live, sell_matched, sell_refused, sell_transient

(* Between cycles no close is under way.                                   *)
LEMMA NoneClosing ==
  ASSUME PaperInv, exit_pc \notin {"evaluate", "close"}
  PROVE  \A p \in Pid : mem[p].state # "closing_requested"
BY DEF PaperInv

(* A write of a record that is not closing.                                *)
LEMMA PaperWrite ==
  ASSUME TypeOK, PaperInv, NEW p \in Pid, Save(p), LoopFree,
         UNCHANGED <<mem, exit_pc, price>>
  PROVE  PaperInv'
<1>1. \A q \in Pid : db'[q] = db[q] \/ db'[q] = mem[q]
  BY DEF Save, TypeOK
<1>2. \A q \in Pid : mem[q].state \in {"absent", "open_confirmed", "closed"}
  BY NoneClosing DEF LoopFree, PaperInv
<1> QED
  BY <1>1, <1>2 DEF PaperInv

LEMMA PaperStep ==
  ASSUME PaperMode, PositionInv, PaperInv, [Next]_vars
  PROVE  PaperInv'
<1>0. TypeOK /\ DataInv /\ CycleOK /\ InFlight
  BY DEF PositionInv
<1>1. CASE UNCHANGED vars
  BY <1>1 DEF vars, PaperInv
<1>2. ASSUME NEW p \in Pid, execute_paper(p) PROVE PaperInv'
  <2>1. p \notin issued /\ UNCHANGED <<db, exit_pc, todo, price>>
    BY <1>2 DEF execute_paper, can_dispatch, cycleVars
  <2>2. db[p].state = "absent"
    BY <1>0, <2>1 DEF DataInv, NoRec
  <2>3. \A q \in Pid : IF q = p THEN mem'[q].state = "open_confirmed" ELSE mem'[q] = mem[q]
    BY <1>0, <1>2 DEF execute_paper, confirm_fill, TypeOK, PosRec
  <2> QED
    BY <2>1, <2>2, <2>3 DEF PaperInv
<1>3. ASSUME NEW p \in Pid, evaluate_position(p) PROVE PaperInv'
  <2>1. /\ exit_pc = "evaluate" /\ is_open(p)
        /\ UNCHANGED <<db, exit_pc, price>>
    BY <1>0, <1>3 DEF evaluate_position, CycleOK
  <2>2. CASE UNCHANGED mem
    BY <2>1, <2>2 DEF PaperInv
  <2>3. ASSUME NEW reason \in Triggers(p), request_close(p, reason) PROVE PaperInv'
    <3>1. price[AssetOf[p]] # "none"
      BY <2>3 DEF Triggers
    <3>2. \A q \in Pid : IF q = p THEN mem'[q].state = "closing_requested" ELSE mem'[q] = mem[q]
      BY <1>0, <2>3 DEF request_close, TypeOK
    <3> QED
      BY <2>1, <3>1, <3>2 DEF PaperInv, is_open
  <2> QED
    BY <1>3, <2>2, <2>3 DEF evaluate_position
<1>4. ASSUME NEW p \in Pid, cancel_close(p) \/ execute_close_paper(p) PROVE PaperInv'
  <2>1. /\ exit_pc = "close" /\ p \in todo /\ todo' = todo \ {p}
        /\ UNCHANGED <<db, exit_pc, price>>
    BY <1>4 DEF cancel_close, execute_close_paper, SellDue
  <2>2. mem[p].state = "closing_requested"
    BY <1>0, <2>1 DEF CycleOK, PaperInv
  <2>3. \A q \in Pid : IF q = p THEN mem'[q].state \in {"open_confirmed", "closed"}
                                ELSE mem'[q] = mem[q]
    BY <1>0, <1>4 DEF cancel_close, execute_close_paper, confirm_close, TypeOK, PosRec
  <2> QED
    BY <2>1, <2>2, <2>3 DEF PaperInv
<1>5. ASSUME NEW p \in Pid, skip_close(p) PROVE PaperInv'
  BY <1>5 DEF skip_close, in_cooldown, PaperInv
<1>6. CASE begin_cycle \/ end_flush
  BY <1>6, NoneClosing DEF begin_cycle, end_flush, trackerVars, PaperInv
<1>7. CASE begin_closing
  BY <1>7 DEF begin_closing, trackerVars, PaperInv
<1>8. CASE end_cycle
  <2>1. \A p \in Pid : mem[p].state # "closing_requested"
    BY <1>8 DEF end_cycle, PaperInv
  <2> QED
    BY <1>8, <2>1 DEF end_cycle, trackerVars, PaperInv
<1>9. ASSUME NEW p \in Pid, periodic_flush(p) \/ flush_state(p) PROVE PaperInv'
  <2>1. LoopFree /\ Save(p) /\ UNCHANGED <<mem, exit_pc, price>>
    BY <1>0, <1>9 DEF periodic_flush, flush_state, Flush, LoopFree, CycleOK, trackerVars
  <2> QED
    BY <1>0, <2>1, PaperWrite
<1>10. CASE save
  <2>1. Head(saves) \in Pid
    BY <1>0, <1>10 DEF save, TypeOK
  <2> QED
    BY <1>0, <1>10, <2>1, PaperWrite DEF save, trackerVars, cycleVars
<1>11. CASE CooldownStep
  BY <1>11 DEF CooldownStep, cooldown_over, trackerVars, cycleVars, PaperInv
<1>12. CASE stop \/ stop_evaluation \/ stopped
  <2>1. \A p \in Pid : mem[p].state # "closing_requested"
    BY <1>0, <1>12, NoneClosing DEF stop, stop_evaluation, stopped, LoopFree, CycleOK
  <2> QED
    BY <1>12, <2>1 DEF stop, stop_evaluation, stopped, trackerVars, PaperInv
<1>13. CASE start
  <2>1. \A p \in Pid : mem'[p] = db[p] /\ db'[p] = db[p]
    BY <1>13 DEF start, restore_position, PaperInv
  <2> QED
    BY <2>1 DEF PaperInv
<1>14. CASE crash
  BY <1>14 DEF crash, PaperInv, NoRec
<1> QED
  BY <1>1, <1>2, <1>3, <1>4, <1>5, <1>6, <1>7, <1>8, <1>9, <1>10, <1>11, <1>12, <1>13, <1>14,
     NobodySleeps
     DEF Next, EntryStep, ExitStep, CloseStep, StopStep

LEMMA PaperAlways ==
  ASSUME PaperMode
  PROVE  Spec => [](PositionInv /\ PaperInv)
<1>1. Init => PaperInv
  BY DEF Init, PaperInv, NoRec
<1>2. PositionInv /\ PaperInv /\ [Next]_vars => PaperInv'
  BY PaperStep
<1> QED
  BY <1>1, <1>2, InvInit, InvStep, PTL DEF Spec

(* Only execute_close closes a position in paper mode.                     *)
LEMMA SaleStep ==
  ASSUME PaperMode, PositionInv, PaperInv, [Next]_vars, NEW p \in Pid,
         mem[p].state \in HoldingStates, mem'[p].state = "closed"
  PROVE  price[AssetOf[p]] # "none"
<1>0. TypeOK /\ DataInv /\ CycleOK /\ InFlight
  BY DEF PositionInv
<1>1. mem' # mem
  BY DEF HoldingStates
<1>2. ~ start
  BY DEF start, restore_position, PaperInv, HoldingStates
<1>3. ~ crash
  BY DEF crash, NoRec
<1>4. ASSUME NEW q \in Pid, execute_paper(q) \/ evaluate_position(q) \/ cancel_close(q)
      PROVE  FALSE
  <2>1. \A r \in Pid : mem'[r] = mem[r] \/ mem'[r].state # "closed"
    BY <1>0, <1>4 DEF execute_paper, confirm_fill, evaluate_position, request_close,
       cancel_close, TypeOK, PosRec
  <2> QED
    BY <2>1 DEF HoldingStates
<1>5. ASSUME NEW q \in Pid, execute_close_paper(q) PROVE price[AssetOf[p]] # "none"
  <2>1. p = q
    BY <1>0, <1>5 DEF execute_close_paper, confirm_close, TypeOK, HoldingStates
  <2>2. mem[q].state = "closing_requested"
    BY <1>0, <1>5 DEF execute_close_paper, SellDue, CycleOK, PaperInv
  <2> QED
    BY <2>1, <2>2 DEF PaperInv
<1>6. CASE \/ UNCHANGED vars \/ save \/ CooldownStep \/ StopStep
           \/ begin_cycle \/ begin_closing \/ end_cycle \/ end_flush
           \/ \E q \in Pid : skip_close(q) \/ periodic_flush(q)
  BY <1>1, <1>6 DEF vars, save, CooldownStep, cooldown_over, StopStep, stop, stop_evaluation,
     stopped, flush_state, Flush, begin_cycle, begin_closing, end_cycle, end_flush, skip_close,
     periodic_flush, trackerVars
<1> QED
  BY <1>2, <1>3, <1>4, <1>5, <1>6, NobodySleeps DEF Next, EntryStep, ExitStep, CloseStep

(* A paper position is never sold at the default price 0.0: whatever is    *)
(* stale, cancelled, saved late, lost in a crash or restored in between,   *)
(* the cycle that sells it has a price of its coin (ExitOrchestrator,      *)
(* ExitExecutor.execute_close, restore_state).                             *)
THEOREM PaperSalesPriced ==
  ASSUME PaperMode
  PROVE  Spec => PaperSalePriced
<1>1. PositionInv /\ PaperInv /\ [Next]_vars
        => [\A p \in Pid : mem[p].state \in HoldingStates /\ mem'[p].state = "closed"
               => price[AssetOf[p]] # "none"]_vars
  BY SaleStep
<1> QED
  BY <1>1, PaperAlways, PTL DEF Spec, PaperSalePriced

-----------------------------------------------------------------------------
(* Open positions, crashes included.                                       *)

(* What bot_max counts, a close that is being decided included.            *)
Held(r) == r.state \in {"open_confirmed", "closing_requested"}

HeldSet == {p \in Pid : Held(mem[p])}

(* p is among the first k queued saves.                                    *)
Queued(p, k) == \E i \in 1..k : saves[i] = p

(* The positions a restart would find open, were the process to die after  *)
(* k more saves: the save tasks run in the order they were queued.         *)
Ahead(k) ==
  {p \in Pid : IF Queued(p, k) THEN Held(mem[p]) ELSE db[p].state = "open_confirmed"}

(* Whenever the process dies, the table holds no more open positions than  *)
(* bot_max; what no save is queued for is in the table as it is in memory. *)
OpenInv ==
  /\ Cardinality(HeldSet) <= BotMax
  /\ \A k \in 0..Len(saves) : Cardinality(Ahead(k)) <= BotMax
  /\ phase # "down" =>
       \A p \in Pid : ~ Queued(p, Len(saves)) => (Held(mem[p]) <=> db[p].state = "open_confirmed")
  /\ \A i \in 1..Len(saves) : saves[i] \in issued

(* The bound survives in every smaller set.                                *)
LEMMA Fewer ==
  ASSUME NEW S \in SUBSET Pid, NEW T \in SUBSET Pid, T \subseteq S, Cardinality(S) <= BotMax
  PROVE  Cardinality(T) <= BotMax
<1>1. Cardinality(T) <= Cardinality(S)
  BY PidSubsets, FS_Subset
<1>2. Cardinality(S) \in Nat /\ Cardinality(T) \in Nat /\ BotMax \in Nat
  BY PidSubsets, PositionConstants DEF PositionConstants
<1> QED
  BY <1>1, <1>2

(* The queue after a save task is added.                                   *)
LEMMA Persisted ==
  ASSUME TypeOK, NEW p \in Pid, saves' = persist(p)
  PROVE  /\ Len(saves) \in Nat
         /\ \/ saves' = saves /\ Queued(p, Len(saves))
            \/ /\ ~ Queued(p, Len(saves))
               /\ Len(saves') = Len(saves) + 1
               /\ saves'[Len(saves) + 1] = p
         /\ \A i \in 1..Len(saves) : saves'[i] = saves[i]
<1>1. saves \in Seq(Pid) /\ Len(saves) \in Nat /\ DOMAIN saves = 1..Len(saves)
  BY DEF TypeOK
<1>2. CASE Queued(p, Len(saves))
  BY <1>1, <1>2 DEF persist, Queued
<1>3. CASE ~ Queued(p, Len(saves))
  <2>1. saves' = Append(saves, p)
    BY <1>1, <1>3 DEF persist, Queued
  <2>2. Len(saves') = Len(saves) + 1
    BY <1>1, <2>1
  <2>3. saves'[Len(saves) + 1] = p
    BY <1>1, <2>1
  <2>4. \A i \in 1..Len(saves) : saves'[i] = saves[i]
    BY <1>1, <2>1
  <2> QED
    BY <1>1, <1>3, <2>2, <2>3, <2>4
<1> QED
  BY <1>2, <1>3

(* Steps that change no row and no save, and what is held no more.         *)
LEMMA OpenQuiet ==
  ASSUME OpenInv, UNCHANGED <<db, saves, issued>>, phase' # "down" => phase # "down",
         \A p \in Pid : Held(mem'[p]) <=> Held(mem[p])
  PROVE  OpenInv'
<1>1. HeldSet' = HeldSet /\ \A k : Ahead(k)' = Ahead(k)
  BY DEF HeldSet, Ahead, Queued
<1>2. \A k \in 0..Len(saves)' : Cardinality(Ahead(k))' <= BotMax
  BY <1>1 DEF OpenInv
<1> QED
  BY <1>1, <1>2 DEF OpenInv, Queued

(* A new position, for which validate found room.                          *)
LEMMA OpenEntry ==
  ASSUME PaperMode, PositionInv, PaperInv, OpenInv, NEW p \in Pid, execute_paper(p)
  PROVE  OpenInv'
<1>0. TypeOK /\ DataInv /\ CycleOK
  BY DEF PositionInv
<1>1. /\ p \notin issued /\ open_position_count < BotMax /\ LoopFree /\ phase # "down"
      /\ saves' = persist(p) /\ issued' = issued \cup {p} /\ UNCHANGED <<db, phase>>
  BY DEF execute_paper, can_dispatch, validate
<1>2. db[p].state = "absent" /\ mem[p].state = "absent"
  BY <1>0, <1>1 DEF DataInv, NoRec
<1>3. \A q \in Pid : IF q = p THEN mem'[q].state = "open_confirmed" ELSE mem'[q] = mem[q]
  BY <1>0 DEF execute_paper, confirm_fill, TypeOK, PosRec
<1>4. ~ Queued(p, Len(saves))
  BY <1>1 DEF OpenInv, Queued
<1>5. /\ Len(saves) \in Nat /\ Len(saves') = Len(saves) + 1 /\ saves'[Len(saves) + 1] = p
      /\ \A i \in 1..Len(saves) : saves'[i] = saves[i]
  BY <1>0, <1>1, <1>4, Persisted
<1>6. Cardinality(HeldSet') <= BotMax
  <2>1. HeldSet = {q \in Pid : is_open(q)} /\ p \notin HeldSet
    BY <1>1, <1>2, NoneClosing DEF HeldSet, Held, is_open, LoopFree
  <2>2. HeldSet' = HeldSet \cup {p}
    BY <1>2, <1>3 DEF HeldSet, Held
  <2>3. Cardinality(HeldSet') = Cardinality(HeldSet) + 1 /\ Cardinality(HeldSet) \in Nat
    BY <2>1, <2>2, PidCard, PidSubsets DEF HeldSet
  <2> QED
    BY <1>1, <2>1, <2>3, PositionConstants DEF open_position_count, PositionConstants
<1>7. PICK n \in Nat : n = Len(saves)
  BY <1>5
<1>8. \A q \in Pid, k \in 0..n : Queued(q, k)' <=> Queued(q, k)
  BY <1>5, <1>7 DEF Queued
<1>9. \A q \in Pid : Queued(q, n + 1)' <=> Queued(q, n) \/ q = p
  BY <1>5, <1>7 DEF Queued
<1>10. \A k \in 0..n : Ahead(k)' = Ahead(k)
  <2> SUFFICES ASSUME NEW k \in 0..n PROVE Ahead(k)' = Ahead(k)
    OBVIOUS
  <2>1. ~ Queued(p, k)
    BY <1>4, <1>7 DEF Queued
  <2> QED
    BY <1>1, <1>3, <1>8, <2>1 DEF Ahead, Held
<1>11. Ahead(n + 1)' = HeldSet'
  <2>1. \A q \in Pid : q # p /\ ~ Queued(q, n) => (Held(mem[q]) <=> db[q].state = "open_confirmed")
    BY <1>1, <1>7 DEF OpenInv
  <2> QED
    BY <1>1, <1>3, <1>9, <2>1 DEF Ahead, HeldSet, Held
<1>12. \A k \in 0..(n + 1) : Cardinality(Ahead(k)') <= BotMax
  <2> SUFFICES ASSUME NEW k \in 0..(n + 1) PROVE Cardinality(Ahead(k)') <= BotMax
    OBVIOUS
  <2>1. CASE k = n + 1
    BY <1>6, <1>11, <2>1
  <2>2. CASE k \in 0..n
    BY <1>7, <1>10, <2>2 DEF OpenInv
  <2> QED
    BY <2>1, <2>2
<1>13. \A q \in Pid : ~ Queued(q, n + 1)' => (Held(mem'[q]) <=> db'[q].state = "open_confirmed")
  BY <1>1, <1>3, <1>7, <1>9 DEF OpenInv, Held
<1>14. \A j \in 1..(n + 1) : saves'[j] \in issued'
  BY <1>1, <1>5, <1>7 DEF OpenInv
<1>15. Len(saves)' = n + 1
  BY <1>5, <1>7
<1> QED
  BY <1>6, <1>12, <1>13, <1>14, <1>15 DEF OpenInv

(* A close that is requested or carried out: nothing more is held.         *)
LEMMA OpenClosing ==
  ASSUME TypeOK, OpenInv, NEW p \in Pid, saves' = persist(p),
         UNCHANGED <<db, issued, phase>>, p \in issued, phase # "down",
         \A q \in Pid : q # p => mem'[q] = mem[q],
         Held(mem'[p]) => Held(mem[p])
  PROVE  OpenInv'
<1>1. PICK n \in Nat : n = Len(saves)
  BY Persisted
<1>2. /\ \A i \in 1..n : saves'[i] = saves[i]
      /\ \/ saves' = saves /\ Queued(p, n)
         \/ ~ Queued(p, n) /\ Len(saves') = n + 1 /\ saves'[n + 1] = p
  BY <1>1, Persisted
<1>3. \A q \in Pid, k \in 0..n : Queued(q, k)' <=> Queued(q, k)
  BY <1>2 DEF Queued
<1>4. HeldSet' \subseteq HeldSet
  BY DEF HeldSet
<1>5. \A k \in 0..n : Ahead(k)' \subseteq Ahead(k)
  BY <1>3 DEF Ahead
<1>6. /\ HeldSet \in SUBSET Pid /\ HeldSet' \in SUBSET Pid
      /\ \A k : Ahead(k) \in SUBSET Pid /\ Ahead(k)' \in SUBSET Pid
  BY DEF HeldSet, Ahead
<1>7. Cardinality(HeldSet') <= BotMax
  BY <1>4, <1>6, Fewer DEF OpenInv
<1>8. \A k \in 0..n : Cardinality(Ahead(k)') <= BotMax
  BY <1>1, <1>5, <1>6, Fewer DEF OpenInv
<1>9. CASE saves' = saves /\ Queued(p, n)
  <2>1. Len(saves)' = n
    BY <1>1, <1>9
  <2>2. \A q \in Pid : ~ Queued(q, n)' => (Held(mem'[q]) <=> db'[q].state = "open_confirmed")
    BY <1>1, <1>3, <1>9 DEF OpenInv
  <2> QED
    BY <1>1, <1>7, <1>8, <1>9, <2>1, <2>2 DEF OpenInv
<1>10. CASE ~ Queued(p, n) /\ Len(saves') = n + 1 /\ saves'[n + 1] = p
  <2>1. \A q \in Pid : Queued(q, n + 1)' <=> Queued(q, n) \/ q = p
    BY <1>2, <1>10 DEF Queued
  <2>2. Ahead(n + 1)' \subseteq Ahead(n)
    <3>1. Held(mem[p]) => db[p].state = "open_confirmed"
      BY <1>1, <1>10 DEF OpenInv
    <3> QED
      BY <1>10, <2>1, <3>1 DEF Ahead
  <2>3. Cardinality(Ahead(n + 1)') <= BotMax
    BY <1>1, <1>6, <2>2, Fewer DEF OpenInv
  <2>4. \A k \in 0..(n + 1) : Cardinality(Ahead(k)') <= BotMax
    BY <1>8, <2>3
  <2>5. \A q \in Pid : ~ Queued(q, n + 1)' => (Held(mem'[q]) <=> db'[q].state = "open_confirmed")
    BY <1>1, <2>1 DEF OpenInv
  <2>6. \A j \in 1..(n + 1) : saves'[j] \in issued'
    BY <1>1, <1>2, <1>10 DEF OpenInv
  <2> QED
    BY <1>7, <1>10, <2>4, <2>5, <2>6 DEF OpenInv
<1> QED
  BY <1>2, <1>9, <1>10

(* The oldest save is served: the table moves one step ahead.              *)
LEMMA OpenSave ==
  ASSUME TypeOK, PaperInv, OpenInv, "dbWrite" \notin Faults, save
  PROVE  OpenInv'
<1>1. PICK n \in Nat : Len(saves) = n + 1
  <2>1. saves \in Seq(Pid) /\ saves # <<>>
    BY DEF save, TypeOK
  <2>2. Len(saves) \in Nat /\ Len(saves) # 0
    BY <2>1
  <2>3. Len(saves) - 1 \in Nat /\ Len(saves) = (Len(saves) - 1) + 1
    BY <2>2
  <2> QED
    BY <2>3
<1>2. PICK p \in Pid : p = saves[1]
  BY <1>1 DEF TypeOK
<1>3. /\ Len(saves') = n
      /\ \A i \in 1..n : saves'[i] = saves[i + 1]
  BY <1>1 DEF save, TypeOK
<1>4. Head(saves) = p
  BY <1>1, <1>2 DEF TypeOK
<1>5. /\ db' = [db EXCEPT ![p] = mem[p]]
      /\ UNCHANGED <<mem, issued, phase>>
  BY <1>4 DEF save, Save, trackerVars
<1>6. \A q \in Pid : db'[q] = IF q = p THEN mem[q] ELSE db[q]
  BY <1>5 DEF TypeOK
<1>7. \A q \in Pid, k \in 0..n : Queued(q, k + 1) <=> Queued(q, k)' \/ q = p
  <2> SUFFICES ASSUME NEW q \in Pid, NEW k \in 0..n
               PROVE  Queued(q, k + 1) <=> Queued(q, k)' \/ q = p
    OBVIOUS
  <2>1. ASSUME NEW i \in 1..(k + 1), saves[i] = q PROVE Queued(q, k)' \/ q = p
    <3>1. CASE i = 1
      BY <1>2, <2>1, <3>1
    <3>2. CASE i # 1
      <4>1. i - 1 \in 1..k /\ i - 1 \in 1..n /\ (i - 1) + 1 = i
        BY <3>2
      <4> QED
        BY <1>3, <2>1, <4>1 DEF Queued
    <3> QED
      BY <3>1, <3>2
  <2>2. ASSUME NEW i \in 1..k, saves'[i] = q PROVE Queued(q, k + 1)
    <3>1. i \in 1..n /\ i + 1 \in 1..(k + 1)
      OBVIOUS
    <3> QED
      BY <1>3, <2>2, <3>1 DEF Queued
  <2>3. q = p => Queued(q, k + 1)
    <3>1. 1 \in 1..(k + 1)
      OBVIOUS
    <3> QED
      BY <1>2, <3>1 DEF Queued
  <2> QED
    BY <2>1, <2>2, <2>3 DEF Queued
<1>8. \A q \in Pid : Held(mem[q]) <=> mem[q].state = "open_confirmed"
  BY NoneClosing DEF save, LoopFree, Held
<1>9. \A k \in 0..n : Ahead(k)' = Ahead(k + 1)
  BY <1>5, <1>6, <1>7, <1>8 DEF Ahead
<1>10. \A k \in 0..n : Cardinality(Ahead(k)') <= BotMax
  <2> SUFFICES ASSUME NEW k \in 0..n PROVE Cardinality(Ahead(k)') <= BotMax
    OBVIOUS
  <2>1. k + 1 \in 0..Len(saves)
    BY <1>1
  <2> QED
    BY <1>9, <2>1 DEF OpenInv
<1>11. HeldSet' = HeldSet
  BY <1>5 DEF HeldSet
<1>12. phase' # "down" =>
         \A q \in Pid : ~ Queued(q, n)' => (Held(mem'[q]) <=> db'[q].state = "open_confirmed")
  BY <1>1, <1>5, <1>6, <1>7, <1>8 DEF OpenInv
<1>13. \A i \in 1..n : saves'[i] \in issued'
  <2> SUFFICES ASSUME NEW i \in 1..n PROVE saves'[i] \in issued'
    OBVIOUS
  <2>1. i + 1 \in 1..Len(saves)
    BY <1>1
  <2> QED
    BY <1>3, <1>5, <2>1 DEF OpenInv
<1> QED
  BY <1>3, <1>10, <1>11, <1>12, <1>13 DEF OpenInv

(* A flush writes what is there already.                                   *)
LEMMA OpenFlush ==
  ASSUME TypeOK, PaperInv, OpenInv, NEW p \in Pid, Flush(p), LoopFree, phase # "down"
  PROVE  OpenInv'
<1>1. UNCHANGED <<mem, saves, issued, phase>> /\ saves = <<>> /\ Len(saves) = 0
  BY DEF Flush, trackerVars
<1>2. \A q \in Pid : ~ Queued(q, 0)
  BY DEF Queued
<1>3. \A q \in Pid : mem[q].state = "open_confirmed" <=> db[q].state = "open_confirmed"
  BY <1>1, <1>2, NoneClosing DEF OpenInv, Held, LoopFree
<1>4. \A q \in Pid : db'[q].state = "open_confirmed" <=> db[q].state = "open_confirmed"
  BY <1>3 DEF Flush, Save, TypeOK
<1>5. HeldSet' = HeldSet /\ \A k : Ahead(k)' = Ahead(k)
  BY <1>1, <1>4 DEF HeldSet, Ahead, Queued
<1>6. \A k \in 0..0 : Cardinality(Ahead(k)') <= BotMax
  BY <1>1, <1>5 DEF OpenInv
<1>7. \A q \in Pid : Held(mem'[q]) <=> db'[q].state = "open_confirmed"
  BY <1>1, <1>2, <1>4 DEF OpenInv
<1> QED
  BY <1>1, <1>5, <1>6, <1>7 DEF OpenInv

(* A restart finds the table, a crash leaves it.                           *)
LEMMA OpenRestart ==
  ASSUME TypeOK, PaperInv, OpenInv, start \/ crash
  PROVE  OpenInv'
<1>1. UNCHANGED <<db, issued>> /\ saves' = <<>> /\ Len(saves') = 0 /\ Len(saves) \in Nat
  BY DEF start, crash, TypeOK
<1>2. \A q \in Pid : ~ Queued(q, 0) /\ ~ Queued(q, 0)'
  BY DEF Queued
<1>3. Ahead(0)' = Ahead(0) /\ Ahead(0) = {q \in Pid : db[q].state = "open_confirmed"}
  BY <1>1, <1>2 DEF Ahead
<1>4. 0 \in 0..Len(saves) /\ \A k \in 0..0 : k = 0
  BY <1>1
<1>5. Cardinality(Ahead(0)) <= BotMax
  BY <1>4 DEF OpenInv
<1>6. HeldSet' \subseteq Ahead(0)
  <2>1. CASE start
    BY <1>3, <2>1 DEF start, restore_position, HeldSet, Held, PaperInv
  <2>2. CASE crash
    BY <2>2 DEF crash, HeldSet, Held, NoRec
  <2> QED
    BY <2>1, <2>2
<1>7. Cardinality(HeldSet') <= BotMax
  <2>1. HeldSet' \in SUBSET Pid /\ Ahead(0) \in SUBSET Pid
    BY DEF HeldSet, Ahead
  <2> QED
    BY <1>5, <1>6, <2>1, Fewer
<1>8. phase' # "down" => \A q \in Pid : Held(mem'[q]) <=> db'[q].state = "open_confirmed"
  BY <1>1 DEF start, crash, restore_position, Held, PaperInv
<1>9. \A k \in 0..0 : Cardinality(Ahead(k)') <= BotMax
  BY <1>3, <1>4, <1>5
<1> QED
  BY <1>1, <1>7, <1>8, <1>9 DEF OpenInv

LEMMA OpenStep ==
  ASSUME PaperMode, "dbWrite" \notin Faults, PositionInv, PaperInv, OpenInv, [Next]_vars
  PROVE  OpenInv'
<1>0. TypeOK /\ DataInv /\ CycleOK /\ InFlight
  BY DEF PositionInv
<1>1. CASE UNCHANGED vars \/ CooldownStep \/ stop \/ stop_evaluation \/ stopped
           \/ begin_cycle \/ begin_closing \/ end_cycle \/ end_flush
           \/ \E p \in Pid : skip_close(p)
  <2>1. UNCHANGED <<mem, db, saves, issued>> /\ (phase' # "down" => phase # "down")
    BY <1>1 DEF vars, CooldownStep, cooldown_over, stop, stop_evaluation, stopped, begin_cycle,
       begin_closing, end_cycle, end_flush, skip_close, trackerVars
  <2> QED
    BY <2>1, OpenQuiet
<1>2. ASSUME NEW p \in Pid, evaluate_position(p) PROVE OpenInv'
  <2>1. /\ mem[p].state = "open_confirmed" /\ phase # "down"
        /\ UNCHANGED <<db, issued, phase>>
    BY <1>0, <1>2 DEF evaluate_position, CycleOK, is_open
  <2>2. p \in issued
    BY <1>0, <2>1 DEF DataInv, NoRec
  <2>3. CASE UNCHANGED <<mem, saves>>
    BY <2>1, <2>3, OpenQuiet
  <2>4. ASSUME NEW reason, request_close(p, reason) PROVE OpenInv'
    <3>1. saves' = persist(p) /\ \A q \in Pid : q # p => mem'[q] = mem[q]
      BY <1>0, <2>4 DEF request_close, TypeOK
    <3> QED
      BY <1>0, <2>1, <2>2, <3>1, OpenClosing DEF Held
  <2> QED
    BY <1>2, <2>3, <2>4 DEF evaluate_position
<1>3. ASSUME NEW p \in Pid, cancel_close(p) PROVE OpenInv'
  <2>1. mem[p].state = "closing_requested" /\ UNCHANGED <<db, saves, issued, phase>>
    BY <1>3 DEF cancel_close, should_cancel_close
  <2>2. \A q \in Pid : IF q = p THEN mem'[q].state = "open_confirmed" ELSE mem'[q] = mem[q]
    BY <1>0, <1>3 DEF cancel_close, TypeOK
  <2> QED
    BY <2>1, <2>2, OpenQuiet DEF Held
<1>4. ASSUME NEW p \in Pid, execute_close_paper(p) PROVE OpenInv'
  <2>1. /\ mem[p].state = "closing_requested" /\ phase # "down"
        /\ UNCHANGED <<db, issued, phase>> /\ saves' = persist(p)
    BY <1>0, <1>4 DEF execute_close_paper, confirm_close, SellDue, CycleOK, PaperInv
  <2>2. p \in issued
    BY <1>0, <2>1 DEF DataInv, NoRec
  <2>3. \A q \in Pid : IF q = p THEN mem'[q].state = "closed" ELSE mem'[q] = mem[q]
    BY <1>0, <1>4 DEF execute_close_paper, confirm_close, TypeOK, PosRec
  <2> QED
    BY <1>0, <2>1, <2>2, <2>3, OpenClosing DEF Held
<1>5. ASSUME NEW p \in Pid, periodic_flush(p) \/ flush_state(p) PROVE OpenInv'
  <2>1. LoopFree /\ Flush(p) /\ phase # "down"
    BY <1>0, <1>5 DEF periodic_flush, flush_state, LoopFree, CycleOK
  <2> QED
    BY <1>0, <2>1, OpenFlush
<1> QED
  BY <1>0, <1>1, <1>2, <1>3, <1>4, <1>5, OpenEntry, OpenSave, OpenRestart, NobodySleeps
     DEF Next, EntryStep, ExitStep, CloseStep, StopStep

(* With writes that succeed no restart brings more than bot_max positions  *)
(* back, however late the saves are when the process dies: they are served *)
(* in the order of the closes and entries, so a row that is still open     *)
(* leaves room, or no room was given away (OrderValidator's bot_max,       *)
(* PositionTracker._persist, restore_state).                               *)
THEOREM BotMaxRespected ==
  ASSUME PaperMode, "dbWrite" \notin Faults
  PROVE  Spec => []OpenCap
<1>1. Init => OpenInv
  <2> SUFFICES ASSUME Init PROVE OpenInv
    OBVIOUS
  <2>1. HeldSet = {} /\ \A k : Ahead(k) = {}
    BY DEF Init, HeldSet, Ahead, Held, NoRec
  <2>2. Cardinality({}) <= BotMax
    BY FS_EmptySet, PositionConstants DEF PositionConstants
  <2>3. Len(saves) = 0 /\ phase = "down"
    BY DEF Init
  <2>4. Cardinality(HeldSet) <= BotMax
    BY <2>1, <2>2
  <2>5. \A k : Cardinality(Ahead(k)) <= BotMax
    BY <2>1, <2>2
  <2>6. \A i \in 1..Len(saves) : saves[i] \in issued
    BY <2>3
  <2> QED
    BY <2>3, <2>4, <2>5, <2>6 DEF OpenInv
<1>2. PositionInv /\ PaperInv /\ OpenInv /\ [Next]_vars => OpenInv'
  BY OpenStep
<1>3. OpenInv => OpenCap
  <2> SUFFICES ASSUME OpenInv PROVE Cardinality({p \in Pid : is_open(p)}) <= BotMax
    BY DEF OpenCap, open_position_count
  <2>1. {p \in Pid : is_open(p)} \subseteq HeldSet
    BY DEF is_open, HeldSet, Held
  <2> QED
    BY <2>1, Fewer DEF OpenInv, HeldSet
<1> QED
  BY <1>1, <1>2, <1>3, PaperAlways, PTL DEF Spec
=============================================================================
