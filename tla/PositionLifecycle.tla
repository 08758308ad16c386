-------------------------- MODULE PositionLifecycle --------------------------
(***************************************************************************)
(* The life of positions: entry orders (OrderExecutor), the exit cycle     *)
(* (ExitOrchestrator, ExitExecutor), the tracker's counters                *)
(* (PositionTracker) and the SQLite backup with stop, start and crash      *)
(* (Orchestrator, PositionStore).                                          *)
(*                                                                         *)
(* All of it runs on ONE asyncio event loop, so a step of the model is a   *)
(* stretch of code between two points where a coroutine really suspends.   *)
(* In paper mode neither an entry nor a close suspends.  In live mode the  *)
(* SDK calls are synchronous and the only suspension inside an order is    *)
(* the sleep between the two attempts of send_market_fok_order.  While the *)
(* exit cycle is between two suspensions (exit_pc "evaluate" or "close")   *)
(* it owns the loop and no other task steps.                               *)
(*                                                                         *)
(* Prices are abstracted to what the decisions tell apart: whether the     *)
(* cycle has a price for a coin and whether it is stale (price), and which *)
(* positions are in profit at it (tp_now).                                 *)
(***************************************************************************)
EXTENDS Naturals, Sequences, FiniteSets, PositionRecord

CONSTANTS
  Pid,        (* position ids (uuid4, never issued twice)                 *)
  NoPid,      (* "no position"                                            *)
  Event,      (* condition ids                                            *)
  Token,      (* outcome token ids                                        *)
  Asset,      (* coins                                                    *)
  EventOf,    (* the event a position is opened on                        *)
  TokenOf,    (* the outcome token it buys                                *)
  AssetOf,    (* the coin of its event                                    *)
  EventMax,   (* CoinSettings.event_max                                   *)
  BotMax,     (* bot_max_positions                                        *)
  PaperMode,  (* config trading.paper_mode                                *)
  TpReevaluate, (* config take_profit.reevaluate                          *)
  Faults      (* which faults this instance exercises                     *)

(* lostReply: the exchange executes an order whose reply never arrives.    *)
(* dbWrite: PositionStore.save fails.  crash: the process dies.  stop: the *)
(* user stops the bot.                                                     *)
FaultKinds == {"lostReply", "dbWrite", "crash", "stop"}

ASSUME PositionConstants ==
  /\ NoPid \notin Pid
  /\ IsFiniteSet(Pid)
  /\ EventOf \in [Pid -> Event]
  /\ TokenOf \in [Pid -> Token]
  /\ AssetOf \in [Pid -> Asset]
  /\ EventMax \in Nat
  /\ BotMax \in Nat
  /\ PaperMode \in BOOLEAN
  /\ TpReevaluate \in BOOLEAN
  /\ Faults \subseteq FaultKinds

VARIABLES
  mem,          (* PositionTracker._positions                              *)
  event_fills,  (* PositionTracker._event_fills                            *)
  session_trade_count,
  db,           (* the positions table                                     *)
  saves,        (* queued fire-and-forget save tasks, oldest first         *)
  issued,       (* ids handed out by uuid4 so far                          *)
  lots,         (* lots of each token the exchange account holds           *)
  entry,        (* the position whose BUY is asleep between two attempts   *)
  selling,      (* the position whose SELL is asleep between two attempts  *)
  exit_pc,      (* where the exit cycle task is                            *)
  todo,         (* positions the current loop has still to visit           *)
  price,        (* this cycle's price of each coin: none, stale or live    *)
  tp_now,       (* positions in profit at this cycle's prices              *)
  cooldown,     (* failed closes whose cooldown has not elapsed            *)
  phase         (* up, stopping, flushing or down                          *)

trackerVars == <<mem, event_fills, session_trade_count>>
cycleVars   == <<exit_pc, todo, price, tp_now, selling>>
vars == <<mem, event_fills, session_trade_count, db, saves, issued, lots,
          entry, selling, exit_pc, todo, price, tp_now, cooldown, phase>>

-----------------------------------------------------------------------------
(* Derived state of the tracker.                                           *)

Present(p) == mem[p].state # "absent"

is_open(p) == mem[p].state = "open_confirmed"

open_position_count == Cardinality({p \in Pid : is_open(p)})

(* A position that holds an event slot: pending, or filled at some time.   *)
Counted(r) == r.state # "absent" /\ ~ Rejected(r)

CountedOf(e) == {p \in Pid : EventOf[p] = e /\ Counted(mem[p])}

(* Positions that were filled at some time.                                *)
Filled == {p \in Pid : Counted(mem[p]) /\ mem[p].state # "pending_open"}

(* Positions whose tokens the account should hold.                         *)
HoldingOf(t) == {p \in Pid : TokenOf[p] = t /\ mem[p].state \in HoldingStates}

(* The event loop is not owned by the exit cycle.                          *)
LoopFree == exit_pc \notin {"evaluate", "close"}

(* PositionTracker._persist: a save task is queued.  The task reads the    *)
(* record when it runs, so a second task for a queued position adds        *)
(* nothing.                                                                *)
persist(p) == IF \E i \in DOMAIN saves : saves[i] = p
              THEN saves ELSE Append(saves, p)

(* The exchange account.                                                   *)
Bought(t) == lots' = [lots EXCEPT ![t] = @ + 1]

Sold(t) == lots[t] > 0 /\ lots' = [lots EXCEPT ![t] = @ - 1]

(* An order whose reply is an error: executed all the same only when       *)
(* replies may be lost.                                                    *)
BuyError(t) == UNCHANGED lots \/ ("lostReply" \in Faults /\ Bought(t))

SellError(t) == UNCHANGED lots \/ ("lostReply" \in Faults /\ Sold(t))

-----------------------------------------------------------------------------
(* Entry: EvaluationLoop dispatches an ENTRY signal to                     *)
(* OrderExecutor.execute.                                                  *)

(* The checks before create_pending.  Whether a signal comes and whether   *)
(* the balance suffices is left open.                                      *)
validate(p) ==
  /\ \A q \in Pid : EventOf[q] = EventOf[p] => mem[q].state # "pending_open"
  /\ event_fills[EventOf[p]] < EventMax
  /\ open_position_count < BotMax

can_dispatch(p) ==
  /\ phase \in {"up", "stopping"}
  /\ LoopFree
  /\ entry = NoPid
  /\ p \notin issued
  /\ validate(p)

(* create_pending, then confirm_fill.                                      *)
confirm_fill(p) ==
  /\ mem' = [mem EXCEPT ![p].state = "open_confirmed"]
  /\ session_trade_count' = session_trade_count + 1

(* Mutant of reject_fill: gives the slot back before it is taken, no floor. *)
reject_fill_early(p, fills) ==
  /\ mem' = [mem EXCEPT ![p].state = "closed"]
  /\ event_fills' = [event_fills EXCEPT ![EventOf[p]] = @ - 1]
  /\ UNCHANGED session_trade_count

(* reject_fill takes back the slot create_pending took; nothing is saved.  *)
reject_fill(p, fills) ==
  /\ mem' = [mem EXCEPT ![p].state = "closed"]
  /\ event_fills' = [fills EXCEPT ![EventOf[p]] = IF @ > 0 THEN @ - 1 ELSE @]
  /\ UNCHANGED session_trade_count

(* Mutant of create_pending: the slot is not counted while pending.        *)
create_pending_uncounted(p) == event_fills

create_pending(p) == [event_fills EXCEPT ![EventOf[p]] = @ + 1]

execute_paper(p) ==
  /\ PaperMode
  /\ can_dispatch(p)
  /\ confirm_fill(p)
  /\ event_fills' = create_pending(p)
  /\ issued' = issued \cup {p}
  /\ saves' = persist(p)
  /\ UNCHANGED <<db, lots, entry, cycleVars, cooldown, phase>>

(* Attempt 1 of the BUY: matched, refused, or a transient error that puts  *)
(* the coroutine to sleep with the position pending.                       *)
execute_live(p) ==
  /\ ~ PaperMode
  /\ can_dispatch(p)
  /\ issued' = issued \cup {p}
  /\ saves' = persist(p)
  /\ \/ /\ confirm_fill(p)
        /\ event_fills' = create_pending(p)
        /\ Bought(TokenOf[p])
        /\ UNCHANGED entry
     \/ /\ reject_fill(p, create_pending(p))
        /\ BuyError(TokenOf[p])
        /\ UNCHANGED entry
     \/ /\ mem' = [mem EXCEPT ![p].state = "pending_open"]
        /\ event_fills' = create_pending(p)
        /\ BuyError(TokenOf[p])
        /\ entry' = p
        /\ UNCHANGED session_trade_count
  /\ UNCHANGED <<db, cycleVars, cooldown, phase>>

(* Attempt 2, after the sleep.                                             *)
resume_buy(p) ==
  /\ phase \in {"up", "stopping"}
  /\ LoopFree
  /\ entry = p
  /\ entry' = NoPid
  /\ \/ /\ confirm_fill(p)
        /\ Bought(TokenOf[p])
        /\ saves' = persist(p)
        /\ UNCHANGED event_fills
     \/ /\ reject_fill(p, event_fills)
        /\ BuyError(TokenOf[p])
        /\ UNCHANGED saves
  /\ UNCHANGED <<db, issued, cycleVars, cooldown, phase>>

-----------------------------------------------------------------------------
(* Exit: one cycle of ExitOrchestrator.run_cycle.                          *)

NoPrice == [a \in Asset |-> "none"]

(* The loop gathers prices of the coins of OPEN positions only, by coin.   *)
begin_cycle ==
  /\ phase = "up"
  /\ exit_pc = "idle"
  /\ price' \in {f \in [Asset -> {"none", "stale", "live"}] :
                  \A a \in Asset : f[a] # "none" =>
                     \E p \in Pid : is_open(p) /\ AssetOf[p] = a}
  /\ tp_now' \in SUBSET {p \in Pid :
                  /\ mem[p].state \in {"open_confirmed", "closing_requested"}
                  /\ price'[AssetOf[p]] # "none"}
  /\ todo' = {p \in Pid : is_open(p)}
  /\ exit_pc' = "evaluate"
  /\ UNCHANGED <<trackerVars, db, saves, issued, lots, entry, selling,
                 cooldown, phase>>

(* Mutant of Triggers: evaluates at the default price 0.0 as well.         *)
Triggers_unpriced(p) ==
  IF p \in tp_now THEN {"take_profit"} ELSE {"stop_loss", "force_sell"}

(* What ExitEvaluator may answer: take profit has priority at a live       *)
(* price, a stale one allows force sell only, no price allows nothing.     *)
Triggers(p) ==
  CASE price[AssetOf[p]] = "none"  -> {}
    [] price[AssetOf[p]] = "stale" -> {"force_sell"}
    [] price[AssetOf[p]] = "live"  -> IF p \in tp_now THEN {"take_profit"}
                                      ELSE {"stop_loss", "force_sell"}

MustExit(p) == price[AssetOf[p]] = "live" /\ p \in tp_now

request_close(p, reason) ==
  /\ mem' = [mem EXCEPT ![p] = [state |-> "closing_requested",
                                reason |-> reason]]
  /\ saves' = persist(p)

evaluate_position(p) ==
  /\ exit_pc = "evaluate"
  /\ p \in todo
  /\ todo' = todo \ {p}
  /\ \/ \E reason \in Triggers(p) : request_close(p, reason)
     \/ ~ MustExit(p) /\ UNCHANGED <<mem, saves>>
  /\ UNCHANGED <<event_fills, session_trade_count, db, issued, lots, entry,
                 selling, exit_pc, price, tp_now, cooldown, phase>>

(* Mutant of begin_closing: failed closes are not picked up again.         *)
begin_closing_once ==
  /\ exit_pc = "evaluate"
  /\ todo = {}
  /\ todo' = {p \in Pid : mem[p].state = "closing_requested"}
  /\ exit_pc' = "close"
  /\ UNCHANGED <<trackerVars, db, saves, issued, lots, entry, selling, price,
                 tp_now, cooldown, phase>>

begin_closing ==
  /\ exit_pc = "evaluate"
  /\ todo = {}
  /\ todo' = {p \in Pid : mem[p].state \in {"closing_requested",
                                            "close_failed"}}
  /\ exit_pc' = "close"
  /\ UNCHANGED <<trackerVars, db, saves, issued, lots, entry, selling, price,
                 tp_now, cooldown, phase>>

(* The early returns of execute_close.                                     *)
in_cooldown(p) == mem[p].state = "close_failed" /\ p \in cooldown

(* Mutant of should_cancel_close: cancels whatever the reason.             *)
should_cancel_any(p) ==
  /\ mem[p].state = "closing_requested"
  /\ TpReevaluate
  /\ p \notin tp_now

(* Mutant of should_cancel_close: a close whose order failed counts too.   *)
should_cancel_sent(p) ==
  /\ mem[p].reason = "take_profit"
  /\ TpReevaluate
  /\ p \notin tp_now

should_cancel_close(p) ==
  /\ mem[p].state = "closing_requested"
  /\ mem[p].reason = "take_profit"
  /\ TpReevaluate
  /\ p \notin tp_now

skip_close(p) ==
  /\ exit_pc = "close"
  /\ p \in todo
  /\ in_cooldown(p)
  /\ todo' = todo \ {p}
  /\ UNCHANGED <<trackerVars, db, saves, issued, lots, entry, selling,
                 exit_pc, price, tp_now, cooldown, phase>>

(* Back to open; this change is not saved.                                 *)
cancel_close(p) ==
  /\ exit_pc = "close"
  /\ p \in todo
  /\ should_cancel_close(p)
  /\ mem' = [mem EXCEPT ![p] = [state |-> "open_confirmed",
                                reason |-> "none"]]
  /\ todo' = todo \ {p}
  /\ UNCHANGED <<event_fills, session_trade_count, db, saves, issued, lots,
                 entry, selling, exit_pc, price, tp_now, cooldown, phase>>

SellDue(p) ==
  /\ exit_pc = "close"
  /\ p \in todo
  /\ ~ in_cooldown(p)
  /\ ~ should_cancel_close(p)

confirm_close(p) ==
  /\ mem' = [mem EXCEPT ![p].state = "closed"]
  /\ saves' = persist(p)
  /\ cooldown' = cooldown \ {p}

(* Mutant of close_failed: a refused sale is booked as a close.            *)
close_failed_booked(p) == confirm_close(p)

(* A failed close is not saved; its cooldown starts.                       *)
close_failed(p) ==
  /\ mem' = [mem EXCEPT ![p].state = "close_failed"]
  /\ cooldown' = cooldown \cup {p}
  /\ UNCHANGED saves

execute_close_paper(p) ==
  /\ PaperMode
  /\ SellDue(p)
  /\ confirm_close(p)
  /\ todo' = todo \ {p}
  /\ UNCHANGED <<event_fills, session_trade_count, db, issued, lots, entry,
                 selling, exit_pc, price, tp_now, phase>>

(* Attempt 1 of the SELL (a close_failed position passes through           *)
(* closing_requested and close_pending in the same stretch).               *)
sell_matched(p) ==
  /\ ~ PaperMode
  /\ SellDue(p)
  /\ Sold(TokenOf[p])
  /\ confirm_close(p)
  /\ todo' = todo \ {p}
  /\ UNCHANGED <<event_fills, session_trade_count, db, issued, entry, selling,
                 exit_pc, price, tp_now, phase>>

sell_refused(p) ==
  /\ ~ PaperMode
  /\ SellDue(p)
  /\ SellError(TokenOf[p])
  /\ close_failed(p)
  /\ todo' = todo \ {p}
  /\ UNCHANGED <<event_fills, session_trade_count, db, issued, entry, selling,
                 exit_pc, price, tp_now, phase>>

sell_transient(p) ==
  /\ ~ PaperMode
  /\ SellDue(p)
  /\ SellError(TokenOf[p])
  /\ mem' = [mem EXCEPT ![p].state = "close_pending"]
  /\ selling' = p
  /\ exit_pc' = "sleep"
  /\ todo' = todo \ {p}
  /\ UNCHANGED <<event_fills, session_trade_count, db, saves, issued, entry,
                 price, tp_now, cooldown, phase>>

(* Attempt 2, after the sleep.                                             *)
resume_sell(p) ==
  /\ exit_pc = "sleep"
  /\ selling = p
  /\ selling' = NoPid
  /\ exit_pc' = "close"
  /\ \/ Sold(TokenOf[p]) /\ confirm_close(p)
     \/ SellError(TokenOf[p]) /\ close_failed(p)
  /\ UNCHANGED <<event_fills, session_trade_count, db, issued, entry, todo,
                 price, tp_now, phase>>

(* Back to the loop, which every flush_every cycles also flushes.          *)
end_cycle ==
  /\ exit_pc = "close"
  /\ todo = {}
  /\ \/ exit_pc' = "idle" /\ todo' = {}
     \/ exit_pc' = "flush" /\ todo' = {p \in Pid : Present(p)}
  /\ price' = NoPrice
  /\ tp_now' = {}
  /\ UNCHANGED <<trackerVars, db, saves, issued, lots, entry, selling,
                 cooldown, phase>>

-----------------------------------------------------------------------------
(* Persistence.                                                            *)

(* PositionStore.save writes the record, or fails and returns False.       *)
Save(p) ==
  \/ db' = [db EXCEPT ![p] = mem[p]]
  \/ "dbWrite" \in Faults /\ UNCHANGED db

(* Mutant of save: the newest queued save is served first.                 *)
save_newest ==
  /\ LoopFree
  /\ saves # <<>>
  /\ Save(saves[Len(saves)])
  /\ saves' = SubSeq(saves, 1, Len(saves) - 1)
  /\ UNCHANGED <<trackerVars, issued, lots, entry, cycleVars, cooldown, phase>>

save ==
  /\ LoopFree
  /\ saves # <<>>
  /\ Save(Head(saves))
  /\ saves' = Tail(saves)
  /\ UNCHANGED <<trackerVars, issued, lots, entry, cycleVars, cooldown, phase>>

(* A flush awaits one write after the other; the writes of one SQLite      *)
(* connection are served in the order they were asked for, the saves       *)
(* queued before it first.                                                 *)
Flush(p) ==
  /\ p \in todo
  /\ saves = <<>>
  /\ Save(p)
  /\ todo' = todo \ {p}
  /\ UNCHANGED <<trackerVars, saves, issued, lots, entry, selling, exit_pc,
                 price, tp_now, cooldown, phase>>

periodic_flush(p) == exit_pc = "flush" /\ Flush(p)

end_flush ==
  /\ exit_pc = "flush"
  /\ todo = {}
  /\ exit_pc' = "idle"
  /\ UNCHANGED <<trackerVars, db, saves, issued, lots, entry, selling, todo,
                 price, tp_now, cooldown, phase>>

(* The wall clock: close_fail_cooldown_sec have passed since p's failure.  *)
cooldown_over(p) ==
  /\ p \in cooldown
  /\ cooldown' = cooldown \ {p}
  /\ UNCHANGED <<trackerVars, db, saves, issued, lots, entry, cycleVars, phase>>

-----------------------------------------------------------------------------
(* Orchestrator.stop, Orchestrator.start and a crash of the process.       *)

(* stop cancels the exit cycle where it sleeps ...                         *)
stop ==
  /\ "stop" \in Faults
  /\ phase = "up"
  /\ LoopFree
  /\ phase' = "stopping"
  /\ exit_pc' = "off"
  /\ selling' = NoPid
  /\ todo' = {}
  /\ price' = NoPrice
  /\ tp_now' = {}
  /\ UNCHANGED <<trackerVars, db, saves, issued, lots, entry, cooldown>>

(* Mutants of stop_evaluation: the sleeping entry is not cancelled; only   *)
(* open positions are flushed.                                             *)
stop_evaluation_alive ==
  /\ phase = "stopping"
  /\ phase' = "flushing"
  /\ todo' = {p \in Pid : Present(p)}
  /\ UNCHANGED <<trackerVars, db, saves, issued, lots, entry, selling, exit_pc,
                 price, tp_now, cooldown>>

stop_evaluation_open_only ==
  /\ phase = "stopping"
  /\ phase' = "flushing"
  /\ entry' = NoPid
  /\ todo' = {p \in Pid : is_open(p)}
  /\ UNCHANGED <<trackerVars, db, saves, issued, lots, selling, exit_pc, price,
                 tp_now, cooldown>>

(* ... then the evaluation loop where it sleeps, and flushes.              *)
stop_evaluation ==
  /\ phase = "stopping"
  /\ phase' = "flushing"
  /\ entry' = NoPid
  /\ todo' = {p \in Pid : Present(p)}
  /\ UNCHANGED <<trackerVars, db, saves, issued, lots, selling, exit_pc, price,
                 tp_now, cooldown>>

flush_state(p) == phase = "flushing" /\ Flush(p)

stopped ==
  /\ phase = "flushing"
  /\ todo = {}
  /\ phase' = "down"
  /\ UNCHANGED <<trackerVars, db, saves, issued, lots, entry, cycleVars,
                 cooldown>>

(* Mutant of restore_position: closed rows are not restored.               *)
restore_position_open(r) == IF r.state = "closed" THEN NoRec ELSE r

(* restore_state: a PENDING_OPEN row is restored and rejected at once,     *)
(* every other row counts as a fill.                                       *)
restore_position(r) ==
  IF r.state = "pending_open" THEN [r EXCEPT !.state = "closed"] ELSE r

(* Mutant of RestoredFill: a closed row does not count as a fill.          *)
RestoredFill_open(p) == db[p].state \notin {"absent", "pending_open", "closed"}

RestoredFill(p) == db[p].state \notin {"absent", "pending_open"}

start ==
  /\ phase = "down"
  /\ saves = <<>>
  /\ phase' = "up"
  /\ exit_pc' = "idle"
  /\ mem' = [p \in Pid |-> restore_position(db[p])]
  /\ event_fills' = [e \in Event |->
        Cardinality({p \in Pid : EventOf[p] = e /\ RestoredFill(p)})]
  /\ session_trade_count' = Cardinality({p \in Pid : RestoredFill(p)})
  /\ UNCHANGED <<db, saves, issued, lots, entry, selling, todo, price, tp_now,
                 cooldown>>

(* Everything but the database and the exchange account is lost.           *)
crash ==
  /\ "crash" \in Faults
  /\ phase # "down"
  /\ phase' = "down"
  /\ mem' = [p \in Pid |-> NoRec]
  /\ event_fills' = [e \in Event |-> 0]
  /\ session_trade_count' = 0
  /\ saves' = <<>>
  /\ entry' = NoPid
  /\ selling' = NoPid
  /\ exit_pc' = "off"
  /\ todo' = {}
  /\ price' = NoPrice
  /\ tp_now' = {}
  /\ cooldown' = {}
  /\ UNCHANGED <<db, issued, lots>>

-----------------------------------------------------------------------------
Init ==
  /\ mem = [p \in Pid |-> NoRec]
  /\ event_fills = [e \in Event |-> 0]
  /\ session_trade_count = 0
  /\ db = [p \in Pid |-> NoRec]
  /\ saves = <<>>
  /\ issued = {}
  /\ lots = [t \in Token |-> 0]
  /\ entry = NoPid
  /\ selling = NoPid
  /\ exit_pc = "off"
  /\ todo = {}
  /\ price = NoPrice
  /\ tp_now = {}
  /\ cooldown = {}
  /\ phase = "down"

EntryStep == \E p \in Pid : execute_paper(p) \/ execute_live(p) \/ resume_buy(p)

CloseStep(p) ==
  \/ skip_close(p) \/ cancel_close(p) \/ execute_close_paper(p)
  \/ sell_matched(p) \/ sell_refused(p) \/ sell_transient(p)
  \/ resume_sell(p)

ExitStep ==
  \/ begin_cycle \/ begin_closing \/ end_cycle \/ end_flush
  \/ \E p \in Pid : evaluate_position(p) \/ CloseStep(p) \/ periodic_flush(p)

StopStep == stop \/ stop_evaluation \/ stopped \/ \E p \in Pid : flush_state(p)

CooldownStep == \E p \in Pid : cooldown_over(p)

Next ==
  \/ EntryStep \/ ExitStep \/ save \/ CooldownStep
  \/ StopStep \/ start \/ crash

Spec == Init /\ [][Next]_vars

-----------------------------------------------------------------------------
(* Properties.                                                             *)

(* Every variable stays in its type.                                       *)
TypeOK ==
  /\ mem \in [Pid -> PosRec]
  /\ event_fills \in [Event -> Nat]
  /\ session_trade_count \in Nat
  /\ db \in [Pid -> PosRec]
  /\ saves \in Seq(Pid)
  /\ issued \subseteq Pid
  /\ lots \in [Token -> Nat]
  /\ entry \in Pid \cup {NoPid}
  /\ selling \in Pid \cup {NoPid}
  /\ exit_pc \in {"off", "idle", "evaluate", "close", "sleep", "flush"}
  /\ todo \subseteq Pid
  /\ price \in [Asset -> {"none", "stale", "live"}]
  /\ tp_now \subseteq Pid
  /\ cooldown \subseteq Pid
  /\ phase \in {"up", "stopping", "flushing", "down"}

(* event_max bounds the positions of an event the tracker knows as pending *)
(* or filled.  A fill whose row was lost with the process is not known any *)
(* more: EventLimit counts those too.                                      *)
EventCap == \A e \in Event : Cardinality(CountedOf(e)) <= EventMax

(* The two counters the limits are read from never fall below the          *)
(* positions they count: a decrement by reject_fill always undoes an       *)
(* increment for the same position.                                        *)
NeverUndercounts ==
  /\ \A e \in Event : Cardinality(CountedOf(e)) <= event_fills[e]
  /\ Cardinality(Filled) <= session_trade_count

(* A coroutine that slept between two attempts of an order finds its       *)
(* position as it left it, so that confirm_fill, reject_fill and           *)
(* confirm_close never meet an illegal transition after the await.         *)
InFlight ==
  /\ entry # NoPid => mem[entry].state = "pending_open"
  /\ selling # NoPid => mem[selling].state = "close_pending"

(* A fill the database knows of.                                           *)
DbFilled(p) == Counted(db[p]) /\ db[p].state # "pending_open"

(* While memory is alive, every filled row of the database is a position   *)
(* the tracker counts, so a restart never restores more fills of an event  *)
(* than the limits allowed.                                                *)
DbFilledKnown ==
  phase # "down" \/ saves # <<>> =>
    \A p \in Pid : DbFilled(p) => Counted(mem[p])

(* A close reason is present from the request of a close on, and only then *)
(* (a rejected position is closed without one).                            *)
RecOK(r) ==
  /\ r.state \in {"absent", "pending_open", "open_confirmed"}
       => r.reason = "none"
  /\ r.state \in {"closing_requested", "close_pending", "close_failed"}
       => r.reason # "none"

(* Where the exit cycle is determines what it may still visit.             *)
CycleOK ==
  /\ exit_pc # "off" => phase = "up"
  /\ entry # NoPid => phase \in {"up", "stopping"}
  /\ selling # NoPid => exit_pc = "sleep"
  /\ exit_pc = "evaluate" => \A p \in todo : is_open(p)
  /\ exit_pc \in {"close", "sleep"} =>
       \A p \in todo : mem[p].state \in {"closing_requested", "close_failed"}

(* Facts about memory and database alone.                                  *)
DbFilledOf(e) == {p \in Pid : EventOf[p] = e /\ DbFilled(p)}

DataInv ==
  /\ \A p \in Pid : RecOK(mem[p]) /\ RecOK(db[p])
  /\ \A p \in Pid : mem[p].state = "pending_open" => ~ DbFilled(p)
  /\ \A p \in Pid \ issued : mem[p] = NoRec /\ db[p] = NoRec
  /\ DbFilledKnown
  /\ NeverUndercounts
  /\ EventCap
  /\ \A e \in Event : Cardinality(DbFilledOf(e)) <= EventMax

(* The inductive invariant behind EventCap: the counters and the database  *)
(* bound what a restart can bring back, because a position still pending   *)
(* has no filled row and an id is issued once.                             *)
PositionInv == TypeOK /\ DataInv /\ CycleOK /\ InFlight

(* As long as every reply arrives, what the account holds of a token is    *)
(* one lot for each position that believes it holds it, through stops,     *)
(* restarts, refused and repeated orders.                                  *)
LedgerAgrees == \A t \in Token : lots[t] = Cardinality(HoldingOf(t))

(* A graceful stop leaves no position whose row differs from memory, the   *)
(* changes that are never saved by themselves (a cancelled take profit, a  *)
(* failed close, a rejected fill) included.                                *)
FlushComplete ==
  phase = "down" => \A p \in Pid : Present(p) => db[p] = mem[p]

(* bot_max bounds the open positions in paper mode, restarts after a crash *)
(* included.                                                               *)
OpenCap == open_position_count <= BotMax

(* A stop loss or force sell, once decided, is never undone, and a closed  *)
(* position is never reopened: not by a retry and not by a restart from    *)
(* the rows a graceful stop wrote.                                         *)
LatchKept ==
  [][\A p \in Pid :
       /\ mem[p].reason \in {"stop_loss", "force_sell"}
            => mem'[p].reason = mem[p].reason
       /\ mem[p].state = "closed" => mem'[p] = mem[p]]_vars

(* The position book: what a record stands for, whatever the exit cycle,   *)
(* the save tasks or the database are doing.  An exit that may still be    *)
(* withdrawn is a take profit whose order was not sent yet.                *)
standing(r) ==
  CASE r.state = "absent" -> "unborn"
    [] r.state = "pending_open" -> "pending"
    [] r.state = "open_confirmed" -> "held"
    [] r.state = "closing_requested" /\ r.reason = "take_profit" -> "offered"
    [] r.state = "closing_requested" /\ r.reason # "take_profit" -> "condemned"
    [] r.state \in {"close_pending", "close_failed"} -> "condemned"
    [] r.state = "closed" /\ r.reason # "none" -> "sold"
    [] r.state = "closed" /\ r.reason = "none" -> "rejected"

book_of == [p \in Pid |-> standing(mem[p])]

Book == INSTANCE PositionBook WITH book <- book_of, account <- lots

(* In live mode, as long as replies arrive, writes succeed and the process *)
(* is stopped rather than killed, the tracker, the two order coroutines,   *)
(* the queued saves, the flushes and the restarts from the positions table *)
(* together implement the position book: a stop and a start in the middle  *)
(* of an order, of a close or of a queue of saves changes no standing but  *)
(* that of the pending positions.                                          *)
BookKept == Book!Spec

(* A paper sale never uses the 0.0 that stands for a missing price: the    *)
(* cycle has some price of the position's coin when execute_close sells    *)
(* (not that it is a live one, or of the held side).                       *)
PaperSalePriced ==
  [][\A p \in Pid : mem[p].state \in HoldingStates /\ mem'[p].state = "closed"
        => price[AssetOf[p]] # "none"]_vars

(* Fairness: the exit loop and the save tasks are scheduled again and      *)
(* again, the clock advances, the user starts the bot, and the exchange    *)
(* does not refuse every attempt to sell a position for ever.  Neither     *)
(* stops nor entries are fair.                                             *)
Fairness ==
  /\ WF_vars(ExitStep)
  /\ WF_vars(save)
  /\ WF_vars(start)
  /\ WF_vars(stop_evaluation \/ stopped \/ \E p \in Pid : flush_state(p))
  /\ WF_vars(CooldownStep)
  /\ SF_vars(\E p \in Pid : sell_matched(p))

FairSpec == Spec /\ Fairness

Closing(p) ==
  mem[p].state \in {"closing_requested", "close_pending", "close_failed"}

(* A stop cut the sale of p off in the middle.                             *)
Orphaned(p) == mem[p].state = "close_pending" /\ selling # p

(* A close that was decided ends, over any stops and starts of a bot that  *)
(* stays up in the end: the position is closed, or its take profit is      *)
(* cancelled (run_cycle picks closing_requested and close_failed positions *)
(* up again until they are sold).  A sale that stop cancelled in the       *)
(* middle is excepted here; NoOrphan is about it.                          *)
CloseCompletes ==
  <>[](phase = "up") =>
    \A p \in Pid : Closing(p) ~> mem[p].state \in {"closed", "open_confirmed"} \/ Orphaned(p)

(* The same of every position: "the position is tried again as long as it  *)
(* is held".                                                               *)
NoOrphan ==
  <>[](phase = "up") =>
    \A p \in Pid : Closing(p) ~> mem[p].state \in {"closed", "open_confirmed"}

(* An order is sent once: no position ever makes the account hold more     *)
(* than one lot ("no blind retry, a new attempt needs a new evaluation").  *)
NoBlindRetry == \A t \in Token :
  lots[t] <= Cardinality({p \in issued : TokenOf[p] = t})
=============================================================================
