---------------------------- MODULE EntryDecision ----------------------------
(***************************************************************************)
(* The decision to enter, on top of the supply of events: quotes arriving  *)
(* for routed tokens (WSPriceBridge, LivePricePipeline), USD prices of the *)
(* tracked coins (CoinPriceClient), the evaluation of every eligible coin  *)
(* (EvaluationLoop, RuleEngine) and the dispatch of an ENTRY signal.       *)
(*                                                                         *)
(* Evaluating a coin and dispatching its order do not suspend in paper     *)
(* mode, the only mode in which signals are dispatched (nothing calls      *)
(* enable_order_dispatch), so each is one step with its evaluation.  The   *)
(* results kept for the dashboard (_last_results) are left out.            *)
(***************************************************************************)
EXTENDS EventSupply, EntryRules

CONSTANTS
  StaleTicks,   (* age at which outcome prices are stale                  *)
  CoinStale,    (* age at which USD prices are stale                      *)
  Quotes,       (* <<best_bid, best_ask>> a socket message may carry      *)
  UsdPrices,    (* USD prices the feed may report                         *)
  BotMax,       (* config bot_max.max_positions, read at construction     *)
  BotMaxChoices (* values the user may save for it                        *)

ASSUME EntryConstants ==
  /\ StaleTicks \in Nat /\ CoinStale \in Nat
  /\ UsdPrices \subseteq Nat
  /\ BotMax \in Nat /\ BotMaxChoices \subseteq Nat
  /\ Quotes \subseteq Nat \X Nat

VARIABLES
  coin,          (* CoinPriceClient._records; "none" also for WAITING      *)
  coin_subs,     (* coins the open price connection has subscribed         *)
  fills,         (* PositionTracker: fills per event                       *)
  open_count,    (* PositionTracker.open_position_count                    *)
  bot_max,       (* EvaluationLoop._bot_max_positions                      *)
  intent         (* the OrderIntent of this step, and what it was decided  *)
                 (* on; every other step clears it                         *)

feed_vars == <<coin, coin_subs>>
order_vars == <<fills, open_count, bot_max>>
entry_vars == <<coin, coin_subs, fills, open_count, bot_max, intent>>
vars == <<supply_vars, entry_vars>>

-----------------------------------------------------------------------------
(* Which records an evaluation reads.                                      *)

first(order, P(_)) ==
  LET I == {i \in DOMAIN order : P(order[i])} IN
  IF I = {} THEN NoEvent ELSE order[CHOOSE i \in I : \A j \in I : i <= j]

last(order, P(_)) ==
  LET I == {i \in DOMAIN order : P(order[i])} IN
  IF I = {} THEN NoEvent ELSE order[CHOOSE i \in I : \A j \in I : i >= j]

find_current_slot(a) ==
  LET C == {e \in Event : registry[e] # "absent" /\ AssetOf[e] = a /\ is_live(e, now)} IN
  IF C = {} THEN NoEvent ELSE CHOOSE e \in C : TRUE

(* The outcome prices: of the event of the slot if they exist, otherwise   *)
(* of the coin's oldest record.                                            *)
price_event(a) ==
  LET e == find_current_slot(a) IN
  IF e # NoEvent /\ pipe[e].status # "none" THEN e
  ELSE first(pipe_order, LAMBDA f : AssetOf[f] = a)

(* PTBFetcher.get_record_by_asset: the coin's oldest locked record,        *)
(* otherwise its newest.                                                   *)
ptb_by_asset(a) ==
  LET l == first(ptb_order, LAMBDA f : AssetOf[f] = a /\ is_locked(ptb[f])) IN
  IF l # NoEvent THEN l ELSE last(ptb_order, LAMBDA f : AssetOf[f] = a)

(* Mutant: the lookup by coin comes first.                                 *)
ptb_event_by_asset(a) == ptb_by_asset(a)

ptb_event(a) ==
  LET e == price_event(a) IN
  IF e # NoEvent /\ ptb[e].status # "none" THEN e ELSE ptb_by_asset(a)

price_record(a) ==
  IF price_event(a) = NoEvent THEN NoPrice
  ELSE check_freshness(pipe[price_event(a)], now, StaleTicks)

coin_record(a) == check_freshness(coin[a], now, CoinStale)

ptb_record(a) == IF ptb_event(a) = NoEvent THEN NoPtb ELSE ptb[ptb_event(a)]

context(a) ==
  LET p == price_record(a)
      v == settings[a].value IN
  [up_bid |-> p.up_bid, up_ask |-> p.up_ask, down_bid |-> p.down_bid, down_ask |-> p.down_ask,
   outcome_fresh |-> p.status = "fresh",
   coin_usd |-> coin_record(a).usd, coin_fresh |-> coin_record(a).status = "fresh",
   ptb_value |-> IF is_locked(ptb_record(a)) THEN ptb_record(a).value ELSE 0,
   ptb_acquired |-> is_locked(ptb_record(a)),
   remaining |-> slot_end(now) - now,
   side_mode |-> settings[a].side_mode,
   time_min |-> v["time_min"], time_max |-> v["time_max"],
   price_min |-> v["price_min"], price_max |-> v["price_max"],
   delta_threshold |-> v["delta_threshold"], spread_max |-> v["spread_max"],
   event_max |-> v["event_max"], bot_max |-> bot_max,
   event_fill_count |-> IF price_event(a) = NoEvent THEN 0 ELSE fills[price_event(a)],
   open_position_count |-> open_count]

-----------------------------------------------------------------------------
(* Dispatch.                                                               *)

NoIntent == [event |-> NoEvent, side |-> "UP", price |-> 0, evaluated |-> NoEvent,
             ptb |-> NoEvent]

(* The price of the order is read from the record of the current event:    *)
(* the ask, or the bid when there is no ask.                               *)
entry_price(r, side) ==
  IF side = "UP" THEN (IF r.up_ask > 0 THEN r.up_ask ELSE r.up_bid)
  ELSE (IF r.down_ask > 0 THEN r.down_ask ELSE r.down_bid)

(* Mutant: the event that was evaluated is ordered, current or not.        *)
dispatch_target_evaluated(a) == price_event(a)

dispatch_target(a) == find_current_slot(a)

(* _dispatch_entry: the event of the slot must have prices and routed      *)
(* tokens.                                                                 *)
dispatchable(a, side) ==
  LET e == dispatch_target(a) IN
  /\ PaperMode
  /\ e # NoEvent
  /\ pipe[e].status # "none"
  /\ e \in routes
  /\ entry_price(pipe[e], side) > 0

(* Mutant: the executor leaves the limits to the rules.                    *)
execute_unchecked(e, event_max) ==
  \/ UNCHANGED <<fills, open_count>>
  \/ /\ fills' = [fills EXCEPT ![e] = @ + 1]
     /\ open_count' = open_count + 1

(* OrderExecutor.execute: refused for any reason, or filled at once.  The  *)
(* executor keeps the bot_max it was constructed with.                     *)
execute(e, event_max) ==
  \/ UNCHANGED <<fills, open_count>>
  \/ /\ fills[e] < event_max /\ open_count < BotMax
     /\ fills' = [fills EXCEPT ![e] = @ + 1]
     /\ open_count' = open_count + 1

evaluate_single(a) ==
  LET c == context(a)
      e == dispatch_target(a)
      p == price_event(a)
      side == evaluated_side(c) IN
  /\ is_trade_eligible(settings[a])
  /\ pipe' = [f \in Event |-> IF f = p THEN price_record(a) ELSE pipe[f]]
  /\ coin' = [coin EXCEPT ![a] = coin_record(a)]
  /\ \/ /\ evaluate(c) = "entry" /\ dispatchable(a, side)
        /\ intent' = [event |-> e, side |-> side, price |-> entry_price(pipe[e], side),
                      evaluated |-> p, ptb |-> ptb_event(a)]
        /\ execute(e, settings[a].value["event_max"])
     \/ /\ ~(evaluate(c) = "entry" /\ dispatchable(a, side))
        /\ intent' = NoIntent
        /\ UNCHANGED <<fills, open_count>>
  /\ UNCHANGED <<now, loop_vars, user_vars, reg_vars, sub_vars, pipe_order, ptb_vars, coin_subs,
                 bot_max>>

-----------------------------------------------------------------------------
(* Feeds and the rest of the program.                                      *)

(* A message for a token without a route is skipped.                       *)
on_ws_message(e) ==
  /\ e \in routes
  /\ \E q \in Quotes, side \in {"UP", "DOWN"} :
        pipe' = [pipe EXCEPT ![e] = update_from_ws(@, side, q[1], q[2], now)]
  /\ pipe_order' = IF pipe[e].status = "none" THEN Append(pipe_order, e) ELSE pipe_order
  /\ UNCHANGED <<now, loop_vars, user_vars, reg_vars, sub_vars, ptb_vars, feed_vars, order_vars>>
  /\ intent' = NoIntent

(* The coins of a connection are those tracked when it was opened.         *)
coin_connect ==
  /\ coin_subs = {} /\ coins # {}
  /\ coin_subs' = coins
  /\ intent' = NoIntent
  /\ UNCHANGED <<supply_vars, coin, order_vars>>

coin_drop ==
  /\ coin_subs # {}
  /\ coin_subs' = {}
  /\ intent' = NoIntent
  /\ UNCHANGED <<supply_vars, coin, order_vars>>

coin_price(a) ==
  /\ a \in coin_subs
  /\ \E p \in UsdPrices : coin' = [coin EXCEPT ![a] = update_record(p, now)]
  /\ intent' = NoIntent
  /\ UNCHANGED <<supply_vars, coin_subs, order_vars>>

(* The exit cycle closes a position.                                       *)
position_closed ==
  /\ open_count > 0
  /\ open_count' = open_count - 1
  /\ UNCHANGED <<supply_vars, feed_vars, fills, bot_max>>
  /\ intent' = NoIntent

(* global_settings_update reaches the evaluation loop, not the executor.   *)
global_settings_update ==
  /\ \E n \in BotMaxChoices : n # bot_max /\ bot_max' = n
  /\ UNCHANGED <<supply_vars, feed_vars, fills, open_count>>
  /\ intent' = NoIntent

Init ==
  /\ SupplyInit
  /\ coin = [a \in Asset |-> NoCoin]
  /\ coin_subs = {}
  /\ fills = [e \in Event |-> 0]
  /\ open_count = 0
  /\ bot_max = BotMax
  /\ intent = NoIntent

Next ==
  \/ SupplyNext /\ intent' = NoIntent /\ UNCHANGED <<feed_vars, order_vars>>
  \/ \E e \in Event : on_ws_message(e)
  \/ coin_connect \/ coin_drop
  \/ \E a \in Asset : coin_price(a) \/ evaluate_single(a)
  \/ position_closed
  \/ global_settings_update

Spec == Init /\ [][Next]_vars

-----------------------------------------------------------------------------
(* Properties.                                                             *)

(* Types of the variables of this module.                                  *)
EntryTypeOK ==
  /\ \A a \in Asset : coin[a].status \in PriceStatus /\ coin[a].usd \in UsdPrices \cup {0}
  /\ coin_subs \subseteq Asset
  /\ \A e \in Event : pipe[e].status \in PriceStatus /\ pipe[e].updated \in -1..MaxNow
  /\ fills \in [Event -> Nat]
  /\ open_count \in 0..BotMax
  /\ bot_max \in BotMaxChoices \cup {BotMax}
  /\ intent.event \in Event \cup {NoEvent}

ordered_now == intent' # NoIntent

(* Although an evaluation falls back to the prices of another event of the *)
(* coin, an order always goes to the event of the current slot, the one    *)
(* its coin owns or is about to, and was decided on that event's prices    *)
(* (the bug report docs/gpt-event-selection-bug.md is about this).         *)
EntryOnItsEvent ==
  [][ordered_now => /\ is_live(intent'.event, now)
                    /\ intent'.evaluated = intent'.event
                    /\ active[AssetOf[intent'.event]] = intent'.event]_vars

(* What a user's settings promise, checked against the raw state and not   *)
(* the rules: an order is sent at a price and a time inside the ranges,    *)
(* on quotes and a USD price no older than their limits, and with the USD  *)
(* price as far as asked from the price to beat that was used.             *)
EntrySound ==
  [][ordered_now =>
       LET a == AssetOf[intent'.event]
           v == settings[a].value IN
       /\ v["price_min"] <= intent'.price /\ intent'.price <= v["price_max"]
       /\ v["time_min"] <= end_of(intent'.event) - now
       /\ end_of(intent'.event) - now <= v["time_max"]
       /\ now - pipe[intent'.event].updated <= StaleTicks
       /\ now - coin[a].updated <= CoinStale
       /\ distance(coin[a].usd, ptb[intent'.ptb].value) >= v["delta_threshold"]]_vars

(* The price to beat of another event decides an order only while no fetch *)
(* for the event itself has begun: once it has a record of its own, locked *)
(* or not, a stale one is out of the question.                             *)
ForeignPtbOnlyUnfetched ==
  [][ordered_now /\ intent'.ptb # intent'.event
       => ptb[intent'.event].status = "none" /\ is_locked(ptb[intent'.ptb])]_vars
==============================================================================
