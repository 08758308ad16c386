------------------------- MODULE EntryDecisionProofs -------------------------
(***************************************************************************)
(* Theorems about EntryDecision: what an order is decided on, for any      *)
(* events, coins, quotes, settings, staleness limits and user.             *)
(***************************************************************************)
EXTENDS EntryDecision, EventSupplyProofs

-----------------------------------------------------------------------------
(* Records.                                                                *)

PriceRecord ==
  [status : PriceStatus, updated : -1..MaxNow,
   up_bid : Nat, up_ask : Nat, down_bid : Nat, down_ask : Nat]

CoinRecord == [status : PriceStatus, updated : -1..MaxNow, usd : UsdPrices \cup {0}]

(* A record that is fresh was updated.                                     *)
Dated(r) == r.status = "fresh" => r.updated # Never

RecordTypes ==
  /\ pipe \in [Event -> PriceRecord]
  /\ coin \in [Asset -> CoinRecord]
  /\ \A e \in Event : Dated(pipe[e])
  /\ \A a \in Asset : Dated(coin[a])

OrderTypes ==
  /\ coin_subs \subseteq Asset
  /\ fills \in [Event -> Nat]
  /\ open_count \in 0..BotMax
  /\ bot_max \in BotMaxChoices \cup {BotMax}
  /\ intent.event \in Event \cup {NoEvent}

(* Only five-minute events are ever registered.                            *)
RegisteredListed == \A e \in Event : registry[e] # "absent" => is_five_minute(e)

EntryInv ==
  /\ SupplyTypes
  /\ SubInv
  /\ RecordTypes
  /\ OrderTypes
  /\ RegisteredListed

LEMMA FreshnessTypes ==
  ASSUME NEW t, NEW limit
  PROVE  /\ \A r \in PriceRecord : /\ check_freshness(r, t, limit) \in PriceRecord
                                   /\ Dated(r) => Dated(check_freshness(r, t, limit))
         /\ \A r \in CoinRecord : /\ check_freshness(r, t, limit) \in CoinRecord
                                  /\ Dated(r) => Dated(check_freshness(r, t, limit))
BY DEF check_freshness, PriceRecord, CoinRecord, Dated, PriceStatus

LEMMA QuoteTypes ==
  ASSUME NEW r \in PriceRecord, NEW side, NEW bid \in Nat, NEW ask \in Nat,
         NEW t \in 0..MaxNow, Dated(r)
  PROVE  /\ update_from_ws(r, side, bid, ask, t) \in PriceRecord
         /\ Dated(update_from_ws(r, side, bid, ask, t))
<1>1. get_or_create(r) \in PriceRecord /\ Dated(get_or_create(r))
  BY DEF get_or_create, PriceRecord, PriceStatus, Dated
<1>2. t # Never /\ t \in -1..MaxNow
  BY SupplyConstants DEF Never
<1>3. QED
  BY <1>1, <1>2 DEF update_from_ws, PriceRecord, PriceStatus, Dated

LEMMA SeedTypes ==
  ASSUME NEW r \in PriceRecord, NEW seed \in Seeds, NEW t \in 0..MaxNow, Dated(r)
  PROVE  /\ update_from_gamma(r, seed, t) \in PriceRecord
         /\ Dated(update_from_gamma(r, seed, t))
<1>1. get_or_create(r) \in PriceRecord /\ Dated(get_or_create(r))
  BY DEF get_or_create, PriceRecord, PriceStatus, Dated
<1>2. t # Never /\ t \in -1..MaxNow
  BY SupplyConstants DEF Never
<1>3. seed.up \in Nat /\ seed.down \in Nat
  BY SupplyConstants
<1>4. QED
  BY <1>1, <1>2, <1>3 DEF update_from_gamma, PriceRecord, PriceStatus, Dated

-----------------------------------------------------------------------------
(* The invariant.                                                          *)

LEMMA EntryInvInit == Init => EntryInv
<1> SUFFICES ASSUME Init PROVE EntryInv
  OBVIOUS
<1>1. SupplyTypes /\ SubInv
  BY SupplyTypesInit, SubInvInit DEF Init
<1>2. NoPrice \in PriceRecord /\ NoCoin \in CoinRecord /\ Dated(NoPrice) /\ Dated(NoCoin)
  BY SupplyConstants DEF NoPrice, NoCoin, PriceRecord, CoinRecord, PriceStatus, Never, Dated
<1>3. RecordTypes
  BY <1>2 DEF Init, SupplyInit, RecordTypes
<1>4. OrderTypes
  BY EntryConstants DEF Init, OrderTypes, NoIntent
<1>5. RegisteredListed
  BY DEF Init, SupplyInit, RegisteredListed
<1>6. QED
  BY <1>1, <1>3, <1>4, <1>5 DEF EntryInv

(* What the supply reads and writes besides the outcome prices.            *)
core_vars == <<now, user_vars, loop_vars, reg_vars, sub_vars, ptb_vars>>

(* Quotes and evaluations touch nothing of the supply but the prices.      *)
LEMMA CoreFrame ==
  ASSUME EntryInv, UNCHANGED core_vars
  PROVE  SupplyTypes' /\ SubInv' /\ RegisteredListed'
<1>1. /\ UNCHANGED <<now, user_vars, loop_vars, reg_vars, sub_vars, ptb_vars>>
      /\ UNCHANGED <<loop, registry, chain, active, routes, ws_tokens, coins>>
  BY DEF core_vars, user_vars, loop_vars, reg_vars, sub_vars, ptb_vars
<1>2. SupplyTypes'
  BY <1>1, TypesFrame DEF EntryInv, SupplyTypes
<1>3. SubInv'
  BY <1>1 DEF EntryInv, SubInv, RoutesMatchSubs, SubscribedCoinTracked,
              ReplacementComplete, CurrentSlotOwns, subscribed
<1>4. RegisteredListed'
  BY <1>1 DEF EntryInv, RegisteredListed
<1>5. QED
  BY <1>2, <1>3, <1>4

(* A step of the supply.                                                   *)
LEMMA SupplyKeepsEntry ==
  ASSUME EntryInv, SupplyNext, intent' = NoIntent, UNCHANGED <<feed_vars, order_vars>>
  PROVE  EntryInv'
<1>1. SupplyTypes' /\ SubInv'
  BY SupplyTypesStep, SubInvStep DEF EntryInv
<1>2. OrderTypes'
  BY DEF EntryInv, OrderTypes, feed_vars, order_vars, NoIntent
<1>3. now \in 0..MaxNow
  BY DEF EntryInv, SupplyTypes
<1>4. CASE scan_found
  <2>1. PICK S \in scan_results :
          /\ sync(S)
          /\ UNCHANGED pipe_vars \/ begin_chain(filter(S))
    BY <1>4 DEF scan_found
  <2>2. /\ S \subseteq Event /\ filter(S) \subseteq Event
        /\ \A e \in S : is_five_minute(e)
    BY ScanListed
  <2>3. RegisteredListed'
    <3> SUFFICES ASSUME NEW e \in Event, e \notin S, registry'[e] # "absent"
                 PROVE  registry[e] # "absent"
      BY <2>2 DEF RegisteredListed, EntryInv
    <3>1. registry'[e] = IF is_missed(e, S) THEN missed_status(registry[e], next_miss(e, S))
                         ELSE registry[e]
      BY <2>1 DEF sync
    <3>2. QED
      BY <3>1 DEF is_missed
  <2>4. RecordTypes'
    <3>1. CASE UNCHANGED pipe_vars
      BY <3>1 DEF EntryInv, RecordTypes, pipe_vars, feed_vars
    <3>2. CASE begin_chain(filter(S))
      <4>1. PICK seed \in [filter(S) -> Seeds] : seed_prices(seed)
        BY <3>2 DEF begin_chain
      <4> DEFINE seeded == {e \in DOMAIN seed : seed[e].kind # "empty"}
      <4>2. pipe' = [e \in Event |->
                       IF e \in seeded THEN update_from_gamma(pipe[e], seed[e], now)
                       ELSE pipe[e]]
        BY <4>1 DEF seed_prices
      <4>3. \A e \in seeded : e \in Event /\ seed[e] \in Seeds
        BY <2>2
      <4> HIDE DEF seeded
      <4>4. \A e \in Event : pipe[e] \in PriceRecord /\ Dated(pipe[e])
        BY DEF EntryInv, RecordTypes
      <4>5. \A e \in Event : pipe'[e] \in PriceRecord /\ Dated(pipe'[e])
        BY <1>3, <4>2, <4>3, <4>4, SeedTypes
      <4>6. QED
        BY <4>2, <4>5 DEF EntryInv, RecordTypes, feed_vars
    <3>3. QED
      BY <2>1, <3>1, <3>2
  <2>5. QED
    BY <1>1, <1>2, <2>3, <2>4 DEF EntryInv
<1>5. CASE ~ scan_found
  <2>1. UNCHANGED <<pipe_vars, reg_vars>>
    BY <1>5 DEF SupplyNext, loop_step, user_step, ptb_step, start_discovery, scan_empty,
       retry, end_chain, wake, stop_discovery, toggle_coin, coin_settings_save, set_paused,
       load_credentials, tick, ptb_begin, ptb_attempt, ptb_success, ptb_failure
  <2>2. QED
    BY <1>1, <1>2, <2>1 DEF EntryInv, RecordTypes, RegisteredListed, pipe_vars, reg_vars,
                            feed_vars
<1>6. QED
  BY <1>4, <1>5

(* The event of the current slot, if there is one.                         *)
LEMMA CurrentSlot ==
  ASSUME NEW a, find_current_slot(a) # NoEvent
  PROVE  LET e == find_current_slot(a) IN
         e \in Event /\ registry[e] # "absent" /\ AssetOf[e] = a /\ is_live(e, now)
<1> DEFINE C == {e \in Event : registry[e] # "absent" /\ AssetOf[e] = a /\ is_live(e, now)}
<1>1. find_current_slot(a) = IF C = {} THEN NoEvent ELSE CHOOSE e \in C : TRUE
  BY DEF find_current_slot
<1>2. find_current_slot(a) \in C
  BY <1>1
<1>3. QED
  BY <1>2

(* An evaluation.                                                          *)
LEMMA EvaluationKeepsEntry ==
  ASSUME EntryInv, NEW a \in Asset, evaluate_single(a)
  PROVE  EntryInv'
<1> DEFINE p == price_event(a)
<1>1. /\ pipe' = [f \in Event |-> IF f = p THEN price_record(a) ELSE pipe[f]]
      /\ coin' = [coin EXCEPT ![a] = coin_record(a)]
      /\ UNCHANGED <<core_vars, coin_subs, bot_max>>
  BY DEF evaluate_single, core_vars
<1>2. SupplyTypes' /\ SubInv' /\ RegisteredListed'
  BY <1>1, CoreFrame
<1>3. RecordTypes'
  <2>1. /\ pipe \in [Event -> PriceRecord] /\ coin \in [Asset -> CoinRecord]
        /\ \A e \in Event : Dated(pipe[e])
        /\ \A b \in Asset : Dated(coin[b])
    BY DEF EntryInv, RecordTypes
  <2>2. coin_record(a) \in CoinRecord /\ Dated(coin_record(a))
    BY <2>1, FreshnessTypes DEF coin_record
  <2>3. p \in Event => price_record(a) \in PriceRecord /\ Dated(price_record(a))
    BY <2>1, FreshnessTypes, SupplyConstants DEF price_record
  <2> HIDE DEF p
  <2>4. QED
    BY <1>1, <2>1, <2>2, <2>3 DEF RecordTypes
<1>4. OrderTypes'
  <2>1. CASE intent' = NoIntent /\ UNCHANGED <<fills, open_count>>
    BY <1>1, <2>1 DEF EntryInv, OrderTypes, NoIntent
  <2>2. CASE /\ dispatchable(a, evaluated_side(context(a)))
             /\ intent'.event = dispatch_target(a)
             /\ execute(dispatch_target(a), settings[a].value["event_max"])
    <3>1. dispatch_target(a) \in Event
      BY <2>2, CurrentSlot DEF dispatchable, dispatch_target
    <3>2. fills' \in [Event -> Nat] /\ open_count' \in 0..BotMax
      BY <2>2, <3>1, EntryConstants DEF execute, EntryInv, OrderTypes
    <3>3. QED
      BY <1>1, <2>2, <3>1, <3>2 DEF EntryInv, OrderTypes
  <2>3. QED
    BY <2>1, <2>2 DEF evaluate_single
<1>5. QED
  BY <1>2, <1>3, <1>4 DEF EntryInv

LEMMA EntryInvStep == EntryInv /\ [Next]_vars => EntryInv'
<1> SUFFICES ASSUME EntryInv, [Next]_vars PROVE EntryInv'
  OBVIOUS
<1>1. ASSUME UNCHANGED core_vars, RecordTypes', OrderTypes' PROVE EntryInv'
  BY <1>1, CoreFrame DEF EntryInv
<1>2. UNCHANGED supply_vars => UNCHANGED core_vars /\ UNCHANGED pipe
  BY DEF supply_vars, core_vars, user_vars, loop_vars, reg_vars, sub_vars, ptb_vars
<1>3. CASE UNCHANGED vars
  BY <1>1, <1>2, <1>3 DEF vars, entry_vars, EntryInv, RecordTypes, OrderTypes
<1>4. CASE SupplyNext /\ intent' = NoIntent /\ UNCHANGED <<feed_vars, order_vars>>
  BY <1>4, SupplyKeepsEntry
<1>5. ASSUME NEW e \in Event, on_ws_message(e) PROVE EntryInv'
  <2>1. PICK q \in Quotes, side \in {"UP", "DOWN"} :
          pipe' = [pipe EXCEPT ![e] = update_from_ws(@, side, q[1], q[2], now)]
    BY <1>5 DEF on_ws_message
  <2>2. /\ pipe \in [Event -> PriceRecord] /\ Dated(pipe[e]) /\ now \in 0..MaxNow
        /\ q[1] \in Nat /\ q[2] \in Nat
    BY EntryConstants DEF EntryInv, RecordTypes, SupplyTypes
  <2> DEFINE r == update_from_ws(pipe[e], side, q[1], q[2], now)
  <2>3. r \in PriceRecord /\ Dated(r)
    BY <2>2, QuoteTypes
  <2>4. pipe' = [pipe EXCEPT ![e] = r]
    BY <2>1, <2>2
  <2> HIDE DEF r
  <2>5. UNCHANGED <<core_vars, feed_vars, order_vars>> /\ intent' = NoIntent
    BY <1>5 DEF on_ws_message, core_vars
  <2>6. RecordTypes'
    BY <2>3, <2>4, <2>5 DEF EntryInv, RecordTypes, feed_vars
  <2>7. OrderTypes'
    BY <2>5 DEF EntryInv, OrderTypes, feed_vars, order_vars, NoIntent
  <2>8. QED
    BY <1>1, <2>5, <2>6, <2>7
<1>6. CASE coin_connect \/ coin_drop
  <2>1. UNCHANGED <<supply_vars, coin, order_vars>> /\ intent' = NoIntent
    BY <1>6 DEF coin_connect, coin_drop
  <2>2. coin_subs' \subseteq Asset
    BY <1>6 DEF coin_connect, coin_drop, EntryInv, SupplyTypes, SubTypes
  <2>3. QED
    BY <1>1, <1>2, <2>1, <2>2 DEF EntryInv, RecordTypes, OrderTypes, order_vars, NoIntent
<1>7. ASSUME NEW a \in Asset, coin_price(a) PROVE EntryInv'
  <2>1. PICK x \in UsdPrices : coin' = [coin EXCEPT ![a] = update_record(x, now)]
    BY <1>7 DEF coin_price
  <2>2. now \in 0..MaxNow
    BY DEF EntryInv, SupplyTypes
  <2>3. now \in -1..MaxNow /\ now # Never
    BY <2>2, SupplyConstants DEF Never
  <2>4. update_record(x, now) \in CoinRecord /\ Dated(update_record(x, now))
    BY <2>3 DEF update_record, CoinRecord, PriceStatus, Dated
  <2>5. UNCHANGED <<supply_vars, coin_subs, order_vars>> /\ intent' = NoIntent
    BY <1>7 DEF coin_price
  <2>6. RecordTypes'
    BY <1>2, <2>1, <2>4, <2>5 DEF EntryInv, RecordTypes
  <2>7. OrderTypes'
    BY <2>5 DEF EntryInv, OrderTypes, order_vars, NoIntent
  <2>8. QED
    BY <1>1, <1>2, <2>5, <2>6, <2>7
<1>8. ASSUME NEW a \in Asset, evaluate_single(a) PROVE EntryInv'
  BY <1>8, EvaluationKeepsEntry
<1>9. CASE position_closed \/ global_settings_update
  <2>1. UNCHANGED <<supply_vars, feed_vars, fills>> /\ intent' = NoIntent
    BY <1>9 DEF position_closed, global_settings_update
  <2>2. open_count' \in 0..BotMax /\ bot_max' \in BotMaxChoices \cup {BotMax}
    BY <1>9, EntryConstants DEF position_closed, global_settings_update, EntryInv, OrderTypes
  <2>3. QED
    BY <1>1, <1>2, <2>1, <2>2 DEF EntryInv, RecordTypes, OrderTypes, feed_vars, NoIntent
<1>10. QED
  BY <1>3, <1>4, <1>5, <1>6, <1>7, <1>8, <1>9 DEF Next

LEMMA EntryInvAlways == Spec => []EntryInv
<1>1. QED
  BY EntryInvInit, EntryInvStep, PTL DEF Spec

(* Types of the entry decision; in particular the executor never lets more *)
(* positions be open than the limit it was constructed with, whatever      *)
(* limit the evaluation loop was given meanwhile.                          *)
THEOREM EntryTypeCorrect == Spec => []EntryTypeOK
<1>1. EntryInv => EntryTypeOK
  BY DEF EntryInv, RecordTypes, OrderTypes, PriceRecord, CoinRecord, EntryTypeOK
<1>2. QED
  BY <1>1, EntryInvAlways, PTL

-----------------------------------------------------------------------------
(* What an order is decided on.                                            *)

(* Every order comes from the evaluation of a coin that is eligible and    *)
(* passes the rules, and goes to the event of the current slot.            *)
Ordered(a) ==
  LET e == find_current_slot(a)
      side == evaluated_side(context(a)) IN
  /\ is_trade_eligible(settings[a])
  /\ evaluate(context(a)) = "entry"
  /\ e # NoEvent /\ pipe[e].status # "none" /\ e \in routes
  /\ intent' = [event |-> e, side |-> side, price |-> entry_price(pipe[e], side),
                evaluated |-> price_event(a), ptb |-> ptb_event(a)]

LEMMA OrdersAreEvaluated == [Next]_vars /\ ordered_now => (\E a \in Asset : Ordered(a)) \/ UNCHANGED vars
BY DEF Next, vars, ordered_now, Ordered, evaluate_single, dispatchable, dispatch_target,
       on_ws_message, coin_connect, coin_drop, coin_price, position_closed,
       global_settings_update

(* The evaluated event is the ordered one.                                 *)
LEMMA OrderedEvent ==
  ASSUME EntryInv, NEW a \in Asset, Ordered(a)
  PROVE  LET e == find_current_slot(a) IN
         /\ e \in Event /\ AssetOf[e] = a /\ is_live(e, now)
         /\ price_event(a) = e
         /\ intent'.event = e /\ intent'.evaluated = e /\ intent'.ptb = ptb_event(a)
         /\ active[a] = e
<1> DEFINE e == find_current_slot(a)
<1>1. e # NoEvent /\ pipe[e].status # "none" /\ e \in routes
  BY DEF Ordered
<1>2. e \in Event /\ AssetOf[e] = a /\ is_live(e, now)
  BY <1>1, CurrentSlot
<1>3. price_event(a) = e
  BY <1>1 DEF price_event
<1>4. active[a] = e
  <2>1. PICK b \in subscribed : e = active[b] /\ AssetOf[active[b]] = b
    BY <1>1 DEF EntryInv, SubInv, RoutesMatchSubs
  <2>2. QED
    BY <1>2, <2>1
<1>5. intent'.event = e /\ intent'.evaluated = price_event(a) /\ intent'.ptb = ptb_event(a)
  BY DEF Ordered
<1>6. QED
  BY <1>2, <1>3, <1>4, <1>5

(* Although an evaluation falls back to other events of the coin, no order *)
(* is decided on the prices of an event other than the one ordered, and    *)
(* that one is live and owned by its coin.                                 *)
THEOREM OrdersOnTheirEvent == Spec => EntryOnItsEvent
<1> DEFINE P == ordered_now => /\ is_live(intent'.event, now)
                               /\ intent'.evaluated = intent'.event
                               /\ active[AssetOf[intent'.event]] = intent'.event
<1>1. EntryInv /\ [Next]_vars => [P]_vars
  <2> SUFFICES ASSUME EntryInv, [Next]_vars, ordered_now, ~ UNCHANGED vars
               PROVE  /\ is_live(intent'.event, now)
                      /\ intent'.evaluated = intent'.event
                      /\ active[AssetOf[intent'.event]] = intent'.event
    OBVIOUS
  <2>1. PICK a \in Asset : Ordered(a)
    BY OrdersAreEvaluated
  <2>2. QED
    BY <2>1, OrderedEvent
<1>2. QED
  BY <1>1, EntryInvAlways, PTL DEF Spec, EntryOnItsEvent

(* The rules an entry passed.  Those of price, time and delta are never    *)
(* disabled for an eligible coin.                                          *)
LEMMA EntryPasses ==
  ASSUME NEW c, evaluate(c) = "entry",
         c.price_min # 0, c.time_min # 0, c.delta_threshold # 0
  PROVE  /\ c.outcome_fresh
         /\ c.price_min <= entry_ref_price(c) /\ entry_ref_price(c) <= c.price_max
         /\ c.time_min <= c.remaining /\ c.remaining <= c.time_max
         /\ c.ptb_acquired /\ c.coin_fresh
         /\ delta(c) >= c.delta_threshold
<1>1. "fail" \notin rule_results(c) /\ "waiting" \notin rule_results(c)
  BY DEF evaluate, merge_decision
<1>2. /\ price_rule(c) \notin {"fail", "waiting"}
      /\ time_rule(c) # "fail"
      /\ delta_rule(c) \notin {"fail", "waiting"}
  BY <1>1 DEF rule_results
<1>3. QED
  BY <1>2 DEF price_rule, time_rule, delta_rule, verdict

(* A record that passes as fresh is no older than the limit.               *)
LEMMA FreshIsRecent ==
  ASSUME NEW r, Dated(r), NEW t, NEW limit,
         check_freshness(r, t, limit).status = "fresh"
  PROVE  check_freshness(r, t, limit) = r /\ ~ (t - r.updated > limit)
<1>1. check_freshness(r, t, limit) = r
  BY DEF check_freshness
<1>2. QED
  BY <1>1 DEF check_freshness, is_stale, Dated

(* The end of the slot is the end of the event that is live in it.         *)
LEMMA EventEndsWithSlot ==
  ASSUME EntryInv, NEW e \in Event, registry[e] # "absent", is_live(e, now)
  PROVE  end_of(e) = slot_end(now)
<1>1. StartOf[e] % SlotLen = 0
  BY SlotAligned DEF EntryInv, RegisteredListed
<1>2. /\ StartOf[e] \in Nat /\ now \in Nat /\ SlotLen \in Nat \ {0}
      /\ StartOf[e] <= now /\ now < StartOf[e] + SlotLen
  BY SupplyConstants DEF EntryInv, SupplyTypes, is_live, end_of
<1>3. \A s, t \in Nat, n \in Nat \ {0} :
        s % n = 0 /\ s <= t /\ t < s + n => s + n = ((t \div n) + 1) * n
  <2> SUFFICES ASSUME NEW s \in Nat, NEW t \in Nat, NEW n \in Nat \ {0},
                      s % n = 0, s <= t, t < s + n
               PROVE  s + n = ((t \div n) + 1) * n
    OBVIOUS
  <2> DEFINE k == s \div n
  <2>1. k \in Nat /\ s = n * k
    BY DivNat, SMT
  <2>2. t \div n = k
    BY <2>1, SMT
  <2>3. (k + 1) * n = n * k + n
    BY <2>1, SMT
  <2>4. QED
    BY <2>1, <2>2, <2>3
<1>4. QED
  BY <1>1, <1>2, <1>3 DEF end_of, slot_end, SlotOf

(* What the rules say of the raw records behind an order.                  *)
LEMMA OrderedFacts ==
  ASSUME EntryInv, NEW a \in Asset, Ordered(a)
  PROVE  LET e == find_current_slot(a)
             v == settings[a].value IN
         /\ v["price_min"] <= intent'.price /\ intent'.price <= v["price_max"]
         /\ v["time_min"] <= slot_end(now) - now /\ slot_end(now) - now <= v["time_max"]
         /\ ~ (now - pipe[e].updated > StaleTicks)
         /\ ~ (now - coin[a].updated > CoinStale)
         /\ distance(coin[a].usd, ptb[ptb_event(a)].value) >= v["delta_threshold"]
         /\ ptb_event(a) # NoEvent /\ is_locked(ptb[ptb_event(a)])
<1> DEFINE e == find_current_slot(a)
           c == context(a)
           v == settings[a].value
           p == price_record(a)
           k == coin_record(a)
           b == ptb_record(a)
<1>1. e \in Event /\ price_event(a) = e /\ e # NoEvent
  BY OrderedEvent DEF Ordered
<1>2. p = check_freshness(pipe[e], now, StaleTicks)
  BY <1>1 DEF price_record
<1>3. k = check_freshness(coin[a], now, CoinStale)
  BY DEF coin_record
<1>4. b = IF ptb_event(a) = NoEvent THEN NoPtb ELSE ptb[ptb_event(a)]
  BY DEF ptb_record
<1>5. /\ v["price_min"] \in Nat /\ v["price_min"] > 0
      /\ v["time_min"] \in Nat /\ v["time_min"] > 0
      /\ v["delta_threshold"] \in Nat /\ v["delta_threshold"] > 0
  <2>1. settings[a] \in CoinSettingsRecord
    BY DEF EntryInv, SupplyTypes, UserTypes
  <2>2. QED
    BY <2>1 DEF Ordered, is_trade_eligible, is_configured, CoinSettingsRecord, Fields
<1> HIDE DEF p, k, b, v, e
<1>6. /\ c.up_ask = p.up_ask /\ c.down_ask = p.down_ask
      /\ c.outcome_fresh = (p.status = "fresh")
      /\ c.coin_usd = k.usd /\ c.coin_fresh = (k.status = "fresh")
      /\ c.ptb_value = (IF is_locked(b) THEN b.value ELSE 0) /\ c.ptb_acquired = is_locked(b)
      /\ c.remaining = slot_end(now) - now
      /\ c.time_min = v["time_min"] /\ c.time_max = v["time_max"]
      /\ c.price_min = v["price_min"] /\ c.price_max = v["price_max"]
      /\ c.delta_threshold = v["delta_threshold"]
  BY DEF context, p, k, b, v
<1> HIDE DEF c
<1>7. /\ c.outcome_fresh
      /\ c.price_min <= entry_ref_price(c) /\ entry_ref_price(c) <= c.price_max
      /\ c.time_min <= c.remaining /\ c.remaining <= c.time_max
      /\ c.ptb_acquired /\ c.coin_fresh
      /\ delta(c) >= c.delta_threshold
  <2>1. evaluate(c) = "entry"
    BY DEF Ordered, c
  <2>2. c.price_min # 0 /\ c.time_min # 0 /\ c.delta_threshold # 0
    BY <1>5, <1>6
  <2>3. QED
    BY <2>1, <2>2, EntryPasses
<1>8. p = pipe[e] /\ ~ (now - pipe[e].updated > StaleTicks)
  <2>1. Dated(pipe[e])
    BY <1>1 DEF EntryInv, RecordTypes
  <2>2. p.status = "fresh"
    BY <1>6, <1>7
  <2>3. QED
    BY <1>2, <2>1, <2>2, FreshIsRecent
<1>9. k = coin[a] /\ ~ (now - coin[a].updated > CoinStale)
  <2>1. Dated(coin[a])
    BY DEF EntryInv, RecordTypes
  <2>2. k.status = "fresh"
    BY <1>6, <1>7
  <2>3. QED
    BY <1>3, <2>1, <2>2, FreshIsRecent
<1>10. intent'.price = entry_ref_price(c)
  <2>1. intent'.price = entry_price(pipe[e], evaluated_side(c))
    BY DEF Ordered, c, e
  <2>2. pipe[e].up_ask \in Nat /\ pipe[e].down_ask \in Nat
    BY <1>1 DEF EntryInv, RecordTypes, PriceRecord
  <2>3. entry_ref_price(c) = IF evaluated_side(c) = "UP" THEN pipe[e].up_ask
                                                       ELSE pipe[e].down_ask
    BY <1>6, <1>8 DEF entry_ref_price
  <2>4. entry_ref_price(c) > 0
    BY <1>5, <1>6, <1>7, <2>2, <2>3
  <2>5. QED
    BY <2>1, <2>3, <2>4 DEF entry_price
<1>11. is_locked(b)
  BY <1>6, <1>7
<1>12. ptb_event(a) # NoEvent /\ b = ptb[ptb_event(a)]
  BY <1>4, <1>11 DEF is_locked, NoPtb
<1>13. distance(coin[a].usd, b.value) >= v["delta_threshold"]
  <2>1. c.ptb_value = b.value /\ c.coin_usd = coin[a].usd
    BY <1>6, <1>9, <1>11
  <2>2. delta(c) # 0
    BY <1>5, <1>6, <1>7
  <2>3. delta(c) = distance(c.coin_usd, c.ptb_value)
    BY <2>2 DEF delta
  <2>4. QED
    BY <1>6, <1>7, <2>1, <2>3
<1>14. QED
  BY <1>6, <1>7, <1>8, <1>9, <1>10, <1>11, <1>12, <1>13 DEF v, e

(* What a user's settings promise of an order, against the raw records,    *)
(* for any settings and staleness limits.                                  *)
THEOREM OrdersAreSound == Spec => EntrySound
<1> DEFINE P == ordered_now =>
                  LET a == AssetOf[intent'.event]
                      v == settings[a].value IN
                  /\ v["price_min"] <= intent'.price /\ intent'.price <= v["price_max"]
                  /\ v["time_min"] <= end_of(intent'.event) - now
                  /\ end_of(intent'.event) - now <= v["time_max"]
                  /\ now - pipe[intent'.event].updated <= StaleTicks
                  /\ now - coin[a].updated <= CoinStale
                  /\ distance(coin[a].usd, ptb[intent'.ptb].value) >= v["delta_threshold"]
<1>1. EntryInv /\ [Next]_vars => [P]_vars
  <2> SUFFICES ASSUME EntryInv, [Next]_vars, ordered_now, ~ UNCHANGED vars
               PROVE  P
    OBVIOUS
  <2>1. PICK a \in Asset : Ordered(a)
    BY OrdersAreEvaluated
  <2> DEFINE e == find_current_slot(a)
             v == settings[a].value
  <2>2. /\ e \in Event /\ AssetOf[e] = a /\ is_live(e, now) /\ registry[e] # "absent"
        /\ intent'.event = e /\ intent'.ptb = ptb_event(a)
    BY <2>1, OrderedEvent, CurrentSlot DEF Ordered
  <2>3. /\ v["price_min"] <= intent'.price /\ intent'.price <= v["price_max"]
        /\ v["time_min"] <= slot_end(now) - now /\ slot_end(now) - now <= v["time_max"]
        /\ ~ (now - pipe[e].updated > StaleTicks)
        /\ ~ (now - coin[a].updated > CoinStale)
        /\ distance(coin[a].usd, ptb[ptb_event(a)].value) >= v["delta_threshold"]
    BY <2>1, OrderedFacts
  <2>4. end_of(e) = slot_end(now)
    BY <2>2, EventEndsWithSlot
  <2>5. /\ now \in Int /\ pipe[e].updated \in Int /\ coin[a].updated \in Int
        /\ StaleTicks \in Int /\ CoinStale \in Int
    BY <2>2, EntryConstants, SupplyConstants
       DEF EntryInv, SupplyTypes, RecordTypes, PriceRecord, CoinRecord
  <2> HIDE DEF e, v
  <2>6. now - pipe[e].updated <= StaleTicks /\ now - coin[a].updated <= CoinStale
    BY <2>3, <2>5
  <2>7. QED
    BY <2>2, <2>3, <2>4, <2>6 DEF v
<1>2. QED
  BY <1>1, EntryInvAlways, PTL DEF Spec, EntrySound

(* A foreign price to beat decides an order only while its own event has   *)
(* no record.                                                              *)
THEOREM ForeignPtbIsUnfetched == Spec => ForeignPtbOnlyUnfetched
<1> DEFINE P == ordered_now /\ intent'.ptb # intent'.event
                  => ptb[intent'.event].status = "none" /\ is_locked(ptb[intent'.ptb])
<1>1. EntryInv /\ [Next]_vars => [P]_vars
  <2> SUFFICES ASSUME EntryInv, [Next]_vars, ordered_now, ~ UNCHANGED vars,
                      intent'.ptb # intent'.event
               PROVE  ptb[intent'.event].status = "none" /\ is_locked(ptb[intent'.ptb])
    OBVIOUS
  <2>1. PICK a \in Asset : Ordered(a)
    BY OrdersAreEvaluated
  <2> DEFINE e == find_current_slot(a)
  <2>2. /\ price_event(a) = e /\ e # NoEvent
        /\ intent'.event = e /\ intent'.ptb = ptb_event(a)
    BY <2>1, OrderedEvent DEF Ordered
  <2>3. is_locked(ptb[ptb_event(a)])
    BY <2>1, OrderedFacts
  <2>4. ptb[e].status = "none"
    BY <2>2 DEF ptb_event
  <2>5. QED
    BY <2>2, <2>3, <2>4
<1>2. QED
  BY <1>1, EntryInvAlways, PTL DEF Spec, ForeignPtbOnlyUnfetched
==============================================================================
