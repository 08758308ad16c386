----------------------------- MODULE EventSupply -----------------------------
(***************************************************************************)
(* How five-minute events reach the trader: the discovery loop scans once  *)
(* per slot (DiscoveryLoop, DiscoveryEngine), the registry is reconciled   *)
(* with the scan (SafeSync), eligible events (EligibilityGate, settings,   *)
(* credentials, pause) become subscriptions (SubscriptionManager,          *)
(* WSPriceBridge) and a fetch of the price to beat is started for the      *)
(* event of the current slot (PTBFetcher).                                 *)
(*                                                                         *)
(* One asyncio event loop: a step runs from one suspension to the next.    *)
(* The loop suspends in the HTTP scan ("scan"), in the retry wait          *)
(* ("retry"), in the socket send in the middle of                          *)
(* Orchestrator._handle_discovered_events ("chain") and in the sleep to    *)
(* the end of the slot ("sleep").  A fetch task suspends in its sleep and  *)
(* in the HTTP request.  Time is a clock of ticks, SlotLen of them a slot  *)
(* of 300 seconds; the tick at which a slot ends is the first of the next. *)
(*                                                                         *)
(* Left out because the program never calls them: expire_events,           *)
(* transition_event, EventCleanup, clear_event and has_open_position.      *)
(***************************************************************************)
EXTENDS CoinSettings, PriceRecords, Sequences, FiniteSets

CONSTANTS
  Event,           (* condition ids of what is listed under the 5M tag    *)
  NoEvent,         (* "no event"                                          *)
  Asset,           (* coins                                               *)
  AssetOf,         (* the coin its slug or title names                    *)
  Listing,         (* what else its listing says: see DiscoveredEvent     *)
  StartOf,         (* the tick in its slug, the start of its slot         *)
  SlotLen,         (* ticks per slot                                      *)
  Lookahead,       (* lookahead_seconds of the discovery filter           *)
  MaxNow,          (* bound: the last tick                                *)
  MaxStarts,       (* bound: starts of the discovery loop                 *)
  DelistThreshold, (* SafeSync._delist_threshold                          *)
  PaperMode,       (* config trading.paper_mode                           *)
  OpenPrice,       (* the price to beat the event page shows              *)
  Seeds,           (* outcomePrices an event may be listed with           *)
  Updates,         (* partial settings the user may save                  *)
  InitSettings,    (* settings the store starts with                      *)
  UserSets         (* what the user may do: the combinations considered   *)

ASSUME SupplyConstants ==
  /\ NoEvent \notin Event
  /\ IsFiniteSet(Event)
  /\ AssetOf \in [Event -> Asset]
  /\ StartOf \in [Event -> Nat]
  /\ \A e \in Event : /\ Listing[e].tags \in Seq(STRING)
                       /\ Listing[e].up_or_down \in BOOLEAN
                       /\ Listing[e].well_formed \in BOOLEAN
  /\ SlotLen \in Nat \ {0}
  /\ Lookahead \in Nat
  /\ MaxNow \in Nat
  /\ MaxStarts \in Nat
  /\ DelistThreshold \in Nat \ {0}
  /\ PaperMode \in BOOLEAN
  /\ OpenPrice \in [Event -> Nat]
  /\ Seeds \subseteq [kind : {"empty", "ok", "bad"}, up : Nat, down : Nat]
  /\ \A u \in Updates : /\ u.side_mode \in SideMode \cup {"keep"}
                        /\ DOMAIN u.value \subseteq Fields
                        /\ \A f \in DOMAIN u.value : u.value[f] \in Nat
  /\ InitSettings \in [Asset -> CoinSettingsRecord]
  /\ UserSets \subseteq SUBSET {"settings", "pause", "restart", "credentials"}

(* The store is filled by coin_settings_save only, in this process or in   *)
(* an earlier one.                                                         *)
ASSUME SavedSettings ==
  \A a \in Asset : /\ ordered(InitSettings[a].value, "price_min", "price_max")
                  /\ ordered(InitSettings[a].value, "time_min", "time_max")

VARIABLES
  user,        (* what the user does in this behaviour                     *)
  now,         (* the clock                                                *)
  settings,    (* SettingsStore._settings                                  *)
  credentials, (* CredentialStore has trading credentials                  *)
  paused,      (* Orchestrator.paused                                      *)
  loop,        (* the discovery task: pc, slot it works on, end of sleep   *)
  starts,      (* starts so far                                            *)
  registry,    (* EventRegistry: status per event, "absent" if unknown     *)
  miss,        (* SafeSync._miss_counts                                    *)
  recent,      (* history: the last DelistThreshold results synced         *)
  chain,       (* the handler suspended in the socket send                 *)
  active,      (* SubscriptionManager._active_events                       *)
  routes,      (* events whose tokens the bridge routes                    *)
  ws_tokens,   (* events whose tokens the socket client is to subscribe    *)
  coins,       (* CoinPriceClient._coins                                   *)
  pipe,        (* LivePricePipeline._records                               *)
  pipe_order,  (* their insertion order                                    *)
  ptb,         (* PTBFetcher._records                                      *)
  ptb_order,   (* their insertion order                                    *)
  tasks        (* fetch tasks per event: how many are new, asleep, waiting *)

loop_vars == <<loop, starts>>
reg_vars == <<registry, miss, recent>>
user_vars == <<user, settings, credentials, paused>>
sub_vars == <<chain, active, routes, ws_tokens, coins>>
pipe_vars == <<pipe, pipe_order>>
ptb_vars == <<ptb, ptb_order, tasks>>

supply_vars == <<user, now, settings, credentials, paused, loop, starts, registry, miss, recent,
                 chain, active, routes, ws_tokens, coins, pipe, pipe_order, ptb,
                 ptb_order, tasks>>

-----------------------------------------------------------------------------
(* Slots and the discovery filter.                                         *)

SlotOf(t) == t \div SlotLen

(* Mutant: the start of the slot.                                          *)
slot_end_floor(t) == SlotOf(t) * SlotLen

(* The instant _slot_remaining sleeps to.                                  *)
slot_end(t) == (SlotOf(t) + 1) * SlotLen

end_of(e) == StartOf[e] + SlotLen

is_live(e, t) == StartOf[e] <= t /\ t < end_of(e)

(* The filter keeps an event that ends at this very tick, the one a loop   *)
(* woken by the end of its slot scans at.                                  *)
is_current_or_upcoming(e, t) == StartOf[e] <= t + Lookahead /\ end_of(e) >= t

extract_category(tags) ==
  IF \E i \in 1..Len(tags) : tags[i] \in {"crypto", "crypto-prices"} THEN "crypto" ELSE "unknown"

(* The first tag that names a duration.                                    *)
extract_duration(tags) ==
  LET named == SelectSeq(tags, LAMBDA t : t \in {"5m", "15m", "1h", "4h"}) IN
  IF named = <<>> THEN "unknown" ELSE Head(named)

(* An event without a market that has a condition id, or with an end date  *)
(* that is none, is a parse failure.                                       *)
from_api_event(e) == Listing[e].well_formed

(* What _matches_criteria asks of the listing itself.                      *)
is_five_minute(e) ==
  /\ extract_category(Listing[e].tags) = "crypto"
  /\ extract_duration(Listing[e].tags) = "5m"
  /\ Listing[e].up_or_down

matches_criteria(e) == is_five_minute(e) /\ is_current_or_upcoming(e, now)

(* The exchange lists one five-minute event per coin and slot, in a slug   *)
(* made of the coin and the start of the slot, a multiple of its length.   *)
ASSUME SlotAligned == \A e \in Event : is_five_minute(e) => StartOf[e] % SlotLen = 0

ASSUME OneEventPerSlot ==
  \A e, f \in Event :
     /\ is_five_minute(e) /\ is_five_minute(f)
     /\ AssetOf[e] = AssetOf[f]
     /\ StartOf[e] < end_of(f) /\ StartOf[f] < end_of(e)
     => e = f

(* What a scan may return: of any part of the listing, for pages are read  *)
(* up to the first short or empty one and at most five, the events that    *)
(* parse and match.  A page that fails, fails the scan.                    *)
scan_results == SUBSET {e \in Event : from_api_event(e) /\ matches_criteria(e)}

-----------------------------------------------------------------------------
(* Registry.                                                               *)

EventStatus == {"discovered", "validating", "active", "inactive", "expired", "suspended",
                "closed"}

EventTransitions ==
  [s \in EventStatus |->
     CASE s = "discovered" -> {"validating", "inactive", "closed"}
       [] s = "validating" -> {"active", "inactive", "closed"}
       [] s = "active" -> {"inactive", "expired", "suspended", "closed"}
       [] s = "inactive" -> {"active", "expired", "closed"}
       [] s = "expired" -> {"closed"}
       [] s = "suspended" -> {"active", "closed"}
       [] s = "closed" -> {}]

can_transition_to(s, target) == target \in EventTransitions[s]

(* Phase 1 of sync: a seen event is registered, or brought back.           *)
seen_status(s) ==
  IF s = "absent" THEN "discovered"
  ELSE IF s = "inactive" /\ can_transition_to(s, "active") THEN "active" ELSE s

(* Phase 2: the events that count as missed, and what the last miss does.  *)
is_missed(e, S) == e \notin S /\ registry[e] \notin {"absent", "closed", "expired"}

missed_status(s, n) ==
  IF n >= DelistThreshold /\ can_transition_to(s, "inactive") THEN "inactive" ELSE s

(* Mutant: a seen event keeps the misses it had.                           *)
next_miss_kept(e, S) ==
  IF is_missed(e, S) /\ miss[e] < DelistThreshold THEN miss[e] + 1 ELSE miss[e]

(* Misses are counted up to the threshold; the code only compares with it. *)
next_miss(e, S) ==
  IF e \in S THEN 0
  ELSE IF is_missed(e, S) /\ miss[e] < DelistThreshold THEN miss[e] + 1 ELSE miss[e]

sync(S) ==
  /\ miss' = [e \in Event |-> next_miss(e, S)]
  /\ registry' = [e \in Event |->
                    IF e \in S THEN seen_status(registry[e])
                    ELSE IF is_missed(e, S) THEN missed_status(registry[e], next_miss(e, S))
                    ELSE registry[e]]
  /\ recent' = IF Len(recent) < DelistThreshold THEN Append(recent, S)
               ELSE Append(Tail(recent), S)

-----------------------------------------------------------------------------
(* Eligibility.                                                            *)

(* EligibilityGate.filter: without trading credentials nothing is eligible *)
(* unless in paper mode.                                                   *)
filter(S) ==
  {e \in S : (PaperMode \/ credentials) /\ is_trade_eligible(settings[AssetOf[e]])}

-----------------------------------------------------------------------------
(* Subscriptions.                                                          *)

(* Mutant: the last listed wins.                                           *)
is_event_map_any(em, E) == \A a \in DOMAIN em : AssetOf[em[a]] = a

(* The event each eligible coin is to own.  The event of the current slot  *)
(* wins; without one, the first listed.                                    *)
is_event_map(em, E) ==
  \A a \in DOMAIN em : /\ AssetOf[em[a]] = a
                       /\ (\E c \in E : AssetOf[c] = a /\ is_live(c, now)) => is_live(em[a], now)

subscribed == {a \in Asset : active[a] # NoEvent}

(* compute_diff: coins to drop; apply_diff: coins whose event is new or    *)
(* has changed.                                                            *)
to_unsubscribe(em) == subscribed \ DOMAIN em

to_register(em) == {a \in DOMAIN em : active[a] # em[a]}

(* Mutant: a rotation forgets to unregister the old tokens.                *)
kept_routes_rotated(em) == {e \in routes : AssetOf[e] \notin to_unsubscribe(em)}

(* _unsubscribe_asset removes every token of the coin from the bridge,     *)
(* whichever event it belongs to.                                          *)
kept_routes(em) ==
  {e \in routes : AssetOf[e] \notin to_unsubscribe(em) \cup to_register(em)}

(* Mutant: it leaves that to the end of the handler.                       *)
tracked_coins_late(em) == coins

(* _subscribe_asset adds the coin to those the price client tracks.        *)
tracked_coins(em) == coins \cup to_register(em)

apply_diff(em) ==
  /\ active' = [a \in Asset |-> IF a \in DOMAIN em THEN em[a] ELSE NoEvent]
  /\ routes' = kept_routes(em) \cup {em[a] : a \in to_register(em)}
  /\ coins' = tracked_coins(em)
  /\ ws_tokens' = IF to_unsubscribe(em) \cup to_register(em) # {} THEN routes' ELSE ws_tokens

-----------------------------------------------------------------------------
(* Orchestrator._handle_discovered_events, up to the socket send and after *)
(* it.                                                                     *)

NoChain == [on |-> FALSE, cids |-> {}, assets |-> {}]

(* The orders in which a set of new records may be inserted.               *)
arrangements(S) ==
  {q \in [1..Cardinality(S) -> S] : \A i, j \in DOMAIN q : q[i] = q[j] => i = j}

(* Every eligible event is seeded, upcoming ones included.                 *)
seed_prices(seed) ==
  LET seeded == {e \in DOMAIN seed : seed[e].kind # "empty"} IN
  /\ pipe' = [e \in Event |-> IF e \in seeded THEN update_from_gamma(pipe[e], seed[e], now)
                              ELSE pipe[e]]
  /\ \E q \in arrangements({e \in seeded : pipe[e].status = "none"}) :
        pipe_order' = pipe_order \o q

begin_chain(E) ==
  \E em \in [{AssetOf[e] : e \in E} -> E], seed \in [E -> Seeds] :
     /\ is_event_map(em, E)
     /\ seed_prices(seed)
     /\ apply_diff(em)
     /\ chain' = [on |-> TRUE, cids |-> {e \in E : is_live(e, now)}, assets |-> DOMAIN em]

(* After the send: the tracked coins are replaced and a fetch task is      *)
(* created for each event of the slot that has no locked price to beat.    *)
TaskState == {"new", "sleep", "fetch"}

spawned(E) ==
  [e \in Event |-> IF e \in E /\ ~is_locked(ptb[e])
                   THEN [tasks[e] EXCEPT !["new"] = @ + 1] ELSE tasks[e]]

-----------------------------------------------------------------------------
(* The discovery loop.                                                     *)

Off == [pc |-> "off", slot |-> 0, wake |-> 0]

scanning == [pc |-> "scan", slot |-> SlotOf(now), wake |-> 0]

(* Whether or not the scan found something, the loop sleeps to the end of  *)
(* the slot it is in now.                                                  *)
sleeping == [pc |-> "sleep", slot |-> loop.slot, wake |-> slot_end(now)]

start_discovery ==
  /\ loop.pc = "off"
  /\ starts < MaxStarts
  /\ loop' = scanning
  /\ starts' = starts + 1
  /\ UNCHANGED <<now, user_vars, reg_vars, sub_vars, pipe_vars, ptb_vars>>

(* stop cancels the task where it is suspended; a handler suspended in the *)
(* send never runs its second half.                                        *)
stop_discovery ==
  /\ "restart" \in user
  /\ loop.pc # "off"
  /\ loop' = Off
  /\ chain' = NoChain
  /\ UNCHANGED <<now, starts, user_vars, reg_vars, active, routes, ws_tokens, coins, pipe_vars,
                 ptb_vars>>

scan_found ==
  \E S \in scan_results \ {{}} :
     /\ loop.pc = "scan"
     /\ sync(S)
     /\ \/ /\ paused \/ filter(S) = {}
           /\ loop' = sleeping
           /\ UNCHANGED <<sub_vars, pipe_vars>>
        \/ /\ ~paused /\ filter(S) # {}
           /\ begin_chain(filter(S))
           /\ loop' = [loop EXCEPT !.pc = "chain"]
     /\ UNCHANGED <<now, starts, user_vars, ptb_vars>>

(* The scan failed, or nothing listed matches.                             *)
scan_empty ==
  /\ loop.pc = "scan"
  /\ loop' = [loop EXCEPT !.pc = "retry"]
  /\ UNCHANGED <<now, starts, user_vars, reg_vars, sub_vars, pipe_vars, ptb_vars>>

(* The wait is over, or a check during it finds that the slot has changed. *)
retry ==
  /\ loop.pc = "retry"
  /\ loop' = IF SlotOf(now) # loop.slot THEN sleeping ELSE scanning
  /\ UNCHANGED <<now, starts, user_vars, reg_vars, sub_vars, pipe_vars, ptb_vars>>

end_chain ==
  /\ loop.pc = "chain"
  /\ coins' = chain.assets
  /\ tasks' = spawned(chain.cids)
  /\ chain' = NoChain
  /\ loop' = sleeping
  /\ UNCHANGED <<now, starts, user_vars, reg_vars, active, routes, ws_tokens, pipe_vars, ptb,
                 ptb_order>>

wake ==
  /\ loop.pc = "sleep"
  /\ now >= loop.wake
  /\ loop' = scanning
  /\ UNCHANGED <<now, starts, user_vars, reg_vars, sub_vars, pipe_vars, ptb_vars>>

-----------------------------------------------------------------------------
(* Fetch tasks of the price to beat (PTBFetcher).  Tasks of one event are  *)
(* alike, so they are counted.                                             *)

move(e, from, to) ==
  [tasks EXCEPT ![e] = [k \in TaskState |-> @[k] - (IF k = from THEN 1 ELSE 0)
                                                 + (IF k = to THEN 1 ELSE 0)]]

(* The end of the retry loop: a record without a value is failed.          *)
expire(r) == IF is_locked(r) THEN r ELSE record_failure(r)

(* Mutant: the end of the event does not end the loop.                     *)
expired_never(e) == FALSE

expired(e) == now >= end_of(e)

ptb_begin(e) ==
  LET r == get_or_create_record(ptb[e]) IN
  /\ tasks[e]["new"] > 0
  /\ ptb' = [ptb EXCEPT ![e] = IF expired(e) THEN expire(r) ELSE r]
  /\ ptb_order' = IF ptb[e].status = "none" THEN Append(ptb_order, e) ELSE ptb_order
  /\ tasks' = move(e, "new", IF is_locked(r) \/ expired(e) THEN "end" ELSE "sleep")
  /\ UNCHANGED <<now, loop_vars, user_vars, reg_vars, sub_vars, pipe_vars>>

(* Mutant: a lock taken during the sleep is not noticed.                   *)
gives_up_expired(e) == expired(e)

(* After the sleep the end of the event and the lock are looked at, before *)
(* the request is sent and never after it.                                 *)
gives_up(e) == expired(e) \/ is_locked(ptb[e])

ptb_attempt(e) ==
  /\ tasks[e]["sleep"] > 0
  /\ \/ /\ gives_up(e)
        /\ ptb' = [ptb EXCEPT ![e] = expire(@)]
        /\ tasks' = move(e, "sleep", "end")
     \/ /\ ~gives_up(e)
        /\ ptb' = [ptb EXCEPT ![e] = record_retry(@)]
        /\ tasks' = move(e, "sleep", "fetch")
  /\ UNCHANGED <<now, loop_vars, user_vars, reg_vars, sub_vars, pipe_vars, ptb_order>>

(* Mutant: a closed price of the page's history is taken.                  *)
parse_ptb_any(e) == OpenPrice[e] + 1

(* The page of an event has one openPrice without a closePrice: its own.   *)
parse_ptb(e) == OpenPrice[e]

(* On a record another task has locked meanwhile, lock raises and the task *)
(* dies.                                                                   *)
ptb_success(e) ==
  /\ tasks[e]["fetch"] > 0
  /\ ptb' = [ptb EXCEPT ![e] = IF is_locked(@) THEN @ ELSE lock(@, parse_ptb(e))]
  /\ tasks' = move(e, "fetch", "end")
  /\ UNCHANGED <<now, loop_vars, user_vars, reg_vars, sub_vars, pipe_vars, ptb_order>>

(* HTTP error, timeout, or no live openPrice in the page.                  *)
ptb_failure(e) ==
  /\ tasks[e]["fetch"] > 0
  /\ ptb' = [ptb EXCEPT ![e] = record_failure(@)]
  /\ tasks' = move(e, "fetch", IF expired(e) THEN "end" ELSE "sleep")
  /\ UNCHANGED <<now, loop_vars, user_vars, reg_vars, sub_vars, pipe_vars, ptb_order>>

-----------------------------------------------------------------------------
(* The user: coin settings, pause and resume, credentials.                 *)

toggle_coin(a) ==
  /\ "settings" \in user
  /\ has_settings(settings[a])
  /\ settings' = [settings EXCEPT ![a].coin_enabled = ~@]
  /\ UNCHANGED <<user, now, credentials, paused, loop_vars, reg_vars, sub_vars, pipe_vars, ptb_vars>>

coin_settings_save(a) ==
  /\ "settings" \in user
  /\ \E u \in Updates :
        /\ accepted(existing(settings[a]), u)
        /\ settings' = [settings EXCEPT ![a] = merged(existing(@), u)]
  /\ UNCHANGED <<user, now, credentials, paused, loop_vars, reg_vars, sub_vars, pipe_vars, ptb_vars>>

set_paused ==
  /\ "pause" \in user
  /\ paused' = ~paused
  /\ UNCHANGED <<user, now, settings, credentials, loop_vars, reg_vars, sub_vars, pipe_vars, ptb_vars>>

load_credentials ==
  /\ "credentials" \in user
  /\ ~credentials
  /\ credentials' = TRUE
  /\ UNCHANGED <<user, now, settings, paused, loop_vars, reg_vars, sub_vars, pipe_vars, ptb_vars>>

tick ==
  /\ now < MaxNow
  /\ now' = now + 1
  /\ UNCHANGED <<user_vars, loop_vars, reg_vars, sub_vars, pipe_vars, ptb_vars>>

-----------------------------------------------------------------------------
SupplyInit ==
  /\ user \in UserSets
  /\ now = 0
  /\ settings = InitSettings
  /\ credentials = ("credentials" \notin user)
  /\ paused = FALSE
  /\ loop = Off
  /\ starts = 0
  /\ registry = [e \in Event |-> "absent"]
  /\ miss = [e \in Event |-> 0]
  /\ recent = <<>>
  /\ chain = NoChain
  /\ active = [a \in Asset |-> NoEvent]
  /\ routes = {}
  /\ ws_tokens = {}
  /\ coins = {}
  /\ pipe = [e \in Event |-> NoPrice]
  /\ pipe_order = <<>>
  /\ ptb = [e \in Event |-> NoPtb]
  /\ ptb_order = <<>>
  /\ tasks = [e \in Event |-> [k \in TaskState |-> 0]]

loop_step == start_discovery \/ scan_found \/ scan_empty \/ retry \/ end_chain \/ wake

ptb_step(e) == ptb_begin(e) \/ ptb_attempt(e) \/ ptb_success(e) \/ ptb_failure(e)

user_step ==
  \/ stop_discovery
  \/ \E a \in Asset : toggle_coin(a) \/ coin_settings_save(a)
  \/ set_paused
  \/ load_credentials

SupplyNext == loop_step \/ user_step \/ tick \/ \E e \in Event : ptb_step(e)

SupplySpec == SupplyInit /\ [][SupplyNext]_supply_vars

(* The clock goes on; the event loop runs ready tasks and a request ends   *)
(* (SSRPTBAdapter has a timeout of 15 s), so some fetch task always steps. *)
FairSupplySpec ==
  /\ SupplySpec
  /\ WF_supply_vars(tick)
  /\ WF_supply_vars(\E e \in Event : ptb_step(e))

-----------------------------------------------------------------------------
(* Properties.                                                             *)

(* Every variable holds a value of its type; in particular miss counts     *)
(* stay within the threshold and the price to beat of an event is its own  *)
(* opening price or absent.                                                *)
TypeOK ==
  /\ user \in UserSets
  /\ now \in 0..MaxNow
  /\ settings \in [Asset -> CoinSettingsRecord]
  /\ credentials \in BOOLEAN
  /\ paused \in BOOLEAN
  /\ loop.pc \in {"off", "scan", "retry", "chain", "sleep"}
  /\ loop.slot \in Nat /\ loop.wake \in Nat
  /\ starts \in 0..MaxStarts
  /\ registry \in [Event -> EventStatus \cup {"absent"}]
  /\ miss \in [Event -> 0..DelistThreshold]
  /\ chain.on \in BOOLEAN /\ chain.cids \subseteq Event /\ chain.assets \subseteq Asset
  /\ active \in [Asset -> Event \cup {NoEvent}]
  /\ routes \subseteq Event
  /\ ws_tokens \subseteq Event
  /\ coins \subseteq Asset
  /\ \A e \in Event : ptb[e].status \in PTBStatus /\ ptb[e].value \in {0, OpenPrice[e]}
  /\ \A e \in Event, k \in TaskState : tasks[e][k] \in Nat

(* apply_diff keeps three tables in step across subscribe, unsubscribe and *)
(* rotation: the bridge routes exactly the tokens of the events the coins  *)
(* own, each of its own coin, and the socket client is told the same set.  *)
(* A route left behind would feed a dead event's quotes.                   *)
RoutesMatchSubs ==
  /\ routes = {active[a] : a \in subscribed}
  /\ ws_tokens = routes
  /\ \A a \in subscribed : AssetOf[active[a]] = a

(* A subscribed coin is always among those the USD price client tracks,    *)
(* although the handler replaces that list only after the socket send, and *)
(* a stop may cut it off there: otherwise the delta rule waits for ever.   *)
SubscribedCoinTracked == subscribed \subseteq coins

(* While the handler is suspended in the send, every event it is about to  *)
(* fetch a price to beat for is the one its coin owns: the event of the    *)
(* current slot wins over upcoming ones, in whatever order they are listed.*)
CurrentSlotOwns == \A e \in chain.cids : active[AssetOf[e]] = e

(* SafeSync delists an event exactly when the last DelistThreshold synced  *)
(* scans all missed it: one sighting resets the count, and a delisted      *)
(* event that is seen again is back at once.                               *)
DelistExact ==
  \A e \in Event :
     (registry[e] = "inactive")
       <=> /\ registry[e] # "absent"
           /\ Len(recent) = DelistThreshold
           /\ \A i \in 1..Len(recent) : e \notin recent[i]

(* No sequence of partial saves leaves a coin with both ends of a range    *)
(* set and in the wrong order (coin_settings_save answers 422): such a     *)
(* coin would be reported as incomplete and never trade.                   *)
RangesOrdered ==
  \A a \in Asset : /\ ordered(settings[a].value, "price_min", "price_max")
                  /\ ordered(settings[a].value, "time_min", "time_max")

(* Once events are found the loop does not scan the same slot again: it    *)
(* wakes in a later slot, however late the scan and the handler ended.     *)
OncePerSlot ==
  [][loop.pc = "sleep" /\ loop'.pc = "scan" => loop'.slot > loop.slot]_supply_vars

(* A locked price to beat loses its lock only to a request that another    *)
(* task of the event had in flight when it was locked, and keeps its value *)
(* even then ("Same-event overwrite YOK").                                 *)
LockLostOnlyByRace ==
  [][\A e \in Event : is_locked(ptb[e]) =>
        /\ ptb'[e].value = ptb[e].value
        /\ is_locked(ptb'[e]) \/ tasks[e]["fetch"] > 0]_supply_vars

fetching == \E e \in Event, k \in TaskState : tasks[e][k] > 0

(* Every fetch task ends, because its event does; tasks are created by     *)
(* every scan and nobody cancels them.                                     *)
FetchEnds == fetching ~> ~fetching

(* What the loop's documentation says: when a retry meets the end of its   *)
(* slot the new slot is scanned, so a loop asleep to the end of a slot has *)
(* scanned that slot.                                                      *)
SlotScanned == loop.pc = "sleep" /\ now < loop.wake => loop.slot = SlotOf(now)
=============================================================================
