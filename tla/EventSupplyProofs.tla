-------------------------- MODULE EventSupplyProofs --------------------------
(***************************************************************************)
(* Theorems about EventSupply, for any events, coins, slot length, delist  *)
(* threshold and settings, and whatever the user does.                     *)
(***************************************************************************)
EXTENDS EventSupply, TLAPS

-----------------------------------------------------------------------------
(* Types.                                                                  *)

LoopState == [pc : {"off", "scan", "retry", "chain", "sleep"}, slot : Nat, wake : Nat]

ChainState == [on : BOOLEAN, cids : SUBSET Event, assets : SUBSET Asset]

UserTypes ==
  /\ user \in UserSets
  /\ settings \in [Asset -> CoinSettingsRecord]
  /\ credentials \in BOOLEAN
  /\ paused \in BOOLEAN

LoopTypes == loop \in LoopState /\ starts \in 0..MaxStarts

RegistryTypes ==
  /\ registry \in [Event -> EventStatus \cup {"absent"}]
  /\ miss \in [Event -> 0..DelistThreshold]
  /\ recent \in Seq(SUBSET Event)

SubTypes ==
  /\ chain \in ChainState
  /\ active \in [Asset -> Event \cup {NoEvent}]
  /\ routes \subseteq Event
  /\ ws_tokens \subseteq Event
  /\ coins \subseteq Asset

PtbRecord(e) == [status : PTBStatus, value : {0, OpenPrice[e]}]

PtbTypes ==
  /\ ptb = [e \in Event |-> ptb[e]]
  /\ \A e \in Event : ptb[e] \in PtbRecord(e)
  /\ tasks \in [Event -> [TaskState -> Nat]]

(* The types of EventSupply, by the groups of variables its actions leave  *)
(* unchanged.                                                              *)
SupplyTypes ==
  /\ now \in 0..MaxNow
  /\ UserTypes
  /\ LoopTypes
  /\ RegistryTypes
  /\ SubTypes
  /\ PtbTypes

LEMMA SupplyTypesImplyTypeOK == SupplyTypes => TypeOK
BY DEF SupplyTypes, UserTypes, LoopTypes, RegistryTypes, SubTypes, PtbTypes, PtbRecord,
       LoopState, ChainState, TypeOK

(* Division of natural numbers.                                            *)
LEMMA DivNat == \A t \in Nat, n \in Nat \ {0} : t \div n \in Nat
BY SMT

LEMMA SlotLenPositive == SlotLen \in Nat \ {0}
BY SupplyConstants

(* A slot number is a natural number.                                      *)
LEMMA SlotNat == \A t \in Nat : SlotOf(t) \in Nat /\ slot_end(t) \in Nat
<1> SUFFICES ASSUME NEW t \in Nat PROVE SlotOf(t) \in Nat /\ slot_end(t) \in Nat
  OBVIOUS
<1>1. SlotOf(t) \in Nat
  BY SlotLenPositive, DivNat DEF SlotOf
<1>2. QED
  BY <1>1, SlotLenPositive DEF slot_end

(* The events a scan returns, and the eligible ones among them.            *)
LEMMA ScanListed ==
  ASSUME NEW S \in scan_results
  PROVE  /\ S \subseteq Event
         /\ filter(S) \subseteq S
         /\ \A e \in S : is_five_minute(e)
BY DEF scan_results, filter, matches_criteria

(* The loop's states.                                                      *)
LEMMA LoopStates ==
  ASSUME SupplyTypes
  PROVE  /\ scanning \in LoopState
         /\ sleeping \in LoopState
         /\ Off \in LoopState
         /\ \A pc \in {"retry", "chain"} : [loop EXCEPT !.pc = pc] \in LoopState
<1>1. now \in Nat
  BY SupplyConstants DEF SupplyTypes
<1>2. loop \in LoopState
  BY DEF SupplyTypes, LoopTypes
<1>3. QED
  BY <1>1, <1>2, SlotNat DEF LoopState, scanning, sleeping, Off

(* merged keeps the type of the settings.                                  *)
LEMMA MergedType ==
  ASSUME NEW s \in CoinSettingsRecord, has_settings(s), NEW u \in Updates
  PROVE  merged(s, u) \in CoinSettingsRecord
BY SupplyConstants DEF merged, CoinSettingsRecord, has_settings

LEMMA ExistingType ==
  ASSUME NEW s \in CoinSettingsRecord
  PROVE  existing(s) \in CoinSettingsRecord /\ has_settings(existing(s))
BY DEF existing, CoinSettingsRecord, has_settings, DefaultSettings, SideMode, Fields

(* A task that moves leaves a natural number of tasks in every state.      *)
LEMMA MoveType ==
  ASSUME tasks \in [Event -> [TaskState -> Nat]], NEW e \in Event,
         NEW from \in TaskState, NEW to \in TaskState \cup {"end"}, tasks[e][from] > 0
  PROVE  move(e, from, to) \in [Event -> [TaskState -> Nat]]
<1> DEFINE row == [k \in TaskState |-> tasks[e][k] - (IF k = from THEN 1 ELSE 0)
                                                   + (IF k = to THEN 1 ELSE 0)]
<1>1. row \in [TaskState -> Nat]
  <2> SUFFICES ASSUME NEW k \in TaskState PROVE row[k] \in Nat
    OBVIOUS
  <2>1. tasks[e][k] \in Nat /\ tasks[e][from] \in Nat
    OBVIOUS
  <2>2. CASE k = from
    BY <2>1, <2>2
  <2>3. CASE k # from
    BY <2>1, <2>3
  <2>4. QED
    BY <2>2, <2>3
<1>2. move(e, from, to) = [tasks EXCEPT ![e] = row]
  BY DEF move
<1> HIDE DEF row
<1>3. QED
  BY <1>1, <1>2

(* The operations of a price to beat keep its type, and its value is the   *)
(* opening price or none.                                                  *)
LEMMA PtbOps ==
  ASSUME NEW e \in Event, NEW r \in PtbRecord(e)
  PROVE  /\ get_or_create_record(r) \in PtbRecord(e)
         /\ expire(r) \in PtbRecord(e)
         /\ record_retry(r) \in PtbRecord(e)
         /\ record_failure(r) \in PtbRecord(e)
         /\ lock(r, parse_ptb(e)) \in PtbRecord(e)
BY DEF get_or_create_record, expire, record_retry, record_failure, lock, parse_ptb,
       PTBStatus, PtbRecord

LEMMA SupplyTypesInit == SupplyInit => SupplyTypes
<1> SUFFICES ASSUME SupplyInit PROVE SupplyTypes
  OBVIOUS
<1>1. now \in 0..MaxNow
  BY SupplyConstants DEF SupplyInit
<1>2. UserTypes
  BY SupplyConstants DEF SupplyInit, UserTypes
<1>3. LoopTypes
  BY SupplyConstants DEF SupplyInit, LoopTypes, LoopState, Off
<1>4. RegistryTypes
  BY SupplyConstants DEF SupplyInit, RegistryTypes
<1>5. SubTypes
  BY DEF SupplyInit, SubTypes, ChainState, NoChain
<1>6. PtbTypes
  BY DEF SupplyInit, PtbTypes, PtbRecord, NoPtb, PTBStatus
<1>7. QED
  BY <1>1, <1>2, <1>3, <1>4, <1>5, <1>6 DEF SupplyTypes

(* A step that leaves a group of variables alone keeps its types.          *)
LEMMA TypesFrame ==
  ASSUME SupplyTypes
  PROVE  /\ UNCHANGED user_vars => UserTypes'
         /\ UNCHANGED loop_vars => LoopTypes'
         /\ UNCHANGED reg_vars => RegistryTypes'
         /\ UNCHANGED sub_vars => SubTypes'
         /\ UNCHANGED ptb_vars => PtbTypes'
BY DEF SupplyTypes, UserTypes, LoopTypes, RegistryTypes, SubTypes, PtbTypes,
       user_vars, loop_vars, reg_vars, sub_vars, ptb_vars

(* The registry after a sync.                                              *)
LEMMA SyncTypes ==
  ASSUME SupplyTypes, NEW S \in SUBSET Event, sync(S)
  PROVE  RegistryTypes'
<1>1. \A e \in Event : next_miss(e, S) \in 0..DelistThreshold
  BY SupplyConstants DEF next_miss, SupplyTypes, RegistryTypes
<1>2. \A s \in EventStatus \cup {"absent"} :
        seen_status(s) \in EventStatus \cup {"absent"}
  BY DEF seen_status, EventStatus
<1>3. \A s \in EventStatus \cup {"absent"}, n \in 0..DelistThreshold :
        missed_status(s, n) \in EventStatus \cup {"absent"}
  BY DEF missed_status, EventStatus
<1>4. registry' \in [Event -> EventStatus \cup {"absent"}]
  BY <1>1, <1>2, <1>3 DEF sync, SupplyTypes, RegistryTypes
<1>5. miss' \in [Event -> 0..DelistThreshold]
  BY <1>1 DEF sync
<1>6. recent' \in Seq(SUBSET Event)
  <2>1. recent \in Seq(SUBSET Event)
    BY DEF SupplyTypes, RegistryTypes
  <2>2. CASE Len(recent) < DelistThreshold
    BY <2>1, <2>2 DEF sync
  <2>3. CASE ~ (Len(recent) < DelistThreshold)
    <3>1. recent # <<>>
      BY <2>1, <2>3, SupplyConstants
    <3>2. Tail(recent) \in Seq(SUBSET Event)
      BY <2>1, <3>1
    <3>3. QED
      BY <2>3, <3>2 DEF sync
  <2>4. QED
    BY <2>2, <2>3
<1>7. QED
  BY <1>4, <1>5, <1>6 DEF RegistryTypes

(* The subscriptions after the first half of the handler.                  *)
LEMMA ChainTypes ==
  ASSUME SupplyTypes, NEW E \in SUBSET Event, begin_chain(E)
  PROVE  SubTypes'
<1>1. PICK em \in [{AssetOf[e] : e \in E} -> E] :
         /\ apply_diff(em)
         /\ chain' = [on |-> TRUE, cids |-> {e \in E : is_live(e, now)},
                      assets |-> DOMAIN em]
  BY DEF begin_chain
<1>2. DOMAIN em \subseteq Asset /\ \A a \in DOMAIN em : em[a] \in Event
  BY SupplyConstants
<1>3. chain' \in ChainState
  BY <1>1, <1>2 DEF ChainState
<1>4. active' \in [Asset -> Event \cup {NoEvent}]
  BY <1>1, <1>2 DEF apply_diff
<1>5. routes' \subseteq Event
  BY <1>1, <1>2 DEF apply_diff, kept_routes, to_register, SupplyTypes, SubTypes
<1>6. ws_tokens' \subseteq Event
  BY <1>1, <1>5 DEF apply_diff, SupplyTypes, SubTypes
<1>7. coins' \subseteq Asset
  BY <1>1, <1>2 DEF apply_diff, tracked_coins, to_register, SupplyTypes, SubTypes
<1>8. QED
  BY <1>3, <1>4, <1>5, <1>6, <1>7 DEF SubTypes

(* The fetch tasks.                                                        *)
LEMMA FetchTypes ==
  ASSUME SupplyTypes, NEW e \in Event, ptb_step(e)
  PROVE  SupplyTypes'
<1>1. UNCHANGED <<now, loop_vars, user_vars, reg_vars, sub_vars>>
  BY DEF ptb_step, ptb_begin, ptb_attempt, ptb_success, ptb_failure
<1>2. ASSUME NEW r \in PtbRecord(e), ptb' = [ptb EXCEPT ![e] = r]
      PROVE  ptb' = [f \in Event |-> ptb'[f]] /\ \A f \in Event : ptb'[f] \in PtbRecord(f)
  BY <1>2 DEF SupplyTypes, PtbTypes
<1>3. ptb[e] \in PtbRecord(e)
  BY DEF SupplyTypes, PtbTypes
<1>4. tasks \in [Event -> [TaskState -> Nat]]
  BY DEF SupplyTypes, PtbTypes
<1>5. "new" \in TaskState /\ "sleep" \in TaskState /\ "fetch" \in TaskState
  BY DEF TaskState
<1>6. PtbTypes'
  <2>1. CASE ptb_begin(e)
    <3>1. get_or_create_record(ptb[e]) \in PtbRecord(e)
      BY <1>3, PtbOps
    <3>2. (IF expired(e) THEN expire(get_or_create_record(ptb[e]))
                         ELSE get_or_create_record(ptb[e])) \in PtbRecord(e)
      BY <3>1, PtbOps
    <3>3. tasks' \in [Event -> [TaskState -> Nat]]
      BY <1>4, <1>5, <2>1, MoveType DEF ptb_begin
    <3>4. QED
      BY <1>2, <2>1, <3>2, <3>3 DEF ptb_begin, PtbTypes
  <2>2. CASE ptb_attempt(e)
    <3>1. tasks' \in [Event -> [TaskState -> Nat]]
      BY <1>4, <1>5, <2>2, MoveType DEF ptb_attempt
    <3>2. \E r \in PtbRecord(e) : ptb' = [ptb EXCEPT ![e] = r]
      BY <1>3, <2>2, PtbOps DEF ptb_attempt
    <3>3. QED
      BY <1>2, <3>1, <3>2 DEF PtbTypes
  <2>3. CASE ptb_success(e)
    <3>1. tasks' \in [Event -> [TaskState -> Nat]]
      BY <1>4, <1>5, <2>3, MoveType DEF ptb_success
    <3>2. \E r \in PtbRecord(e) : ptb' = [ptb EXCEPT ![e] = r]
      BY <1>3, <2>3, PtbOps DEF ptb_success
    <3>3. QED
      BY <1>2, <3>1, <3>2 DEF PtbTypes
  <2>4. CASE ptb_failure(e)
    <3>1. tasks' \in [Event -> [TaskState -> Nat]]
      BY <1>4, <1>5, <2>4, MoveType DEF ptb_failure
    <3>2. \E r \in PtbRecord(e) : ptb' = [ptb EXCEPT ![e] = r]
      BY <1>3, <2>4, PtbOps DEF ptb_failure
    <3>3. QED
      BY <1>2, <3>1, <3>2 DEF PtbTypes
  <2>5. QED
    BY <2>1, <2>2, <2>3, <2>4 DEF ptb_step
<1>7. QED
  BY <1>1, <1>6, TypesFrame DEF SupplyTypes

LEMMA SupplyTypesStep == SupplyTypes /\ [SupplyNext]_supply_vars => SupplyTypes'
<1> SUFFICES ASSUME SupplyTypes, [SupplyNext]_supply_vars PROVE SupplyTypes'
  OBVIOUS
<1>1. CASE UNCHANGED supply_vars
  BY <1>1, TypesFrame DEF supply_vars, user_vars, loop_vars, reg_vars, sub_vars,
                          ptb_vars, SupplyTypes
<1>2. ASSUME UNCHANGED <<now, user_vars, reg_vars, sub_vars, ptb_vars>>,
             loop' \in LoopState, starts' \in 0..MaxStarts
      PROVE  SupplyTypes'
  BY <1>2, TypesFrame DEF SupplyTypes, LoopTypes
<1>3. starts \in 0..MaxStarts /\ loop \in LoopState
  BY DEF SupplyTypes, LoopTypes
<1>4. CASE start_discovery
  <2>1. starts' \in 0..MaxStarts
    BY <1>3, <1>4, SupplyConstants DEF start_discovery
  <2>2. QED
    BY <1>2, <1>4, <2>1, LoopStates DEF start_discovery
<1>5. CASE scan_empty \/ retry \/ wake
  BY <1>2, <1>3, <1>5, LoopStates DEF scan_empty, retry, wake
<1>6. CASE scan_found
  <2>1. PICK S \in scan_results :
          /\ sync(S)
          /\ \/ loop' = sleeping /\ UNCHANGED sub_vars
             \/ begin_chain(filter(S)) /\ loop' = [loop EXCEPT !.pc = "chain"]
          /\ UNCHANGED <<now, starts, user_vars, ptb_vars>>
    BY <1>6 DEF scan_found
  <2>2. S \in SUBSET Event /\ filter(S) \in SUBSET Event
    BY ScanListed
  <2>3. RegistryTypes'
    BY <2>1, <2>2, SyncTypes
  <2>4. SubTypes'
    BY <2>1, <2>2, ChainTypes, TypesFrame
  <2>5. LoopTypes'
    BY <1>3, <2>1, LoopStates DEF LoopTypes
  <2>6. QED
    BY <2>1, <2>3, <2>4, <2>5, TypesFrame DEF SupplyTypes
<1>7. CASE end_chain
  <2>1. chain' = NoChain /\ coins' = chain.assets /\ loop' = sleeping
        /\ tasks' = spawned(chain.cids)
        /\ UNCHANGED <<now, starts, user_vars, reg_vars, active, routes, ws_tokens, ptb>>
    BY <1>7 DEF end_chain
  <2>2. SubTypes'
    BY <2>1 DEF SubTypes, SupplyTypes, ChainState, NoChain
  <2>3. LoopTypes'
    BY <1>3, <2>1, LoopStates DEF LoopTypes
  <2>4. spawned(chain.cids) \in [Event -> [TaskState -> Nat]]
    BY DEF spawned, SupplyTypes, PtbTypes, TaskState
  <2>5. PtbTypes'
    BY <2>1, <2>4 DEF PtbTypes, SupplyTypes
  <2>6. QED
    BY <2>1, <2>2, <2>3, <2>5, TypesFrame DEF SupplyTypes
<1>8. CASE stop_discovery
  <2>1. chain' = NoChain /\ loop' = Off
        /\ UNCHANGED <<now, starts, user_vars, reg_vars, active, routes, ws_tokens, coins,
                       ptb_vars>>
    BY <1>8 DEF stop_discovery
  <2>2. SubTypes'
    BY <2>1 DEF SubTypes, SupplyTypes, ChainState, NoChain
  <2>3. LoopTypes'
    BY <1>3, <2>1, LoopStates DEF LoopTypes
  <2>4. QED
    BY <2>1, <2>2, <2>3, TypesFrame DEF SupplyTypes
<1>9. ASSUME UNCHANGED <<now, loop_vars, reg_vars, sub_vars, ptb_vars>>, UserTypes'
      PROVE  SupplyTypes'
  BY <1>9, TypesFrame DEF SupplyTypes
<1>10. ASSUME NEW a \in Asset, toggle_coin(a) PROVE SupplyTypes'
  <2>1. settings[a] \in CoinSettingsRecord
    BY DEF SupplyTypes, UserTypes
  <2>2. [settings[a] EXCEPT !.coin_enabled = ~@] \in CoinSettingsRecord
    BY <2>1 DEF CoinSettingsRecord
  <2>3. settings' = [settings EXCEPT ![a] = [settings[a] EXCEPT !.coin_enabled = ~@]]
    BY <1>10 DEF toggle_coin, SupplyTypes, UserTypes
  <2>4. UserTypes'
    BY <1>10, <2>2, <2>3 DEF toggle_coin, UserTypes, SupplyTypes
  <2>5. QED
    BY <1>9, <1>10, <2>4 DEF toggle_coin
<1>11. ASSUME NEW a \in Asset, coin_settings_save(a) PROVE SupplyTypes'
  <2>1. PICK u \in Updates : settings' = [settings EXCEPT ![a] = merged(existing(@), u)]
    BY <1>11 DEF coin_settings_save
  <2>2. settings[a] \in CoinSettingsRecord
    BY DEF SupplyTypes, UserTypes
  <2>3. merged(existing(settings[a]), u) \in CoinSettingsRecord
    BY <2>2, ExistingType, MergedType
  <2>4. UserTypes'
    BY <1>11, <2>1, <2>3 DEF coin_settings_save, UserTypes, SupplyTypes
  <2>5. QED
    BY <1>9, <1>11, <2>4 DEF coin_settings_save
<1>12. CASE set_paused \/ load_credentials
  <2>1. UserTypes'
    BY <1>12 DEF set_paused, load_credentials, UserTypes, SupplyTypes
  <2>2. QED
    BY <1>9, <1>12, <2>1 DEF set_paused, load_credentials
<1>13. CASE tick
  <2>1. now' \in 0..MaxNow
    BY <1>13, SupplyConstants DEF tick, SupplyTypes
  <2>2. QED
    BY <1>13, <2>1, TypesFrame DEF tick, SupplyTypes
<1>14. ASSUME NEW e \in Event, ptb_step(e) PROVE SupplyTypes'
  BY <1>14, FetchTypes
<1>15. QED
  BY <1>1, <1>4, <1>5, <1>6, <1>7, <1>8, <1>10, <1>11, <1>12, <1>13, <1>14
     DEF SupplyNext, loop_step, user_step

(* Types in every behaviour: miss counts stay within the threshold, task   *)
(* counts never become negative, and whatever is locked as the price to    *)
(* beat of an event is its own opening price.                              *)
THEOREM SupplyTypeCorrect == SupplySpec => []TypeOK
<1>1. QED
  BY SupplyTypesInit, SupplyTypesStep, SupplyTypesImplyTypeOK, PTL DEF SupplySpec

-----------------------------------------------------------------------------
(* Subscriptions.                                                          *)

(* When the handler is about to replace the tracked coins, the new list    *)
(* has every subscribed coin.                                              *)
ReplacementComplete == loop.pc = "chain" => subscribed \subseteq chain.assets

SubInv ==
  /\ RoutesMatchSubs
  /\ SubscribedCoinTracked
  /\ ReplacementComplete
  /\ CurrentSlotOwns

(* Applying a diff: rotation, subscription and unsubscription leave the    *)
(* tables in step, whatever events the coins owned before.                 *)
LEMMA DiffKeepsTables ==
  ASSUME SupplyTypes, RoutesMatchSubs, SubscribedCoinTracked,
         NEW E \in SUBSET Event, NEW em \in [{AssetOf[e] : e \in E} -> E],
         \A a \in DOMAIN em : AssetOf[em[a]] = a,
         apply_diff(em)
  PROVE  /\ RoutesMatchSubs'
         /\ SubscribedCoinTracked'
         /\ subscribed' = DOMAIN em
<1> DEFINE D == DOMAIN em
<1>1. D \subseteq Asset /\ \A a \in D : em[a] \in Event /\ em[a] # NoEvent
  BY SupplyConstants
<1>2. /\ active \in [Asset -> Event \cup {NoEvent}]
      /\ NoEvent \notin Event
  BY SupplyConstants DEF SupplyTypes, SubTypes
<1>3. /\ active' = [a \in Asset |-> IF a \in D THEN em[a] ELSE NoEvent]
      /\ routes' = kept_routes(em) \cup {em[a] : a \in to_register(em)}
      /\ coins' = coins \cup to_register(em)
      /\ ws_tokens' = IF to_unsubscribe(em) \cup to_register(em) # {} THEN routes'
                                                                      ELSE ws_tokens
  BY DEF apply_diff, tracked_coins
<1>4. subscribed' = D
  BY <1>1, <1>3 DEF subscribed
<1>5. \A a \in D : active'[a] = em[a]
  BY <1>1, <1>3
<1>6. kept_routes(em) = {active[a] : a \in {b \in D : active[b] = em[b]}}
  <2>1. routes = {active[a] : a \in subscribed} /\ \A a \in subscribed : AssetOf[active[a]] = a
    BY DEF RoutesMatchSubs
  <2>2. \A a \in subscribed : a \notin to_unsubscribe(em) \cup to_register(em)
                                <=> a \in D /\ active[a] = em[a]
    BY DEF to_unsubscribe, to_register
  <2>3. \A a \in D : active[a] = em[a] => a \in subscribed
    BY <1>1 DEF subscribed
  <2>4. QED
    BY <2>1, <2>2, <2>3 DEF kept_routes
<1>7. routes' = {active'[a] : a \in D}
  <2>1. kept_routes(em) = {active'[a] : a \in {b \in D : active[b] = em[b]}}
    BY <1>5, <1>6
  <2>2. {em[a] : a \in to_register(em)} = {active'[a] : a \in {b \in D : active[b] # em[b]}}
    BY <1>5 DEF to_register
  <2>3. QED
    BY <1>3, <2>1, <2>2
<1>8. ws_tokens' = routes'
  <2>1. CASE to_unsubscribe(em) \cup to_register(em) = {}
    <3>1. routes' = routes
      BY <1>3, <2>1 DEF kept_routes
    <3>2. QED
      BY <1>3, <2>1, <3>1 DEF RoutesMatchSubs
  <2>2. QED
    BY <1>3, <2>1
<1>9. D \subseteq coins'
  <2> SUFFICES ASSUME NEW a \in D PROVE a \in coins'
    OBVIOUS
  <2>1. CASE active[a] = em[a]
    BY <1>1, <1>3, <2>1 DEF SubscribedCoinTracked, subscribed
  <2>2. CASE active[a] # em[a]
    BY <1>3, <2>2 DEF to_register
  <2>3. QED
    BY <2>1, <2>2
<1>10. QED
  BY <1>4, <1>5, <1>7, <1>8, <1>9 DEF RoutesMatchSubs, SubscribedCoinTracked

(* The first half of the handler: the event of the current slot, unique    *)
(* for its coin, is the one its coin owns.                                 *)
LEMMA ChainKeepsSubs ==
  ASSUME SupplyTypes, SubInv, NEW E \in SUBSET Event, \A e \in E : is_five_minute(e),
         begin_chain(E)
  PROVE  SubInv'
<1>1. PICK em \in [{AssetOf[e] : e \in E} -> E] :
         /\ is_event_map(em, E)
         /\ apply_diff(em)
         /\ chain' = [on |-> TRUE, cids |-> {e \in E : is_live(e, now)},
                      assets |-> DOMAIN em]
  BY DEF begin_chain
<1>2. \A a \in DOMAIN em : AssetOf[em[a]] = a
  BY <1>1 DEF is_event_map
<1>3. RoutesMatchSubs' /\ SubscribedCoinTracked' /\ subscribed' = DOMAIN em
  BY <1>1, <1>2, DiffKeepsTables DEF SubInv
<1>4. ReplacementComplete'
  BY <1>1, <1>3 DEF ReplacementComplete
<1>5. ASSUME NEW e \in chain'.cids
      PROVE  active'[AssetOf[e]] = e
  <2> DEFINE a == AssetOf[e]
  <2>1. e \in E /\ is_live(e, now) /\ a \in DOMAIN em /\ a \in Asset
    BY <1>1, <1>5, SupplyConstants
  <2>2. em[a] \in E /\ AssetOf[em[a]] = a /\ is_live(em[a], now)
    BY <1>1, <2>1 DEF is_event_map
  <2>3. StartOf[e] < end_of(em[a]) /\ StartOf[em[a]] < end_of(e)
    <3>1. /\ StartOf[e] \in Nat /\ StartOf[em[a]] \in Nat /\ now \in Nat
          /\ SlotLen \in Nat
      BY <2>1, <2>2, SupplyConstants DEF SupplyTypes
    <3>2. QED
      BY <2>1, <2>2, <3>1 DEF is_live, end_of
  <2>4. em[a] = e
    BY <2>1, <2>2, <2>3, OneEventPerSlot
  <2>5. active'[a] = em[a]
    BY <1>1, <2>1 DEF apply_diff
  <2>6. QED
    BY <2>4, <2>5
<1>6. CurrentSlotOwns'
  BY <1>5 DEF CurrentSlotOwns
<1>7. QED
  BY <1>3, <1>4, <1>6 DEF SubInv

LEMMA SubInvInit == SupplyInit => SubInv
<1> SUFFICES ASSUME SupplyInit PROVE SubInv
  OBVIOUS
<1>1. subscribed = {}
  BY DEF SupplyInit, subscribed
<1>2. routes = {} /\ ws_tokens = {} /\ chain.cids = {}
  BY DEF SupplyInit, NoChain
<1>3. QED
  BY <1>1, <1>2 DEF SubInv, RoutesMatchSubs, SubscribedCoinTracked, ReplacementComplete,
                    CurrentSlotOwns

(* Only the two halves of the handler and stop touch these tables.         *)
LEMMA SubInvStep ==
  SupplyTypes /\ SubInv /\ [SupplyNext]_supply_vars => SubInv'
<1> SUFFICES ASSUME SupplyTypes, SubInv, [SupplyNext]_supply_vars PROVE SubInv'
  OBVIOUS
<1>1. ASSUME UNCHANGED sub_vars, loop'.pc = "chain" => loop.pc = "chain"
      PROVE  SubInv'
  BY <1>1 DEF SubInv, RoutesMatchSubs, SubscribedCoinTracked, ReplacementComplete,
              CurrentSlotOwns, subscribed, sub_vars
<1>2. ASSUME UNCHANGED <<active, routes, ws_tokens>>, chain' = NoChain,
             subscribed \subseteq coins', loop'.pc # "chain"
      PROVE  SubInv'
  BY <1>2 DEF SubInv, RoutesMatchSubs, SubscribedCoinTracked, ReplacementComplete,
              CurrentSlotOwns, subscribed, NoChain
<1>3. CASE UNCHANGED supply_vars
  BY <1>1, <1>3 DEF supply_vars, sub_vars
<1>4. CASE start_discovery \/ scan_empty \/ retry \/ wake
  <2>1. loop \in LoopState
    BY DEF SupplyTypes, LoopTypes
  <2>2. loop'.pc # "chain"
    BY <1>4, <2>1 DEF start_discovery, scan_empty, retry, wake, scanning, sleeping,
                      LoopState
  <2>3. QED
    BY <1>1, <1>4, <2>2 DEF start_discovery, scan_empty, retry, wake
<1>5. CASE scan_found
  <2>1. PICK S \in scan_results :
          \/ loop' = sleeping /\ UNCHANGED sub_vars
          \/ begin_chain(filter(S)) /\ loop' = [loop EXCEPT !.pc = "chain"]
    BY <1>5 DEF scan_found
  <2>2. /\ filter(S) \in SUBSET Event
        /\ \A e \in filter(S) : is_five_minute(e)
    BY ScanListed
  <2>3. CASE loop' = sleeping /\ UNCHANGED sub_vars
    BY <1>1, <2>3 DEF sleeping
  <2>4. CASE begin_chain(filter(S))
    BY <2>2, <2>4, ChainKeepsSubs
  <2>5. QED
    BY <2>1, <2>3, <2>4
<1>6. CASE end_chain
  <2>1. /\ UNCHANGED <<active, routes, ws_tokens>> /\ chain' = NoChain
        /\ loop.pc = "chain" /\ coins' = chain.assets /\ loop' = sleeping
    BY <1>6 DEF end_chain
  <2>2. subscribed \subseteq coins'
    BY <2>1 DEF SubInv, ReplacementComplete
  <2>3. QED
    BY <1>2, <2>1, <2>2 DEF sleeping
<1>7. CASE stop_discovery
  <2>1. /\ UNCHANGED <<active, routes, ws_tokens, coins>> /\ chain' = NoChain
        /\ loop' = Off
    BY <1>7 DEF stop_discovery
  <2>2. QED
    BY <1>2, <2>1 DEF Off, SubInv, SubscribedCoinTracked
<1>8. ASSUME UNCHANGED <<loop_vars, sub_vars>> PROVE SubInv'
  BY <1>1, <1>8 DEF loop_vars
<1>9. ASSUME NEW a \in Asset, toggle_coin(a) \/ coin_settings_save(a) PROVE SubInv'
  BY <1>8, <1>9 DEF toggle_coin, coin_settings_save
<1>10. CASE set_paused \/ load_credentials \/ tick
  BY <1>8, <1>10 DEF set_paused, load_credentials, tick
<1>11. ASSUME NEW e \in Event, ptb_step(e) PROVE SubInv'
  BY <1>8, <1>11 DEF ptb_step, ptb_begin, ptb_attempt, ptb_success, ptb_failure
<1>12. QED
  BY <1>3, <1>4, <1>5, <1>6, <1>7, <1>9, <1>10, <1>11 DEF SupplyNext, loop_step, user_step

LEMMA SubInvAlways == SupplySpec => []SubInv
<1>1. QED
  BY SupplyTypesInit, SupplyTypesStep, SubInvInit, SubInvStep, PTL DEF SupplySpec

(* The bridge routes exactly the tokens of the events the coins own, over  *)
(* any sequence of rotations, stops and starts.                            *)
THEOREM RoutesAlwaysMatch == SupplySpec => []RoutesMatchSubs
<1>1. SubInv => RoutesMatchSubs
  BY DEF SubInv
<1>2. QED
  BY <1>1, SubInvAlways, PTL

(* No subscribed coin is without a USD price feed, even when a stop cuts   *)
(* the handler off in its send.                                            *)
THEOREM CoinsAlwaysTracked == SupplySpec => []SubscribedCoinTracked
<1>1. SubInv => SubscribedCoinTracked
  BY DEF SubInv
<1>2. QED
  BY <1>1, SubInvAlways, PTL

(* The events a handler will fetch a price to beat for are owned by their  *)
(* coins.                                                                  *)
THEOREM SlotOwnership == SupplySpec => []CurrentSlotOwns
<1>1. SubInv => CurrentSlotOwns
  BY DEF SubInv
<1>2. QED
  BY <1>1, SubInvAlways, PTL

-----------------------------------------------------------------------------
(* Settings.                                                               *)

LEMMA RangesStep == RangesOrdered /\ SupplyTypes /\ [SupplyNext]_supply_vars => RangesOrdered'
<1> SUFFICES ASSUME RangesOrdered, SupplyTypes, [SupplyNext]_supply_vars
             PROVE  RangesOrdered'
  OBVIOUS
<1>1. CASE UNCHANGED settings
  BY <1>1 DEF RangesOrdered, ordered
<1>2. settings \in [Asset -> CoinSettingsRecord]
  BY DEF SupplyTypes, UserTypes
<1>3. ASSUME NEW a \in Asset, toggle_coin(a) PROVE RangesOrdered'
  <2>1. settings' = [settings EXCEPT ![a].coin_enabled = ~@]
    BY <1>3 DEF toggle_coin
  <2>2. \A b \in Asset : settings'[b].value = settings[b].value
    BY <1>2, <2>1 DEF CoinSettingsRecord
  <2>3. QED
    BY <2>2 DEF RangesOrdered, ordered
<1>4. ASSUME NEW a \in Asset, coin_settings_save(a) PROVE RangesOrdered'
  <2>1. PICK u \in Updates :
           /\ accepted(existing(settings[a]), u)
           /\ settings' = [settings EXCEPT ![a] = merged(existing(@), u)]
    BY <1>4 DEF coin_settings_save
  <2>2. settings'[a] = merged(existing(settings[a]), u)
    BY <1>2, <2>1
  <2>3. \A b \in Asset \ {a} : settings'[b] = settings[b]
    BY <1>2, <2>1
  <2>4. QED
    BY <2>1, <2>2, <2>3 DEF RangesOrdered, accepted
<1>5. QED
  BY <1>1, <1>3, <1>4 DEF SupplyNext, supply_vars, loop_step, user_step, ptb_step, user_vars,
     start_discovery, scan_found, scan_empty, retry, end_chain, wake, stop_discovery,
     set_paused, load_credentials, tick, ptb_begin, ptb_attempt, ptb_success, ptb_failure

(* Whatever partial updates are saved and in whatever order, no coin is    *)
(* left with a range in the wrong order.                                   *)
THEOREM RangesStayOrdered == SupplySpec => []RangesOrdered
<1>1. SupplyInit => RangesOrdered
  BY SavedSettings DEF SupplyInit, RangesOrdered
<1>2. QED
  BY <1>1, RangesStep, SupplyTypesInit, SupplyTypesStep, PTL DEF SupplySpec

-----------------------------------------------------------------------------
(* Delisting.                                                              *)

(* The miss count of a registered event is the number of synced scans      *)
(* since the last that had it, up to the threshold.                        *)
MissesExact(e) ==
  /\ \A i \in 1..Len(recent) : i > Len(recent) - miss[e] => e \notin recent[i]
  /\ \/ miss[e] = DelistThreshold /\ Len(recent) = DelistThreshold
     \/ miss[e] < Len(recent) /\ e \in recent[Len(recent) - miss[e]]

EventDelist(e) ==
  /\ registry[e] \in {"absent", "discovered", "active", "inactive"}
  /\ registry[e] = "absent" => miss[e] = 0 /\ \A i \in 1..Len(recent) : e \notin recent[i]
  /\ registry[e] # "absent" => MissesExact(e)
  /\ registry[e] = "inactive" <=> registry[e] # "absent" /\ miss[e] = DelistThreshold

DelistInv ==
  /\ Len(recent) <= DelistThreshold
  /\ \A e \in Event : EventDelist(e)

(* A sync appends its result to the window and drops the oldest when the   *)
(* window is full.                                                         *)
LEMMA SyncWindow ==
  ASSUME SupplyTypes, DelistInv, NEW S \in SUBSET Event, sync(S)
  PROVE  LET n == Len(recent) IN
         \E d \in {0, 1} :
            /\ (d = 0 /\ n < DelistThreshold) \/ (d = 1 /\ n = DelistThreshold)
            /\ Len(recent') = n - d + 1
            /\ recent'[n - d + 1] = S
            /\ \A i \in 1..(n - d) : recent'[i] = recent[i + d]
<1>1. recent \in Seq(SUBSET Event) /\ Len(recent) \in Nat
  BY DEF SupplyTypes, RegistryTypes
<1>2. DelistThreshold \in Nat \ {0} /\ Len(recent) <= DelistThreshold
  BY SupplyConstants DEF DelistInv
<1>3. CASE Len(recent) < DelistThreshold
  <2>1. recent' = Append(recent, S)
    BY <1>3 DEF sync
  <2>2. /\ Len(recent') = Len(recent) + 1
        /\ recent'[Len(recent) + 1] = S
        /\ \A i \in 1..Len(recent) : recent'[i] = recent[i]
    BY <1>1, <2>1
  <2>3. /\ Len(recent') = Len(recent) - 0 + 1
        /\ recent'[Len(recent) - 0 + 1] = S
        /\ \A i \in 1..(Len(recent) - 0) : recent'[i] = recent[i + 0]
    BY <1>1, <2>2
  <2>4. QED
    BY <1>3, <2>3
<1>4. CASE Len(recent) = DelistThreshold
  <2>1. recent' = Append(Tail(recent), S)
    BY <1>1, <1>2, <1>4 DEF sync
  <2>2. recent # <<>>
    BY <1>1, <1>2, <1>4
  <2>3. /\ Tail(recent) \in Seq(SUBSET Event)
        /\ Len(Tail(recent)) = Len(recent) - 1
        /\ \A i \in 1..(Len(recent) - 1) : Tail(recent)[i] = recent[i + 1]
    BY <1>1, <2>2
  <2>4. /\ Len(recent') = Len(recent)
        /\ recent'[Len(recent)] = S
        /\ \A i \in 1..(Len(recent) - 1) : recent'[i] = recent[i + 1]
    BY <1>1, <2>1, <2>3
  <2>5. QED
    BY <1>1, <1>4, <2>4
<1>5. QED
  BY <1>1, <1>2, <1>3, <1>4

(* The transitions sync makes.                                             *)
LEMMA SyncStatus ==
  /\ \A s \in {"absent", "discovered", "active", "inactive"} :
        /\ seen_status(s) \in {"discovered", "active"}
        /\ seen_status(s) # "absent"
  /\ \A s \in {"discovered", "active"}, n \in Nat :
        missed_status(s, n) = IF n >= DelistThreshold THEN "inactive" ELSE s
  /\ \A n \in Nat : missed_status("inactive", n) = "inactive"
<1>1. can_transition_to("discovered", "inactive") /\ can_transition_to("active", "inactive")
  BY DEF can_transition_to, EventTransitions, EventStatus
<1>2. can_transition_to("inactive", "active")
  BY DEF can_transition_to, EventTransitions, EventStatus
<1>3. QED
  BY <1>1, <1>2 DEF seen_status, missed_status

(* The miss count after a missed sync.                                     *)
LEMMA MissesKept ==
  ASSUME SupplyTypes, DelistInv, NEW S \in SUBSET Event, sync(S), NEW e \in Event,
         e \notin S, registry[e] # "absent"
  PROVE  /\ MissesExact(e)'
         /\ miss'[e] = IF miss[e] < DelistThreshold THEN miss[e] + 1 ELSE miss[e]
<1> DEFINE n == Len(recent)
           m == miss[e]
<1>1. /\ registry[e] \in {"discovered", "active", "inactive"}
      /\ MissesExact(e)
  BY DEF DelistInv, EventDelist
<1>2. miss'[e] = IF m < DelistThreshold THEN m + 1 ELSE m
  BY <1>1 DEF sync, next_miss, is_missed
<1>3. /\ n \in Nat /\ m \in Nat /\ DelistThreshold \in Nat \ {0} /\ m <= DelistThreshold
      /\ n <= DelistThreshold
  BY SupplyConstants DEF SupplyTypes, RegistryTypes, DelistInv
<1>4. /\ \A i \in 1..n : i > n - m => e \notin recent[i]
      /\ (m = DelistThreshold /\ n = DelistThreshold) \/ (m < n /\ e \in recent[n - m])
  BY <1>1 DEF MissesExact
<1>5. PICK d \in {0, 1} :
         /\ (d = 0 /\ n < DelistThreshold) \/ (d = 1 /\ n = DelistThreshold)
         /\ Len(recent') = n - d + 1
         /\ recent'[n - d + 1] = S
         /\ \A i \in 1..(n - d) : recent'[i] = recent[i + d]
  BY SyncWindow
<1>6. ASSUME NEW i \in 1..Len(recent'), i > Len(recent') - miss'[e]
      PROVE  e \notin recent'[i]
  <2>1. CASE i = n - d + 1
    BY <1>5, <2>1
  <2>2. CASE i # n - d + 1
    <3>1. i \in 1..(n - d)
      BY <1>3, <1>5, <1>6, <2>2
    <3>2. i + d \in 1..n /\ i + d > n - m
      BY <1>2, <1>3, <1>4, <1>5, <1>6, <3>1
    <3>3. recent'[i] = recent[i + d]
      BY <1>5, <3>1
    <3>4. QED
      BY <1>4, <3>2, <3>3
  <2>3. QED
    BY <2>1, <2>2
<1>7. \/ miss'[e] = DelistThreshold /\ Len(recent') = DelistThreshold
      \/ miss'[e] < Len(recent') /\ e \in recent'[Len(recent') - miss'[e]]
  <2>1. CASE m = DelistThreshold /\ n = DelistThreshold
    BY <1>2, <1>3, <1>5, <2>1
  <2>2. CASE m < n /\ e \in recent[n - m]
    <3>1. miss'[e] = m + 1
      BY <1>2, <1>3, <2>2
    <3>2. CASE n - m - d >= 1
      <4>1. n - m - d \in 1..(n - d)
        BY <1>3, <3>2
      <4>2. recent'[n - m - d] = recent[n - m]
        <5>1. recent'[n - m - d] = recent[(n - m - d) + d]
          BY <1>5, <4>1
        <5>2. (n - m - d) + d = n - m
          BY <1>3
        <5>3. QED
          BY <5>1, <5>2
      <4>3. Len(recent') - miss'[e] = n - m - d /\ miss'[e] < Len(recent')
        BY <1>3, <1>5, <3>1, <3>2
      <4>4. QED
        BY <2>2, <4>2, <4>3
    <3>3. CASE n - m - d < 1
      BY <1>3, <1>5, <2>2, <3>1, <3>3
    <3>4. QED
      BY <1>3, <1>5, <3>2, <3>3
  <2>3. QED
    BY <1>4, <2>1, <2>2
<1>8. QED
  BY <1>2, <1>6, <1>7 DEF MissesExact

LEMMA SyncKeepsDelist ==
  ASSUME SupplyTypes, DelistInv, NEW S \in SUBSET Event, sync(S)
  PROVE  DelistInv'
<1> DEFINE n == Len(recent)
<1>1. /\ n \in Nat /\ DelistThreshold \in Nat \ {0} /\ n <= DelistThreshold
      /\ \A e \in Event : miss[e] \in 0..DelistThreshold
  BY SupplyConstants DEF SupplyTypes, RegistryTypes, DelistInv
<1>2. PICK d \in {0, 1} :
         /\ (d = 0 /\ n < DelistThreshold) \/ (d = 1 /\ n = DelistThreshold)
         /\ Len(recent') = n - d + 1
         /\ recent'[n - d + 1] = S
         /\ \A i \in 1..(n - d) : recent'[i] = recent[i + d]
  BY SyncWindow
<1>3. Len(recent') <= DelistThreshold
  BY <1>1, <1>2
<1>4. ASSUME NEW e \in Event PROVE EventDelist(e)'
  <2>1. /\ registry[e] \in {"absent", "discovered", "active", "inactive"}
        /\ registry[e] = "absent" => miss[e] = 0 /\ \A i \in 1..n : e \notin recent[i]
        /\ registry[e] = "inactive" <=> registry[e] # "absent" /\ miss[e] = DelistThreshold
    BY DEF DelistInv, EventDelist
  <2>2. CASE e \in S
    <3>1. miss'[e] = 0 /\ registry'[e] = seen_status(registry[e])
      BY <2>2 DEF sync, next_miss
    <3>2. registry'[e] \in {"discovered", "active"}
      BY <2>1, <3>1, SyncStatus
    <3>3. MissesExact(e)'
      BY <1>1, <1>2, <2>2, <3>1 DEF MissesExact
    <3>4. QED
      BY <1>1, <3>1, <3>2, <3>3 DEF EventDelist
  <2>3. CASE e \notin S /\ registry[e] = "absent"
    <3>1. miss'[e] = 0 /\ registry'[e] = "absent"
      BY <2>1, <2>3 DEF sync, next_miss, is_missed
    <3>2. ASSUME NEW i \in 1..Len(recent') PROVE e \notin recent'[i]
      <4>1. CASE i = n - d + 1
        BY <1>2, <2>3, <4>1
      <4>2. CASE i # n - d + 1
        <5>1. i \in 1..(n - d) /\ i + d \in 1..n
          BY <1>1, <1>2, <4>2
        <5>2. recent'[i] = recent[i + d]
          BY <1>2, <5>1
        <5>3. QED
          BY <2>1, <2>3, <5>1, <5>2
      <4>3. QED
        BY <4>1, <4>2
    <3>3. QED
      BY <1>1, <3>1, <3>2 DEF EventDelist
  <2>4. CASE e \notin S /\ registry[e] # "absent"
    <3>1. /\ MissesExact(e)'
          /\ miss'[e] = IF miss[e] < DelistThreshold THEN miss[e] + 1 ELSE miss[e]
      BY <2>4, MissesKept
    <3>2. registry'[e] = missed_status(registry[e], miss'[e])
      BY <2>1, <2>4 DEF sync, is_missed
    <3>3. miss'[e] \in Nat /\ miss'[e] <= DelistThreshold
      BY <1>1, <3>1
    <3>4. CASE registry[e] = "inactive"
      <4>1. registry'[e] = "inactive" /\ miss'[e] = DelistThreshold
        BY <1>1, <2>1, <3>1, <3>2, <3>3, <3>4, SyncStatus
      <4>2. QED
        BY <3>1, <4>1 DEF EventDelist
    <3>5. CASE registry[e] # "inactive"
      <4>1. registry[e] \in {"discovered", "active"}
        BY <2>1, <2>4, <3>5
      <4>2. registry'[e] = IF miss'[e] >= DelistThreshold THEN "inactive" ELSE registry[e]
        BY <3>2, <3>3, <4>1, SyncStatus
      <4>3. QED
        BY <1>1, <3>1, <3>3, <4>1, <4>2 DEF EventDelist
    <3>6. QED
      BY <3>4, <3>5
  <2>5. QED
    BY <2>2, <2>3, <2>4
<1>5. QED
  BY <1>3, <1>4 DEF DelistInv

LEMMA DelistInvInit == SupplyInit => DelistInv
<1> SUFFICES ASSUME SupplyInit PROVE DelistInv
  OBVIOUS
<1>1. Len(recent) = 0 /\ DelistThreshold \in Nat \ {0}
  BY SupplyConstants DEF SupplyInit
<1>2. \A e \in Event : registry[e] = "absent" /\ miss[e] = 0
  BY DEF SupplyInit
<1>3. QED
  BY <1>1, <1>2 DEF DelistInv, EventDelist

LEMMA DelistInvStep ==
  SupplyTypes /\ DelistInv /\ [SupplyNext]_supply_vars => DelistInv'
<1> SUFFICES ASSUME SupplyTypes, DelistInv, [SupplyNext]_supply_vars PROVE DelistInv'
  OBVIOUS
<1>1. CASE UNCHANGED reg_vars
  BY <1>1 DEF reg_vars, DelistInv, EventDelist, MissesExact
<1>2. CASE scan_found
  <2>1. PICK S \in scan_results : sync(S)
    BY <1>2 DEF scan_found
  <2>2. QED
    BY <2>1, ScanListed, SyncKeepsDelist
<1>3. QED
  BY <1>1, <1>2 DEF SupplyNext, supply_vars, loop_step, user_step, ptb_step, reg_vars,
     start_discovery, scan_empty, retry, end_chain, wake, stop_discovery,
     toggle_coin, coin_settings_save, set_paused, load_credentials, tick,
     ptb_begin, ptb_attempt, ptb_success, ptb_failure

(* An event is delisted exactly when the last DelistThreshold synced scans *)
(* all missed it, for any threshold and any sequence of scans.             *)
THEOREM DelistIsExact == SupplySpec => []DelistExact
<1>1. DelistInv /\ SupplyTypes => DelistExact
  <2> SUFFICES ASSUME DelistInv, SupplyTypes, NEW e \in Event
               PROVE  registry[e] = "inactive"
                        <=> /\ registry[e] # "absent"
                            /\ Len(recent) = DelistThreshold
                            /\ \A i \in 1..Len(recent) : e \notin recent[i]
    BY DEF DelistExact
  <2>1. /\ Len(recent) \in Nat /\ miss[e] \in Nat /\ DelistThreshold \in Nat \ {0}
        /\ miss[e] <= DelistThreshold
    BY SupplyConstants DEF SupplyTypes, RegistryTypes
  <2>2. EventDelist(e)
    BY DEF DelistInv
  <2>3. CASE registry[e] = "absent"
    BY <2>3
  <2>4. CASE registry[e] # "absent" /\ miss[e] = DelistThreshold
    <3>1. Len(recent) = DelistThreshold
      BY <2>1, <2>2, <2>4 DEF EventDelist, MissesExact, DelistInv
    <3>2. \A i \in 1..Len(recent) : e \notin recent[i]
      BY <2>1, <2>2, <2>4, <3>1 DEF EventDelist, MissesExact
    <3>3. QED
      BY <2>2, <2>4, <3>1, <3>2 DEF EventDelist
  <2>5. CASE registry[e] # "absent" /\ miss[e] # DelistThreshold
    <3>1. miss[e] < Len(recent) /\ e \in recent[Len(recent) - miss[e]]
      BY <2>2, <2>5 DEF EventDelist, MissesExact
    <3>2. Len(recent) - miss[e] \in 1..Len(recent)
      BY <2>1, <3>1
    <3>3. QED
      BY <2>2, <2>5, <3>1, <3>2 DEF EventDelist
  <2>6. QED
    BY <2>3, <2>4, <2>5
<1>2. QED
  BY <1>1, DelistInvInit, DelistInvStep, SupplyTypesInit, SupplyTypesStep, PTL
     DEF SupplySpec

-----------------------------------------------------------------------------
(* One scan per slot.                                                      *)

LEMMA DivMonotone ==
  \A s, t \in Nat, n \in Nat \ {0} : s <= t => s \div n <= t \div n
<1> SUFFICES ASSUME NEW s \in Nat, NEW t \in Nat, NEW n \in Nat \ {0}, s <= t,
                    t \div n < s \div n
             PROVE  FALSE
  BY DivNat
<1> DEFINE p == s \div n
           q == t \div n
<1>1. p \in Nat /\ q \in Nat /\ q + 1 <= p
  BY DivNat
<1>2. n * p <= s /\ t < n * q + n
  BY SMT
<1>3. n * (q + 1) <= n * p
  BY <1>1, SMT
<1>4. n * (q + 1) = n * q + n
  BY <1>1, SMT
<1> HIDE DEF p, q
<1>5. QED
  BY <1>1, <1>2, <1>3, <1>4

LEMMA DivMultiple == \A q \in Nat, n \in Nat \ {0} : (q * n) \div n = q
BY SMT

LEMMA SlotMonotone == \A s, t \in Nat : s <= t => SlotOf(s) <= SlotOf(t)
BY SlotLenPositive, DivMonotone DEF SlotOf

(* The instant a loop sleeps to is in the next slot.                       *)
LEMMA SlotEndLater == \A t \in Nat : SlotOf(slot_end(t)) = SlotOf(t) + 1
BY SlotLenPositive, SlotNat, DivMultiple DEF SlotOf, slot_end

(* The loop works on a slot that has begun, and sleeps into a later one.   *)
SlotInv ==
  /\ loop.pc # "off" => loop.slot <= SlotOf(now)
  /\ loop.pc = "sleep" => loop.slot < SlotOf(loop.wake)

LEMMA SlotInvInit == SupplyInit => SlotInv
BY DEF SupplyInit, SlotInv, Off

LEMMA SlotInvStep == SupplyTypes /\ SlotInv /\ [SupplyNext]_supply_vars => SlotInv'
<1> SUFFICES ASSUME SupplyTypes, SlotInv, [SupplyNext]_supply_vars PROVE SlotInv'
  OBVIOUS
<1>1. now \in Nat /\ now' \in Nat /\ loop \in LoopState /\ loop.slot \in Nat
  <2>1. now \in 0..MaxNow /\ now' \in 0..MaxNow /\ loop \in LoopState
    BY SupplyTypesStep DEF SupplyTypes, LoopTypes
  <2>2. QED
    BY <2>1, SupplyConstants DEF LoopState
<1>2. SlotOf(now) \in Nat
  BY <1>1, SlotNat
<1>3. ASSUME UNCHANGED loop, now <= now' PROVE SlotInv'
  <2>1. SlotOf(now) <= SlotOf(now') /\ SlotOf(now') \in Nat
    BY <1>1, <1>3, SlotMonotone, SlotNat
  <2>2. QED
    BY <1>1, <1>2, <1>3, <2>1 DEF SlotInv, SlotOf
<1>4. ASSUME UNCHANGED now, loop' = scanning PROVE SlotInv'
  BY <1>2, <1>4 DEF SlotInv, scanning, SlotOf
<1>5. ASSUME UNCHANGED now, loop' = sleeping, loop.pc # "off" PROVE SlotInv'
  <2>1. loop'.pc = "sleep" /\ loop'.slot = loop.slot /\ loop'.wake = slot_end(now)
    BY <1>5 DEF sleeping
  <2>2. loop.slot <= SlotOf(now)
    BY <1>5 DEF SlotInv
  <2>3. SlotOf(loop'.wake) = SlotOf(now) + 1
    BY <1>1, <2>1, SlotEndLater
  <2>4. loop'.slot < SlotOf(loop'.wake) /\ loop'.slot <= SlotOf(now)
    BY <1>1, <1>2, <2>1, <2>2, <2>3
  <2>5. QED
    BY <1>5, <2>4 DEF SlotInv, SlotOf
<1>6. ASSUME UNCHANGED now, loop.pc # "off", NEW pc \in {"retry", "chain"},
             loop' = [loop EXCEPT !.pc = pc]
      PROVE  SlotInv'
  BY <1>1, <1>6 DEF SlotInv, LoopState, SlotOf
<1>7. CASE start_discovery \/ wake
  BY <1>4, <1>7 DEF start_discovery, wake
<1>8. CASE scan_found \/ scan_empty \/ retry \/ end_chain
  BY <1>4, <1>5, <1>6, <1>8 DEF scan_found, scan_empty, retry, end_chain
<1>9. CASE stop_discovery
  BY <1>9 DEF stop_discovery, SlotInv, Off
<1>10. CASE UNCHANGED supply_vars
  BY <1>1, <1>3, <1>10 DEF supply_vars
<1>11. ASSUME NEW a \in Asset, toggle_coin(a) \/ coin_settings_save(a) PROVE SlotInv'
  BY <1>1, <1>3, <1>11 DEF toggle_coin, coin_settings_save, loop_vars
<1>12. CASE set_paused \/ load_credentials \/ tick
  BY <1>1, <1>3, <1>12 DEF set_paused, load_credentials, tick, loop_vars
<1>13. ASSUME NEW e \in Event, ptb_step(e) PROVE SlotInv'
  BY <1>1, <1>3, <1>13 DEF ptb_step, ptb_begin, ptb_attempt, ptb_success, ptb_failure,
                           loop_vars
<1>14. QED
  BY <1>7, <1>8, <1>9, <1>10, <1>11, <1>12, <1>13 DEF SupplyNext, loop_step, user_step

(* A loop that found events wakes in a later slot, for any slot length and *)
(* however long the scan and the handler took.                             *)
THEOREM ScansOncePerSlot == SupplySpec => OncePerSlot
<1> DEFINE Later == loop.pc = "sleep" /\ loop'.pc = "scan" => loop'.slot > loop.slot
<1>1. SupplyTypes /\ SlotInv /\ [SupplyNext]_supply_vars => [Later]_supply_vars
  <2> SUFFICES ASSUME SupplyTypes, SlotInv, SupplyNext, loop.pc = "sleep",
                      loop'.pc = "scan"
               PROVE  loop'.slot > loop.slot
    OBVIOUS
  <2>1. wake
    BY DEF SupplyNext, loop_step, user_step, ptb_step, loop_vars, Off,
       start_discovery, scan_found, scan_empty, retry, end_chain, stop_discovery,
       toggle_coin, coin_settings_save, set_paused, load_credentials, tick,
       ptb_begin, ptb_attempt, ptb_success, ptb_failure
  <2>2. now >= loop.wake /\ loop'.slot = SlotOf(now)
    BY <2>1 DEF wake, scanning
  <2>3. now \in Nat /\ loop.wake \in Nat /\ loop.slot \in Nat
    BY SupplyConstants DEF SupplyTypes, LoopTypes, LoopState
  <2>4. SlotOf(loop.wake) <= SlotOf(now) /\ SlotOf(now) \in Nat /\ SlotOf(loop.wake) \in Nat
    BY <2>2, <2>3, SlotMonotone, SlotNat
  <2>5. loop.slot < SlotOf(loop.wake)
    BY DEF SlotInv
  <2>6. QED
    BY <2>2, <2>3, <2>4, <2>5
<1>2. QED
  BY <1>1, SlotInvInit, SlotInvStep, SupplyTypesInit, SupplyTypesStep, PTL
     DEF SupplySpec, OncePerSlot

-----------------------------------------------------------------------------
(* The lock of a price to beat.                                            *)

(* A lock is lost only to a request already in flight, and the value it    *)
(* locked is never replaced, for any number of fetch tasks of the event.   *)
THEOREM LocksKeepValue == SupplySpec => LockLostOnlyByRace
<1> DEFINE Kept == \A e \in Event : is_locked(ptb[e]) =>
                      /\ ptb'[e].value = ptb[e].value
                      /\ is_locked(ptb'[e]) \/ tasks[e]["fetch"] > 0
<1>1. SupplyTypes /\ [SupplyNext]_supply_vars => [Kept]_supply_vars
  <2> SUFFICES ASSUME SupplyTypes, SupplyNext, NEW e \in Event, is_locked(ptb[e])
               PROVE  /\ ptb'[e].value = ptb[e].value
                      /\ is_locked(ptb'[e]) \/ tasks[e]["fetch"] > 0
    OBVIOUS
  <2>1. CASE UNCHANGED ptb
    BY <2>1
  <2>2. ASSUME NEW f \in Event, ptb_step(f)
        PROVE  /\ ptb'[e].value = ptb[e].value
               /\ is_locked(ptb'[e]) \/ tasks[e]["fetch"] > 0
    <3>1. /\ ptb = [g \in Event |-> ptb[g]]
          /\ ptb[e] \in PtbRecord(e)
      BY DEF SupplyTypes, PtbTypes
    <3>2. CASE f # e
      <4>1. ptb'[e] = ptb[e]
        BY <2>2, <3>1, <3>2 DEF ptb_step, ptb_begin, ptb_attempt, ptb_success, ptb_failure
      <4>2. QED
        BY <4>1
    <3>3. CASE f = e /\ (ptb_begin(e) \/ ptb_attempt(e) \/ ptb_success(e))
      <4>1. get_or_create_record(ptb[e]) = ptb[e] /\ expire(ptb[e]) = ptb[e] /\ gives_up(e)
        BY DEF is_locked, get_or_create_record, expire, gives_up
      <4>2. ptb'[e] = ptb[e]
        BY <3>1, <3>3, <4>1 DEF ptb_begin, ptb_attempt, ptb_success
      <4>3. QED
        BY <4>2
    <3>4. CASE f = e /\ ptb_failure(e)
      <4>1. ptb'[e] = record_failure(ptb[e]) /\ tasks[e]["fetch"] > 0
        BY <3>1, <3>4 DEF ptb_failure
      <4>2. QED
        BY <3>1, <4>1 DEF record_failure, PtbRecord
    <3>5. QED
      BY <2>2, <3>2, <3>3, <3>4 DEF ptb_step
  <2>3. QED
    BY <2>1, <2>2 DEF SupplyNext, loop_step, user_step, ptb_vars, start_discovery,
       scan_found, scan_empty, retry, end_chain, wake, stop_discovery, toggle_coin,
       coin_settings_save, set_paused, load_credentials, tick
<1>2. QED
  BY <1>1, SupplyTypesInit, SupplyTypesStep, PTL DEF SupplySpec, LockLostOnlyByRace
==============================================================================
