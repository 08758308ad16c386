-------------------------- MODULE BotLifecycleProofs --------------------------
(***************************************************************************)
(* Proofs about BotLifecycle, the socket it composes and the orders        *)
(* composed with it, for any number of concurrent requests, any bounds and *)
(* any combination of scenarios.                                           *)
(***************************************************************************)
EXTENDS BotOrders, TLAPS, FiniteSetTheorems

-----------------------------------------------------------------------------
(* Uptime.                                                                 *)

(* While the clock runs, the time banked and the time since the last start *)
(* or resume add up to the time run; a pause has banked it all.            *)
UptimeInv ==
  /\ now \in Nat
  /\ ran \in Nat
  /\ uptime.start \in Int /\ uptime.acc \in Int
  /\ uptime.start = -1 => uptime.acc = 0 /\ ran = 0
  /\ uptime.start # -1 /\ paused => uptime.held /\ uptime.acc = ran
  /\ uptime.start # -1 /\ ~paused => uptime.acc + (now - uptime.start) = ran

(* A clock that begins now, or that is stopped, satisfies it.              *)
LEMMA UptimeReset ==
  ASSUME UptimeInv, now' = now, ran' = 0, paused' = FALSE,
         uptime' = NotStarted \/ uptime' = [start |-> now, held |-> FALSE, acc |-> 0]
  PROVE  UptimeInv'
<1>1. uptime'.acc = 0 /\ uptime'.start \in {-1, now}
  BY DEF NotStarted
<1>2. /\ now' \in Nat /\ ran' \in Nat
      /\ uptime'.start \in Int /\ uptime'.acc \in Int
      /\ uptime'.start = -1 => uptime'.acc = 0 /\ ran' = 0
  BY <1>1 DEF UptimeInv
<1>3. uptime'.start # -1 /\ ~paused' => uptime'.acc + (now' - uptime'.start) = ran'
  BY <1>1 DEF UptimeInv
<1>4. ~ paused'
  OBVIOUS
<1> QED
  BY <1>2, <1>3, <1>4 DEF UptimeInv

(* Steps that neither pause, resume, reset nor tick.                       *)
LEMMA UptimeKept ==
  ASSUME UptimeInv, UNCHANGED <<uptime, now, ran, paused>>
  PROVE  UptimeInv'
BY DEF UptimeInv

(* A resume goes on from what the pause banked.                            *)
LEMMA UptimeResumed ==
  ASSUME UptimeInv, paused, paused' = FALSE, now' = now, ran' = ran,
         uptime' = resumed
  PROVE  UptimeInv'
<1>1. uptime'.start = now /\ uptime'.acc = uptime.acc
  BY DEF resumed
<1>2. uptime.acc = ran
  BY DEF UptimeInv
<1> QED
  BY <1>1, <1>2 DEF UptimeInv

(* UptimeInv is inductive.                                                 *)
LEMMA UptimeStep ==
  ASSUME UptimeInv, [Next]_vars
  PROVE  UptimeInv'
<1>1. CASE UNCHANGED vars
  BY <1>1, UptimeKept DEF vars, time_vars
<1>2. CASE process_step
  <2>1. CASE boot
    BY <2>1, UptimeReset DEF boot, begin_start
  <2>2. CASE begin_shutdown
    BY <2>2, UptimeReset DEF begin_shutdown, begin_stop
  <2>3. CASE end_shutdown \/ process_dies
    BY <2>3, UptimeReset DEF end_shutdown, process_dies, fresh_process
  <2>4. CASE lifespan_ready
    BY <2>4, UptimeKept DEF lifespan_ready, time_vars
  <2> QED
    BY <1>2, <2>1, <2>2, <2>3, <2>4 DEF process_step
<1>3. ASSUME NEW c \in Caller,
             \/ bot_start(c) \/ start_running(c) \/ end_start(c)
             \/ bot_stop(c) \/ stop_step(c) \/ stop_socket(c) \/ end_stop(c)
      PROVE  UptimeInv'
  <2>1. CASE bot_start(c)
    BY <2>1, UptimeReset DEF bot_start, begin_start
  <2>2. CASE start_running(c)
    <3>1. CASE ~ paused
      BY <2>2, <3>1 DEF start_running, UptimeInv
    <3>2. CASE paused
      BY <2>2, <3>2, UptimeResumed DEF start_running
    <3> QED
      BY <3>1, <3>2 DEF UptimeInv
  <2>3. CASE bot_stop(c)
    BY <2>3, UptimeReset DEF bot_stop, begin_stop
  <2>4. CASE end_start(c) \/ stop_step(c) \/ stop_socket(c) \/ end_stop(c)
    BY <2>4, UptimeKept DEF end_start, stop_step, stop_socket, end_stop, time_vars
  <2> QED
    BY <1>3, <2>1, <2>2, <2>3, <2>4
<1>4. CASE loop_step
  BY <1>4, UptimeKept DEF loop_step, verify_begin, verify_ok, verify_failed,
     supervisor_check, reader_dies, loop_dies, orphan_ends, time_vars
<1>5. CASE bot_pause
  <2>1. /\ ~ paused /\ paused' = TRUE
        /\ now' = now /\ ran' = ran
        /\ uptime' = [start |-> uptime.start, held |-> uptime.start # -1, acc |-> banked]
    BY <1>5 DEF bot_pause, current_state
  <2>2. banked = ran
    BY <2>1 DEF UptimeInv, banked
  <2>3. /\ uptime'.start = uptime.start
        /\ uptime'.acc = ran
        /\ uptime.start # -1 => uptime'.held
    BY <2>1, <2>2, Zenon
  <2> QED
    BY <2>1, <2>3 DEF UptimeInv
<1>6. CASE bot_resume
  BY <1>6, UptimeResumed DEF bot_resume, current_state
<1>7. CASE tick
  BY <1>7 DEF tick, UptimeInv
<1>8. CASE credential_update \/ socket_step
  BY <1>8, UptimeKept DEF credential_update, socket_step, time_vars
<1> QED
  BY <1>1, <1>2, <1>3, <1>4, <1>5, <1>6, <1>7, <1>8 DEF Next, request_step

(* The uptime the API shows is the time the bot was started and not        *)
(* paused, whatever requests overlap (Orchestrator.pause, resume, start,   *)
(* stop and bot_uptime).                                                   *)
THEOREM UptimeCorrect == Spec => []UptimeExact
<1>1. Init => UptimeInv
  BY DEF Init, UptimeInv, NotStarted
<1>2. UptimeInv /\ [Next]_vars => UptimeInv'
  BY UptimeStep
<1>3. UptimeInv => UptimeExact
  BY DEF UptimeInv, UptimeExact, bot_uptime
<1> QED
  BY <1>1, <1>2, <1>3, PTL DEF Spec

-----------------------------------------------------------------------------
(* Orders are funded.                                                      *)

(* What has been spent and what is left are what was answered and earned.  *)
FundsInv ==
  /\ available \in Nat /\ funded \in Nat /\ spent \in Nat /\ earned \in Nat
  /\ available + spent = funded + earned

LEMMA FundsKept ==
  ASSUME FundsInv, UNCHANGED <<available, funded, spent, earned>>
  PROVE  FundsInv'
BY DEF FundsInv

(* An answer starts a new account.                                         *)
LEMMA FundsAnswered ==
  ASSUME update
  PROVE  FundsInv'
<1>1. PICK b \in Nat : available' = b /\ funded' = b
  BY OrderConstants DEF update
<1> QED
  BY <1>1 DEF update, FundsInv

LEMMA FundsStep ==
  ASSUME FundsInv, [OrderNext]_<<vars, order_vars>>
  PROVE  FundsInv'
<1>1. CASE UNCHANGED order_vars \/ lifecycle_step
  BY <1>1, FundsKept DEF lifecycle_step, order_vars, balance_vars
<1>2. CASE verified_by \/ fetched_by
  BY <1>2, FundsKept, FundsAnswered DEF verified_by, fetched_by, balance_vars
<1>3. CASE fresh_balance
  BY <1>3 DEF fresh_balance, FundsInv
<1>4. CASE balance_ages \/ follow
  BY <1>4, FundsKept DEF balance_ages, follow, balance_vars
<1>5. ASSUME NEW n \in 1..MaxAmount, entry_order(n)
      PROVE  FundsInv'
  <2>1. /\ n \in Nat /\ n <= available
        /\ available' = deducted(n) /\ spent' = spent + n
        /\ UNCHANGED <<funded, earned>>
    BY <1>5, OrderConstants DEF entry_order, validate, deduct
  <2> QED
    BY <2>1 DEF FundsInv, deducted
<1>6. ASSUME NEW n \in 0..MaxAmount, paper_sale(n)
      PROVE  FundsInv'
  BY <1>6, OrderConstants DEF paper_sale, add, FundsInv
<1> QED
  BY <1>1, <1>2, <1>3, <1>4, <1>5, <1>6 DEF OrderNext, balance_step, trade_step

(* Every order is paid from the last balance the exchange answered and     *)
(* from sales since, whichever requests, retries and restarts ask for the  *)
(* balance meanwhile, and whether or not the bot is degraded               *)
(* (OrderExecutor.execute, ExitExecutor.execute_close, BalanceManager,     *)
(* _verify_balance, credential_update).                                    *)
THEOREM OrdersFunded == OrderSpec => []OrdersAreFunded
<1>1. OrderInit => FundsInv
  BY DEF OrderInit, FundsInv
<1>2. FundsInv /\ [OrderNext]_<<vars, order_vars>> => FundsInv'
  BY FundsStep
<1>3. FundsInv => OrdersAreFunded
  BY DEF FundsInv, OrdersAreFunded
<1> QED
  BY <1>1, <1>2, <1>3, PTL DEF OrderSpec

(* Trading leaves the lifecycle as it is: what is proved of BotLifecycle   *)
(* holds of a bot that trades.                                             *)
LEMMA OrdersAreLifecycle == OrderSpec => Spec
<1>1. OrderInit => Init
  BY DEF OrderInit
<1>2. [OrderNext]_<<vars, order_vars>> => [Next]_vars
  <2>1. lifecycle_step => Next
    BY DEF lifecycle_step, Next, process_step, request_step, loop_step
  <2>2. balance_step => Next
    BY DEF balance_step, Next, process_step, request_step, loop_step
  <2>3. trade_step => UNCHANGED vars
    BY DEF trade_step, balance_ages, follow, entry_order, paper_sale
  <2> QED
    BY <2>1, <2>2, <2>3 DEF OrderNext
<1> QED
  BY <1>1, <1>2, PTL DEF OrderSpec, Spec
-----------------------------------------------------------------------------
(* The token list on the socket.                                           *)

(* Sockets are numbered as they are opened.                                *)
SocketInv ==
  /\ \E n \in Nat : DOMAIN sent = 1..n
  /\ open \subseteq DOMAIN sent
  /\ Resubscribed

(* Steps that open no socket and send nothing: one may be closed or        *)
(* forgotten, and the client may stop saying CONNECTED.                    *)
LEMMA SocketQuiet ==
  ASSUME SocketInv, UNCHANGED <<sent, tokens>>, open' \subseteq open,
         ws_state' = "connected" => ws_state = "connected" /\ ws' = ws
  PROVE  SocketInv'
BY DEF SocketInv, Resubscribed, is_connected

(* The head of run_forever never makes a client CONNECTED.                 *)
LEMMA HeadState ==
  \A s, d : head_state(s, d) = "connected" => s = "connected"
BY DEF head_state

LEMMA SocketConnected ==
  ASSUME SocketInv, NEW r, connected(r)
  PROVE  SocketInv'
<1>1. PICK n \in Nat : DOMAIN sent = 1..n
  BY DEF SocketInv
<1>2. Cardinality(1..n) = n
  BY FS_Interval
<1>3. /\ ws' = n + 1
      /\ open' = open \cup {n + 1}
      /\ sent' = [t \in 1..(n + 1) |-> IF t = n + 1 THEN tokens ELSE sent[t]]
      /\ tokens' = tokens
  BY <1>1, <1>2 DEF connected, resubscribed
<1>4. DOMAIN sent' = 1..(n + 1) /\ sent'[n + 1] = tokens
  BY <1>3
<1>5. open' \subseteq 1..(n + 1)
  BY <1>1, <1>3 DEF SocketInv
<1> QED
  BY <1>3, <1>4, <1>5 DEF SocketInv, Resubscribed

LEMMA SocketSubscribe ==
  ASSUME SocketInv, subscribe
  PROVE  SocketInv'
<1>1. DOMAIN sent' = DOMAIN sent
  BY DEF subscribe
<1>2. CASE is_connected /\ ws \in open
  <2>1. sent'[ws] = tokens'
    BY <1>2 DEF subscribe, SocketInv
  <2> QED
    BY <1>1, <1>2, <2>1 DEF subscribe, SocketInv, Resubscribed
<1>3. CASE ~ (is_connected /\ ws \in open)
  BY <1>1, <1>3 DEF subscribe, SocketInv, Resubscribed, is_connected
<1> QED
  BY <1>2, <1>3

(* Every operation of the client keeps the invariant.                      *)
LEMMA SocketRtds ==
  ASSUME SocketInv,
         \/ run_forever \/ run_dies \/ rtds_step
         \/ begin_disconnect \/ end_disconnect
         \/ UNCHANGED rtds_vars
  PROVE  SocketInv'
<1>1. CASE run_forever
  BY <1>1, HeadState, SocketQuiet DEF run_forever
<1>2. CASE run_dies
  BY <1>2, SocketQuiet DEF run_dies, is_connected
<1>3. CASE begin_disconnect \/ end_disconnect \/ UNCHANGED rtds_vars
  BY <1>3, SocketQuiet DEF begin_disconnect, end_disconnect, rtds_vars
<1>4. ASSUME NEW r \in live, connect_failed(r) \/ waited(r) \/ backed_off(r)
      PROVE  SocketInv'
  BY <1>4, HeadState, SocketQuiet DEF connect_failed, waited, backed_off
<1>5. ASSUME NEW r \in live, receive_ends(r)
      PROVE  SocketInv'
  <2>1. \E s : s # "connected" /\ ws_state' = head_state(s, shutdown)
    BY <1>5 DEF receive_ends, is_connected
  <2> QED
    BY <1>5, <2>1, HeadState, SocketQuiet DEF receive_ends
<1>6. ASSUME NEW s \in open, drop(s)
      PROVE  SocketInv'
  BY <1>6, SocketQuiet DEF drop
<1> QED
  BY <1>1, <1>2, <1>3, <1>4, <1>5, <1>6, SocketConnected, SocketSubscribe DEF rtds_step

LEMMA SocketStep ==
  ASSUME SocketInv, [Next]_vars
  PROVE  SocketInv'
<1>1. CASE UNCHANGED vars
  BY <1>1, SocketRtds DEF vars
<1>2. CASE end_shutdown \/ process_dies
  <2>1. ws_state' = "disconnected" /\ open' = {} /\ sent' = <<>>
    BY <1>2 DEF end_shutdown, process_dies, fresh_process
  <2> QED
    BY <2>1 DEF SocketInv, Resubscribed, is_connected
<1>3. CASE boot \/ lifespan_ready \/ begin_shutdown
  BY <1>3, SocketRtds DEF boot, lifespan_ready, begin_shutdown, begin_stop, stop_from
<1>4. CASE request_step
  BY <1>4, SocketRtds DEF request_step, bot_start, start_running, end_start,
     bot_stop, begin_stop, stop_from, stop_step, stop_socket, end_stop
<1>5. CASE loop_step
  BY <1>5, SocketRtds DEF loop_step, verify_begin, verify_ok, verify_failed,
     supervisor_check, reader_dies, loop_dies, orphan_ends
<1>6. CASE bot_pause \/ bot_resume \/ tick \/ credential_update \/ socket_step
  BY <1>6, SocketRtds DEF bot_pause, bot_resume, tick, credential_update, socket_step
<1> QED
  BY <1>1, <1>2, <1>3, <1>4, <1>5, <1>6 DEF Next, process_step

(* A client that is CONNECTED on an open socket has sent the latest token  *)
(* list on it, whatever two calls of run_forever, drops, reconnects, stops *)
(* and restarts do in between (RTDSClient.connect, reconnect, subscribe).  *)
THEOREM TokensResent == Spec => []Resubscribed
<1>1. Init => SocketInv
  <2> SUFFICES ASSUME Init PROVE SocketInv
    OBVIOUS
  <2>1. DOMAIN sent = 1..0 /\ open = {} /\ ws_state = "disconnected"
    BY DEF Init, RtdsInit
  <2> QED
    BY <2>1 DEF SocketInv, Resubscribed, is_connected
<1>2. SocketInv /\ [Next]_vars => SocketInv'
  BY SocketStep
<1>3. SocketInv => Resubscribed
  BY DEF SocketInv
<1> QED
  BY <1>1, <1>2, <1>3, PTL DEF Spec

-----------------------------------------------------------------------------
(* Types of the socket client.                                             *)

RunRecord(S) == [pc : RunState, sock : S \cup {0}]

RtdsTypes ==
  /\ ws_state \in ConnectionState
  /\ shutdown \in BOOLEAN
  /\ \E n \in 0..MaxSockets : DOMAIN sent = 1..n
  /\ ws \in DOMAIN sent \cup {0}
  /\ open \subseteq DOMAIN sent
  /\ \A s \in DOMAIN sent : sent[s] \in 0..MaxTokens
  /\ tokens \in 0..MaxTokens
  /\ runs \in [1..MaxRuns -> RunRecord(DOMAIN sent)]
  /\ is_connected => ws # 0

LEMMA RtdsTypesImplyTypeOK == RtdsTypes => RtdsTypeOK
BY RtdsConstants DEF RtdsTypes, RtdsTypeOK, RunRecord

(* The head of run_forever's loop.                                         *)
LEMMA HeadTypes ==
  ASSUME NEW S, NEW s \in ConnectionState, NEW d \in BOOLEAN, NEW w \in S \cup {0}
  PROVE  head(s, d, w) \in RunRecord(S) /\ head_state(s, d) \in ConnectionState
<1>1. CASE d = TRUE
  <2>1. head(s, d, w) = [pc |-> "done", sock |-> 0] /\ head_state(s, d) = s
    BY <1>1 DEF head, head_state
  <2> QED
    BY <2>1 DEF RunRecord, RunState
<1>2. CASE d = FALSE
  <2>1. head_state(s, d) \in ConnectionState
    BY <1>2 DEF head_state, ConnectionState
  <2>0. head(s, d, w) = head(s, FALSE, w)
    BY <1>2
  <2>2. CASE s = "connected"
    <3>1. head("connected", FALSE, w) = [pc |-> "receive", sock |-> w]
      BY Zenon DEF head
    <3>2. [pc |-> "receive", sock |-> w] \in RunRecord(S)
      BY DEF RunRecord, RunState
    <3> QED
      BY <2>0, <2>1, <2>2, <3>1, <3>2, Zenon
  <2>3. CASE s = "disconnected"
    <3>1. head("disconnected", FALSE, w) = [pc |-> "connect", sock |-> 0]
      BY DEF head
    <3>2. [pc |-> "connect", sock |-> 0] \in RunRecord(S)
      BY DEF RunRecord, RunState
    <3> QED
      BY <2>0, <2>1, <2>3, <3>1, <3>2, Zenon
  <2>4. CASE s \in {"failed", "reconnecting"}
    <3>1. head(s, FALSE, w) = [pc |-> "backoff", sock |-> 0]
      BY <2>4 DEF head
    <3>2. [pc |-> "backoff", sock |-> 0] \in RunRecord(S)
      BY DEF RunRecord, RunState
    <3> QED
      BY <2>0, <2>1, <3>1, <3>2, Zenon
  <2>5. CASE s = "connecting"
    <3>1. head("connecting", FALSE, w) = [pc |-> "wait", sock |-> 0]
      BY DEF head
    <3>2. [pc |-> "wait", sock |-> 0] \in RunRecord(S)
      BY DEF RunRecord, RunState
    <3> QED
      BY <2>0, <2>1, <2>5, <3>1, <3>2, Zenon
  <2> QED
    BY <2>1, <2>2, <2>3, <2>4, <2>5 DEF ConnectionState
<1> QED
  BY <1>1, <1>2

(* Steps that open no socket and send nothing.                             *)
LEMMA RtdsTypesQuiet ==
  ASSUME RtdsTypes, UNCHANGED <<sent, tokens>>, open' \subseteq open,
         ws' \in {ws, 0}, ws_state' \in ConnectionState, shutdown' \in BOOLEAN,
         runs' \in [1..MaxRuns -> RunRecord(DOMAIN sent)],
         ws_state' = "connected" => ws_state = "connected" /\ ws' = ws
  PROVE  RtdsTypes'
BY DEF RtdsTypes, is_connected

LEMMA RtdsTypesConnected ==
  ASSUME RtdsTypes, NEW r \in 1..MaxRuns, connected(r)
  PROVE  RtdsTypes'
<1>1. PICK n \in 0..MaxSockets : DOMAIN sent = 1..n
  BY DEF RtdsTypes
<1>2. n \in Nat /\ Cardinality(1..n) = n
  BY <1>1, FS_Interval, RtdsConstants
<1>3. /\ ws' = n + 1
      /\ n + 1 \in 1..MaxSockets
      /\ open' = open \cup {n + 1}
      /\ sent' = [t \in 1..(n + 1) |-> IF t = n + 1 THEN tokens ELSE sent[t]]
      /\ ws_state' = "connected"
      /\ runs' = [runs EXCEPT ![r] = [pc |-> "receive", sock |-> n + 1]]
      /\ UNCHANGED <<tokens, shutdown>>
  BY <1>1, <1>2 DEF connected, resubscribed
<1>4. n + 1 \in 0..MaxSockets /\ DOMAIN sent' = 1..(n + 1)
  BY <1>2, <1>3, RtdsConstants
<1>5. 1..n \subseteq 1..(n + 1) /\ n + 1 \in 1..(n + 1) /\ n + 1 # 0
  BY <1>2
<1>6. \A t \in DOMAIN sent' : sent'[t] \in 0..MaxTokens
  <2> SUFFICES ASSUME NEW t \in 1..(n + 1) PROVE sent'[t] \in 0..MaxTokens
    BY <1>4
  <2>1. t # n + 1 => t \in DOMAIN sent
    BY <1>1, <1>2
  <2> QED
    BY <1>3, <2>1 DEF RtdsTypes
<1>7. runs' \in [1..MaxRuns -> RunRecord(DOMAIN sent')]
  <2>1. [pc |-> "receive", sock |-> n + 1] \in RunRecord(DOMAIN sent')
    BY <1>4, <1>5 DEF RunRecord, RunState
  <2>2. \A x \in RunRecord(DOMAIN sent) : x \in RunRecord(DOMAIN sent')
    BY <1>1, <1>4, <1>5 DEF RunRecord
  <2>3. runs \in [1..MaxRuns -> RunRecord(DOMAIN sent)]
    BY DEF RtdsTypes
  <2>4. runs \in [1..MaxRuns -> RunRecord(DOMAIN sent')]
    BY <2>2, <2>3
  <2> QED
    BY <1>3, <2>1, <2>4
<1>8. open' \subseteq DOMAIN sent' /\ ws' \in DOMAIN sent'
  BY <1>1, <1>3, <1>4, <1>5 DEF RtdsTypes
<1> QED
  BY <1>3, <1>4, <1>5, <1>6, <1>7, <1>8 DEF RtdsTypes, ConnectionState

LEMMA RtdsTypesSubscribe ==
  ASSUME RtdsTypes, subscribe
  PROVE  RtdsTypes'
<1>1. tokens' \in 0..MaxTokens
  BY RtdsConstants DEF RtdsTypes, subscribe
<1>2. DOMAIN sent' = DOMAIN sent
  BY DEF subscribe
<1>3. \A t \in DOMAIN sent : sent'[t] \in {sent[t], tokens'}
  BY DEF subscribe
<1>4. UNCHANGED <<ws_state, shutdown, ws, open, runs>>
  BY DEF subscribe
<1> QED
  BY <1>1, <1>2, <1>3, <1>4 DEF RtdsTypes, is_connected

(* Every operation of the client keeps its types.                          *)
LEMMA RtdsTypesStep ==
  ASSUME RtdsTypes,
         \/ run_forever \/ run_dies \/ rtds_step
         \/ begin_disconnect \/ end_disconnect
         \/ UNCHANGED rtds_vars
  PROVE  RtdsTypes'
<1>1. /\ runs \in [1..MaxRuns -> RunRecord(DOMAIN sent)]
      /\ ws_state \in ConnectionState /\ shutdown \in BOOLEAN /\ ws \in DOMAIN sent \cup {0}
  BY DEF RtdsTypes
<1>2. ASSUME NEW r \in 1..MaxRuns, NEW x \in RunRecord(DOMAIN sent)
      PROVE  [runs EXCEPT ![r] = x] \in [1..MaxRuns -> RunRecord(DOMAIN sent)]
  BY <1>1
<1>3. \A pc \in RunState : [pc |-> pc, sock |-> 0] \in RunRecord(DOMAIN sent)
  BY DEF RunRecord
<1>4. CASE run_forever
  <2>1. head(ws_state, FALSE, ws) \in RunRecord(DOMAIN sent)
        /\ head_state(ws_state, FALSE) \in ConnectionState
    BY <1>1, HeadTypes
  <2> QED
    BY <1>2, <1>4, <2>1, HeadState, RtdsTypesQuiet DEF run_forever
<1>5. CASE run_dies
  <2>1. PICK r \in 1..MaxRuns : runs' = [runs EXCEPT ![r] = [pc |-> "done", sock |-> 0]]
    <3>1. Cardinality(started) \in 1..MaxRuns
      <4>1. IsFiniteSet(1..MaxRuns) /\ Cardinality(1..MaxRuns) = MaxRuns
        BY FS_Interval, RtdsConstants
      <4>2. Cardinality(started) \in Nat /\ Cardinality(started) <= MaxRuns
        BY <4>1, FS_Subset, FS_CardinalityType, RtdsConstants DEF started
      <4> QED
        BY <1>5, <4>2, RtdsConstants DEF run_dies
    <3> QED
      BY <1>5, <3>1 DEF run_dies
  <2>2. "done" \in RunState /\ "disconnected" \in ConnectionState
    BY DEF RunState, ConnectionState
  <2>3. runs' \in [1..MaxRuns -> RunRecord(DOMAIN sent)]
    BY <1>2, <1>3, <2>1, <2>2
  <2> QED
    BY <1>1, <1>5, <2>2, <2>3, RtdsTypesQuiet DEF run_dies, is_connected
<1>6. CASE begin_disconnect \/ end_disconnect \/ UNCHANGED rtds_vars
  <2>1. "disconnected" \in ConnectionState
    BY DEF ConnectionState
  <2> QED
    BY <1>1, <1>6, <2>1, RtdsTypesQuiet DEF begin_disconnect, end_disconnect, rtds_vars
<1>7. live \subseteq 1..MaxRuns
  BY DEF live, started
<1>8. ASSUME NEW r \in live, connect_failed(r) \/ backed_off(r)
      PROVE  RtdsTypes'
  <2>1. PICK pc \in RunState : runs' = [runs EXCEPT ![r] = [pc |-> pc, sock |-> 0]]
    BY <1>8 DEF connect_failed, backed_off, RunState
  <2>2. "failed" \in ConnectionState
    BY DEF ConnectionState
  <2>3. runs' \in [1..MaxRuns -> RunRecord(DOMAIN sent)]
    BY <1>2, <1>3, <1>7, <2>1
  <2> QED
    BY <1>1, <1>8, <2>2, <2>3, RtdsTypesQuiet DEF connect_failed, backed_off
<1>9. ASSUME NEW r \in live, waited(r) PROVE RtdsTypes'
  <2>1. head(ws_state, shutdown, ws) \in RunRecord(DOMAIN sent)
        /\ head_state(ws_state, shutdown) \in ConnectionState
    BY <1>1, HeadTypes
  <2> QED
    BY <1>1, <1>2, <1>7, <1>9, <2>1, HeadState, RtdsTypesQuiet DEF waited
<1>10. ASSUME NEW r \in live, receive_ends(r) PROVE RtdsTypes'
  <2>1. PICK s \in ConnectionState :
           /\ s # "connected"
           /\ runs' = [runs EXCEPT ![r] = head(s, shutdown, ws)]
           /\ ws_state' = head_state(s, shutdown)
    BY <1>1, <1>10 DEF receive_ends, is_connected, ConnectionState
  <2>2. head(s, shutdown, ws) \in RunRecord(DOMAIN sent)
        /\ head_state(s, shutdown) \in ConnectionState
    BY <1>1, HeadTypes
  <2> QED
    BY <1>1, <1>2, <1>7, <1>10, <2>1, <2>2, HeadState, RtdsTypesQuiet DEF receive_ends
<1>11. ASSUME NEW s \in open, drop(s) PROVE RtdsTypes'
  BY <1>1, <1>11, RtdsTypesQuiet DEF drop
<1> QED
  BY <1>4, <1>5, <1>6, <1>7, <1>8, <1>9, <1>10, <1>11, RtdsTypesConnected, RtdsTypesSubscribe
     DEF rtds_step

-----------------------------------------------------------------------------
(* The order of stop.                                                      *)

LEMMA StopPositions ==
  /\ Len(StopOrder) = 6 /\ AfterLoops = 7 /\ AfterSocket = 8
  /\ StopOrder[1] = "supervisor" /\ StopOrder[2] = "verify" /\ StopOrder[3] = "exit"
  /\ StopOrder[4] = "evaluation" /\ StopOrder[5] = "coin" /\ StopOrder[6] = "discovery"
BY DEF StopOrder, AfterLoops, AfterSocket

LEMMA LoopSet == Loop = {"supervisor", "verify", "exit", "evaluation", "coin", "discovery"}
<1>1. \A i \in 1..6 : i = 1 \/ i = 2 \/ i = 3 \/ i = 4 \/ i = 5 \/ i = 6
  OBVIOUS
<1>2. 1 \in 1..6 /\ 2 \in 1..6 /\ 3 \in 1..6 /\ 4 \in 1..6 /\ 5 \in 1..6 /\ 6 \in 1..6
  OBVIOUS
<1> QED
  BY <1>1, <1>2, StopPositions DEF Loop

LEMMA LeastPosition ==
  ASSUME NEW A, A \subseteq 1..6, A # {}
  PROVE  \E j \in A : \A k \in A : j <= k
<1>1. CASE 1 \in A
  BY <1>1
<1>2. CASE 1 \notin A /\ 2 \in A
  BY <1>2
<1>3. CASE 1 \notin A /\ 2 \notin A /\ 3 \in A
  BY <1>3
<1>4. CASE 1 \notin A /\ 2 \notin A /\ 3 \notin A /\ 4 \in A
  BY <1>4
<1>5. CASE 1 \notin A /\ 2 \notin A /\ 3 \notin A /\ 4 \notin A /\ 5 \in A
  BY <1>5
<1>6. CASE 1 \notin A /\ 2 \notin A /\ 3 \notin A /\ 4 \notin A /\ 5 \notin A
  <2>1. \A k \in A : k = 6 /\ k <= k
    BY <1>6
  <2>2. PICK x \in A : TRUE
    BY Zenon
  <2> QED
    BY <2>1, <2>2
<1> QED
  BY <1>1, <1>2, <1>3, <1>4, <1>5, <1>6

(* stop suspends next at the first live task from i on, or after them all. *)
LEMMA NextAwait ==
  ASSUME NEW i \in 1..7
  PROVE  /\ next_await(i) \in i..7
         /\ next_await(i) < 7 => is_alive(StopOrder[next_await(i)])
         /\ \A k \in i..6 : k < next_await(i) => ~ is_alive(StopOrder[k])
<1> DEFINE A == {j \in i..6 : is_alive(StopOrder[j])}
           m == CHOOSE j \in A : \A k \in A : j <= k
<1>1. next_await(i) = IF A = {} THEN 7 ELSE m
  BY StopPositions DEF next_await
<1>2. CASE A = {}
  BY <1>1, <1>2
<1>3. CASE A # {}
  <2>1. m \in A /\ \A k \in A : m <= k
    BY <1>3, LeastPosition
  <2>2. next_await(i) = m
    BY <1>1, <1>3
  <2> HIDE DEF m
  <2>3. \A k \in i..6 : k < m => ~ is_alive(StopOrder[k])
    BY <2>1
  <2> QED
    BY <2>1, <2>2, <2>3
<1> QED
  BY <1>2, <1>3

-----------------------------------------------------------------------------
(* Types of the bot.                                                       *)

RequestRecord == [op : {"none", "start", "stop"}, at : 0..AfterSocket]

LoopTypes ==
  /\ running \in [Loop -> BOOLEAN]
  /\ task \in [Loop -> TaskState]
  /\ orphans \in [Loop -> Nat]

PlainTypes ==
  /\ scenario \in Scenarios
  /\ proc \in {"down", "starting", "up"}
  /\ trading \in BOOLEAN /\ paused \in BOOLEAN
  /\ req \in [Caller -> RequestRecord]
  /\ calls \in Nat
  /\ creds \in {"none", "signing", "full"} /\ disk \in BOOLEAN
  /\ faults \in 0..MaxFaults

(* No clock was started later than now, and no more has run than passed.   *)
ClockTypes ==
  /\ UptimeInv
  /\ now <= MaxNow
  /\ ran <= now
  /\ uptime.start \in -1..now
  /\ uptime.acc \in Nat

BotTypes == PlainTypes /\ LoopTypes /\ ClockTypes /\ RtdsTypes

LEMMA BotTypesImplyTypeOK == BotTypes => BotTypeOK
<1> SUFFICES ASSUME BotTypes PROVE BotTypeOK
  OBVIOUS
<1>1. uptime.acc <= MaxNow /\ now \in 0..MaxNow /\ uptime.start \in -1..MaxNow
  BY BotConstants DEF BotTypes, PlainTypes, ClockTypes, UptimeInv
<1>2. uptime.acc \in 0..MaxNow
  BY <1>1, BotConstants DEF BotTypes, ClockTypes
<1>3. \A c \in Caller : req[c].op \in {"none", "start", "stop"} /\ req[c].at \in 0..AfterSocket
  BY DEF BotTypes, PlainTypes, RequestRecord
<1> QED
  BY <1>1, <1>2, <1>3, RtdsTypesImplyTypeOK DEF BotTypes, PlainTypes, LoopTypes, BotTypeOK

(* The clock.                                                              *)
LEMMA ClockStep ==
  ASSUME ClockTypes, paused \in BOOLEAN, [Next]_vars
  PROVE  ClockTypes'
<1>1. UptimeInv'
  BY UptimeStep DEF ClockTypes
<1>2. ASSUME now' = now, ran' \in {ran, 0}, uptime'.start \in {uptime.start, -1, now},
             uptime'.acc \in {uptime.acc, 0, ran}
      PROVE  ClockTypes'
  BY <1>1, <1>2 DEF ClockTypes, UptimeInv
<1>3. NotStarted.start = -1 /\ NotStarted.acc = 0
  BY DEF NotStarted
<1>4. resumed.start = now /\ resumed.acc = uptime.acc
  BY DEF resumed
<1>5. CASE UNCHANGED time_vars
  BY <1>2, <1>5 DEF time_vars
<1>6. CASE boot \/ begin_shutdown \/ end_shutdown \/ process_dies \/ bot_resume
  BY <1>2, <1>3, <1>4, <1>6 DEF boot, begin_start, begin_shutdown, begin_stop,
     end_shutdown, process_dies, fresh_process, bot_resume
<1>7. ASSUME NEW c, bot_start(c) \/ bot_stop(c) PROVE ClockTypes'
  BY <1>2, <1>3, <1>7 DEF bot_start, begin_start, bot_stop, begin_stop
<1>8. ASSUME NEW c, start_running(c) PROVE ClockTypes'
  <2>1. uptime' \in {resumed, uptime} /\ now' = now /\ ran' = ran
    BY <1>8 DEF start_running
  <2> QED
    BY <1>2, <1>4, <2>1
<1>9. CASE bot_pause
  <2>1. uptime' = [start |-> uptime.start, held |-> uptime.start # -1, acc |-> banked]
        /\ ~ paused /\ now' = now /\ ran' = ran
    BY <1>9 DEF bot_pause, current_state
  <2>2. banked = ran
    BY <2>1 DEF ClockTypes, UptimeInv, banked
  <2>3. uptime'.start = uptime.start /\ uptime'.acc = ran
    BY <2>1, <2>2, Zenon
  <2> QED
    BY <1>2, <2>1, <2>3
<1>10. CASE tick
  <2>1. now' = now + 1 /\ uptime' = uptime /\ ran' \in {ran, ran + 1} /\ now' <= MaxNow
    BY <1>10, BotConstants DEF tick, ClockTypes, UptimeInv
  <2> QED
    BY <1>1, <2>1 DEF ClockTypes, UptimeInv
<1>11. CASE verify_begin \/ verify_ok \/ verify_failed \/ lifespan_ready \/ supervisor_check
            \/ reader_dies \/ credential_update \/ socket_step
  BY <1>5, <1>11 DEF verify_begin, verify_ok, verify_failed, lifespan_ready, supervisor_check,
     reader_dies, credential_update, socket_step
<1>12. ASSUME NEW c, \/ end_start(c) \/ stop_step(c) \/ stop_socket(c) \/ end_stop(c)
                     \/ loop_dies(c) \/ orphan_ends(c)
       PROVE  ClockTypes'
  BY <1>5, <1>12 DEF end_start, stop_step, stop_socket, end_stop, loop_dies, orphan_ends
<1>13. CASE UNCHANGED vars
  BY <1>5, <1>13 DEF vars
<1> QED
  BY <1>6, <1>7, <1>8, <1>9, <1>10, <1>11, <1>12, <1>13
     DEF Next, process_step, request_step, loop_step

(* The loops' tasks and flags.                                             *)
LEMMA StartTypes ==
  ASSUME LoopTypes, NEW ok \in BOOLEAN, start_loops(ok)
  PROVE  LoopTypes'
<1>1. running' \in [Loop -> BOOLEAN]
  BY DEF LoopTypes, start_loops
<1>2. orphans' \in [Loop -> Nat]
  BY DEF LoopTypes, start_loops
<1>3. task' \in [Loop -> TaskState]
  <2> DEFINE t == [l \in Loop |-> IF creates(l) THEN "alive" ELSE task[l]]
  <2>1. t \in [Loop -> TaskState]
    BY DEF LoopTypes, TaskState
  <2>2. task' = t \/ task' = [t EXCEPT !["verify"] = "new"]
    BY DEF start_loops, retry_task
  <2> QED
    BY <2>1, <2>2 DEF TaskState
<1> QED
  BY <1>1, <1>2, <1>3 DEF LoopTypes

LEMMA StopTypes ==
  ASSUME LoopTypes, req \in [Caller -> RequestRecord], NEW c \in Caller, NEW i \in 0..6,
         stop_from(c, i)
  PROVE  LoopTypes' /\ req' \in [Caller -> RequestRecord]
<1>1. running' \in [Loop -> BOOLEAN] /\ orphans' \in [Loop -> Nat]
  BY DEF LoopTypes, stop_from, stop_flags
<1>2. task' \in [Loop -> TaskState]
  <2>1. /\ DOMAIN task' = Loop
        /\ \A l \in Loop : task'[l] \in {"dead", "none", task[l]}
        /\ task' = [l \in Loop |-> task'[l]]
    BY DEF stop_from
  <2> QED
    BY <2>1 DEF LoopTypes, TaskState
<1>3. req' \in [Caller -> RequestRecord]
  <2>1. next_await(i + 1) \in 0..8
    <3>1. i + 1 \in 1..7
      OBVIOUS
    <3> QED
      BY <3>1, NextAwait
  <2>2. PICK n \in 0..8 : req' = [req EXCEPT ![c] = [op |-> "stop", at |-> n]]
    <3> DEFINE j == next_await(i + 1)
               n == IF j = AfterLoops /\ ws = 0 THEN AfterSocket ELSE j
    <3>1. req' = [req EXCEPT ![c] = [op |-> "stop", at |-> n]]
      BY DEF stop_from
    <3>2. n \in 0..8
      BY <2>1, StopPositions
    <3> QED
      BY <3>1, <3>2
  <2>3. [op |-> "stop", at |-> n] \in RequestRecord
    BY StopPositions DEF RequestRecord
  <2> QED
    BY <2>2, <2>3
<1> QED
  BY <1>1, <1>2, <1>3 DEF LoopTypes

(* A process begins, and ends, with nothing.                               *)
LEMMA FreshTypes ==
  ASSUME PlainTypes, fresh_process, UNCHANGED <<scenario, calls, disk>>, faults' \in 0..MaxFaults
  PROVE  PlainTypes' /\ LoopTypes' /\ RtdsTypes'
<1>1. LoopTypes'
  BY DEF fresh_process, LoopTypes, TaskState
<1>2. Idle \in RequestRecord
  BY StopPositions DEF Idle, RequestRecord
<1>3. PlainTypes'
  BY <1>2 DEF PlainTypes, fresh_process
<1>4. RtdsTypes'
  <2>1. sent' = <<>> /\ DOMAIN sent' = 1..0 /\ 0 \in 0..MaxSockets
    BY RtdsConstants DEF fresh_process
  <2>2. runs' \in [1..MaxRuns -> RunRecord(DOMAIN sent')]
    BY DEF fresh_process, NoRun, RunRecord, RunState
  <2> QED
    <3>1. /\ ws_state' \in ConnectionState /\ ~ is_connected'
          /\ ws' = 0 /\ open' = {} /\ tokens' = 0
      BY DEF fresh_process, ConnectionState, is_connected
    <3>4. shutdown' \in BOOLEAN
      BY DEF fresh_process
    <3>2. \E n \in 0..MaxSockets : DOMAIN sent' = 1..n
      BY <2>1
    <3>3. \A s \in DOMAIN sent' : sent'[s] \in 0..MaxTokens
      BY <2>1
    <3> QED
      BY <2>2, <3>1, <3>2, <3>3, <3>4, RtdsConstants DEF RtdsTypes
<1> QED
  BY <1>1, <1>3, <1>4

(* Every step keeps the types.                                             *)
LEMMA BotTypesKept ==
  ASSUME BotTypes, [Next]_vars
  PROVE  BotTypes'
<1>1. /\ PlainTypes /\ LoopTypes /\ RtdsTypes
      /\ req \in [Caller -> RequestRecord] /\ paused \in BOOLEAN
      /\ trading \in BOOLEAN
  BY DEF BotTypes, PlainTypes
<1>2. ClockTypes'
  BY <1>1, ClockStep DEF BotTypes
<1>3. SUFFICES PlainTypes' /\ LoopTypes' /\ RtdsTypes'
  BY <1>2 DEF BotTypes
<1>4. \A x \in {"none", "start", "stop"} : [op |-> x, at |-> 0] \in RequestRecord
  BY StopPositions DEF RequestRecord
<1>5. Idle \in RequestRecord /\ Boot \in Caller
  BY <1>4 DEF Idle, Caller
<1>6. ASSUME NEW ok, NEW x \in {"none", "signing", "full"}, ok \in balance_answers(x)
      PROVE  ok \in BOOLEAN
  BY <1>6 DEF balance_answers
<1>7. ASSUME UNCHANGED loop_vars PROVE LoopTypes'
  BY <1>1, <1>7 DEF loop_vars, LoopTypes
<1>8. ASSUME UNCHANGED rtds_vars PROVE RtdsTypes'
  BY <1>1, <1>8, RtdsTypesStep
<1>9. ASSUME UNCHANGED <<scenario, proc, trading, paused, req, calls, creds, disk, faults>>
      PROVE  PlainTypes'
  BY <1>1, <1>9 DEF PlainTypes
<1>32. ASSUME NEW c, called(c) PROVE calls' \in Nat
  BY <1>1, <1>32 DEF called, PlainTypes
<1>10. CASE UNCHANGED vars
  BY <1>7, <1>8, <1>9, <1>10 DEF vars, req_vars, cred_vars
<1>11. CASE boot
  <2>1. PlainTypes'
    BY <1>1, <1>4, <1>5, <1>11 DEF PlainTypes, boot, begin_start, cred_vars
  <2> QED
    BY <1>7, <1>8, <1>11, <2>1 DEF boot
<1>12. CASE lifespan_ready
  <2>1. LoopTypes' /\ RtdsTypes'
    BY <1>1, <1>12, StartTypes, RtdsTypesStep DEF lifespan_ready
  <2>2. creds' \in {"none", "signing", "full"}
    BY <1>1, <1>12 DEF lifespan_ready, load_encrypted, PlainTypes
  <2>3. trading' \in BOOLEAN
    BY <1>12 DEF lifespan_ready, balance_answers
  <2> QED
    BY <1>1, <1>5, <1>12, <2>1, <2>2, <2>3 DEF lifespan_ready, PlainTypes
<1>13. CASE begin_shutdown
  <2>1. LoopTypes' /\ req' \in [Caller -> RequestRecord]
    BY <1>1, <1>5, <1>13, StopTypes DEF begin_shutdown, begin_stop
  <2>2. RtdsTypes'
    BY <1>1, <1>13, RtdsTypesStep DEF begin_shutdown, begin_stop, stop_from
  <2> QED
    BY <1>1, <1>13, <2>1, <2>2 DEF begin_shutdown, begin_stop, PlainTypes, cred_vars
<1>14. CASE end_shutdown
  BY <1>1, <1>14, FreshTypes DEF end_shutdown, PlainTypes
<1>15. CASE process_dies
  <2>1. faults' \in 0..MaxFaults
    BY <1>1, <1>15, BotConstants DEF process_dies, PlainTypes
  <2> QED
    BY <1>1, <1>15, <2>1, FreshTypes DEF process_dies
<1>16. ASSUME NEW c \in Caller, bot_start(c) PROVE PlainTypes' /\ LoopTypes' /\ RtdsTypes'
  <2>1. PlainTypes'
    BY <1>1, <1>4, <1>16, <1>32 DEF PlainTypes, bot_start, begin_start, cred_vars
  <2> QED
    BY <1>7, <1>8, <1>16, <2>1 DEF bot_start
<1>17. ASSUME NEW c \in Caller, start_running(c) PROVE PlainTypes' /\ LoopTypes' /\ RtdsTypes'
  <2>1. PlainTypes'
    BY <1>1, <1>17, <1>32 DEF PlainTypes, start_running, cred_vars
  <2> QED
    BY <1>7, <1>8, <1>17, <2>1 DEF start_running
<1>18. ASSUME NEW c \in Caller, end_start(c) PROVE PlainTypes' /\ LoopTypes' /\ RtdsTypes'
  <2>1. PICK ok \in balance_answers(creds) : start_loops(ok) /\ trading' = ok
    BY <1>18 DEF end_start
  <2>2. ok \in BOOLEAN
    BY <1>1, <1>6, <2>1 DEF PlainTypes
  <2>3. LoopTypes' /\ RtdsTypes'
    BY <1>1, <1>18, <2>1, <2>2, StartTypes, RtdsTypesStep DEF end_start
  <2>4. trading' \in BOOLEAN
    BY <2>1, <2>2
  <2> QED
    BY <1>1, <1>5, <1>18, <2>3, <2>4 DEF end_start, PlainTypes, cred_vars
<1>19. ASSUME NEW c \in Caller, bot_stop(c) PROVE PlainTypes' /\ LoopTypes' /\ RtdsTypes'
  <2>1. LoopTypes' /\ req' \in [Caller -> RequestRecord]
    BY <1>1, <1>19, StopTypes DEF bot_stop, begin_stop
  <2>2. RtdsTypes'
    BY <1>1, <1>19, RtdsTypesStep DEF bot_stop, begin_stop, stop_from
  <2> QED
    BY <1>1, <1>19, <1>32, <2>1, <2>2 DEF bot_stop, begin_stop, PlainTypes, cred_vars
<1>20. ASSUME NEW c \in Caller, stop_step(c) PROVE PlainTypes' /\ LoopTypes' /\ RtdsTypes'
  <2>1. req[c].at \in 0..6
    BY <1>1, <1>20, StopPositions DEF stop_step, RequestRecord
  <2>2. LoopTypes' /\ req' \in [Caller -> RequestRecord]
    BY <1>1, <1>20, <2>1, StopTypes DEF stop_step
  <2>3. RtdsTypes'
    BY <1>1, <1>20, RtdsTypesStep DEF stop_step, stop_from
  <2> QED
    BY <1>1, <1>20, <2>2, <2>3 DEF stop_step, PlainTypes, cred_vars
<1>21. ASSUME NEW c \in Caller, stop_socket(c) PROVE PlainTypes' /\ LoopTypes' /\ RtdsTypes'
  <2>1. RtdsTypes' /\ LoopTypes'
    BY <1>1, <1>7, <1>21, RtdsTypesStep DEF stop_socket
  <2>2. req' \in [Caller -> RequestRecord]
    BY <1>1, <1>21, StopPositions DEF stop_socket, RequestRecord
  <2> QED
    BY <1>1, <1>21, <2>1, <2>2 DEF stop_socket, PlainTypes, cred_vars
<1>22. ASSUME NEW c \in Caller, end_stop(c) PROVE PlainTypes' /\ LoopTypes' /\ RtdsTypes'
  BY <1>1, <1>5, <1>7, <1>8, <1>22 DEF end_stop, PlainTypes, cred_vars
<1>23. CASE verify_begin \/ verify_failed
  <2>1. LoopTypes'
    BY <1>1, <1>23 DEF verify_begin, verify_failed, LoopTypes, TaskState
  <2> QED
    BY <1>8, <1>9, <1>23, <2>1 DEF verify_begin, verify_failed, req_vars, cred_vars
<1>24. CASE verify_ok
  <2>1. LoopTypes'
    BY <1>1, <1>24 DEF verify_ok, LoopTypes, TaskState
  <2> QED
    BY <1>1, <1>8, <1>24, <2>1 DEF verify_ok, PlainTypes, cred_vars
<1>25. CASE supervisor_check
  <2>1. LoopTypes'
    BY <1>1, <1>25 DEF supervisor_check, LoopTypes, TaskState
  <2>2. RtdsTypes'
    BY <1>1, <1>25, RtdsTypesStep DEF supervisor_check
  <2> QED
    BY <1>9, <1>25, <2>1, <2>2 DEF supervisor_check, req_vars, cred_vars
<1>26. CASE reader_dies
  <2>1. RtdsTypes' /\ LoopTypes'
    BY <1>1, <1>7, <1>26, RtdsTypesStep DEF reader_dies
  <2> QED
    BY <1>1, <1>26, <2>1, BotConstants DEF reader_dies, PlainTypes, req_vars, cred_vars
<1>27. ASSUME NEW l \in Loop, loop_dies(l) PROVE PlainTypes' /\ LoopTypes' /\ RtdsTypes'
  <2>1. LoopTypes'
    BY <1>1, <1>27 DEF loop_dies, LoopTypes, TaskState
  <2>2. PlainTypes'
    BY <1>1, <1>27, BotConstants DEF loop_dies, PlainTypes, req_vars, cred_vars
  <2> QED
    BY <1>8, <1>27, <2>1, <2>2 DEF loop_dies
<1>28. ASSUME NEW l \in Loop, orphan_ends(l) PROVE PlainTypes' /\ LoopTypes' /\ RtdsTypes'
  <2>1. LoopTypes'
    BY <1>1, <1>28 DEF orphan_ends, LoopTypes
  <2> QED
    BY <1>8, <1>9, <1>28, <2>1 DEF orphan_ends, req_vars, cred_vars
<1>29. CASE bot_pause \/ bot_resume \/ tick
  BY <1>1, <1>7, <1>8, <1>29 DEF bot_pause, bot_resume, tick, PlainTypes, req_vars, cred_vars
<1>30. CASE credential_update
  <2>1. creds' \in {"none", "signing", "full"} /\ disk' \in BOOLEAN
    BY <1>1, <1>30 DEF credential_update, derive_api_creds, save_encrypted, PlainTypes
  <2> QED
    BY <1>1, <1>7, <1>8, <1>30, <2>1 DEF credential_update, PlainTypes, req_vars
<1>31. CASE socket_step
  BY <1>1, <1>7, <1>9, <1>31, RtdsTypesStep DEF socket_step, req_vars, cred_vars
<1> QED
  BY <1>10, <1>11, <1>12, <1>13, <1>14, <1>15, <1>16, <1>17, <1>18, <1>19, <1>20, <1>21, <1>22,
     <1>23, <1>24, <1>25, <1>26, <1>27, <1>28, <1>29, <1>30, <1>31
     DEF Next, process_step, request_step, loop_step

LEMMA BotTypesAlways == Spec => []BotTypes
<1>1. Init => BotTypes
  <2> SUFFICES ASSUME Init PROVE BotTypes
    OBVIOUS
  <2>1. LoopTypes
    BY DEF Init, LoopTypes, TaskState
  <2>2. Idle \in RequestRecord
    BY StopPositions DEF Idle, RequestRecord
  <2>3. PlainTypes
    <3>1. req \in [Caller -> RequestRecord]
      BY <2>2 DEF Init
    <3>2. trading \in BOOLEAN /\ paused \in BOOLEAN /\ disk \in BOOLEAN
      BY DEF Init
    <3>3. /\ scenario \in Scenarios /\ proc = "down" /\ calls = 0 /\ creds = "none"
          /\ faults = 0
      BY DEF Init
    <3> QED
      BY <3>1, <3>2, <3>3, BotConstants DEF PlainTypes
  <2>4. ClockTypes
    BY BotConstants DEF Init, ClockTypes, UptimeInv, NotStarted
  <2>5. RtdsTypes
    <3>1. sent = <<>> /\ DOMAIN sent = 1..0 /\ 0 \in 0..MaxSockets
      BY RtdsConstants DEF Init, RtdsInit
    <3>2. runs \in [1..MaxRuns -> RunRecord(DOMAIN sent)]
      BY DEF Init, RtdsInit, NoRun, RunRecord, RunState
    <3>3. /\ ws_state \in ConnectionState /\ ~ is_connected
          /\ ws = 0 /\ open = {} /\ tokens = 0
      BY DEF Init, RtdsInit, ConnectionState, is_connected
    <3>4. shutdown \in BOOLEAN
      BY DEF Init, RtdsInit
    <3>5. \E n \in 0..MaxSockets : DOMAIN sent = 1..n
      BY <3>1
    <3>6. \A s \in DOMAIN sent : sent[s] \in 0..MaxTokens
      BY <3>1
    <3> QED
      BY <3>2, <3>3, <3>4, <3>5, <3>6, RtdsConstants DEF RtdsTypes
  <2> QED
    BY <2>1, <2>3, <2>4, <2>5 DEF BotTypes
<1>2. BotTypes /\ [Next]_vars => BotTypes'
  BY BotTypesKept
<1> QED
  BY <1>1, <1>2, PTL DEF Spec

(* No clock of the bot runs past the process's own, no request is          *)
(* suspended outside the positions of stop, and no socket or run_forever   *)
(* is one that was never opened or called, over any requests, deaths and   *)
(* restarts (the state of Orchestrator, RTDSClient and the bot API).       *)
THEOREM BotTypeCorrect == Spec => []BotTypeOK
BY BotTypesAlways, BotTypesImplyTypeOK, PTL

-----------------------------------------------------------------------------
(* The bot is up or down as a whole.                                       *)

Down == \A l \in Loop : ~ running[l] /\ ~ is_alive(l)

(* Degraded mode has its retry.                                            *)
Up ==
  /\ \A l \in Loop \ {"verify"} : running[l]
  /\ ~ trading => running["verify"] /\ is_alive("verify")

Silent == ~ trading /\ ~ paused /\ uptime = NotStarted

(* What a stop suspended at position i has left behind it.                 *)
Cleared(i) ==
  \A k \in 1..6 : k <= i => ~ running[StopOrder[k]] /\ ~ is_alive(StopOrder[k])

NoRequest == \A c \in Caller : req[c].op = "none"

(* One request at a time; a start begins with nothing running, and a stop  *)
(* clears the loops in its order, with trading off and nobody to bring     *)
(* them back.                                                              *)
Orderly ==
  /\ \A l \in Loop : orphans[l] = 0
  /\ \A c, d \in Caller : req[c].op # "none" /\ req[d].op # "none" => c = d
  /\ NoRequest => Up \/ (Down /\ Silent)
  /\ \A c \in Caller : req[c].op = "start" => Down
  /\ \A c \in Caller : req[c].op = "stop" => Silent /\ req[c].at >= 1 /\ Cleared(req[c].at)
  /\ proc = "down" => Down /\ NoRequest

LifeInv == ~ raced => Orderly

LEMMA PositionIsLoop == \A k \in 1..6 : StopOrder[k] \in Loop
BY StopPositions DEF Loop

(* What is cleared at the last position is everything.                     *)
LEMMA ClearedAll ==
  ASSUME Cleared(6)
  PROVE  Down
<1> SUFFICES ASSUME NEW l \in Loop PROVE ~ running[l] /\ ~ is_alive(l)
  BY DEF Down
<1>1. PICK k \in 1..6 : l = StopOrder[k]
  BY StopPositions DEF Loop
<1> QED
  BY <1>1 DEF Cleared

(* One stretch of stop: it clears what lies before its next suspension and *)
(* leaves no task behind.                                                  *)
LEMMA StopStretch ==
  ASSUME LoopTypes, req \in [Caller -> RequestRecord], NEW c \in Caller, NEW i \in 0..6,
         Cleared(i), \A l \in Loop : orphans[l] = 0, stop_from(c, i)
  PROVE  /\ \A l \in Loop : orphans'[l] = 0
         /\ \E n \in 1..8 : req' = [req EXCEPT ![c] = [op |-> "stop", at |-> n]] /\ Cleared(n)'
<1>1. i + 1 \in 1..7
  OBVIOUS
<1>2. PICK j \in (i + 1)..7 :
         /\ j = next_await(i + 1)
         /\ \A k \in (i + 1)..6 : k < j => ~ is_alive(StopOrder[k])
  BY <1>1, NextAwait
<1>4. PICK n \in 1..8 : /\ n = IF j = AfterLoops /\ ws = 0 THEN AfterSocket ELSE j
                        /\ n = j \/ j = 7
  BY <1>2, StopPositions
<1>3. /\ running' = stop_flags(i + 1, j)
      /\ task' = [l \in Loop |-> IF j < 7 /\ l = StopOrder[j] THEN "dead"
                                ELSE IF l \in stop_forgets(i, j) THEN "none" ELSE task[l]]
      /\ orphans' = [l \in Loop |->
                       orphans[l] + (IF l \in stop_forgets(i, j) /\ is_alive(l) THEN 1 ELSE 0)]
      /\ req' = [req EXCEPT ![c] = [op |-> "stop", at |-> n]]
  BY <1>2, <1>4, StopPositions DEF stop_from
<1>5. \A l \in stop_forgets(i, j) : ~ is_alive(l)
  <2> SUFFICES ASSUME NEW l \in stop_forgets(i, j) PROVE ~ is_alive(l)
    OBVIOUS
  <2>1. PICK k \in i..(j - 1) : k > 0 /\ StopOrder[k] = l
    BY DEF stop_forgets
  <2>2. k \in 1..6
    BY <1>2, <2>1
  <2>3. k <= i \/ (k \in (i + 1)..6 /\ k < j)
    BY <1>2, <2>1, <2>2
  <2> QED
    BY <1>2, <2>1, <2>2, <2>3 DEF Cleared
<1>6. \A l \in Loop : orphans'[l] = 0
  BY <1>3, <1>5
<1>7. \A l \in Loop : is_alive(l)' => is_alive(l)
  BY <1>3 DEF is_alive
<1>8. ASSUME NEW k \in 1..6, k <= n PROVE ~ running'[StopOrder[k]] /\ ~ is_alive(StopOrder[k])'
  <2>1. StopOrder[k] \in Loop
    BY PositionIsLoop
  <2>2. CASE k <= i
    <3>1. ~ running[StopOrder[k]] /\ ~ is_alive(StopOrder[k])
      BY <2>2 DEF Cleared
    <3>2. running'[StopOrder[k]] => running[StopOrder[k]]
      BY <1>3, <2>1 DEF stop_flags
    <3> QED
      BY <1>7, <2>1, <3>1, <3>2
  <2>3. CASE k > i
    <3>1. k \in (i + 1)..j
      BY <1>2, <1>4, <1>8, <2>3
    <3>2. ~ running'[StopOrder[k]]
      <4>1. \E m \in (i + 1)..j : m <= Len(StopOrder) /\ StopOrder[m] = StopOrder[k]
        BY <3>1, StopPositions
      <4>2. running'[StopOrder[k]] =
              (running[StopOrder[k]]
                 /\ ~ \E m \in (i + 1)..j : m <= Len(StopOrder) /\ StopOrder[m] = StopOrder[k])
        BY <1>3, <2>1 DEF stop_flags
      <4> QED
        BY <4>1, <4>2
    <3>3. CASE k < j
      BY <1>2, <1>7, <2>1, <3>1, <3>2, <3>3
    <3>4. CASE k = j
      <4>1. task'[StopOrder[k]] = "dead"
        BY <1>2, <1>3, <2>1, <3>4
      <4> QED
        BY <3>2, <4>1 DEF is_alive
    <3> QED
      BY <3>1, <3>2, <3>3, <3>4
  <2> QED
    BY <2>2, <2>3
<1>9. Cleared(n)'
  BY <1>8 DEF Cleared
<1> QED
  BY <1>3, <1>4, <1>6, <1>9

(* The evaluation loop is one of the loops, and not the retry.             *)
LEMMA LoopNames == "evaluation" \in Loop /\ "verify" \in Loop
<1>1. StopOrder[2] = "verify" /\ StopOrder[4] = "evaluation" /\ Len(StopOrder) = 6
  BY DEF StopOrder
<1> QED
  BY <1>1 DEF Loop

(* A start from nothing creates each loop once, and the retry if it must.  *)
LEMMA StartStretch ==
  ASSUME LoopTypes, Down, \A l \in Loop : orphans[l] = 0, NEW ok \in BOOLEAN, start_loops(ok)
  PROVE  /\ \A l \in Loop : orphans'[l] = 0
         /\ \A l \in Loop \ {"verify"} : running'[l]
         /\ ~ ok => running'["verify"] /\ is_alive("verify")'
<1>1. \A l \in Loop : orphans'[l] = 0
  BY DEF start_loops, Down
<1>2. \A l \in Loop \ {"verify"} : running'[l]
  BY DEF start_loops
<1>3. CASE ok = FALSE
  <2>1. ~ running["verify"]
    BY LoopNames DEF Down
  <2>2. running'["verify"]
    BY <1>3, LoopNames DEF start_loops
  <2>3. task'["verify"] = "new"
    BY <1>3, <2>1, LoopNames DEF start_loops, retry_task
  <2> QED
    BY <1>1, <1>2, <2>2, <2>3 DEF is_alive
<1> QED
  BY <1>1, <1>2, <1>3

(* Tasks that end, other than a degraded bot's retry, disturb nothing.     *)
LEMMA OrderlyKept ==
  ASSUME Orderly, UNCHANGED <<trading, paused, uptime, running, orphans, req, proc>>,
         \A l \in Loop : is_alive(l)' => is_alive(l),
         ~ trading /\ running["verify"] /\ is_alive("verify") => is_alive("verify")'
  PROVE  Orderly'
<1>1. (Up => Up') /\ (Down => Down') /\ (Silent => Silent') /\ NoRequest' = NoRequest
  BY DEF Up, Down, Silent, NoRequest
<1>2. \A i : Cleared(i) => Cleared(i)'
  BY PositionIsLoop DEF Cleared
<1>3. \A c \in Caller : req[c].op = "stop" => Cleared(req[c].at)'
  BY <1>2 DEF Orderly
<1>4. \A c \in Caller : req'[c].op = "stop" => Silent' /\ req'[c].at >= 1 /\ Cleared(req[c].at)'
  BY <1>1, <1>3 DEF Orderly
<1> QED
  BY <1>1, <1>4 DEF Orderly, NoRequest

(* A stop that begins.                                                     *)
LEMMA OrderlyStop ==
  ASSUME BotTypes, Orderly, NEW c \in Caller, NoRequest, begin_stop(c), proc' # "down"
  PROVE  Orderly'
<1>1. Cleared(0)
  BY DEF Cleared
<1>2. /\ LoopTypes /\ req \in [Caller -> RequestRecord] /\ 0 \in 0..6
      /\ \A l \in Loop : orphans[l] = 0
  BY DEF BotTypes, PlainTypes, Orderly
<1>3. /\ \A l \in Loop : orphans'[l] = 0
      /\ \E n \in 1..8 : req' = [req EXCEPT ![c] = [op |-> "stop", at |-> n]] /\ Cleared(n)'
  BY <1>1, <1>2, StopStretch DEF begin_stop
<1>4. PICK n \in 1..8 : req' = [req EXCEPT ![c] = [op |-> "stop", at |-> n]] /\ Cleared(n)'
  BY <1>3
<1>5. /\ req'[c] = [op |-> "stop", at |-> n]
      /\ \A d \in Caller : d # c => req'[d].op = "none"
  BY <1>2, <1>4 DEF NoRequest
<1>6. Silent'
  BY DEF begin_stop, Silent
<1> QED
  BY <1>3, <1>4, <1>5, <1>6 DEF Orderly, NoRequest

(* A stop in progress goes on.                                             *)
LEMMA OrderlyStopStep ==
  ASSUME BotTypes, Orderly, NEW c \in Caller, stop_step(c)
  PROVE  Orderly'
<1>1. req[c].op = "stop" /\ req[c].at \in 0..6 /\ Cleared(req[c].at)
  BY StopPositions DEF stop_step, Orderly, BotTypes, PlainTypes, RequestRecord
<1>2. /\ LoopTypes /\ req \in [Caller -> RequestRecord]
      /\ \A l \in Loop : orphans[l] = 0
  BY DEF BotTypes, PlainTypes, Orderly
<1>3. /\ \A l \in Loop : orphans'[l] = 0
      /\ \E n \in 1..8 : req' = [req EXCEPT ![c] = [op |-> "stop", at |-> n]] /\ Cleared(n)'
  BY <1>1, <1>2, StopStretch DEF stop_step
<1>4. PICK n \in 1..8 : req' = [req EXCEPT ![c] = [op |-> "stop", at |-> n]] /\ Cleared(n)'
  BY <1>3
<1>5. /\ req'[c] = [op |-> "stop", at |-> n]
      /\ \A d \in Caller : d # c => req'[d].op = "none"
  BY <1>1, <1>2, <1>4 DEF Orderly
<1>6. Silent' /\ proc' # "down"
  BY <1>1 DEF stop_step, Silent, Orderly, NoRequest, time_vars
<1> QED
  BY <1>3, <1>4, <1>5, <1>6 DEF Orderly, NoRequest

(* A stop that ends has taken everything down.                             *)
LEMMA OrderlyStopped ==
  ASSUME BotTypes, Orderly, NEW c \in Caller, stop_socket(c) \/ end_stop(c)
  PROVE  Orderly'
<1>1. req[c].op = "stop" /\ req[c].at \in {7, 8} /\ Cleared(req[c].at) /\ Silent
  BY StopPositions DEF stop_socket, end_stop, Orderly
<1>2. Cleared(6)
  BY <1>1 DEF Cleared
<1>3. Down /\ Silent /\ proc # "down"
  BY <1>1, <1>2, ClearedAll DEF Orderly, NoRequest
<1>4. Down' /\ Silent' /\ proc' # "down" /\ \A l \in Loop : orphans'[l] = 0
  BY <1>3 DEF stop_socket, end_stop, loop_vars, time_vars, Down, Silent, is_alive, Orderly
<1>5. req \in [Caller -> RequestRecord]
  BY DEF BotTypes, PlainTypes
<1>6. \A d \in Caller : d # c => req[d].op = "none" /\ req'[d] = req[d]
  BY <1>1, <1>5 DEF Orderly, stop_socket, end_stop
<1>7. \A k : Cleared(k)'
  BY <1>4, PositionIsLoop DEF Cleared, Down
<1>8. req'[c].op = "none" \/ (req'[c].op = "stop" /\ req'[c].at = 8)
  <2>1. CASE stop_socket(c)
    BY <1>1, <1>5, <2>1, StopPositions DEF stop_socket, RequestRecord
  <2>2. CASE end_stop(c)
    BY <1>5, <2>2 DEF end_stop, Idle
  <2> QED
    BY <2>1, <2>2
<1> QED
  BY <1>4, <1>6, <1>7, <1>8 DEF Orderly, NoRequest

(* A start that has its loads brings everything up.                        *)
LEMMA OrderlyStarted ==
  ASSUME BotTypes, Orderly, NEW c \in Caller, req[c].op = "start",
         NEW ok \in BOOLEAN, start_loops(ok), req' = [req EXCEPT ![c] = Idle],
         ~ trading' => ~ ok, proc' # "down"
  PROVE  Orderly'
<1>1. /\ LoopTypes /\ req \in [Caller -> RequestRecord] /\ Down
      /\ \A l \in Loop : orphans[l] = 0
  BY DEF BotTypes, PlainTypes, Orderly
<1>2. /\ \A l \in Loop : orphans'[l] = 0
      /\ \A l \in Loop \ {"verify"} : running'[l]
      /\ ~ ok => running'["verify"] /\ is_alive("verify")'
  BY <1>1, StartStretch
<1>3. Up'
  BY <1>2 DEF Up
<1>4. \A d \in Caller : req'[d].op = "none"
  BY <1>1 DEF Orderly, Idle
<1> QED
  BY <1>2, <1>3, <1>4 DEF Orderly, NoRequest

(* A start that begins finds nothing.                                      *)
LEMMA OrderlyStart ==
  ASSUME BotTypes, Orderly, NEW c \in Caller, NoRequest, Down, begin_start(c),
         UNCHANGED loop_vars, proc' # "down"
  PROVE  Orderly'
<1>1. Down' /\ \A l \in Loop : orphans'[l] = 0
  BY DEF Down, is_alive, loop_vars, Orderly
<1>2. /\ req'[c].op = "start"
      /\ \A d \in Caller : d # c => req'[d].op = "none"
  BY DEF begin_start, BotTypes, PlainTypes, NoRequest
<1> QED
  BY <1>1, <1>2 DEF Orderly, NoRequest

(* A process that ends leaves nothing.                                     *)
LEMMA OrderlyFresh ==
  ASSUME fresh_process
  PROVE  Orderly'
<1>1. /\ running' = [l \in Loop |-> FALSE]
      /\ task' = [l \in Loop |-> "none"]
      /\ orphans' = [l \in Loop |-> 0]
      /\ req' = [c \in Caller |-> Idle]
  BY DEF fresh_process
<1>2. Down' /\ \A l \in Loop : orphans'[l] = 0
  BY <1>1 DEF Down, is_alive
<1>3. \A c \in Caller : req'[c].op = "none"
  BY <1>1 DEF Idle
<1>4. Silent'
  BY DEF fresh_process, Silent
<1> QED
  BY <1>2, <1>3, <1>4 DEF Orderly, NoRequest

(* The supervisor of an orderly bot acts between requests only.            *)
LEMMA OrderlySupervisor ==
  ASSUME BotTypes, Orderly, supervisor_check
  PROVE  Orderly'
<1>1. running["supervisor"] /\ "supervisor" \in Loop /\ StopOrder[1] = "supervisor"
  BY LoopSet, StopPositions DEF supervisor_check
<1>2. ~ Down /\ \A i \in Nat : i >= 1 => ~ Cleared(i)
  BY <1>1 DEF Down, Cleared
<1>3. \A c \in Caller : req[c] \in RequestRecord
  BY DEF BotTypes, PlainTypes
<1>4. NoRequest
  BY <1>2, <1>3, StopPositions DEF NoRequest, Orderly, RequestRecord
<1>5. Up /\ proc # "down"
  BY <1>2, <1>4 DEF Orderly
<1>6. UNCHANGED <<trading, running, orphans, req, proc>>
  BY DEF supervisor_check, req_vars
<1>7. is_alive("verify") => is_alive("verify")'
  BY LoopNames DEF supervisor_check, is_alive
<1>8. Up'
  BY <1>5, <1>6, <1>7 DEF Up
<1> QED
  BY <1>4, <1>5, <1>6, <1>8 DEF Orderly, NoRequest

LEMMA LifeStep ==
  ASSUME BotTypes, LifeInv, [Next]_vars
  PROVE  LifeInv'
<1> SUFFICES ASSUME ~ raced' PROVE Orderly'
  BY DEF LifeInv
<1>1. /\ LoopTypes /\ task \in [Loop -> TaskState] /\ req \in [Caller -> RequestRecord]
      /\ Boot \in Caller /\ creds \in {"none", "signing", "full"}
  BY DEF BotTypes, PlainTypes, LoopTypes, Caller
<1>2. CASE end_shutdown \/ process_dies
  BY <1>2, OrderlyFresh DEF end_shutdown, process_dies
<1>3. ASSUME ~ raced PROVE Orderly
  BY <1>3 DEF LifeInv
<1>4. CASE UNCHANGED vars
  BY <1>3, <1>4, OrderlyKept DEF vars, loop_vars, req_vars, time_vars, is_alive
<1>5. CASE boot
  BY <1>1, <1>3, <1>5, OrderlyStart DEF boot, Orderly
<1>6. CASE lifespan_ready
  <2>1. /\ start_loops(FALSE) /\ req[Boot].op = "start" /\ proc' = "up"
        /\ req' = [req EXCEPT ![Boot] = Idle] /\ raced' = raced
    BY <1>6 DEF lifespan_ready
  <2> QED
    BY <1>1, <1>3, <2>1, OrderlyStarted
<1>7. CASE begin_shutdown
  <2>1. NoRequest /\ begin_stop(Boot) /\ proc' = "up" /\ raced' = raced
    BY <1>7 DEF begin_shutdown, NoRequest, Idle
  <2> QED
    BY <1>1, <1>3, <2>1, OrderlyStop
<1>8. ASSUME NEW c \in Caller, called(c)
      PROVE  Orderly /\ NoRequest /\ proc = "up"
  <2>1. ~ raced /\ ~ \E d \in Caller : req[d].op # "none"
    BY <1>8, Zenon DEF called
  <2> QED
    BY <1>3, <1>8, <2>1 DEF called, NoRequest
<1>9. ASSUME NEW c \in Caller, bot_start(c) PROVE Orderly'
  <2>1. /\ Orderly /\ NoRequest /\ ~ running["exit"] /\ "exit" \in Loop \ {"verify"}
        /\ begin_start(c) /\ UNCHANGED loop_vars /\ proc' = "up"
    BY <1>8, <1>9, LoopSet DEF bot_start
  <2>2. Down
    BY <2>1 DEF Orderly, Up
  <2> QED
    BY <2>1, <2>2, OrderlyStart
<1>10. ASSUME NEW c \in Caller, start_running(c) PROVE Orderly'
  <2>1. /\ Orderly /\ NoRequest /\ running["exit"] /\ "exit" \in Loop /\ trading'
        /\ UNCHANGED <<running, task, orphans, req>> /\ proc' = "up"
    BY <1>8, <1>10, LoopSet DEF start_running, loop_vars
  <2>2. Up'
    BY <2>1 DEF Orderly, Down, Up
  <2> QED
    BY <2>1, <2>2 DEF Orderly, NoRequest
<1>11. ASSUME NEW c \in Caller, end_start(c) PROVE Orderly'
  <2>1. PICK ok \in balance_answers(creds) : start_loops(ok) /\ trading' = ok
    BY <1>11 DEF end_start
  <2>2. ok \in BOOLEAN
    BY <1>1, <2>1 DEF balance_answers
  <2>3. /\ req[c].op = "start" /\ req' = [req EXCEPT ![c] = Idle] /\ proc' = proc
        /\ raced' = raced
    BY <1>11 DEF end_start
  <2>4. Orderly /\ proc # "down"
    BY <1>3, <2>3 DEF Orderly, NoRequest
  <2> QED
    BY <2>1, <2>2, <2>3, <2>4, OrderlyStarted
<1>12. ASSUME NEW c \in Caller, bot_stop(c) PROVE Orderly'
  <2>1. Orderly /\ NoRequest /\ begin_stop(c) /\ proc' = "up"
    BY <1>8, <1>12 DEF bot_stop
  <2> QED
    BY <2>1, OrderlyStop
<1>13. ASSUME NEW c \in Caller, stop_step(c) \/ stop_socket(c) \/ end_stop(c) PROVE Orderly'
  <2>1. raced' = raced
    BY <1>13 DEF stop_step, stop_socket, end_stop
  <2> QED
    BY <1>3, <1>13, <2>1, OrderlyStopStep, OrderlyStopped
<1>14. CASE verify_begin \/ verify_failed
  <2>1. /\ UNCHANGED <<trading, paused, uptime, running, orphans, req, proc, raced>>
        /\ \A l \in Loop : is_alive(l)' => is_alive(l)
    BY <1>1, <1>14, LoopNames
       DEF verify_begin, verify_failed, req_vars, time_vars, is_alive
  <2>2. ~ trading /\ running["verify"] => is_alive("verify")'
    BY <1>1, <1>14, LoopNames DEF verify_begin, verify_failed, is_alive
  <2> QED
    BY <1>3, <2>1, <2>2, OrderlyKept
<1>15. CASE verify_ok
  <2>1. /\ task["verify"] = "alive" /\ trading' = TRUE
        /\ UNCHANGED <<orphans, req, proc>>
        /\ \A l \in Loop \ {"verify"} : running'[l] = running[l]
    BY <1>1, <1>15 DEF verify_ok, LoopTypes
  <2>2. ~ raced /\ in_progress("stop") = {}
    BY <1>15, Zenon DEF verify_ok
  <2>3. Orderly /\ ~ Down
    BY <1>3, <2>1, <2>2, LoopNames DEF Down, is_alive
  <2>4. NoRequest
    BY <1>1, <2>2, <2>3 DEF in_progress, NoRequest, Orderly, RequestRecord
  <2>5. Up' /\ proc' # "down"
    BY <2>1, <2>3, <2>4 DEF Orderly, Up
  <2> QED
    BY <2>1, <2>3, <2>4, <2>5 DEF Orderly, NoRequest
<1>16. CASE supervisor_check
  BY <1>3, <1>16, OrderlySupervisor DEF supervisor_check, req_vars
<1>17. ASSUME NEW l \in Loop, loop_dies(l) PROVE Orderly'
  <2>1. /\ UNCHANGED <<trading, paused, uptime, running, orphans, req, proc, raced>>
        /\ \A m \in Loop : is_alive(m)' => is_alive(m)
        /\ is_alive("verify") => is_alive("verify")'
    BY <1>1, <1>17, LoopNames DEF loop_dies, req_vars, time_vars, is_alive
  <2> QED
    BY <1>3, <2>1, OrderlyKept
<1>18. ASSUME NEW l \in Loop, orphan_ends(l) PROVE Orderly'
  BY <1>3, <1>18 DEF orphan_ends, req_vars, Orderly
<1>19. CASE reader_dies \/ tick \/ credential_update \/ socket_step
  <2>1. UNCHANGED <<trading, paused, uptime, running, task, orphans, req, proc, raced>>
    BY <1>19 DEF reader_dies, tick, credential_update, socket_step, loop_vars, req_vars,
       time_vars
  <2> QED
    BY <1>3, <2>1, OrderlyKept DEF is_alive
<1>20. CASE bot_pause \/ bot_resume
  <2>1. trading /\ UNCHANGED <<trading, running, task, orphans, req, proc, raced>>
    BY <1>20 DEF bot_pause, bot_resume, current_state, loop_vars, req_vars
  <2>2. Orderly /\ ~ Silent
    BY <1>3, <2>1 DEF Silent
  <2>3. (Up => Up') /\ (Down => Down')
    BY <2>1 DEF Up, Down, is_alive
  <2> QED
    BY <2>1, <2>2, <2>3 DEF Orderly, NoRequest
<1> QED
  BY <1>2, <1>4, <1>5, <1>6, <1>7, <1>9, <1>10, <1>11, <1>12, <1>13, <1>14, <1>15, <1>16, <1>17,
     <1>18, <1>19, <1>20
     DEF Next, process_step, request_step, loop_step

LEMMA LifeAlways == Spec => [](BotTypes /\ LifeInv)
<1>1. Init => LifeInv
  <2> SUFFICES ASSUME Init PROVE Orderly
    BY DEF LifeInv
  <2>1. /\ running = [l \in Loop |-> FALSE]
        /\ task = [l \in Loop |-> "none"]
        /\ orphans = [l \in Loop |-> 0]
        /\ req = [c \in Caller |-> Idle]
        /\ Silent
    BY DEF Init, Silent
  <2>2. Down /\ NoRequest /\ \A l \in Loop : orphans[l] = 0
    BY <2>1 DEF Down, is_alive, NoRequest, Idle
  <2> QED
    BY <2>1, <2>2 DEF Orderly, NoRequest
<1>2. BotTypes /\ LifeInv /\ [Next]_vars => LifeInv'
  BY LifeStep
<1> QED
  BY <1>1, <1>2, BotTypesAlways, PTL DEF Spec

(* Between requests that did not overlap the bot is up or down as a whole, *)
(* no task of it is out of reach and, if it is down, it neither trades nor *)
(* counts time, for any number of requests and over any deaths of loops,   *)
(* restarts, pauses and answers of the balance (Orchestrator.start, stop,  *)
(* the bot API and the lifespan).                                          *)
THEOREM BotWhole == Spec => []AllOrNothing
<1>1. BotTypes /\ LifeInv => AllOrNothing
  <2> SUFFICES ASSUME BotTypes, LifeInv, quiet, ~ raced
               PROVE  /\ \A l, m \in Loop \ {"verify"} : running[l] = running[m]
                      /\ \A l \in Loop : orphans[l] = 0
                      /\ ~ running["exit"] => Silent /\ Down
    BY DEF AllOrNothing, Silent, Down
  <2>1. Orderly /\ NoRequest /\ running \in [Loop -> BOOLEAN]
    BY DEF LifeInv, quiet, NoRequest, Idle, BotTypes, LoopTypes
  <2>2. CASE Up
    BY <2>1, <2>2, LoopSet DEF Up, Orderly
  <2>3. CASE Down /\ Silent
    BY <2>1, <2>3 DEF Down, Orderly
  <2> QED
    BY <2>1, <2>2, <2>3 DEF Orderly
<1> QED
  BY <1>1, LifeAlways, PTL

(* A bot that runs with trading off always has a retry of the balance that *)
(* is alive: the guard against a second retry never blocks the first, as   *)
(* every stop clears the flag before a start can find it set               *)
(* (_start_verify_retry, _verify_retry_loop and stop).                     *)
THEOREM DegradedHasRetry == Spec => []DegradedRetries
<1>1. BotTypes /\ LifeInv => DegradedRetries
  <2> SUFFICES ASSUME BotTypes, LifeInv, quiet, ~ raced, ~ trading, running["exit"]
               PROVE  running["verify"] /\ is_alive("verify")
    BY DEF DegradedRetries
  <2>1. Orderly /\ NoRequest
    BY DEF LifeInv, quiet, NoRequest, Idle
  <2>2. ~ Down
    BY LoopSet DEF Down
  <2> QED
    BY <2>1, <2>2 DEF Orderly, Up
<1> QED
  BY <1>1, LifeAlways, PTL
==============================================================================
