---------------------------- MODULE BotLifecycle ----------------------------
(***************************************************************************)
(* The process and the bot in it: the application's lifespan, the bot's    *)
(* start, pause and stop requests, degraded mode with its balance retry,   *)
(* the supervisor, credentials and uptime.                                 *)
(*                                                                         *)
(* Requests run on one event loop and overlap only where they suspend:     *)
(* start in the database loads of restore_state, stop in the await of each *)
(* task it has cancelled, in the closing handshake of the socket and in    *)
(* the flush.  Asking for the balance blocks the loop (a synchronous SDK   *)
(* call), so verifying it, and credential_update as a whole, are single    *)
(* steps.  A cancelled task runs no further step of its own.               *)
(***************************************************************************)
EXTENDS RtdsConnection, Sequences

CONSTANTS
  Request,   (* concurrent requests of the bot API                        *)
  Boot,      (* the lifespan's own calls of start and stop                *)
  MaxCalls,  (* bound: requests that start or stop, one at a time         *)
  MaxOverlaps, (* bound: such requests when they may overlap              *)
  MaxFaults, (* bound: loops and processes that die                       *)
  MaxNow,    (* bound: the clock                                          *)
  Scenarios  (* what happens around the bot: the combinations considered  *)

ASSUME BotConstants ==
  /\ Boot \notin Request
  /\ MaxCalls \in Nat /\ MaxOverlaps \in Nat /\ MaxFaults \in Nat /\ MaxNow \in Nat
  /\ Scenarios \subseteq SUBSET {"overlap", "credentials", "pause", "crash", "socket",
                             "reader", "restart", "trade"}

VARIABLES
  scenario,  (* what happens in this behaviour                             *)
  proc,      (* the process: down, starting (lifespan startup), up         *)
  trading,   (* Orchestrator.trading_enabled                               *)
  paused,    (* Orchestrator.paused                                        *)
  running,   (* the _running flag of each loop                             *)
  task,      (* the task each loop's field refers to                       *)
  orphans,   (* tasks of a loop that no field refers to any more           *)
  req,       (* where each request in progress is suspended                *)
  calls,     (* requests so far                                            *)
  creds,     (* CredentialStore: none, signing (keys not derived), full    *)
  disk,      (* the encrypted file holds full credentials                  *)
  uptime,    (* _bot_start_time, _bot_paused_at (set or not), _accumulated *)
  now,       (* the clock                                                  *)
  faults,    (* faults so far                                              *)
  raced,     (* history: a start or stop met another request, or a balance *)
             (* verified during a stop                                     *)
  ran        (* history: ticks the bot was started and not paused          *)

loop_vars == <<running, task, orphans>>
req_vars == <<req, calls, raced>>
cred_vars == <<creds, disk>>
time_vars == <<uptime, now, ran>>
vars == <<scenario, proc, trading, paused, loop_vars, req_vars, cred_vars, time_vars, faults,
          rtds_vars>>

(* The order in which stop ends the loops.                                 *)
StopOrder == <<"supervisor", "verify", "exit", "evaluation", "coin", "discovery">>

Loop == {StopOrder[i] : i \in 1..Len(StopOrder)}

Caller == Request \cup {Boot}

TaskState == {"none", "new", "alive", "dead"}

is_alive(l) == task[l] \in {"new", "alive"}

Idle == [op |-> "none", at |-> 0]

in_progress(op) == {c \in Caller : req[c].op = op}

NotStarted == [start |-> -1, held |-> FALSE, acc |-> 0]

(* _current_state: what the API reports, and decides by.                   *)
current_state == IF ~trading THEN "stopped" ELSE IF paused THEN "paused" ELSE "running"

-----------------------------------------------------------------------------
(* Verifying the balance.                                                  *)

(* Mutant: new credentials do not reach the SDK client.                    *)
balance_answers_stale(c) == {FALSE}

(* The SDK client is made anew when the credentials' version has changed,  *)
(* and only of derived keys.                                               *)
is_initialized(c) == c = "full"

(* get_balance needs the SDK client; the API may fail.                     *)
balance_answers(c) == IF is_initialized(c) THEN BOOLEAN ELSE {FALSE}

(* _start_verify_retry in a set of tasks t and flags f.                    *)
retry_task(f, t) == IF f["verify"] THEN t ELSE [t EXCEPT !["verify"] = "new"]

(* The retry loop looks at trading_enabled before each sleep, and leaves   *)
(* its flag set when it ends that way.                                     *)
verify_begin ==
  /\ task["verify"] = "new"
  /\ task' = [task EXCEPT !["verify"] = IF trading \/ ~running["verify"] THEN "dead" ELSE "alive"]
  /\ UNCHANGED <<scenario, proc, trading, paused, running, orphans, req_vars, cred_vars, time_vars,
                 faults, rtds_vars>>

verify_ok ==
  /\ task["verify"] = "alive" /\ running["verify"]
  /\ TRUE \in balance_answers(creds)
  /\ trading' = TRUE
  /\ running' = [running EXCEPT !["verify"] = FALSE]
  /\ task' = [task EXCEPT !["verify"] = "dead"]
  /\ raced' = (raced \/ in_progress("stop") # {})
  /\ UNCHANGED <<scenario, proc, paused, orphans, req, calls, cred_vars, time_vars, faults,
                 rtds_vars>>

(* Mutant: the first refusal ends the retry.                               *)
verify_failed_once ==
  /\ task["verify"] = "alive"
  /\ task' = [task EXCEPT !["verify"] = "dead"]
  /\ UNCHANGED <<scenario, proc, trading, paused, running, orphans, req_vars, cred_vars, time_vars,
                 faults, rtds_vars>>

verify_failed ==
  /\ task["verify"] = "alive"
  /\ task' = [task EXCEPT !["verify"] = IF trading THEN "dead" ELSE @]
  /\ UNCHANGED <<scenario, proc, trading, paused, running, orphans, req_vars, cred_vars, time_vars,
                 faults, rtds_vars>>

-----------------------------------------------------------------------------
(* Orchestrator.start.                                                     *)

(* Its first stretch, up to the loads of restore_state.                    *)
begin_start(c) ==
  /\ trading' = TRUE
  /\ paused' = FALSE
  /\ uptime' = [start |-> now, held |-> FALSE, acc |-> 0]
  /\ ran' = 0
  /\ req' = [req EXCEPT ![c] = [op |-> "start", at |-> 0]]

(* The loops start creates: discovery and evaluation unless they run, coin *)
(* unless its flag is set, exit and supervisor in any case.                *)
creates(l) ==
  CASE l \in {"discovery", "evaluation"} -> ~(running[l] /\ is_alive(l))
    [] l = "coin" -> ~running[l]
    [] l \in {"exit", "supervisor"} -> TRUE
    [] l = "verify" -> FALSE

start_loops(ok) ==
  LET t == [l \in Loop |-> IF creates(l) THEN "alive" ELSE task[l]] IN
  /\ running' = [l \in Loop |-> IF l = "verify" THEN running[l] \/ ~ok ELSE TRUE]
  /\ task' = IF ok THEN t ELSE retry_task(running, t)
  /\ orphans' = [l \in Loop |-> orphans[l] + (IF creates(l) /\ is_alive(l) THEN 1 ELSE 0)]

(* The rest of start, after the loads.  restore_state has ended by asking  *)
(* for the balance, which decides between normal and degraded mode.        *)
end_start(c) ==
  /\ req[c].op = "start" /\ c # Boot
  /\ \E ok \in balance_answers(creds) :
        /\ start_loops(ok)
        /\ trading' = ok
  /\ run_forever
  /\ req' = [req EXCEPT ![c] = Idle]
  /\ UNCHANGED <<scenario, proc, paused, calls, raced, cred_vars, time_vars, faults>>

-----------------------------------------------------------------------------
(* The lifespan.                                                           *)

(* Reading the encrypted file may fail; only derived keys are ever in it.  *)
load_encrypted == IF disk THEN {"full", creds} ELSE {creds}

(* A process starts and calls start; it knows no credentials yet.          *)
boot ==
  /\ proc = "down"
  /\ proc' = "starting"
  /\ begin_start(Boot)
  /\ UNCHANGED <<scenario, loop_vars, calls, raced, cred_vars, now, faults, rtds_vars>>

(* Startup goes on to the credentials on disk and to the startup guard:    *)
(* with credentials and a balance trading is enabled at once, and the      *)
(* retry start has begun finds it so.                                      *)
lifespan_ready ==
  /\ req[Boot].op = "start"
  /\ start_loops(FALSE)
  /\ run_forever
  /\ creds' \in load_encrypted
  /\ trading' \in balance_answers(creds')
  /\ proc' = "up"
  /\ req' = [req EXCEPT ![Boot] = Idle]
  /\ UNCHANGED <<scenario, paused, calls, raced, disk, time_vars, faults>>

-----------------------------------------------------------------------------
(* Orchestrator.stop.  Loops that have no live task are passed without     *)
(* suspending; AfterLoops and AfterSocket are the last two suspensions.    *)

AfterLoops == Len(StopOrder) + 1

AfterSocket == AfterLoops + 1

(* The next position at or after i where stop suspends in awaiting a task. *)
next_await(i) ==
  LET A == {j \in i..Len(StopOrder) : is_alive(StopOrder[j])} IN
  IF A = {} THEN AfterLoops ELSE CHOOSE j \in A : \A k \in A : j <= k

(* Mutant: the price client only has its task cancelled.                   *)
stop_flags_coin(i, j) ==
  [l \in Loop |-> running[l] /\ (l = "coin"
                    \/ ~\E k \in i..j : k <= Len(StopOrder) /\ StopOrder[k] = l)]

(* The flags stop clears on its way from i to j.                           *)
stop_flags(i, j) ==
  [l \in Loop |-> running[l] /\ ~\E k \in i..j : k <= Len(StopOrder) /\ StopOrder[k] = l]

(* The tasks it forgets on the way, having awaited the one at i: these     *)
(* loops' own stop clears their field, even if a start has filled it again.*)
stop_forgets(i, j) ==
  {l \in {"evaluation", "coin", "discovery"} : \E k \in i..(j - 1) : k > 0 /\ StopOrder[k] = l}

(* Onward from suspension i: flags cleared and the task at the next one    *)
(* cancelled, or the socket's closing begun; without a socket that is no   *)
(* suspension.                                                             *)
stop_from(c, i) ==
  LET j == next_await(i + 1) IN
  /\ running' = stop_flags(i + 1, j)
  /\ task' = [l \in Loop |-> IF j < AfterLoops /\ l = StopOrder[j] THEN "dead"
                            ELSE IF l \in stop_forgets(i, j) THEN "none" ELSE task[l]]
  /\ orphans' = [l \in Loop |->
                   orphans[l] + (IF l \in stop_forgets(i, j) /\ is_alive(l) THEN 1 ELSE 0)]
  /\ req' = [req EXCEPT ![c] = [op |-> "stop",
                                at |-> IF j = AfterLoops /\ ws = 0 THEN AfterSocket ELSE j]]
  /\ \/ j < AfterLoops /\ UNCHANGED rtds_vars
     \/ j = AfterLoops /\ begin_disconnect

begin_stop(c) ==
  /\ stop_from(c, 0)
  /\ trading' = FALSE
  /\ paused' = FALSE
  /\ uptime' = NotStarted
  /\ ran' = 0

stop_step(c) ==
  /\ req[c].op = "stop" /\ req[c].at < AfterLoops
  /\ stop_from(c, req[c].at)
  /\ UNCHANGED <<scenario, proc, trading, paused, calls, raced, cred_vars, time_vars,
                 faults>>

stop_socket(c) ==
  /\ req[c].op = "stop" /\ req[c].at = AfterLoops
  /\ end_disconnect
  /\ req' = [req EXCEPT ![c].at = AfterSocket]
  /\ UNCHANGED <<scenario, proc, trading, paused, loop_vars, calls, raced, cred_vars,
                 time_vars, faults>>

(* The flush ends the request; what it writes is in PositionLifecycle.     *)
end_stop(c) ==
  /\ req[c].op = "stop" /\ req[c].at = AfterSocket /\ c # Boot
  /\ req' = [req EXCEPT ![c] = Idle]
  /\ UNCHANGED <<scenario, proc, trading, paused, loop_vars, calls, raced, cred_vars,
                 time_vars, faults, rtds_vars>>

(* The server finishes its requests, then the lifespan calls stop.         *)
begin_shutdown ==
  /\ "restart" \in scenario
  /\ proc = "up"
  /\ \A c \in Caller : req[c] = Idle
  /\ begin_stop(Boot)
  /\ UNCHANGED <<scenario, proc, calls, raced, cred_vars, now, faults>>

(* A process that ends takes everything but the file with it.              *)
fresh_process ==
  /\ proc' = "down"
  /\ trading' = FALSE /\ paused' = FALSE
  /\ running' = [l \in Loop |-> FALSE]
  /\ task' = [l \in Loop |-> "none"]
  /\ orphans' = [l \in Loop |-> 0]
  /\ req' = [c \in Caller |-> Idle]
  /\ creds' = "none"
  /\ uptime' = NotStarted
  /\ ran' = 0
  /\ raced' = FALSE
  /\ ws_state' = "disconnected" /\ shutdown' = FALSE /\ ws' = 0 /\ open' = {} /\ sent' = <<>>
  /\ tokens' = 0 /\ runs' = [r \in 1..MaxRuns |-> NoRun]

end_shutdown ==
  /\ req[Boot].op = "stop" /\ req[Boot].at = AfterSocket
  /\ fresh_process
  /\ UNCHANGED <<scenario, calls, disk, now, faults>>

process_dies ==
  /\ "restart" \in scenario
  /\ proc # "down" /\ faults < MaxFaults
  /\ faults' = faults + 1
  /\ fresh_process
  /\ UNCHANGED <<scenario, calls, disk, now>>

-----------------------------------------------------------------------------
(* The bot API.                                                            *)

called(c) ==
  /\ proc = "up" /\ req[Boot] = Idle
  /\ c \in Request /\ req[c] = Idle
  /\ \/ "overlap" \in scenario /\ calls < MaxOverlaps
     \/ (\A d \in Request : req[d] = Idle) /\ calls < MaxCalls
  /\ calls' = calls + 1
  /\ raced' = (raced \/ \E d \in Caller : req[d].op # "none")

(* resume: the clock goes on from what was banked.                         *)
resumed == [start |-> now, held |-> FALSE, acc |-> uptime.acc]

(* start of a bot that runs, degraded for instance: trading is enabled     *)
(* without verifying anything.                                             *)
start_running(c) ==
  /\ called(c)
  /\ current_state = "stopped" /\ running["exit"]
  /\ trading' = TRUE
  /\ paused' = FALSE
  /\ uptime' = IF paused THEN resumed ELSE uptime
  /\ UNCHANGED <<scenario, proc, loop_vars, req, cred_vars, now, ran, faults, rtds_vars>>

bot_start(c) ==
  /\ called(c)
  /\ current_state = "stopped" /\ ~running["exit"]
  /\ begin_start(c)
  /\ UNCHANGED <<scenario, proc, loop_vars, cred_vars, now, faults, rtds_vars>>

bot_stop(c) ==
  /\ called(c)
  /\ current_state # "stopped"
  /\ begin_stop(c)
  /\ UNCHANGED <<scenario, proc, cred_vars, now, faults>>

(* Mutant: pausing does not bank the time that has run.                    *)
banked_nothing == uptime.acc

banked == uptime.acc + (IF uptime.start # -1 THEN now - uptime.start ELSE 0)

bot_pause ==
  /\ "pause" \in scenario
  /\ proc = "up" /\ current_state = "running"
  /\ paused' = TRUE
  /\ uptime' = [start |-> uptime.start, held |-> uptime.start # -1, acc |-> banked]
  /\ UNCHANGED <<scenario, proc, trading, loop_vars, req_vars, cred_vars, now, ran, faults,
                 rtds_vars>>

(* bot_start of a paused bot.                                              *)
bot_resume ==
  /\ proc = "up" /\ current_state = "paused"
  /\ paused' = FALSE
  /\ uptime' = resumed
  /\ UNCHANGED <<scenario, proc, trading, loop_vars, req_vars, cred_vars, now, ran, faults,
                 rtds_vars>>

bot_uptime ==
  IF uptime.start = -1 THEN 0
  ELSE IF paused /\ uptime.held THEN uptime.acc ELSE uptime.acc + (now - uptime.start)

tick ==
  /\ "pause" \in scenario
  /\ now < MaxNow
  /\ now' = now + 1
  /\ ran' = IF uptime.start # -1 /\ ~paused THEN ran + 1 ELSE ran
  /\ UNCHANGED <<scenario, proc, trading, paused, loop_vars, req_vars, cred_vars, uptime, faults,
                 rtds_vars>>

(* What the exchange makes of a private key: API keys, or nothing, and     *)
(* then only the key and the address it stands for are stored.             *)
derive_api_creds == {"signing", "full"}

(* Writing the encrypted file may fail.                                    *)
save_encrypted == {disk, TRUE}

(* credential_update: keys that cannot be derived replace good ones.  When *)
(* the balance is there the handler raises (a name it does not define)     *)
(* before it would enable trading, so it never does.                       *)
credential_update ==
  /\ "credentials" \in scenario
  /\ proc = "up"
  /\ creds' \in derive_api_creds
  /\ disk' \in IF creds' = "full" THEN save_encrypted ELSE {disk}
  /\ UNCHANGED <<scenario, proc, trading, paused, loop_vars, req_vars, time_vars, faults,
                 rtds_vars>>

-----------------------------------------------------------------------------
(* The supervisor.                                                         *)

(* A loop ends that should not.                                            *)
loop_dies(l) ==
  /\ "crash" \in scenario
  /\ faults < MaxFaults
  /\ l \in {"exit", "evaluation", "coin", "discovery"} /\ is_alive(l)
  /\ faults' = faults + 1
  /\ task' = [task EXCEPT ![l] = "dead"]
  /\ UNCHANGED <<scenario, proc, trading, paused, running, orphans, req_vars, cred_vars, time_vars,
                 rtds_vars>>

reader_dies ==
  /\ "reader" \in scenario
  /\ faults < MaxFaults
  /\ faults' = faults + 1
  /\ run_dies
  /\ UNCHANGED <<scenario, proc, trading, paused, loop_vars, req_vars, cred_vars, time_vars>>

(* Mutant: a dead task is taken for one that was never started.            *)
restarts_new(l) == running[l] /\ task[l] = "none" /\ l # "coin"

(* Whether a check brings a loop back: its flag is set, its task has       *)
(* ended, and its start creates a task.  CoinPriceClient.start looks at    *)
(* the flag alone, so a dead coin loop stays dead.                         *)
restarts(l) == running[l] /\ task[l] = "dead" /\ l # "coin"

supervisor_check ==
  LET L == {l \in {"discovery", "evaluation", "coin", "exit"} : restarts(l)}
      R == started # {} /\ runs[Cardinality(started)].pc = "done" IN
  /\ is_alive("supervisor") \/ orphans["supervisor"] > 0
  /\ running["supervisor"]
  /\ L # {} \/ R
  /\ task' = [l \in Loop |-> IF l \in L THEN "alive" ELSE task[l]]
  /\ \/ R /\ run_forever
     \/ ~R /\ UNCHANGED rtds_vars
  /\ UNCHANGED <<scenario, proc, trading, paused, running, orphans, req_vars, cred_vars, time_vars,
                 faults>>

(* A task no field refers to ends when it finds its flag cleared.          *)
orphan_ends(l) ==
  /\ orphans[l] > 0 /\ ~running[l]
  /\ orphans' = [orphans EXCEPT ![l] = @ - 1]
  /\ UNCHANGED <<scenario, proc, trading, paused, running, task, req_vars, cred_vars, time_vars,
                 faults, rtds_vars>>

socket_step ==
  /\ "socket" \in scenario
  /\ rtds_step
  /\ UNCHANGED <<scenario, proc, trading, paused, loop_vars, req_vars, cred_vars, time_vars, faults>>

-----------------------------------------------------------------------------
Init ==
  /\ scenario \in Scenarios
  /\ proc = "down"
  /\ trading = FALSE /\ paused = FALSE
  /\ running = [l \in Loop |-> FALSE]
  /\ task = [l \in Loop |-> "none"]
  /\ orphans = [l \in Loop |-> 0]
  /\ req = [c \in Caller |-> Idle]
  /\ calls = 0
  /\ creds = "none" /\ disk \in BOOLEAN
  /\ uptime = NotStarted
  /\ now = 0 /\ faults = 0
  /\ raced = FALSE
  /\ ran = 0
  /\ RtdsInit

process_step == boot \/ lifespan_ready \/ begin_shutdown \/ end_shutdown \/ process_dies

request_step ==
  \E c \in Caller : \/ bot_start(c) \/ start_running(c) \/ end_start(c)
                    \/ bot_stop(c) \/ stop_step(c) \/ stop_socket(c) \/ end_stop(c)

loop_step ==
  \/ verify_begin \/ verify_ok \/ verify_failed
  \/ supervisor_check \/ reader_dies
  \/ \E l \in Loop : loop_dies(l) \/ orphan_ends(l)

Next ==
  \/ process_step \/ request_step \/ loop_step
  \/ bot_pause \/ bot_resume \/ tick
  \/ credential_update
  \/ socket_step

Spec == Init /\ [][Next]_vars

(* The event loop runs its tasks: the supervisor's and the retry's timers  *)
(* fire, requests go on.  The balance API does not refuse for ever.        *)
Fairness ==
  /\ WF_vars(supervisor_check)
  /\ WF_vars(verify_begin)
  /\ SF_vars(verify_ok)
  /\ \A c \in Caller : WF_vars(end_start(c) \/ stop_step(c) \/ stop_socket(c) \/ end_stop(c))

FairSpec == Spec /\ Fairness

-----------------------------------------------------------------------------
(* Properties.                                                             *)

(* Every variable holds a value of its type.                               *)
BotTypeOK ==
  /\ scenario \in Scenarios
  /\ proc \in {"down", "starting", "up"}
  /\ trading \in BOOLEAN /\ paused \in BOOLEAN
  /\ running \in [Loop -> BOOLEAN]
  /\ task \in [Loop -> TaskState]
  /\ orphans \in [Loop -> Nat]
  /\ \A c \in Caller : req[c].op \in {"none", "start", "stop"} /\ req[c].at \in 0..AfterSocket
  /\ calls \in Nat
  /\ creds \in {"none", "signing", "full"} /\ disk \in BOOLEAN
  /\ uptime.start \in -1..MaxNow /\ uptime.acc \in 0..MaxNow
  /\ now \in 0..MaxNow /\ faults \in 0..MaxFaults
  /\ RtdsTypeOK

quiet == proc = "up" /\ \A c \in Caller : req[c] = Idle

(* Between requests that did not overlap the bot is up or down as a whole: *)
(* its loops run all or none, none twice, and with none of them trading is *)
(* off, nothing verifies a balance and no clock runs.                      *)
AllOrNothing ==
  quiet /\ ~raced =>
    /\ \A l, m \in Loop \ {"verify"} : running[l] = running[m]
    /\ \A l \in Loop : orphans[l] = 0
    /\ ~running["exit"] => /\ ~trading /\ ~paused /\ uptime = NotStarted
                           /\ \A l \in Loop : ~running[l] /\ ~is_alive(l)

(* A degraded bot never waits for nothing: while it runs with trading off, *)
(* a retry is alive that will enable it.  The flag that guards against a   *)
(* second retry outlives the first, so a start must find it cleared; after *)
(* overlapping requests it may not.                                        *)
DegradedRetries ==
  quiet /\ ~raced /\ ~trading /\ running["exit"] => running["verify"] /\ is_alive("verify")

(* The uptime shown is the time the bot was started and not paused, over   *)
(* any pauses and resumes.                                                 *)
UptimeExact == bot_uptime = ran

(* A loop that died is brought back, unless a stop clears its flag: the    *)
(* exception is the coin price loop.                                       *)
SupervisorRevives ==
  \A l \in {"exit", "evaluation", "discovery"} :
     running[l] /\ task[l] = "dead" ~> is_alive(l) \/ ~running[l]

(* With credentials in place and a balance API that does not refuse for    *)
(* ever, degraded mode ends, although credential_update fails to end it:   *)
(* trading comes back or a request changes the picture.                    *)
DegradedEnds ==
  quiet /\ ~raced /\ ~trading /\ running["exit"] /\ creds = "full"
    ~> trading \/ ~running["exit"] \/ creds # "full" \/ raced
=============================================================================
