--------------------------- MODULE RtdsConnection ---------------------------
(***************************************************************************)
(* The socket of outcome prices (RTDSClient): run_forever connects,        *)
(* subscribes, receives and reconnects; disconnect only sets an event and  *)
(* closes the socket, so a loop suspended elsewhere ends later, or not at  *)
(* all if another run_forever clears the event first.                      *)
(*                                                                         *)
(* A step runs from one suspension to the next.  A message handed to an    *)
(* open socket is sent at once, in the order of the calls; on a closed one *)
(* it is lost.                                                             *)
(***************************************************************************)
EXTENDS Integers, FiniteSets

CONSTANTS
  MaxRuns,    (* bound: calls of run_forever                              *)
  MaxSockets, (* bound: sockets opened                                    *)
  MaxTokens   (* bound: changes of the token list                         *)

ASSUME RtdsConstants == MaxRuns \in Nat /\ MaxSockets \in Nat /\ MaxTokens \in Nat

VARIABLES
  ws_state,  (* RTDSClient._state                                          *)
  shutdown,  (* _shutdown_event                                            *)
  ws,        (* _ws: the number of a socket, 0 for None                    *)
  open,      (* sockets that are open                                      *)
  sent,      (* per socket, the token list last sent on it                 *)
  tokens,    (* _subscribed_tokens: the number of the list, 0 if empty     *)
  runs       (* calls of run_forever so far: where each is, on which socket*)

rtds_vars == <<ws_state, shutdown, ws, open, sent, tokens, runs>>

ConnectionState == {"disconnected", "connecting", "connected", "reconnecting", "failed"}

RunState == {"none", "connect", "backoff", "reconnect", "wait", "receive", "done"}

NoRun == [pc |-> "none", sock |-> 0]

started == {r \in 1..MaxRuns : runs[r].pc # "none"}

live == {r \in started : runs[r].pc # "done"}

is_connected == ws_state = "connected"

-----------------------------------------------------------------------------
(* The head of run_forever's loop, reached with state s, event d and       *)
(* socket w: where the loop suspends next, and the state it leaves.        *)

head(s, d, w) ==
  CASE d -> [pc |-> "done", sock |-> 0]
    [] ~d /\ s = "connected" -> [pc |-> "receive", sock |-> w]
    [] ~d /\ s = "disconnected" -> [pc |-> "connect", sock |-> 0]
    [] ~d /\ s \in {"failed", "reconnecting"} -> [pc |-> "backoff", sock |-> 0]
    [] ~d /\ s = "connecting" -> [pc |-> "wait", sock |-> 0]

head_state(s, d) ==
  IF d THEN s
  ELSE CASE s = "disconnected" -> "connecting"
         [] s = "failed" -> "reconnecting"
         [] OTHER -> s

(* A call of run_forever, as the next task.                                *)
run_forever ==
  LET r == Cardinality(started) + 1 IN
  /\ r \in 1..MaxRuns
  /\ shutdown' = FALSE
  /\ runs' = [runs EXCEPT ![r] = head(ws_state, FALSE, ws)]
  /\ ws_state' = head_state(ws_state, FALSE)
  /\ UNCHANGED <<ws, open, sent, tokens>>

(* Mutant: only a reconnect sends the token list again.                    *)
resubscribed_once(r, s) == IF runs[r].pc = "reconnect" THEN tokens ELSE 0

(* The token list a new socket s is sent, by reconnect or after connect.   *)
resubscribed(r, s) == tokens

(* connect or reconnect succeeds, whatever happened during the handshake.  *)
connected(r) ==
  LET s == Cardinality(DOMAIN sent) + 1 IN
  /\ runs[r].pc \in {"connect", "reconnect"}
  /\ s \in 1..MaxSockets
  /\ ws' = s
  /\ open' = open \cup {s}
  /\ sent' = [t \in 1..s |-> IF t = s THEN resubscribed(r, s) ELSE sent[t]]
  /\ ws_state' = "connected"
  /\ runs' = [runs EXCEPT ![r] = [pc |-> "receive", sock |-> s]]
  /\ UNCHANGED <<shutdown, tokens>>

(* connect fails: the loop waits for the event or 30 seconds; reconnect    *)
(* tries again after a longer sleep.                                       *)
connect_failed(r) ==
  \/ /\ runs[r].pc = "connect"
     /\ ws_state' = "failed"
     /\ runs' = [runs EXCEPT ![r] = [pc |-> "wait", sock |-> 0]]
     /\ UNCHANGED <<shutdown, ws, open, sent, tokens>>
  \/ /\ runs[r].pc = "reconnect"
     /\ runs' = [runs EXCEPT ![r] = [pc |-> "backoff", sock |-> 0]]
     /\ UNCHANGED <<ws_state, shutdown, ws, open, sent, tokens>>

waited(r) ==
  /\ runs[r].pc = "wait"
  /\ runs' = [runs EXCEPT ![r] = head(ws_state, shutdown, ws)]
  /\ ws_state' = head_state(ws_state, shutdown)
  /\ UNCHANGED <<shutdown, ws, open, sent, tokens>>

(* After its sleep reconnect looks at the event, not at the connection: it *)
(* may have been made by another loop.                                     *)
backed_off(r) ==
  /\ runs[r].pc = "backoff"
  /\ runs' = [runs EXCEPT ![r] = [pc |-> IF shutdown THEN "done" ELSE "reconnect", sock |-> 0]]
  /\ UNCHANGED <<ws_state, shutdown, ws, open, sent, tokens>>

(* The server or the network closes a socket.                              *)
drop(s) ==
  /\ s \in open
  /\ open' = open \ {s}
  /\ UNCHANGED <<ws_state, shutdown, ws, sent, tokens, runs>>

(* _receive_loop ends with its socket, or at once if another loop already  *)
(* reads it; either way the client is no longer CONNECTED.                 *)
receive_ends(r) ==
  LET s == IF is_connected THEN "disconnected" ELSE ws_state IN
  /\ runs[r].pc = "receive"
  /\ \/ runs[r].sock \notin open
     \/ \E q \in live \ {r} : q < r /\ runs[q] = runs[r]
  /\ runs' = [runs EXCEPT ![r] = head(s, shutdown, ws)]
  /\ ws_state' = head_state(s, shutdown)
  /\ UNCHANGED <<shutdown, ws, open, sent, tokens>>

(* The latest call of run_forever dies while it receives.                  *)
run_dies ==
  LET r == Cardinality(started) IN
  /\ r > 0 /\ runs[r].pc = "receive"
  /\ runs' = [runs EXCEPT ![r] = [pc |-> "done", sock |-> 0]]
  /\ ws_state' = IF is_connected THEN "disconnected" ELSE ws_state
  /\ UNCHANGED <<shutdown, ws, open, sent, tokens>>

(* apply_diff's last part: update_subscription remembers the list, then    *)
(* subscribe sends it if the client is connected.                          *)
subscribe ==
  /\ tokens < MaxTokens
  /\ tokens' = tokens + 1
  /\ sent' = IF is_connected /\ ws \in open THEN [sent EXCEPT ![ws] = tokens'] ELSE sent
  /\ UNCHANGED <<ws_state, shutdown, ws, open, runs>>

(* disconnect: up to the closing handshake, if there is a socket to close, *)
(* and after it, when whatever socket there is by then is forgotten.       *)
begin_disconnect ==
  /\ shutdown' = TRUE
  /\ open' = open \ {ws}
  /\ ws_state' = IF ws = 0 THEN "disconnected" ELSE ws_state
  /\ UNCHANGED <<ws, sent, tokens, runs>>

(* Mutant: the state is left to the loop that receives.                    *)
end_disconnect_state ==
  /\ ws' = 0
  /\ UNCHANGED <<ws_state, shutdown, open, sent, tokens, runs>>

end_disconnect ==
  /\ ws' = 0
  /\ ws_state' = "disconnected"
  /\ UNCHANGED <<shutdown, open, sent, tokens, runs>>

RtdsInit ==
  /\ ws_state = "disconnected"
  /\ shutdown = FALSE
  /\ ws = 0
  /\ open = {}
  /\ sent = <<>>
  /\ tokens = 0
  /\ runs = [r \in 1..MaxRuns |-> NoRun]

rtds_step ==
  \/ \E r \in live : \/ connected(r) \/ connect_failed(r) \/ waited(r)
                     \/ backed_off(r) \/ receive_ends(r)
  \/ \E s \in open : drop(s)
  \/ subscribe

-----------------------------------------------------------------------------
(* Properties.                                                             *)

(* Types, and what the client's fields say of each other: a client that is *)
(* CONNECTED has a socket.                                                 *)
RtdsTypeOK ==
  /\ ws_state \in ConnectionState
  /\ shutdown \in BOOLEAN
  /\ DOMAIN sent \subseteq 1..MaxSockets
  /\ ws \in DOMAIN sent \cup {0}
  /\ open \subseteq DOMAIN sent
  /\ \A s \in DOMAIN sent : sent[s] \in 0..MaxTokens
  /\ tokens \in 0..MaxTokens
  /\ \A r \in 1..MaxRuns : runs[r].pc \in RunState /\ runs[r].sock \in DOMAIN sent \cup {0}
  /\ is_connected => ws # 0

(* A client that says CONNECTED has sent the latest token list on its      *)
(* socket, unless that is gone already: lists change while it connects,    *)
(* sleeps or has not noticed a drop, and the readers of two overlapping    *)
(* calls of run_forever replace each other's socket and state.             *)
Resubscribed == is_connected /\ ws \in open => sent[ws] = tokens
=============================================================================
