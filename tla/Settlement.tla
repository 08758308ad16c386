----------------------------- MODULE Settlement -----------------------------
(***************************************************************************)
(* Settlement of positions that were closed without a sale: phases 3 and 4 *)
(* of the exit cycle (SettlementOrchestrator.process_settlements and       *)
(* ExitOrchestrator._reconcile_external), the claims (ClaimManager), their *)
(* table (ClaimStore) and what stop, start and a crash do to them.         *)
(*                                                                         *)
(* The CLOB and relayer calls are synchronous inside their coroutines, so  *)
(* the two phases run without suspending and are one step.  It treats each *)
(* position by its own claims and its own retry state, so the step is      *)
(* defined per position and per claim.                                     *)
(*                                                                         *)
(* A paper redeem always succeeds.  A live one never does:                 *)
(* RelayerClientWrapper.redeem_positions has no return with success, so    *)
(* the branch of _execute_redeem_for_claim behind it is left out.          *)
(***************************************************************************)
EXTENDS Naturals

CONSTANTS
  Pid,         (* positions                                               *)
  Cid,         (* claim ids (uuid4)                                       *)
  NoCid,       (* "no claim"                                              *)
  PosOf,       (* the position a claim id is issued for                   *)
  MaxRetries,  (* CLAIM_REDEEM_MAX_RETRIES                                *)
  PaperModes,  (* the values of config trading.paper_mode considered      *)
  FaultSets    (* the combinations of faults considered                   *)

(* stop: the user stops the bot and the process goes on.  crash: the       *)
(* process dies.  dbWrite: a save fails.  manual: the user redeems through *)
(* the exchange's own pages.                                               *)
FaultKinds == {"stop", "crash", "dbWrite", "manual"}

ASSUME SettlementConstants ==
  /\ NoCid \notin Cid
  /\ PosOf \in [Cid -> Pid]
  /\ MaxRetries \in Nat \ {0}
  /\ PaperModes \subseteq BOOLEAN
  /\ FaultSets \subseteq SUBSET FaultKinds

VARIABLES
  paper_mode, (* config trading.paper_mode                                 *)
  faults,     (* the faults of this behaviour                              *)
  unsold,     (* tracker: closed positions with needs_redeem               *)
  rows,       (* those of them the positions table has                     *)
  claims,     (* ClaimManager._claims                                      *)
  db,         (* the claims table                                          *)
  saves,      (* claims with a queued save task                            *)
  retry,      (* SettlementOrchestrator._retry_states                      *)
  seen,       (* positions closed so far                                   *)
  redeemed,   (* positions whose redeem really took place                  *)
  phase       (* up, stopped (process alive) or down                       *)

env == <<paper_mode, faults>>

vars == <<paper_mode, faults, unsold, rows, claims, db, saves, retry, seen, redeemed,
          phase>>

-----------------------------------------------------------------------------
(* Records.                                                                *)

ClaimRec == [status  : {"absent", "pending", "success"},
             outcome : {"pending", "won", "lost"}]

Absent  == [status |-> "absent",  outcome |-> "pending"]
Pending == [status |-> "pending", outcome |-> "pending"]

is_pending(c) == claims[c].status = "pending"
is_success(c) == claims[c].status = "success"

(* ready: next_retry_at has passed.                                        *)
RetryState == [claim : Cid \cup {NoCid}, attempt_count : 0 .. MaxRetries,
               ready : BOOLEAN]

NoRetry == [claim |-> NoCid, attempt_count |-> 0, ready |-> FALSE]

(* Mutant of exhausted: one attempt too many.                              *)
exhausted_late(r) == r.attempt_count > MaxRetries

exhausted(r) == r.attempt_count >= MaxRetries

schedule_next(r) ==
  [claim |-> r.claim, attempt_count |-> r.attempt_count + 1, ready |-> FALSE]

is_position_in_retry(r) == r.claim # NoCid /\ ~ exhausted(r)

is_settled(p) == \E c \in Cid : PosOf[c] = p /\ is_success(c)

-----------------------------------------------------------------------------
(* A position is closed unsold: reject_fill.  No code closes a position    *)
(* with reason expiry or claim, the other reasons needs_redeem accepts.    *)
close_unsold(p) ==
  /\ phase = "up"
  /\ p \notin seen
  /\ seen' = seen \cup {p}
  /\ unsold' = unsold \cup {p}
  /\ UNCHANGED <<env, rows, claims, db, saves, retry, redeemed, phase>>

(* The clock reaches next_retry_at.                                        *)
retry_due(p) ==
  /\ is_position_in_retry(retry[p])
  /\ ~ retry[p].ready
  /\ retry' = [retry EXCEPT ![p].ready = TRUE]
  /\ UNCHANGED <<env, unsold, rows, claims, db, saves, seen, redeemed,
                 phase>>

(* The user redeems the tokens himself.                                    *)
redeem_manually(p) ==
  /\ "manual" \in faults
  /\ p \in unsold \ redeemed
  /\ redeemed' = redeemed \cup {p}
  /\ UNCHANGED <<env, unsold, rows, claims, db, saves, retry, seen,
                 phase>>

-----------------------------------------------------------------------------
(* _process_retries: what becomes of a position's retry state.             *)

Removed(p) ==
  \/ exhausted(retry[p])
  \/ retry[p].ready /\ (p \notin unsold \/ is_success(retry[p].claim))

process_retries(p) ==
  IF retry[p] = NoRetry \/ Removed(p) THEN NoRetry
  ELSE IF retry[p].ready THEN schedule_next(retry[p])
  ELSE retry[p]

(* Mutant of FirstAttempt: positions in retry are not skipped.             *)
FirstAttempt_any(resolved) == {p \in unsold \cap resolved : ~ is_settled(p)}

(* _check_resolved: what the exchange may answer for each market.          *)
Resolutions == SUBSET Pid

(* Positions for which process_settlements creates a claim, given the      *)
(* markets the exchange reports as resolved.                               *)
FirstAttempt(resolved) ==
  {p \in unsold \cap resolved : process_retries(p) = NoRetry /\ ~ is_settled(p)}

(* The claim ids uuid4 may hand out to the positions in P.                 *)
FreshIds(P) ==
  {N \in SUBSET {c \in Cid : claims[c] = Absent /\ db[c] = Absent} :
     /\ \A c \in N : PosOf[c] \in P
     /\ \A p \in P : \E c \in N : PosOf[c] = p
     /\ \A c, d \in N : PosOf[c] = PosOf[d] => c = d}

(* _determine_winner: the exchange's answer, a guess from prices or the    *)
(* sign of the profit.  Any set of positions may come out as winners.      *)
Winners(new) == IF paper_mode THEN SUBSET {PosOf[c] : c \in new} ELSE {{}}

(* ClaimManager.execute_redeem in paper mode.                              *)
execute_redeem(c, wins) ==
  [status |-> "success", outcome |-> IF PosOf[c] \in wins THEN "won" ELSE "lost"]

(* create_claim and _execute_redeem_for_claim: paper redeems, live leaves  *)
(* the claim PENDING.                                                      *)
Created(c, wins) == IF paper_mode THEN execute_redeem(c, wins) ELSE Pending

(* The retry states when process_settlements ends: a live first attempt    *)
(* fails and is scheduled again.                                           *)
settle_position(p, new) ==
  IF ~ paper_mode /\ \E c \in new : PosOf[c] = p
  THEN schedule_next([NoRetry EXCEPT !.claim = CHOOSE c \in new : PosOf[c] = p])
  ELSE process_retries(p)

(* What mark_externally_settled makes of a claim ("exact outcome            *)
(* bilinmiyor").                                                           *)
ExternallySettled == [status |-> "success", outcome |-> "won"]

(* Mutants of Reconcile: claims in retry are closed too; nothing is closed.*)
Reconcile_all(cl, rt) ==
  [c \in Cid |-> IF cl[c].status = "pending"
                 THEN ExternallySettled ELSE cl[c]]

Reconcile_none(cl, rt) == cl

(* _reconcile_external with mark_externally_settled: claims cl, retry      *)
(* states rt.                                                              *)
Reconcile(cl, rt) ==
  [c \in Cid |->
     IF cl[c].status = "pending" /\ ~ is_position_in_retry(rt[PosOf[c]])
     THEN ExternallySettled
     ELSE cl[c]]

(* Mutant of Persisted: only new claims are saved.                         *)
Persisted_new(cl) == saves \cup {c \in Cid : claims[c] = Absent /\ cl[c] # Absent}

(* ClaimManager._persist, called where a claim changes.                    *)
Persisted(cl) == saves \cup {c \in Cid : cl[c] # claims[c]}

(* Phases 3 and 4 of run_cycle.                                            *)
settlement_cycle(resolved) ==
  /\ phase = "up"
  /\ \E new \in FreshIds(FirstAttempt(resolved)) : \E wins \in Winners(new) :
       LET settled == [c \in Cid |-> IF c \in new THEN Created(c, wins) ELSE claims[c]]
           retries == [p \in Pid |-> settle_position(p, new)]
           final   == Reconcile(settled, retries)
       IN /\ claims' = final
          /\ retry' = retries
          /\ saves' = Persisted(final)
          /\ redeemed' = IF paper_mode THEN redeemed \cup {PosOf[c] : c \in new}
                                       ELSE redeemed
  /\ UNCHANGED <<env, unsold, rows, db, seen, phase>>

-----------------------------------------------------------------------------
(* Persistence, stop, start and crash.                                     *)

(* A queued save task runs; it writes the claim as it is by then.          *)
save(c) ==
  /\ c \in saves
  /\ saves' = saves \ {c}
  /\ \/ db' = [db EXCEPT ![c] = claims[c]]
     \/ "dbWrite" \in faults /\ UNCHANGED db
  /\ UNCHANGED <<env, unsold, rows, claims, retry, seen, redeemed, phase>>

(* The row of a position is written by a task of PositionTracker.          *)
save_position(p) ==
  /\ phase = "up"
  /\ p \in unsold \ rows
  /\ rows' = rows \cup {p}
  /\ UNCHANGED <<env, unsold, claims, db, saves, retry, seen, redeemed,
                 phase>>

(* What a flush may leave written: all positions and all PENDING claims,   *)
(* or fewer when writes fail.  Only the exit loop changes claims, and it   *)
(* waits for its flush or is cancelled by stop, so a flush is one step.    *)
Flushed ==
  \E P \in SUBSET (unsold \ rows), C \in SUBSET {c \in Cid : is_pending(c)} :
    /\ "dbWrite" \notin faults =>
         P = unsold \ rows /\ C = {c \in Cid : is_pending(c)}
    /\ rows' = rows \cup P
    /\ db' = [c \in Cid |-> IF c \in C THEN claims[c] ELSE db[c]]

periodic_flush ==
  /\ phase = "up"
  /\ Flushed
  /\ UNCHANGED <<env, unsold, claims, saves, retry, seen, redeemed, phase>>

(* The process and with it claims and retry states stay.                   *)
stop ==
  /\ "stop" \in faults
  /\ phase = "up"
  /\ Flushed
  /\ phase' = "stopped"
  /\ UNCHANGED <<env, unsold, claims, saves, retry, seen, redeemed>>

(* start: the tracker is reset and reloaded, claim rows replace the claims *)
(* of the same id; retry states are not touched.                           *)
start ==
  /\ phase \in {"stopped", "down"}
  /\ saves = {}
  /\ unsold' = rows
  /\ claims' = [c \in Cid |-> IF db[c] = Absent THEN claims[c] ELSE db[c]]
  /\ phase' = "up"
  /\ UNCHANGED <<env, rows, db, saves, retry, seen, redeemed>>

crash ==
  /\ "crash" \in faults
  /\ phase # "down"
  /\ unsold' = {}
  /\ claims' = [c \in Cid |-> Absent]
  /\ saves' = {}
  /\ retry' = [p \in Pid |-> NoRetry]
  /\ phase' = "down"
  /\ UNCHANGED <<env, rows, db, seen, redeemed>>

-----------------------------------------------------------------------------
Init ==
  /\ paper_mode \in PaperModes
  /\ faults \in FaultSets
  /\ unsold = {}
  /\ rows = {}
  /\ claims = [c \in Cid |-> Absent]
  /\ db = [c \in Cid |-> Absent]
  /\ saves = {}
  /\ retry = [p \in Pid |-> NoRetry]
  /\ seen = {}
  /\ redeemed = {}
  /\ phase = "up"

PositionStep(p) ==
  \/ close_unsold(p)
  \/ retry_due(p)
  \/ redeem_manually(p)
  \/ save_position(p)

Next ==
  \/ \E p \in Pid : PositionStep(p)
  \/ \E resolved \in Resolutions : settlement_cycle(resolved)
  \/ \E c \in Cid : save(c)
  \/ periodic_flush
  \/ stop
  \/ start
  \/ crash

Spec == Init /\ [][Next]_vars

(* The exit loop and the clock go on, save tasks run, a stopped bot is     *)
(* started again, and the exchange reports a market as resolved in one of  *)
(* infinitely many cycles.                                                 *)
Fairness ==
  /\ SF_vars(settlement_cycle(Pid))
  /\ \A p \in Pid : WF_vars(retry_due(p))
  /\ \A c \in Cid : WF_vars(save(c))
  /\ WF_vars(start)

FairSpec == Spec /\ Fairness

-----------------------------------------------------------------------------
(* Types; a retry never counts more than MaxRetries attempts.              *)
TypeOK ==
  /\ paper_mode \in BOOLEAN
  /\ faults \subseteq FaultKinds
  /\ unsold \subseteq Pid
  /\ rows \subseteq Pid
  /\ claims \in [Cid -> ClaimRec]
  /\ db \in [Cid -> ClaimRec]
  /\ saves \subseteq Cid
  /\ retry \in [Pid -> RetryState]
  /\ seen \subseteq Pid
  /\ redeemed \subseteq Pid
  /\ phase \in {"up", "stopped", "down"}

(* The claim a retry will resend is a claim of that position and still     *)
(* PENDING: neither reconciliation nor the rows start loads over a living  *)
(* process settle it behind the retry's back (_retry_settle,               *)
(* is_position_in_retry, restore_claim).                                   *)
RetryOwnsClaim ==
  \A p \in Pid : is_position_in_retry(retry[p]) =>
    /\ retry[p].claim \in Cid
    /\ PosOf[retry[p].claim] = p
    /\ is_pending(retry[p].claim)

(* process_settlements creates at most one claim for a position, over      *)
(* first attempt, retries, exhaustion, reconciliation, stop and start, as  *)
(* long as the process lives and its writes succeed.                       *)
OneClaim ==
  {"crash", "dbWrite"} \cap faults = {} =>
  \A c, d \in Cid : claims[c] # Absent /\ claims[d] # Absent /\ PosOf[c] = PosOf[d]
                      => c = d

(* A settled claim stays settled with the same outcome while the process   *)
(* lives and its writes succeed, although start replaces claims by rows    *)
(* and the flush of stop leaves settled claims out.                        *)
SettledStays ==
  [][\A c \in Cid : "dbWrite" \notin faults /\ is_success(c)
                       => claims'[c] \in {claims[c], Absent}]_vars

(* Every position closed without a sale is settled in the end, however     *)
(* often the bot is stopped and whatever is redeemed by hand.              *)
SettlementEnds ==
  \A p \in Pid : p \in unsold /\ {"crash", "dbWrite"} \cap faults = {}
                   ~> is_settled(p)

(* REDEEMED_WON means that a redeem took place ("kazanan taraf, USDC       *)
(* alindi").                                                               *)
WonMeansRedeemed ==
  \A c \in Cid : claims[c].outcome = "won" => PosOf[c] \in redeemed
=============================================================================
