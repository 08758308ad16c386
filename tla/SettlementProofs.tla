-------------------------- MODULE SettlementProofs --------------------------
(***************************************************************************)
(* Theorems about Settlement, for any positions and claim ids, any retry   *)
(* limit, both modes and any faults.                                       *)
(***************************************************************************)
EXTENDS Settlement, TLAPS

(* The row of a claim in retry is missing or PENDING: what start loads     *)
(* over a living process cannot settle it.                                 *)
RetryRow ==
  \A p \in Pid : is_position_in_retry(retry[p]) =>
    db[retry[p].claim] = Absent \/ db[retry[p].claim].status = "pending"

(* Without failing writes a claim agrees with its row or has a save queued.*)
SavedOrQueued ==
  "dbWrite" \notin faults /\ phase # "down" =>
    \A c \in Cid : c \in saves \/ db[c] = claims[c]

(* A dead process holds no claims.                                         *)
DownEmpty == phase = "down" => \A c \in Cid : claims[c] = Absent

SavedInv == SavedOrQueued /\ DownEmpty

SettlementInv == TypeOK /\ RetryOwnsClaim /\ RetryRow

(* What process_retries returns has the type of a retry state, and if it   *)
(* is in retry it was so before, with the same claim.                      *)
LEMMA RetriesKeepClaim ==
  ASSUME TypeOK, NEW p \in Pid
  PROVE  /\ process_retries(p) \in RetryState
         /\ is_position_in_retry(process_retries(p)) =>
              /\ is_position_in_retry(retry[p])
              /\ process_retries(p).claim = retry[p].claim
<1> DEFINE r == retry[p]
<1>1. r \in RetryState
  BY DEF TypeOK
<1>2. NoRetry \in RetryState /\ ~ is_position_in_retry(NoRetry)
  BY SettlementConstants DEF NoRetry, RetryState, is_position_in_retry
<1>3. ASSUME ~ exhausted(r)
      PROVE  /\ schedule_next(r) \in RetryState
             /\ schedule_next(r).claim = r.claim
  <2>1. schedule_next(r) = [claim |-> r.claim,
                            attempt_count |-> r.attempt_count + 1, ready |-> FALSE]
    BY <1>1 DEF schedule_next, RetryState
  <2>2. r.claim \in Cid \cup {NoCid} /\ r.attempt_count \in 0 .. MaxRetries
    BY <1>1 DEF RetryState
  <2>3. r.attempt_count + 1 \in 0 .. MaxRetries
    BY <1>3, <2>2, SettlementConstants DEF exhausted
  <2>4. QED
    BY <2>1, <2>2, <2>3 DEF RetryState
<1>4. CASE r = NoRetry \/ Removed(p)
  BY <1>2, <1>4 DEF process_retries
<1>5. CASE ~ (r = NoRetry \/ Removed(p))
  <2>1. ~ exhausted(r)
    BY <1>5 DEF Removed
  <2>2. process_retries(p) \in {r, schedule_next(r)}
    BY <1>5 DEF process_retries
  <2>3. process_retries(p) \in RetryState /\ process_retries(p).claim = r.claim
    BY <1>1, <1>3, <2>1, <2>2
  <2>4. QED
    BY <2>1, <2>3 DEF is_position_in_retry
<1>6. QED
  BY <1>4, <1>5

(* The same of settle_position: a retry state is in retry after the cycle  *)
(* either with a claim created in it or as it was before.                  *)
LEMMA SettleKeepsClaim ==
  ASSUME TypeOK, NEW p \in Pid, NEW new \in SUBSET Cid
  PROVE  /\ settle_position(p, new) \in RetryState
         /\ is_position_in_retry(settle_position(p, new)) =>
              LET c == settle_position(p, new).claim
              IN  \/ c \in new /\ PosOf[c] = p /\ ~ paper_mode
                  \/ is_position_in_retry(retry[p]) /\ c = retry[p].claim
<1> DEFINE s == settle_position(p, new)
           d == CHOOSE c \in new : PosOf[c] = p
<1>1. CASE ~ paper_mode /\ \E c \in new : PosOf[c] = p
  <2>1. d \in new /\ PosOf[d] = p
    BY <1>1
  <2>2. s = schedule_next([NoRetry EXCEPT !.claim = d])
    BY <1>1 DEF settle_position
  <2>3. s = [claim |-> d, attempt_count |-> 1, ready |-> FALSE]
    BY <2>2 DEF schedule_next, NoRetry
  <2>4. s \in RetryState
    BY <2>1, <2>3, SettlementConstants DEF RetryState
  <2>5. s.claim = d
    BY <2>3
  <2>6. QED
    BY <1>1, <2>1, <2>4, <2>5
<1>2. CASE ~ (~ paper_mode /\ \E c \in new : PosOf[c] = p)
  <2>1. s = process_retries(p)
    BY <1>2 DEF settle_position
  <2>2. QED
    BY <2>1, RetriesKeepClaim
<1>3. QED
  BY <1>1, <1>2

(* What the two flushes may write keeps RetryRow and the types.            *)
LEMMA FlushKeepsRows ==
  ASSUME SettlementInv, Flushed
  PROVE  /\ rows' \subseteq Pid
         /\ db' \in [Cid -> ClaimRec]
         /\ \A c \in Cid : db'[c] = db[c] \/ db'[c].status = "pending"
<1>1. PICK P \in SUBSET (unsold \ rows), C \in SUBSET {c \in Cid : is_pending(c)} :
         /\ rows' = rows \cup P
         /\ db' = [c \in Cid |-> IF c \in C THEN claims[c] ELSE db[c]]
  BY DEF Flushed
<1>2. QED
  BY <1>1 DEF SettlementInv, TypeOK, is_pending

LEMMA InitInv == Init => SettlementInv
<1> SUFFICES ASSUME Init PROVE SettlementInv
  OBVIOUS
<1>1. NoRetry \in RetryState /\ ~ is_position_in_retry(NoRetry)
  BY SettlementConstants DEF NoRetry, RetryState, is_position_in_retry
<1>2. TypeOK
  BY <1>1, SettlementConstants DEF Init, TypeOK, ClaimRec, Absent
<1>3. \A p \in Pid : ~ is_position_in_retry(retry[p])
  BY <1>1 DEF Init
<1>4. QED
  BY <1>2, <1>3 DEF SettlementInv, RetryOwnsClaim, RetryRow

(* A cycle: the claim of a position in retry is neither created anew nor   *)
(* reconciled.                                                             *)
LEMMA CycleKeepsInv ==
  ASSUME SettlementInv, NEW resolved \in SUBSET Pid, settlement_cycle(resolved)
  PROVE  SettlementInv'
<1> USE DEF SettlementInv
<1>0. PICK new \in FreshIds(FirstAttempt(resolved)) : \E wins \in Winners(new) :
         LET settled == [c \in Cid |-> IF c \in new THEN Created(c, wins) ELSE claims[c]]
             retries == [p \in Pid |-> settle_position(p, new)]
             final   == Reconcile(settled, retries)
         IN /\ claims' = final
            /\ retry' = retries
            /\ saves' = Persisted(final)
            /\ redeemed' = IF paper_mode THEN redeemed \cup {PosOf[c] : c \in new}
                                         ELSE redeemed
  BY DEF settlement_cycle
<1>1. PICK wins \in Winners(new) :
         LET settled == [c \in Cid |-> IF c \in new THEN Created(c, wins) ELSE claims[c]]
             retries == [p \in Pid |-> settle_position(p, new)]
             final   == Reconcile(settled, retries)
         IN /\ claims' = final
            /\ retry' = retries
            /\ saves' = Persisted(final)
            /\ redeemed' = IF paper_mode THEN redeemed \cup {PosOf[c] : c \in new}
                                         ELSE redeemed
  BY <1>0
<1> DEFINE settled == [c \in Cid |-> IF c \in new THEN Created(c, wins) ELSE claims[c]]
           retries == [p \in Pid |-> settle_position(p, new)]
<1>2. /\ claims' = Reconcile(settled, retries)
      /\ retry' = retries
      /\ saves' = Persisted(Reconcile(settled, retries))
  BY <1>1
<1>3. /\ new \in SUBSET Cid
      /\ \A c \in new : claims[c] = Absent /\ db[c] = Absent
  BY DEF FreshIds
<1>4. UNCHANGED <<paper_mode, faults, unsold, rows, db, seen, phase>>
  BY DEF settlement_cycle, env
<1>5. TypeOK'
  <2>1. \A c \in Cid : Created(c, wins) \in ClaimRec
    BY DEF Created, execute_redeem, ClaimRec, Pending
  <2>2. settled \in [Cid -> ClaimRec]
    BY <2>1 DEF TypeOK
  <2>3. ExternallySettled \in ClaimRec
    BY DEF ExternallySettled, ClaimRec
  <2>4. claims' \in [Cid -> ClaimRec]
    BY <1>2, <2>2, <2>3 DEF Reconcile
  <2>5. retry' \in [Pid -> RetryState]
    BY <1>2, <1>3, SettleKeepsClaim
  <2>6. saves' \subseteq Cid
    BY <1>2 DEF Persisted, TypeOK
  <2>7. redeemed' \subseteq Pid
    BY <1>1, <1>3, SettlementConstants DEF TypeOK
  <2>8. QED
    BY <1>4, <2>4, <2>5, <2>6, <2>7 DEF TypeOK
<1>6. ASSUME NEW p \in Pid, is_position_in_retry(retry'[p])
      PROVE  /\ retry'[p].claim \in Cid
             /\ PosOf[retry'[p].claim] = p
             /\ claims'[retry'[p].claim].status = "pending"
             /\ \/ db[retry'[p].claim] = Absent
                \/ db[retry'[p].claim].status = "pending"
  <2> DEFINE c == retry'[p].claim
  <2>1. retry'[p] = settle_position(p, new)
    BY <1>2
  <2>2. \/ c \in new /\ PosOf[c] = p /\ ~ paper_mode
        \/ is_position_in_retry(retry[p]) /\ c = retry[p].claim
    BY <1>3, <1>6, <2>1, SettleKeepsClaim
  <2>3. /\ c \in Cid
        /\ PosOf[c] = p
        /\ settled[c].status = "pending"
        /\ db[c] = Absent \/ db[c].status = "pending"
    <3>1. CASE c \in new /\ PosOf[c] = p /\ ~ paper_mode
      BY <1>3, <3>1 DEF Created, Pending
    <3>2. CASE is_position_in_retry(retry[p]) /\ c = retry[p].claim
      <4>1. c \in Cid /\ PosOf[c] = p /\ claims[c].status = "pending"
        BY <3>2 DEF RetryOwnsClaim, is_pending
      <4>2. c \notin new
        BY <1>3, <4>1 DEF Absent
      <4>3. db[c] = Absent \/ db[c].status = "pending"
        BY <3>2 DEF RetryRow
      <4>4. QED
        BY <4>1, <4>2, <4>3
    <3>3. QED
      BY <2>2, <3>1, <3>2
  <2>4. is_position_in_retry(retries[PosOf[c]])
    BY <1>2, <1>6, <2>3
  <2>5. claims'[c] = settled[c]
    BY <1>2, <2>3, <2>4 DEF Reconcile
  <2>6. QED
    BY <2>3, <2>5
<1>7. RetryOwnsClaim' /\ RetryRow'
  BY <1>4, <1>6 DEF RetryOwnsClaim, RetryRow, is_pending, is_position_in_retry,
                    exhausted
<1>8. QED
  BY <1>5, <1>7

LEMMA StepInv == SettlementInv /\ [Next]_vars => SettlementInv'
<1> SUFFICES ASSUME SettlementInv, [Next]_vars PROVE SettlementInv'
  OBVIOUS
<1> USE DEF SettlementInv
<1>1. CASE UNCHANGED vars
  BY <1>1 DEF vars, TypeOK, RetryOwnsClaim, RetryRow, is_pending,
              is_position_in_retry, exhausted
<1>2. ASSUME UNCHANGED <<claims, db, retry>>, TypeOK' PROVE SettlementInv'
  BY <1>2 DEF RetryOwnsClaim, RetryRow, is_pending, is_position_in_retry, exhausted
<1>3. ASSUME UNCHANGED <<claims, retry>>, TypeOK',
             \A c \in Cid : \/ db'[c] = db[c]
                            \/ db'[c] = claims[c]
                            \/ db'[c].status = "pending"
      PROVE  SettlementInv'
  BY <1>3 DEF RetryOwnsClaim, RetryRow, is_pending, is_position_in_retry, exhausted
<1>4. ASSUME NEW p \in Pid, close_unsold(p) PROVE SettlementInv'
  BY <1>2, <1>4 DEF close_unsold, env, TypeOK
<1>5. ASSUME NEW p \in Pid, retry_due(p) PROVE SettlementInv'
  <2>1. retry' = [retry EXCEPT ![p].ready = TRUE] /\ UNCHANGED <<claims, db>>
    BY <1>5 DEF retry_due
  <2>2. TypeOK'
    BY <1>5 DEF retry_due, env, TypeOK, RetryState
  <2>3. \A q \in Pid : /\ retry'[q].claim = retry[q].claim
                       /\ retry'[q].attempt_count = retry[q].attempt_count
    BY <2>1 DEF TypeOK, RetryState
  <2>4. QED
    BY <2>1, <2>2, <2>3 DEF RetryOwnsClaim, RetryRow, is_pending,
                            is_position_in_retry, exhausted
<1>6. ASSUME NEW p \in Pid, redeem_manually(p) PROVE SettlementInv'
  BY <1>2, <1>6 DEF redeem_manually, env, TypeOK
<1>7. ASSUME NEW p \in Pid, save_position(p) PROVE SettlementInv'
  BY <1>2, <1>7 DEF save_position, env, TypeOK
<1>8. ASSUME NEW resolved \in SUBSET Pid, settlement_cycle(resolved)
      PROVE  SettlementInv'
  BY <1>8, CycleKeepsInv
<1>9. ASSUME NEW c \in Cid, save(c) PROVE SettlementInv'
  <2>1. db' = [db EXCEPT ![c] = claims[c]] \/ UNCHANGED db
    BY <1>9 DEF save
  <2>2. TypeOK'
    BY <1>9, <2>1 DEF save, env, TypeOK
  <2>3. UNCHANGED <<claims, retry>>
    BY <1>9 DEF save
  <2>4. \A d \in Cid : db'[d] = db[d] \/ db'[d] = claims[d]
    BY <2>1 DEF TypeOK
  <2>5. QED
    BY <1>3, <2>2, <2>3, <2>4
<1>10. CASE periodic_flush
  <2>1. Flushed /\ UNCHANGED <<paper_mode, faults, unsold, claims, saves, retry,
                               seen, redeemed, phase>>
    BY <1>10 DEF periodic_flush, env
  <2>2. QED
    BY <1>3, <2>1, FlushKeepsRows DEF TypeOK
<1>11. CASE stop
  <2>1. Flushed /\ phase' = "stopped"
        /\ UNCHANGED <<paper_mode, faults, unsold, claims, saves, retry, seen,
                       redeemed>>
    BY <1>11 DEF stop, env
  <2>2. QED
    BY <1>3, <2>1, FlushKeepsRows DEF TypeOK
<1>12. CASE start
  <2>1. /\ claims' = [c \in Cid |-> IF db[c] = Absent THEN claims[c] ELSE db[c]]
        /\ UNCHANGED <<db, retry>>
    BY <1>12 DEF start
  <2>2. TypeOK'
    BY <1>12, <2>1 DEF start, env, TypeOK
  <2>3. \A c \in Cid : is_pending(c) /\ (db[c] = Absent \/ db[c].status = "pending")
                         => claims'[c].status = "pending"
    BY <2>1 DEF is_pending
  <2>4. QED
    BY <2>1, <2>2, <2>3 DEF RetryOwnsClaim, RetryRow, is_pending,
                            is_position_in_retry, exhausted
<1>13. CASE crash
  <2>1. NoRetry \in RetryState /\ ~ is_position_in_retry(NoRetry)
    BY SettlementConstants DEF NoRetry, RetryState, is_position_in_retry
  <2>2. TypeOK'
    BY <1>13, <2>1 DEF crash, env, TypeOK, ClaimRec, Absent
  <2>3. \A p \in Pid : ~ is_position_in_retry(retry'[p])
    BY <1>13, <2>1 DEF crash
  <2>4. QED
    BY <2>2, <2>3 DEF RetryOwnsClaim, RetryRow, is_position_in_retry, exhausted
<1>14. QED
  BY <1>1, <1>4, <1>5, <1>6, <1>7, <1>8, <1>9, <1>10, <1>11, <1>12, <1>13
     DEF Next, PositionStep, Resolutions

(* Types, and the bound MaxRetries on attempts, in every behaviour.        *)
THEOREM SettlementTypeCorrect == Spec => []TypeOK
<1>1. SettlementInv => TypeOK
  BY DEF SettlementInv
<1>2. QED
  BY <1>1, InitInv, StepInv, PTL DEF Spec

(* A claim in retry is its position's and PENDING in every behaviour:      *)
(* reconciliation never settles a claim that a retry still resends.        *)
THEOREM RetryOwnership == Spec => []RetryOwnsClaim
<1>1. SettlementInv => RetryOwnsClaim
  BY DEF SettlementInv
<1>2. QED
  BY <1>1, InitInv, StepInv, PTL DEF Spec

LEMMA SavedInvInit == Init => SavedInv
BY DEF Init, SavedInv, SavedOrQueued, DownEmpty

(* Every change of a claim queues a save, and a save or a flush brings a   *)
(* row up to date.                                                         *)
LEMMA SavedInvStep == TypeOK /\ SavedInv /\ [Next]_vars => SavedInv'
<1> SUFFICES ASSUME TypeOK, SavedInv, [Next]_vars PROVE SavedInv'
  OBVIOUS
<1> USE DEF SavedInv
<1>1. CASE UNCHANGED vars
  BY <1>1 DEF vars, SavedOrQueued, DownEmpty
<1>2. ASSUME UNCHANGED <<faults, phase, claims, db, saves>> PROVE SavedInv'
  BY <1>2 DEF SavedOrQueued, DownEmpty
<1>3. ASSUME NEW p \in Pid, PositionStep(p) PROVE SavedInv'
  BY <1>2, <1>3 DEF PositionStep, close_unsold, retry_due, redeem_manually,
                    save_position, env
<1>4. ASSUME NEW resolved \in SUBSET Pid, settlement_cycle(resolved)
      PROVE  SavedInv'
  <2>1. /\ UNCHANGED <<faults, phase, db>>
        /\ phase = "up"
        /\ saves' = Persisted(claims')
    BY <1>4 DEF settlement_cycle, env
  <2>2. QED
    BY <2>1 DEF Persisted, SavedOrQueued, DownEmpty
<1>5. ASSUME NEW c \in Cid, save(c) PROVE SavedInv'
  <2>1. /\ UNCHANGED <<faults, phase, claims>>
        /\ saves' = saves \ {c}
        /\ "dbWrite" \in faults \/ db' = [db EXCEPT ![c] = claims[c]]
    BY <1>5 DEF save, env
  <2>2. QED
    BY <2>1 DEF SavedOrQueued, DownEmpty, TypeOK
<1>6. ASSUME Flushed, phase = "up", phase' # "down", UNCHANGED <<faults, claims, saves>>
      PROVE  SavedInv'
  <2>1. \A c \in Cid : db'[c] \in {db[c], claims[c]}
    BY <1>6 DEF Flushed, TypeOK
  <2>2. QED
    BY <1>6, <2>1 DEF SavedOrQueued, DownEmpty
<1>7. CASE periodic_flush
  BY <1>6, <1>7 DEF periodic_flush, env
<1>8. CASE stop
  BY <1>6, <1>8 DEF stop, env
<1>9. CASE start
  <2>1. /\ claims' = [c \in Cid |-> IF db[c] = Absent THEN claims[c] ELSE db[c]]
        /\ UNCHANGED <<faults, db, saves>>
        /\ saves = {}
        /\ phase' = "up"
        /\ phase \in {"stopped", "down"}
    BY <1>9 DEF start, env
  <2>2. CASE phase = "stopped"
    BY <2>1, <2>2 DEF SavedOrQueued, DownEmpty
  <2>3. CASE phase = "down"
    BY <2>1, <2>3 DEF SavedOrQueued, DownEmpty
  <2>4. QED
    BY <2>1, <2>2, <2>3
<1>10. CASE crash
  BY <1>10 DEF crash, SavedOrQueued, DownEmpty
<1>11. QED
  BY <1>1, <1>3, <1>4, <1>5, <1>7, <1>8, <1>9, <1>10 DEF Next, Resolutions

(* A settled claim is never reopened while writes succeed, although start  *)
(* loads rows over the claims of a living process.                         *)
THEOREM SettledIsFinal == Spec => SettledStays
<1> DEFINE Kept == \A c \in Cid : "dbWrite" \notin faults /\ is_success(c)
                                    => claims'[c] \in {claims[c], Absent}
<1>1. TypeOK /\ SavedInv /\ [Next]_vars => [Kept]_vars
  <2> SUFFICES ASSUME TypeOK, SavedInv, Next, NEW c \in Cid,
                      "dbWrite" \notin faults, is_success(c)
               PROVE  claims'[c] \in {claims[c], Absent}
    OBVIOUS
  <2>1. CASE UNCHANGED claims
    BY <2>1
  <2>2. ASSUME NEW resolved \in SUBSET Pid, settlement_cycle(resolved)
        PROVE  claims'[c] = claims[c]
    <3>1. PICK new \in FreshIds(FirstAttempt(resolved)) : \E wins \in Winners(new) :
             claims' = Reconcile([d \in Cid |-> IF d \in new THEN Created(d, wins)
                                                            ELSE claims[d]],
                                 [p \in Pid |-> settle_position(p, new)])
      BY <2>2 DEF settlement_cycle
    <3>2. c \notin new
      BY DEF FreshIds, is_success, Absent
    <3>3. QED
      BY <3>1, <3>2 DEF Reconcile, is_success
  <2>3. CASE start
    <3>1. /\ claims' = [d \in Cid |-> IF db[d] = Absent THEN claims[d] ELSE db[d]]
          /\ saves = {}
      BY <2>3 DEF start
    <3>2. phase # "down"
      BY DEF SavedInv, DownEmpty, is_success, Absent
    <3>3. db[c] = claims[c]
      BY <3>1, <3>2 DEF SavedInv, SavedOrQueued
    <3>4. QED
      BY <3>1, <3>3
  <2>4. CASE crash
    BY <2>4 DEF crash
  <2>5. QED
    BY <2>1, <2>2, <2>3, <2>4 DEF Next, Resolutions, PositionStep, close_unsold, retry_due,
       redeem_manually, save_position, save, periodic_flush, stop
<1>2. QED
  BY <1>1, SavedInvInit, SavedInvStep, SettlementTypeCorrect, PTL DEF Spec, SettledStays

-----------------------------------------------------------------------------
(* One claim per position.                                                 *)

(* The behaviours OneClaim is about.                                       *)
NothingLost == {"crash", "dbWrite"} \cap faults = {}

(* A PENDING claim outside a cycle is the one its position's retry resends:*)
(* a retry that ends leaves its claim to the reconciliation of that cycle. *)
PendingRetried ==
  \A c \in Cid : is_pending(c) => /\ is_position_in_retry(retry[PosOf[c]])
                                  /\ retry[PosOf[c]].claim = c

(* An absent claim or row carries no outcome.                              *)
AbsentPlain ==
  \A c \in Cid : /\ claims[c].status = "absent" => claims[c] = Absent
                 /\ db[c].status = "absent" => db[c] = Absent

ClaimInv ==
  /\ OneClaim
  /\ AbsentPlain
  /\ NothingLost => phase # "down" /\ PendingRetried

(* Neither a retry nor a settled claim lets process_settlements create     *)
(* another claim.                                                          *)
LEMMA FirstIsFirst ==
  ASSUME TypeOK, NothingLost, ClaimInv, NEW resolved, NEW p \in FirstAttempt(resolved),
         NEW c \in Cid, PosOf[c] = p
  PROVE  claims[c] = Absent
<1>1. p \in unsold /\ process_retries(p) = NoRetry /\ ~ is_settled(p)
  BY DEF FirstAttempt
<1>2. ~ is_success(c)
  BY <1>1 DEF is_settled
<1>3. ASSUME is_pending(c)
      PROVE  FALSE
  <2>1. is_position_in_retry(retry[p]) /\ retry[p].claim = c
    BY <1>3 DEF ClaimInv, PendingRetried
  <2>2. retry[p] # NoRetry /\ ~ exhausted(retry[p])
    BY <2>1, SettlementConstants DEF is_position_in_retry, NoRetry
  <2>3. ~ Removed(p)
    BY <1>1, <1>2, <2>1, <2>2 DEF Removed
  <2>4. process_retries(p) \in {retry[p], schedule_next(retry[p])}
    BY <2>2, <2>3 DEF process_retries
  <2>5. process_retries(p).claim = c
    BY <2>1, <2>4 DEF schedule_next
  <2> QED
    BY <1>1, <2>5, SettlementConstants DEF NoRetry
<1>4. claims[c] \in ClaimRec /\ claims[c].status = "absent"
  BY <1>2, <1>3 DEF TypeOK, ClaimRec, is_pending, is_success
<1> QED
  BY <1>4 DEF ClaimInv, AbsentPlain

LEMMA ClaimInvInit == Init => ClaimInv
<1> SUFFICES ASSUME Init PROVE ClaimInv
  OBVIOUS
<1>1. phase = "up" /\ \A c \in Cid : claims[c] = Absent /\ db[c] = Absent
  BY DEF Init
<1>2. \A c \in Cid : ~ is_pending(c)
  BY <1>1 DEF is_pending, Absent
<1> QED
  BY <1>1, <1>2 DEF ClaimInv, OneClaim, AbsentPlain, PendingRetried

(* A cycle: a new claim is the first of its position, and a claim still    *)
(* PENDING when the cycle ends is the one its position's retry holds.      *)
LEMMA CycleKeepsClaims ==
  ASSUME TypeOK, ClaimInv, NEW resolved \in SUBSET Pid, settlement_cycle(resolved)
  PROVE  ClaimInv'
<1>1. PICK new \in FreshIds(FirstAttempt(resolved)) : \E wins \in Winners(new) :
         /\ claims' = Reconcile([c \in Cid |-> IF c \in new THEN Created(c, wins)
                                                           ELSE claims[c]],
                                [p \in Pid |-> settle_position(p, new)])
         /\ retry' = [p \in Pid |-> settle_position(p, new)]
  BY DEF settlement_cycle
<1>2. PICK wins \in Winners(new) :
         /\ claims' = Reconcile([c \in Cid |-> IF c \in new THEN Created(c, wins)
                                                           ELSE claims[c]],
                                [p \in Pid |-> settle_position(p, new)])
         /\ retry' = [p \in Pid |-> settle_position(p, new)]
  BY <1>1
<1> DEFINE settled == [c \in Cid |-> IF c \in new THEN Created(c, wins) ELSE claims[c]]
<1>3. /\ new \in SUBSET Cid
      /\ \A c \in new : claims[c] = Absent /\ PosOf[c] \in FirstAttempt(resolved)
      /\ \A c, d \in new : PosOf[c] = PosOf[d] => c = d
  BY DEF FreshIds
<1>4. UNCHANGED <<faults, db, phase>> /\ phase = "up"
  BY DEF settlement_cycle, env
<1>5. \A c \in Cid : /\ claims'[c] \in {settled[c], ExternallySettled}
                     /\ settled[c].status # "pending" => claims'[c] = settled[c]
                     /\ claims'[c].status = "pending" =>
                          /\ settled[c].status = "pending"
                          /\ is_position_in_retry(retry'[PosOf[c]])
  BY <1>2, SettlementConstants DEF Reconcile, ExternallySettled
<1>6. \A c \in Cid : /\ settled[c] = IF c \in new THEN Created(c, wins) ELSE claims[c]
                     /\ Created(c, wins).status # "absent"
  BY DEF Created, execute_redeem, Pending
<1> HIDE DEF settled
<1>7. AbsentPlain'
  <2>1. ASSUME NEW c \in Cid, claims'[c].status = "absent" PROVE claims'[c] = claims[c]
    <3>1. claims'[c] = settled[c]
      BY <1>5, <2>1 DEF ExternallySettled
    <3> QED
      BY <1>6, <2>1, <3>1
  <2> QED
    BY <1>4, <2>1 DEF ClaimInv, AbsentPlain
<1>8. ASSUME NothingLost, NEW c \in Cid, claims'[c] # Absent, c \notin new
      PROVE  claims[c] # Absent
  <2>1. settled[c] = claims[c]
    BY <1>6, <1>8
  <2> QED
    BY <1>5, <1>8, <2>1 DEF Absent
<1>9. OneClaim'
  <2> SUFFICES ASSUME NothingLost, NEW c \in Cid, NEW d \in Cid, claims'[c] # Absent,
                      claims'[d] # Absent, PosOf[c] = PosOf[d]
               PROVE  c = d
    BY <1>4 DEF OneClaim, NothingLost
  <2>1. CASE c \in new /\ d \in new
    BY <1>3, <2>1
  <2>2. CASE c \notin new /\ d \notin new
    BY <1>8, <2>2 DEF ClaimInv, OneClaim, NothingLost
  <2>3. CASE c \in new /\ d \notin new
    <3>1. claims[d] = Absent
      BY <1>3, <2>3, FirstIsFirst
    <3> QED
      BY <1>8, <2>3, <3>1
  <2>4. CASE c \notin new /\ d \in new
    <3>1. claims[c] = Absent
      BY <1>3, <2>4, FirstIsFirst
    <3> QED
      BY <1>8, <2>4, <3>1
  <2> QED
    BY <2>1, <2>2, <2>3, <2>4
<1>10. ASSUME NothingLost, NEW c \in Cid, claims'[c].status = "pending"
       PROVE  is_position_in_retry(retry'[PosOf[c]]) /\ retry'[PosOf[c]].claim = c
  <2> DEFINE p == PosOf[c]
  <2>1. p \in Pid /\ settled[c].status = "pending" /\ is_position_in_retry(retry'[p])
    BY <1>5, <1>10, SettlementConstants
  <2>2. retry'[p] = settle_position(p, new)
    BY <1>2, <2>1
  <2>3. \/ retry'[p].claim \in new /\ PosOf[retry'[p].claim] = p
        \/ is_position_in_retry(retry[p]) /\ retry'[p].claim = retry[p].claim
    BY <1>3, <2>1, <2>2, SettleKeepsClaim
  <2>4. CASE c \in new
    <3>0. Created(c, wins).status = "pending"
      BY <1>6, <2>1, <2>4
    <3>1. ~ paper_mode
      BY <3>0 DEF Created, execute_redeem
    <3>2. (CHOOSE d \in new : PosOf[d] = p) = c
      BY <1>3, <2>4
    <3>3. retry'[p] = schedule_next([NoRetry EXCEPT !.claim = c])
      BY <2>2, <2>4, <3>1, <3>2 DEF settle_position
    <3> QED
      BY <2>1, <3>3 DEF schedule_next, NoRetry
  <2>5. CASE c \notin new
    <3>1. is_pending(c)
      BY <1>6, <2>1, <2>5 DEF is_pending
    <3>2. is_position_in_retry(retry[p]) /\ retry[p].claim = c
      BY <1>10, <3>1 DEF ClaimInv, PendingRetried
    <3>3. ~ (retry'[p].claim \in new /\ PosOf[retry'[p].claim] = p)
      <4> SUFFICES ASSUME retry'[p].claim \in new, PosOf[retry'[p].claim] = p
                   PROVE  FALSE
        OBVIOUS
      <4>1. p \in FirstAttempt(resolved)
        BY <1>3
      <4>2. claims[c] = Absent
        BY <1>10, <4>1, FirstIsFirst
      <4> QED
        BY <3>1, <4>2 DEF is_pending, Absent
    <3> QED
      BY <2>1, <2>3, <3>2, <3>3
  <2> QED
    BY <2>4, <2>5
<1> QED
  BY <1>4, <1>7, <1>9, <1>10 DEF ClaimInv, NothingLost, PendingRetried, is_pending,
                                 is_position_in_retry, exhausted

LEMMA ClaimInvStep ==
  TypeOK /\ SavedInv /\ ClaimInv /\ [Next]_vars => ClaimInv'
<1> SUFFICES ASSUME TypeOK, SavedInv, ClaimInv, [Next]_vars PROVE ClaimInv'
  OBVIOUS
<1> USE DEF ClaimInv, NothingLost
<1>1. ASSUME UNCHANGED <<faults, claims, retry>>, phase # "down" => phase' # "down",
             \A c \in Cid : db'[c] \in {db[c], claims[c]}
      PROVE  ClaimInv'
  BY <1>1 DEF OneClaim, AbsentPlain, PendingRetried, is_pending, is_position_in_retry,
              exhausted
<1>2. CASE UNCHANGED vars
  BY <1>1, <1>2 DEF vars
<1>3. ASSUME NEW p \in Pid, PositionStep(p), UNCHANGED retry PROVE ClaimInv'
  BY <1>1, <1>3 DEF PositionStep, close_unsold, retry_due, redeem_manually,
                    save_position, env
<1>4. ASSUME NEW p \in Pid, retry_due(p) PROVE ClaimInv'
  <2>1. retry' = [retry EXCEPT ![p].ready = TRUE]
        /\ UNCHANGED <<faults, claims, db, phase>>
    BY <1>4 DEF retry_due, env
  <2>2. \A q \in Pid : /\ retry'[q].claim = retry[q].claim
                       /\ retry'[q].attempt_count = retry[q].attempt_count
    BY <2>1 DEF TypeOK, RetryState
  <2> QED
    BY <2>1, <2>2, SettlementConstants
       DEF OneClaim, AbsentPlain, PendingRetried, is_pending, is_position_in_retry,
           exhausted
<1>5. ASSUME NEW resolved \in SUBSET Pid, settlement_cycle(resolved) PROVE ClaimInv'
  BY <1>5, CycleKeepsClaims
<1>6. ASSUME NEW c \in Cid, save(c) PROVE ClaimInv'
  <2>1. UNCHANGED <<faults, claims, retry, phase>>
        /\ (db' = [db EXCEPT ![c] = claims[c]] \/ UNCHANGED db)
    BY <1>6 DEF save, env
  <2> QED
    BY <1>1, <2>1 DEF TypeOK
<1>7. ASSUME Flushed, UNCHANGED <<faults, claims, retry>>, phase' # "down"
      PROVE  ClaimInv'
  <2>1. \A c \in Cid : db'[c] \in {db[c], claims[c]}
    BY <1>7 DEF Flushed, TypeOK
  <2> QED
    BY <1>1, <1>7, <2>1
<1>8. CASE periodic_flush
  BY <1>7, <1>8 DEF periodic_flush, env
<1>9. CASE stop
  BY <1>7, <1>9 DEF stop, env
<1>10. CASE start
  <2>1. /\ claims' = [c \in Cid |-> IF db[c] = Absent THEN claims[c] ELSE db[c]]
        /\ UNCHANGED <<faults, db, retry>>
        /\ saves = {}
        /\ phase' = "up"
    BY <1>10 DEF start, env
  <2>2. ASSUME NothingLost PROVE \A c \in Cid : claims'[c] = claims[c]
    <3>1. \A c \in Cid : db[c] = claims[c]
      BY <2>1, <2>2 DEF SavedInv, SavedOrQueued
    <3> QED
      BY <2>1, <3>1
  <2>3. AbsentPlain'
    BY <2>1 DEF AbsentPlain
  <2> QED
    BY <2>1, <2>2, <2>3 DEF OneClaim, PendingRetried, is_pending, is_position_in_retry,
                            exhausted
<1>11. CASE crash
  <2>1. "crash" \in faults' /\ UNCHANGED db /\ claims' = [c \in Cid |-> Absent]
    BY <1>11 DEF crash, env
  <2> QED
    <3>1. ~ NothingLost' /\ OneClaim'
      BY <2>1 DEF OneClaim
    <3>2. AbsentPlain'
      BY <2>1 DEF AbsentPlain
    <3> QED
      BY <3>1, <3>2
<1> QED
  BY <1>2, <1>3, <1>4, <1>5, <1>6, <1>8, <1>9, <1>10, <1>11
     DEF Next, PositionStep, Resolutions, close_unsold, redeem_manually, save_position

(* While the process lives and its writes succeed no position gets a       *)
(* second claim, however retries, exhaustion, reconciliation, stop and     *)
(* start follow one another.                                               *)
THEOREM OneClaimPerPosition == Spec => []OneClaim
<1>1. ClaimInv => OneClaim
  BY DEF ClaimInv
<1>2. QED
  BY <1>1, ClaimInvInit, ClaimInvStep, SavedInvInit, SavedInvStep, SettlementTypeCorrect,
     PTL DEF Spec
=============================================================================
