---------------------------- MODULE PriceRecords ----------------------------
(***************************************************************************)
(* The records the entry decision reads: the outcome prices of an event    *)
(* (LivePriceRecord), the USD price of a coin (CoinPriceRecord) and the    *)
(* price to beat of an event (PTBRecord), with the operations of their     *)
(* classes.  Outcome prices are integer cents, a valid one in 1..100; a    *)
(* record that does not exist has status "none"; Never is the updated_at   *)
(* of a record that was never updated.                                     *)
(***************************************************************************)
EXTENDS Integers

Never == -1

PriceStatus == {"none", "waiting", "fresh", "stale", "invalid"}

PTBStatus == {"none", "waiting", "acquired", "failed"}

-----------------------------------------------------------------------------
(* LivePriceRecord and LivePricePipeline.                                  *)

NoPrice == [status |-> "none", updated |-> Never,
            up_bid |-> 0, up_ask |-> 0, down_bid |-> 0, down_ask |-> 0]

get_or_create(r) == IF r.status = "none" THEN [r EXCEPT !.status = "waiting"] ELSE r

is_valid_price(p) == 0 < p /\ p <= 100

is_stale(r, t, limit) == r.updated # Never /\ t - r.updated > limit

(* Every reader calls this first; only FRESH can become STALE here.        *)
check_freshness(r, t, limit) ==
  IF r.status \in {"none", "invalid", "waiting"} \/ ~is_stale(r, t, limit)
  THEN r ELSE [r EXCEPT !.status = "stale"]

(* One side of the book; the other side keeps its old quote and becomes    *)
(* fresh with it.  An invalid quote leaves a live record as it is.         *)
update_from_ws(r0, side, bid, ask, t) ==
  LET r == get_or_create(r0) IN
  IF ~is_valid_price(bid) \/ ~is_valid_price(ask)
  THEN IF r.status = "waiting" THEN [r EXCEPT !.status = "invalid"] ELSE r
  ELSE [status |-> "fresh", updated |-> t,
        up_bid |-> IF side = "UP" THEN bid ELSE r.up_bid,
        up_ask |-> IF side = "UP" THEN ask ELSE r.up_ask,
        down_bid |-> IF side = "DOWN" THEN bid ELSE r.down_bid,
        down_ask |-> IF side = "DOWN" THEN ask ELSE r.down_ask]

(* outcomePrices of the Gamma API: parsed as a pair or not at all.  Both   *)
(* sides are overwritten with bid = ask; bad data invalidates the record,  *)
(* live quotes of the socket included.                                     *)
update_from_gamma(r0, seed, t) ==
  LET r == get_or_create(r0) IN
  IF seed.kind = "bad" \/ ~is_valid_price(seed.up) \/ ~is_valid_price(seed.down)
  THEN [r EXCEPT !.status = "invalid"]
  ELSE [status |-> "fresh", updated |-> t, up_bid |-> seed.up, up_ask |-> seed.up,
        down_bid |-> seed.down, down_ask |-> seed.down]

-----------------------------------------------------------------------------
(* CoinPriceRecord.                                                        *)

NoCoin == [status |-> "none", updated |-> Never, usd |-> 0]

update_record(price, t) == [status |-> "fresh", updated |-> t, usd |-> price]

-----------------------------------------------------------------------------
(* PTBRecord.                                                              *)

NoPtb == [status |-> "none", value |-> 0]

get_or_create_record(r) == IF r.status = "none" THEN [status |-> "waiting", value |-> 0]
                           ELSE r

is_locked(r) == r.status = "acquired"

(* lock, record_failure and record_retry.  lock is called on an unlocked   *)
(* record only: on a locked one it raises.  The other two do not look.     *)
lock(r, value) == [status |-> "acquired", value |-> value]

record_failure(r) == [r EXCEPT !.status = "failed"]

record_retry(r) == [r EXCEPT !.status = "waiting"]
=============================================================================
