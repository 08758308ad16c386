----------------------------- MODULE EntryRules -----------------------------
(***************************************************************************)
(* The rule engine: an evaluation context, six rules that answer pass,     *)
(* fail, waiting or disabled, and the decision merged from them.  Prices   *)
(* are integer cents, so price_100 is the price itself, and the spread     *)
(* percentage is compared without division.                                *)
(***************************************************************************)
EXTENDS Integers

RuleState == {"pass", "fail", "waiting", "disabled"}

Decision == {"entry", "no_entry", "waiting", "no_rules"}

-----------------------------------------------------------------------------
(* EvaluationContext: the side a coin trades and its reference prices.     *)

dominant_up(c) == c.up_bid >= c.down_bid

evaluated_side(c) ==
  CASE c.side_mode = "up_only" -> "UP"
    [] c.side_mode = "down_only" -> "DOWN"
    [] OTHER -> IF dominant_up(c) THEN "UP" ELSE "DOWN"

(* FOK market orders buy at the ask and sell at the bid.                   *)
entry_ref_price(c) == IF evaluated_side(c) = "UP" THEN c.up_ask ELSE c.down_ask

exit_ref_price(c) == IF evaluated_side(c) = "UP" THEN c.up_bid ELSE c.down_bid

(* The ask of the dominant side, whatever side is evaluated.               *)
best_ask(c) == IF dominant_up(c) THEN c.up_ask ELSE c.down_ask

distance(x, y) == IF x >= y THEN x - y ELSE y - x

delta(c) == IF c.coin_usd > 0 /\ c.ptb_value > 0 THEN distance(c.coin_usd, c.ptb_value) ELSE 0

-----------------------------------------------------------------------------
(* The rules.  A rule whose setting is 0 is disabled; the two limits have  *)
(* no such switch.                                                         *)

verdict(ok) == IF ok THEN "pass" ELSE "fail"

time_rule(c) ==
  IF c.time_min = 0 THEN "disabled"
  ELSE verdict(c.remaining > 0 /\ c.time_min <= c.remaining /\ c.remaining <= c.time_max)

price_rule(c) ==
  IF c.price_min = 0 THEN "disabled"
  ELSE IF ~c.outcome_fresh THEN "waiting"
  ELSE verdict(c.price_min <= entry_ref_price(c) /\ entry_ref_price(c) <= c.price_max)

(* Mutant: the age of the coin's USD price is not looked at.               *)
delta_rule_stale(c) ==
  IF c.delta_threshold = 0 THEN "disabled"
  ELSE IF ~c.ptb_acquired THEN "waiting"
  ELSE verdict(delta(c) >= c.delta_threshold)

delta_rule(c) ==
  IF c.delta_threshold = 0 THEN "disabled"
  ELSE IF ~c.ptb_acquired \/ ~c.coin_fresh THEN "waiting"
  ELSE verdict(delta(c) >= c.delta_threshold)

spread_ok(c) ==
  LET ask == entry_ref_price(c) IN
  IF ask > 0 THEN (ask - exit_ref_price(c)) * 100 <= c.spread_max * ask ELSE TRUE

spread_rule(c) ==
  IF c.spread_max = 0 THEN "disabled"
  ELSE IF ~c.outcome_fresh \/ best_ask(c) <= 0 THEN "waiting"
  ELSE verdict(spread_ok(c))

event_max_rule(c) == verdict(c.event_fill_count < c.event_max)

bot_max_rule(c) == verdict(c.open_position_count < c.bot_max)

rule_results(c) ==
  {time_rule(c), price_rule(c), delta_rule(c), spread_rule(c), event_max_rule(c), bot_max_rule(c)}

(* Fail dominates, then waiting; disabled rules do not count.              *)
merge_decision(results) ==
  IF "fail" \in results THEN "no_entry"
  ELSE IF "waiting" \in results THEN "waiting"
  ELSE IF "pass" \in results THEN "entry" ELSE "no_rules"

evaluate(c) == merge_decision(rule_results(c))
=============================================================================
