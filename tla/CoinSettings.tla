---------------------------- MODULE CoinSettings ----------------------------
(***************************************************************************)
(* The settings of a coin: the fields of a CoinSettings, when they are     *)
(* complete, and how a partial save is merged into them.  Amounts are      *)
(* integers (USD, cents of an outcome, clock ticks); 0 means "not set".    *)
(***************************************************************************)
EXTENDS Integers

SideMode == {"dominant_only", "up_only", "down_only"}

Fields == {"delta_threshold", "price_min", "price_max", "spread_max", "time_min",
           "time_max", "event_max", "order_amount"}

(* A CoinSettings; a coin the store has no entry for has side mode "none". *)
CoinSettingsRecord ==
  [coin_enabled : BOOLEAN, side_mode : SideMode \cup {"none"}, value : [Fields -> Nat]]

(* CoinSettings(coin=sym): everything unset, disabled.                     *)
DefaultSettings ==
  [coin_enabled |-> FALSE, side_mode |-> "dominant_only",
   value |-> [f \in Fields |-> IF f = "event_max" THEN 1 ELSE 0]]

NoSettings == [DefaultSettings EXCEPT !.side_mode = "none"]

has_settings(s) == s.side_mode # "none"

(* update_settings starts from the stored settings or from fresh ones.     *)
existing(s) == IF has_settings(s) THEN s ELSE DefaultSettings

is_configured(s) ==
  LET v == s.value IN
  /\ v["delta_threshold"] > 0
  /\ v["price_min"] > 0 /\ v["price_max"] > 0 /\ v["price_min"] < v["price_max"]
  /\ v["time_min"] > 0 /\ v["time_max"] > 0 /\ v["time_min"] < v["time_max"]
  /\ v["order_amount"] > 0

is_trade_eligible(s) == s.coin_enabled /\ is_configured(s)

(* What the settings endpoints report as missing.  A range whose minimum   *)
(* is set but not below its maximum is reported under the minimum's name.  *)
check_missing_fields(s) ==
  LET v == s.value IN
  {f \in {"delta_threshold", "price_min", "price_max", "time_min", "time_max",
          "order_amount"} : v[f] <= 0}
  \cup {f \in {"price_min"} : v["price_min"] >= v["price_max"] /\ v["price_min"] > 0}
  \cup {f \in {"time_min"} : v["time_min"] >= v["time_max"] /\ v["time_min"] > 0}

(* A partial update u: the fields that were sent (u.value, and a side mode *)
(* other than "keep") replace the stored ones; coin_enabled never changes. *)
merged(s, u) ==
  [coin_enabled |-> s.coin_enabled,
   side_mode |-> IF u.side_mode = "keep" THEN s.side_mode ELSE u.side_mode,
   value |-> [f \in Fields |-> IF f \in DOMAIN u.value THEN u.value[f] ELSE s.value[f]]]

(* A range with both ends set has its minimum below its maximum.           *)
ordered(v, lo, hi) == v[lo] > 0 /\ v[hi] > 0 => v[lo] < v[hi]

(* Mutant: only the fields of the request are compared.                    *)
accepted_body_only(s, u) ==
  LET v == merged(DefaultSettings, u).value IN
  ordered(v, "price_min", "price_max") /\ ordered(v, "time_min", "time_max")

(* The cross-field validation of the save endpoint (HTTP 422): a range     *)
(* is compared after the stored values fill the fields that were not sent. *)
accepted(s, u) ==
  LET v == merged(s, u).value IN
  ordered(v, "price_min", "price_max") /\ ordered(v, "time_min", "time_max")
=============================================================================
