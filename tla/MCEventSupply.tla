---------------------------- MODULE MCEventSupply ----------------------------
(***************************************************************************)
(* Two coins, slots of two ticks: btc has the events of two slots, eth the *)
(* one of the first.  The listing also has a quarter-hour event tagged     *)
(* like the others.                                                        *)
(***************************************************************************)
EXTENDS EventSupply

CONSTANTS btc, eth, b0, b1, e0, q0

MCAssetOf == [e \in Event |-> IF e = e0 THEN eth ELSE btc]

MCListing ==
  [e \in Event |-> [tags |-> IF e = q0 THEN <<"crypto", "15m", "5m">> ELSE <<"5m", "crypto-prices">>,
                    up_or_down |-> TRUE, well_formed |-> TRUE]]

MCStartOf == [e \in Event |-> IF e = b1 THEN SlotLen ELSE 0]

MCOpenPrice == [e \in Event |-> IF e = b1 THEN 7 ELSE 5]

(* The seeds do not matter to this instance; see MCEntryDecision.          *)
MCSeeds == {[kind |-> "empty", up |-> 0, down |-> 0]}

MCComplete ==
  [f \in Fields |->
     CASE f = "price_min" -> 60 [] f = "price_max" -> 90
       [] f = "time_min" -> 1 [] f = "time_max" -> 2
       [] OTHER -> 1]

MCInitSettings ==
  [a \in Asset |-> IF a = btc THEN [coin_enabled |-> TRUE, side_mode |-> "dominant_only",
                                    value |-> MCComplete]
                   ELSE NoSettings]

(* A complete save, and one that moves a single end of a range.            *)
MCUpdates ==
  {[side_mode |-> "keep", value |-> MCComplete],
   [side_mode |-> "keep", value |-> [f \in {"price_min"} |-> 95]]}
==============================================================================
