--------------------------- MODULE MCEntryDecision ---------------------------
(***************************************************************************)
(* One coin with the events of two slots of two ticks.                     *)
(***************************************************************************)
EXTENDS EntryDecision

CONSTANTS btc, b0, b1

MCAssetOf == [e \in Event |-> btc]

MCListing ==
  [e \in Event |-> [tags |-> <<"5m", "crypto">>, up_or_down |-> TRUE, well_formed |-> TRUE]]

MCStartOf == [e \in Event |-> IF e = b1 THEN SlotLen ELSE 0]

(* A USD price of 9 is far enough from the first price to beat and too     *)
(* near to the second.                                                     *)
MCOpenPrice == [e \in Event |-> IF e = b1 THEN 7 ELSE 5]

(* The listed price is above the range of the settings, the quoted one in  *)
(* it; a quote of the other side leaves the listed price standing.         *)
MCSeeds == {[kind |-> "ok", up |-> 95, down |-> 5]}

MCQuotes == {<<70, 72>>}

MCInitSettings ==
  [a \in Asset |->
     [coin_enabled |-> TRUE, side_mode |-> "dominant_only",
      value |-> [f \in Fields |->
                   CASE f = "price_min" -> 60 [] f = "price_max" -> 90
                     [] f = "time_min" -> 1 [] f = "time_max" -> 2
                     [] f = "delta_threshold" -> 3 [] f = "spread_max" -> 5
                     [] OTHER -> 1]]]
==============================================================================
