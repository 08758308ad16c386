---------------------------- MODULE PositionBook ----------------------------
(***************************************************************************)
(* What the position machinery promises, without tracker, exit cycle, save *)
(* tasks, database, stop or restart: a book of positions and the account   *)
(* that holds their lots.  A position is bought at most once and sold at   *)
(* most once, an order and its booking are one step, a decided exit is     *)
(* taken back only while it is an unsent take profit, and the one thing a  *)
(* restart of the bot may do is give up the orders that were pending.      *)
(***************************************************************************)
EXTENDS Naturals, FiniteSets

CONSTANTS Pid, Event, Token, EventOf, TokenOf, EventMax

VARIABLES
  book,      (* the standing of each position                              *)
  account    (* lots of each token held                                    *)

Standing == {"unborn", "pending", "held", "offered", "condemned", "sold",
             "rejected"}

(* Positions that use up one of their event's EventMax places.             *)
places(e) == {p \in Pid : EventOf[p] = e /\ book[p] \notin {"unborn", "rejected"}}

Moves(p, from, to) ==
  /\ book[p] \in from
  /\ book' = [book EXCEPT ![p] = to]

CanOpen(p) == Cardinality(places(EventOf[p])) < EventMax

Submit(p) == CanOpen(p) /\ Moves(p, {"unborn"}, "pending") /\ UNCHANGED account

Fill(p) ==
  /\ book[p] = "unborn" => CanOpen(p)
  /\ Moves(p, {"unborn", "pending"}, "held")
  /\ account' = [account EXCEPT ![TokenOf[p]] = @ + 1]

Reject(p) == Moves(p, {"unborn", "pending"}, "rejected") /\ UNCHANGED account

(* Take profit may still be withdrawn, any other exit may not.             *)
Offer(p) == Moves(p, {"held"}, "offered") /\ UNCHANGED account

Withdraw(p) == Moves(p, {"offered"}, "held") /\ UNCHANGED account

Condemn(p) == Moves(p, {"held", "offered"}, "condemned") /\ UNCHANGED account

Sell(p) ==
  /\ Moves(p, {"offered", "condemned"}, "sold")
  /\ account[TokenOf[p]] > 0
  /\ account' = [account EXCEPT ![TokenOf[p]] = @ - 1]

(* A restart: every pending position is rejected, nothing else moves.      *)
GiveUp ==
  /\ book' = [p \in Pid |-> IF book[p] = "pending" THEN "rejected" ELSE book[p]]
  /\ UNCHANGED account

Init ==
  /\ book = [p \in Pid |-> "unborn"]
  /\ account = [t \in Token |-> 0]

Next ==
  \/ GiveUp
  \/ \E p \in Pid : \/ Submit(p) \/ Fill(p) \/ Reject(p)
                    \/ Offer(p) \/ Withdraw(p) \/ Condemn(p) \/ Sell(p)

Spec == Init /\ [][Next]_<<book, account>>
=============================================================================
