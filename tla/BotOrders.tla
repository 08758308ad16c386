------------------------------ MODULE BotOrders ------------------------------
(***************************************************************************)
(* The balance the bot trades on, composed with its lifecycle: who asks    *)
(* the exchange for it, and the paper orders and sales that change the     *)
(* copy BalanceManager keeps.                                              *)
(*                                                                         *)
(* An order is let through by the age of that copy and its amount, not by  *)
(* trading_enabled or paused, which neither the evaluation loop nor the    *)
(* executor reads.  Neither a paper order nor a paper sale suspends        *)
(* between looking at the balance and changing it.  Which event an order   *)
(* is for is EntryDecision's, which positions there are is                 *)
(* PositionLifecycle's; here they are counted.  A paper redeem would add   *)
(* to the balance as a sale does, but only a live run closes a position    *)
(* unsold (Settlement), and rows of a live run are not considered.         *)
(***************************************************************************)
EXTENDS BotLifecycle

CONSTANTS
  BotMax,     (* the executor's bound on open positions                    *)
  MaxAmount,  (* bound: the amount of one order, and of one sale           *)
  MaxBalance, (* bound: a balance the exchange answers                     *)
  MaxSpent,   (* bound: what is spent on one answer                        *)
  MaxEarned   (* bound: what is earned since one answer                    *)

ASSUME OrderConstants ==
  /\ BotMax \in Nat /\ MaxAmount \in Nat /\ MaxBalance \in Nat
  /\ MaxSpent \in Nat /\ MaxEarned \in Nat

VARIABLES
  available, (* BalanceManager._available                                  *)
  stale,     (* its is_stale: no _updated_at, or one too long ago          *)
  followed,  (* an event is subscribed, so that its prices are evaluated   *)
  held,      (* open positions; without a process, their rows              *)
  funded,    (* history: the exchange's last answer to this process, or 0  *)
  spent,     (* history: what orders have spent since that answer          *)
  earned     (* history: what sales have brought since that answer         *)

balance_vars == <<available, stale, funded, spent, earned>>
order_vars == <<balance_vars, followed, held>>

-----------------------------------------------------------------------------
(* BalanceManager.                                                         *)

(* update, and fetch when it is answered.                                  *)
update ==
  /\ \E b \in IF "trade" \in scenario THEN 0..MaxBalance ELSE {0} :
        available' = b /\ funded' = b
  /\ stale' = FALSE
  /\ spent' = 0 /\ earned' = 0

(* Mutant: an order does not lower the balance.                            *)
deducted_nothing(n) == available

deducted(n) == IF n <= available THEN available - n ELSE 0

deduct(n) ==
  /\ available' = deducted(n)
  /\ stale' = FALSE
  /\ spent' = spent + n
  /\ UNCHANGED <<funded, earned>>

add(n) ==
  /\ available' = available + n
  /\ stale' = FALSE
  /\ earned' = earned + n
  /\ UNCHANGED <<funded, spent>>

(* 90 s without any of these: nothing starts the passive refresh.          *)
balance_ages ==
  /\ "trade" \in scenario
  /\ ~stale
  /\ stale' = TRUE
  /\ UNCHANGED <<vars, available, funded, spent, earned, followed, held>>

-----------------------------------------------------------------------------
(* Orders and sales of a bot in paper mode.                                *)

(* _handle_discovered_events subscribes an event, with or without          *)
(* credentials, unless the bot is paused.                                  *)
follow ==
  /\ "trade" \in scenario
  /\ is_alive("discovery") \/ orphans["discovery"] > 0
  /\ running["discovery"]
  /\ ~paused /\ ~followed
  /\ followed' = TRUE
  /\ UNCHANGED <<vars, balance_vars, held>>

(* OrderValidator.validate, as far as it concerns the bot as a whole.      *)
validate(n) == n <= available /\ held < BotMax

(* The evaluation loop finds an entry and dispatches it.                   *)
entry_order(n) ==
  /\ "trade" \in scenario
  /\ is_alive("evaluation") \/ orphans["evaluation"] > 0
  /\ running["evaluation"]
  /\ followed
  /\ ~stale /\ validate(n)
  /\ spent + n <= MaxSpent
  /\ deduct(n)
  /\ held' = held + 1
  /\ UNCHANGED <<vars, followed>>

(* The exit cycle closes a position: a paper sale is always executed.      *)
paper_sale(n) ==
  /\ "trade" \in scenario
  /\ is_alive("exit") \/ orphans["exit"] > 0
  /\ running["exit"]
  /\ held > 0
  /\ earned + n <= MaxEarned
  /\ add(n)
  /\ held' = held - 1
  /\ UNCHANGED <<vars, followed>>

-----------------------------------------------------------------------------
(* The steps of BotLifecycle that ask for the balance, or lose it.         *)

(* The balance was verified exactly if trading is now enabled.             *)
verified_by ==
  /\ \/ trading' /\ update
     \/ ~trading' /\ UNCHANGED balance_vars
  /\ UNCHANGED <<followed, held>>

(* credential_update's fetch may be answered, whatever it does then.       *)
fetched_by ==
  /\ \/ TRUE \in balance_answers(creds') /\ update
     \/ FALSE \in balance_answers(creds') /\ UNCHANGED balance_vars
  /\ UNCHANGED <<followed, held>>

(* A process that ends: the positions are in their rows.                   *)
fresh_balance ==
  /\ available' = 0 /\ stale' = TRUE /\ followed' = FALSE
  /\ funded' = 0 /\ spent' = 0 /\ earned' = 0

balance_step ==
  \/ (verify_ok \/ lifespan_ready \/ \E c \in Caller : end_start(c)) /\ verified_by
  \/ credential_update /\ fetched_by
  \/ end_shutdown /\ fresh_balance /\ UNCHANGED held
  \/ process_dies /\ fresh_balance /\ held' \in 0..BotMax

(* The others leave the balance alone.                                     *)
lifecycle_step ==
  /\ \/ boot \/ begin_shutdown
     \/ \E c \in Caller : \/ bot_start(c) \/ start_running(c)
                          \/ bot_stop(c) \/ stop_step(c) \/ stop_socket(c) \/ end_stop(c)
     \/ verify_begin \/ verify_failed \/ supervisor_check \/ reader_dies
     \/ \E l \in Loop : loop_dies(l) \/ orphan_ends(l)
     \/ bot_pause \/ bot_resume \/ tick \/ socket_step
  /\ UNCHANGED order_vars

trade_step ==
  \/ balance_ages \/ follow
  \/ \E n \in 1..MaxAmount : entry_order(n)
  \/ \E n \in 0..MaxAmount : paper_sale(n)

-----------------------------------------------------------------------------
(* A process may find rows of open positions when it starts.               *)
OrderInit ==
  /\ Init
  /\ available = 0 /\ stale = TRUE
  /\ followed = FALSE
  /\ held \in IF "trade" \in scenario THEN 0..BotMax ELSE {0}
  /\ funded = 0 /\ spent = 0 /\ earned = 0

OrderNext == lifecycle_step \/ balance_step \/ trade_step

OrderSpec == OrderInit /\ [][OrderNext]_<<vars, order_vars>> /\ Fairness

-----------------------------------------------------------------------------
(* Properties.                                                             *)

(* Orders never spend more than the exchange has last told this process it *)
(* has, and what sales have brought since; nothing at all in a process     *)
(* that has had no answer and sold nothing, although start enables trading *)
(* before it asks, degraded mode stops no order, and a sale makes the      *)
(* balance fresh (the stale guard and the comparison of                    *)
(* OrderExecutor.execute, BalanceManager, _verify_balance).                *)
OrdersAreFunded == spent <= funded + earned

=============================================================================
