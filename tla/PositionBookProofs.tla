-------------------------- MODULE PositionBookProofs --------------------------
(***************************************************************************)
(* PositionLifecycle implements PositionBook, and what follows from it.    *)
(* The assumption throughout is Undisturbed: replies arrive, writes        *)
(* succeed and the process is stopped, never killed.  The book is about    *)
(* live trading (Graceful).                                                *)
(***************************************************************************)
EXTENDS PositionLifecycleProofs

Undisturbed == Faults \subseteq {"stop"}

Graceful == ~ PaperMode /\ Undisturbed

-----------------------------------------------------------------------------
(* A graceful stop writes everything.                                      *)

(* What the flush of stop still owes: a position it has not come to yet.   *)
(* A position unknown to memory is unknown to the database.                *)
StopInv ==
  /\ phase = "flushing" => \A p \in Pid : Present(p) => p \in todo \/ db[p] = mem[p]
  /\ FlushComplete
  /\ \A p \in Pid : ~ Present(p) => db[p] = NoRec

(* Nothing is written and nobody forgets a position: StopInv survives as   *)
(* long as the bot is not shutting down in the step.                       *)
LEMMA StopQuiet ==
  ASSUME StopInv, phase' \in {"up", "stopping"}, UNCHANGED db,
         \A p \in Pid : Present(p) => mem'[p].state # "absent"
  PROVE  StopInv'
BY DEF StopInv, FlushComplete, Present

(* A record of a position that is present changes to a present one.        *)
LEMMA StillPresent ==
  ASSUME TypeOK, NEW p \in Pid, NEW r \in PosRec, r.state # "absent",
         mem' = [mem EXCEPT ![p] = r]
  PROVE  \A q \in Pid : Present(q) => mem'[q].state # "absent"
BY DEF TypeOK, Present

(* A write of the current record of p, in any phase.                       *)
LEMMA StopWrite ==
  ASSUME TypeOK, StopInv, NEW p \in Pid, db' = [db EXCEPT ![p] = mem[p]],
         UNCHANGED <<mem, phase>>, todo' = todo \/ todo' = todo \ {p},
         \A q \in Pid : ~ Present(q) => mem[q] = NoRec
  PROVE  StopInv'
<1>1. \A q \in Pid : db'[q] = IF q = p THEN mem[q] ELSE db[q]
  BY DEF TypeOK
<1> QED
  BY <1>1 DEF StopInv, FlushComplete, Present

(* An entry step or a step of a close changes one record, to a present one *)
(* and moves no standing of another position.                              *)
LEMMA EntryRecord ==
  ASSUME TypeOK, EntryStep
  PROVE  /\ UNCHANGED <<db, phase>>
         /\ phase \in {"up", "stopping"}
         /\ \A q \in Pid : Present(q) => mem'[q].state # "absent"
<1>1. PICK p \in Pid : execute_paper(p) \/ execute_live(p) \/ resume_buy(p)
  BY DEF EntryStep
<1>2. \E s \in {"open_confirmed", "closed", "pending_open"} :
        mem' = [mem EXCEPT ![p].state = s]
  BY <1>1 DEF execute_paper, execute_live, resume_buy, confirm_fill, reject_fill
<1>3. \A q \in Pid : Present(q) => mem'[q].state # "absent"
  BY <1>2 DEF TypeOK, PosRec, Present
<1> QED
  BY <1>1, <1>3 DEF execute_paper, execute_live, resume_buy, can_dispatch

LEMMA ExitRecord ==
  ASSUME TypeOK, CycleOK, ExitStep
  PROVE  /\ UNCHANGED phase
         /\ phase = "up"
         /\ \A q \in Pid : Present(q) => mem'[q].state # "absent"
<1>1. CASE begin_cycle \/ begin_closing \/ end_cycle \/ end_flush
  BY <1>1 DEF begin_cycle, begin_closing, end_cycle, end_flush, trackerVars,
     CycleOK, Present
<1>2. ASSUME NEW p \in Pid, evaluate_position(p)
      PROVE  /\ UNCHANGED phase
             /\ phase = "up"
             /\ \A q \in Pid : Present(q) => mem'[q].state # "absent"
  <2>1. \/ mem' = mem
        \/ \E r \in Triggers(p) :
             mem' = [mem EXCEPT ![p] = [state |-> "closing_requested", reason |-> r]]
    BY <1>2 DEF evaluate_position, request_close
  <2>2. \A q \in Pid : Present(q) => mem'[q].state # "absent"
    BY <2>1 DEF Present, TypeOK
  <2> QED
    BY <1>2, <2>2 DEF evaluate_position, CycleOK
<1>3. ASSUME NEW p \in Pid, CloseStep(p)
      PROVE  /\ UNCHANGED phase
             /\ phase = "up"
             /\ \A q \in Pid : Present(q) => mem'[q].state # "absent"
  <2>1. UNCHANGED phase /\ phase = "up"
    BY <1>3 DEF CloseStep, skip_close, cancel_close, execute_close_paper,
       sell_matched, sell_refused, sell_transient, resume_sell, SellDue, CycleOK
  <2>2. \/ mem' = mem
        \/ mem' = [mem EXCEPT ![p] = [state |-> "open_confirmed", reason |-> "none"]]
        \/ \E s \in {"closed", "close_failed", "close_pending"} :
             mem' = [mem EXCEPT ![p].state = s]
    BY <1>3 DEF CloseStep, skip_close, cancel_close, execute_close_paper,
       sell_matched, sell_refused, sell_transient, resume_sell, confirm_close,
       close_failed, trackerVars
  <2> QED
    BY <2>1, <2>2 DEF TypeOK, PosRec, Present
<1>4. ASSUME NEW p \in Pid, periodic_flush(p)
      PROVE  /\ UNCHANGED phase
             /\ phase = "up"
             /\ \A q \in Pid : Present(q) => mem'[q].state # "absent"
  BY <1>4 DEF periodic_flush, Flush, CycleOK, Present, trackerVars
<1> QED
  BY <1>1, <1>2, <1>3, <1>4 DEF ExitStep

(* Writes succeed, so a save writes the record of memory.                  *)
LEMMA SaveWrites ==
  ASSUME Undisturbed, NEW p, Save(p)
  PROVE  db' = [db EXCEPT ![p] = mem[p]]
BY DEF Undisturbed, Save

(* A record in state absent is NoRec.                                      *)
LEMMA AbsentIsNoRec ==
  ASSUME PositionInv
  PROVE  \A q \in Pid : ~ Present(q) => mem[q] = NoRec
BY DEF PositionInv, TypeOK, DataInv, RecOK, PosRec, NoRec, Present

(* StopInv is inductive on top of PositionInv.                             *)
LEMMA StopStepInv ==
  ASSUME Undisturbed, PositionInv, StopInv, [Next]_vars
  PROVE  StopInv'
<1> USE DEF PositionInv
<1>1. CASE UNCHANGED vars
  BY <1>1 DEF vars, StopInv, FlushComplete, Present
<1>2. CASE EntryStep
  BY <1>2, EntryRecord, StopQuiet
<1>3. CASE ExitStep
  <2>1. CASE \E p \in Pid : periodic_flush(p)
    BY <2>1, SaveWrites, StopWrite, AbsentIsNoRec
       DEF periodic_flush, Flush, trackerVars
  <2>2. CASE ~ \E p \in Pid : periodic_flush(p)
    <3>1. UNCHANGED db
      BY <1>3, <2>2 DEF ExitStep, CloseStep, begin_cycle, begin_closing, end_cycle,
         end_flush, evaluate_position, skip_close, cancel_close,
         execute_close_paper, sell_matched, sell_refused, sell_transient,
         resume_sell
    <3> QED
      BY <1>3, <3>1, ExitRecord, StopQuiet
  <2> QED
    BY <2>1, <2>2
<1>4. CASE save
  <2>1. Head(saves) \in Pid
    BY <1>4 DEF save, TypeOK
  <2> QED
    BY <1>4, <2>1, SaveWrites, StopWrite, AbsentIsNoRec
       DEF save, trackerVars, cycleVars
<1>5. CASE CooldownStep
  BY <1>5 DEF CooldownStep, cooldown_over, trackerVars, cycleVars, StopInv,
     FlushComplete, Present
<1>6. CASE StopStep
  <2>1. CASE stop
    BY <2>1, StopQuiet DEF stop, trackerVars, Present
  <2>2. CASE stop_evaluation
    BY <2>2 DEF stop_evaluation, trackerVars, StopInv, FlushComplete, Present
  <2>3. CASE stopped
    BY <2>3 DEF stopped, trackerVars, cycleVars, StopInv, FlushComplete, Present
  <2>4. CASE \E p \in Pid : flush_state(p)
    BY <2>4, SaveWrites, StopWrite, AbsentIsNoRec
       DEF flush_state, Flush, trackerVars
  <2> QED
    BY <1>6, <2>1, <2>2, <2>3, <2>4 DEF StopStep
<1>7. CASE start
  <2>1. \A p \in Pid : mem'[p] = restore_position(db[p])
    BY <1>7 DEF start
  <2>2. \A p \in Pid : mem'[p].state = "absent" => db[p] = NoRec
    BY <2>1 DEF restore_position, TypeOK, DataInv, RecOK, PosRec, NoRec
  <2> QED
    BY <1>7, <2>2 DEF start, StopInv, FlushComplete, Present
<1>8. CASE crash
  BY <1>8 DEF crash, Undisturbed
<1> QED
  BY <1>1, <1>2, <1>3, <1>4, <1>5, <1>6, <1>7, <1>8 DEF Next

(* PositionInv and StopInv together, in every reachable state.             *)
LEMMA UndisturbedInv ==
  ASSUME Undisturbed
  PROVE  Spec => [](PositionInv /\ StopInv)
<1>1. Init => PositionInv /\ StopInv
  BY InvInit DEF Init, StopInv, FlushComplete, Present, NoRec
<1>2. PositionInv /\ StopInv /\ [Next]_vars => (PositionInv /\ StopInv)'
  BY StopStepInv, InvStep
<1> QED
  BY <1>1, <1>2, PTL DEF Spec

(* After a graceful stop every row of the positions table equals its       *)
(* record, the changes that queue no save of their own included            *)
(* (Orchestrator.stop and _flush_state).                                   *)
THEOREM StopLosesNothing ==
  ASSUME Undisturbed
  PROVE  Spec => []FlushComplete
<1>1. PositionInv /\ StopInv => FlushComplete
  BY DEF StopInv
<1> QED
  BY <1>1, UndisturbedInv, PTL

-----------------------------------------------------------------------------
(* Decisions are kept.                                                     *)

Latched(r) == r.reason \in {"stop_loss", "force_sell"}

(* A step that changes the record of one position, which is neither        *)
(* latched nor closed, or keeps its reason and was not closed.             *)
LEMMA LatchOne ==
  ASSUME TypeOK, NEW p \in Pid, \A q \in Pid : q # p => mem'[q] = mem[q],
         mem[p].state # "closed", ~ Latched(mem[p]) \/ mem'[p].reason = mem[p].reason
  PROVE  \A q \in Pid :
           /\ Latched(mem[q]) => mem'[q].reason = mem[q].reason
           /\ mem[q].state = "closed" => mem'[q] = mem[q]
OBVIOUS

LEMMA LatchStep ==
  ASSUME PositionInv, StopInv, [Next]_vars
  PROVE  (\A q \in Pid :
            /\ Latched(mem[q]) => mem'[q].reason = mem[q].reason
            /\ mem[q].state = "closed" => mem'[q] = mem[q])
         \/ crash
<1> DEFINE Goal == \A q \in Pid :
                     /\ Latched(mem[q]) => mem'[q].reason = mem[q].reason
                     /\ mem[q].state = "closed" => mem'[q] = mem[q]
<1>0. TypeOK /\ DataInv /\ CycleOK /\ InFlight
  BY DEF PositionInv
<1>1. ASSUME UNCHANGED mem PROVE Goal
  BY <1>1
<1> HIDE DEF Goal
<1>2. ASSUME NEW p \in Pid, execute_paper(p) \/ execute_live(p) \/ resume_buy(p) PROVE Goal
  <2>1. mem[p].reason = "none" /\ mem[p].state # "closed"
    <3>1. CASE execute_paper(p) \/ execute_live(p)
      BY <1>0, <3>1 DEF execute_paper, execute_live, can_dispatch, DataInv, NoRec
    <3>2. CASE resume_buy(p)
      <4>1. mem[p].state = "pending_open"
        BY <1>0, <3>2, PositionConstants DEF resume_buy, InFlight, PositionConstants
      <4> QED
        BY <1>0, <4>1 DEF DataInv, RecOK
    <3> QED
      BY <1>2, <3>1, <3>2
  <2>2. \A q \in Pid : q # p => mem'[q] = mem[q]
    BY <1>0, <1>2 DEF execute_paper, execute_live, resume_buy, confirm_fill, reject_fill, TypeOK
  <2> QED
    BY <1>0, <2>1, <2>2, LatchOne DEF Goal, Latched
<1>3. ASSUME NEW p \in Pid, evaluate_position(p) PROVE Goal
  <2>1. mem[p].state = "open_confirmed" /\ mem[p].reason = "none"
    BY <1>0, <1>3 DEF evaluate_position, CycleOK, is_open, DataInv, RecOK
  <2>2. \A q \in Pid : q # p => mem'[q] = mem[q]
    BY <1>0, <1>3 DEF evaluate_position, request_close, TypeOK
  <2> QED
    BY <1>0, <2>1, <2>2, LatchOne DEF Goal, Latched
<1>4. ASSUME NEW p \in Pid, cancel_close(p) PROVE Goal
  <2>1. mem[p].state = "closing_requested" /\ mem[p].reason = "take_profit"
    BY <1>4 DEF cancel_close, should_cancel_close
  <2>2. \A q \in Pid : q # p => mem'[q] = mem[q]
    BY <1>0, <1>4 DEF cancel_close, TypeOK
  <2> QED
    BY <1>0, <2>1, <2>2, LatchOne DEF Goal, Latched
<1>5. ASSUME NEW p \in Pid,
             \/ execute_close_paper(p) \/ sell_matched(p) \/ sell_refused(p)
             \/ sell_transient(p) \/ resume_sell(p)
      PROVE  Goal
  <2>1. mem[p].state # "closed"
    BY <1>0, <1>5, PositionConstants
       DEF execute_close_paper, sell_matched, sell_refused, sell_transient, resume_sell,
           SellDue, CycleOK, InFlight, PositionConstants
  <2>2. /\ \A q \in Pid : q # p => mem'[q] = mem[q]
        /\ mem'[p].reason = mem[p].reason
    BY <1>0, <1>5
       DEF execute_close_paper, sell_matched, sell_refused, sell_transient, resume_sell,
           confirm_close, close_failed, TypeOK, PosRec
  <2> QED
    BY <1>0, <2>1, <2>2, LatchOne DEF Goal
<1>6. CASE start
  <2>1. \A q \in Pid : mem'[q] = restore_position(db[q])
    BY <1>6 DEF start
  <2>2. \A q \in Pid : Present(q) => db[q] = mem[q]
    BY <1>6 DEF start, StopInv, FlushComplete
  <2>3. ASSUME NEW q \in Pid, Latched(mem[q]) \/ mem[q].state = "closed"
        PROVE  mem'[q] = mem[q]
    <3>1. mem[q].state \notin {"absent", "pending_open"}
      BY <1>0, <2>3 DEF DataInv, RecOK, Latched
    <3>2. db[q] = mem[q]
      BY <2>2, <3>1 DEF Present
    <3> QED
      BY <2>1, <3>1, <3>2 DEF restore_position
  <2> QED
    BY <2>3 DEF Goal
<1>7. CASE UNCHANGED vars \/ save \/ CooldownStep \/ StopStep
  BY <1>1, <1>7 DEF vars, save, CooldownStep, cooldown_over, StopStep, stop, stop_evaluation,
     stopped, flush_state, Flush, trackerVars
<1>8. CASE begin_cycle \/ begin_closing \/ end_cycle \/ end_flush
  BY <1>1, <1>8 DEF begin_cycle, begin_closing, end_cycle, end_flush, trackerVars
<1>9. ASSUME NEW p \in Pid, skip_close(p) \/ periodic_flush(p) PROVE Goal
  BY <1>1, <1>9 DEF skip_close, periodic_flush, Flush, trackerVars
<1> QED
  BY <1>2, <1>3, <1>4, <1>5, <1>6, <1>7, <1>8, <1>9
     DEF Goal, Next, EntryStep, ExitStep, CloseStep

(* A stop loss or force sell stands once decided and a closed position     *)
(* stays as it is, in paper mode and live, over failed sales, retries and  *)
(* restarts from the table: a restart reads what the stop before it wrote  *)
(* (ExitExecutor, should_cancel_close, restore_position).                  *)
THEOREM DecisionsStand ==
  ASSUME Undisturbed
  PROVE  Spec => LatchKept
<1>1. PositionInv /\ StopInv /\ [Next]_vars
        => [\A p \in Pid :
              /\ mem[p].reason \in {"stop_loss", "force_sell"}
                   => mem'[p].reason = mem[p].reason
              /\ mem[p].state = "closed" => mem'[p] = mem[p]]_vars
  BY LatchStep DEF Latched, crash, Undisturbed
<1> QED
  BY <1>1, UndisturbedInv, PTL DEF Spec, LatchKept

-----------------------------------------------------------------------------
(* The refinement.                                                         *)

LEMMA GracefulInv ==
  ASSUME Graceful
  PROVE  Spec => [](PositionInv /\ StopInv)
BY UndisturbedInv DEF Graceful

(* The standing of each kind of record.                                    *)
LEMMA Standings ==
  /\ \A r \in PosRec :
       /\ r.state = "absent" <=> standing(r) = "unborn"
       /\ r.state = "pending_open" <=> standing(r) = "pending"
       /\ r.state = "open_confirmed" <=> standing(r) = "held"
       /\ Rejected(r) <=> standing(r) = "rejected"
       /\ r.state = "closed" /\ ~ Rejected(r) <=> standing(r) = "sold"
       /\ r.state = "closing_requested" /\ r.reason = "take_profit"
            <=> standing(r) = "offered"
       /\ r.state = "closing_requested" /\ r.reason # "take_profit"
            => standing(r) = "condemned"
       /\ r.state \in {"close_pending", "close_failed"} => standing(r) = "condemned"
       /\ standing(r) \in Book!Standing
BY DEF standing, PosRec, PositionState, Rejected, Book!Standing

(* A change of one record is a change of one standing.                     *)
LEMMA BookMove ==
  ASSUME TypeOK, NEW p \in Pid, NEW r \in PosRec, mem' = [mem EXCEPT ![p] = r]
  PROVE  /\ book_of' = [book_of EXCEPT ![p] = standing(r)]
         /\ book_of[p] = standing(mem[p])
         /\ standing(r) = standing(mem[p]) => book_of' = book_of
BY DEF TypeOK, book_of

(* The same as a move of the book.                                         *)
LEMMA BookMoves ==
  ASSUME TypeOK, NEW p \in Pid, NEW r \in PosRec, mem' = [mem EXCEPT ![p] = r],
         NEW from, standing(mem[p]) \in from, NEW to, standing(r) = to
  PROVE  Book!Moves(p, from, to)
BY BookMove DEF Book!Moves

(* The book counts with the same Cardinality.                              *)
LEMMA SameCardinality == \A S : Book!Cardinality(S) = Cardinality(S)
BY DEF Book!Cardinality, Cardinality

(* The places of an event are the positions the tracker counts.            *)
LEMMA BookPlaces ==
  ASSUME PositionInv, NEW p \in Pid, validate(p)
  PROVE  Book!CanOpen(p)
<1>1. Book!places(EventOf[p]) = CountedOf(EventOf[p])
  BY Standings DEF Book!places, CountedOf, Counted, book_of, PositionInv, TypeOK
<1>2. Cardinality(CountedOf(EventOf[p])) \in Nat
  BY PidSubsets DEF CountedOf
<1>3. /\ EventOf[p] \in Event
      /\ event_fills[EventOf[p]] \in Nat
      /\ EventMax \in Nat
      /\ Cardinality(CountedOf(EventOf[p])) <= event_fills[EventOf[p]]
      /\ event_fills[EventOf[p]] < EventMax
  BY PositionConstants DEF PositionConstants, PositionInv, TypeOK, DataInv,
     NeverUndercounts, validate
<1>4. Cardinality(CountedOf(EventOf[p])) < EventMax
  BY <1>2, <1>3
<1> QED
  BY <1>1, <1>4, SameCardinality DEF Book!CanOpen

(* No order is executed behind an error reply.                             *)
LEMMA ErrorsAreTrue ==
  ASSUME Graceful, NEW t, BuyError(t) \/ SellError(t)
  PROVE  UNCHANGED lots
BY DEF Graceful, Undisturbed, BuyError, SellError

(* Records with another state, in type.                                    *)
LEMMA Restated ==
  ASSUME TypeOK, NEW p \in Pid, NEW s \in PositionState,
         mem' = [mem EXCEPT ![p].state = s]
  PROVE  \E r \in PosRec : /\ mem' = [mem EXCEPT ![p] = r]
                           /\ r.state = s
                           /\ r.reason = mem[p].reason
<1>1. [mem[p] EXCEPT !.state = s] \in PosRec
  BY DEF TypeOK, PosRec
<1>2. mem' = [mem EXCEPT ![p] = [mem[p] EXCEPT !.state = s]]
  BY DEF TypeOK
<1>3. [mem[p] EXCEPT !.state = s].state = s /\ [mem[p] EXCEPT !.state = s].reason = mem[p].reason
  BY DEF TypeOK, PosRec
<1> QED
  BY <1>1, <1>2, <1>3

BookStep == Book!Next \/ UNCHANGED <<book_of, lots>>

(* An entry: submitted, filled or rejected.                                *)
LEMMA BookEntry ==
  ASSUME Graceful, PositionInv, EntryStep
  PROVE  BookStep
<1> USE DEF PositionInv
<1>1. PICK p \in Pid : execute_live(p) \/ resume_buy(p)
  BY DEF EntryStep, Graceful, execute_paper
<1>2. /\ execute_live(p) => mem[p] = NoRec /\ Book!CanOpen(p)
      /\ resume_buy(p) => mem[p].state = "pending_open"
  BY BookPlaces, PositionConstants DEF execute_live, can_dispatch, resume_buy,
     DataInv, InFlight, PositionConstants
<1>3. mem[p] \in PosRec /\ mem[p].reason = "none" /\ standing(mem[p]) \in {"unborn", "pending"}
  BY <1>1, <1>2, Standings DEF TypeOK, DataInv, RecOK, NoRec
<1>4. book_of[p] = "unborn" => Book!CanOpen(p)
  BY <1>1, <1>2, <1>3, Standings DEF book_of
<1>5. CASE mem' = [mem EXCEPT ![p].state = "open_confirmed"] /\ Bought(TokenOf[p])
  <2>1. PICK r \in PosRec : mem' = [mem EXCEPT ![p] = r] /\ r.state = "open_confirmed"
    BY <1>5, Restated DEF PositionState
  <2>2. Book!Fill(p)
    <3>1. Book!Moves(p, {"unborn", "pending"}, "held")
      BY <1>3, <2>1, BookMoves, Standings
    <3> QED
      BY <1>4, <1>5, <3>1 DEF Book!Fill, Bought
  <2> QED
    BY <2>2 DEF BookStep, Book!Next
<1>6. CASE mem' = [mem EXCEPT ![p].state = "closed"] /\ UNCHANGED lots
  <2>1. PICK r \in PosRec : /\ mem' = [mem EXCEPT ![p] = r]
                            /\ r.state = "closed" /\ r.reason = "none"
    <3>1. "closed" \in PositionState
      BY DEF PositionState
    <3>2. PICK r \in PosRec : /\ mem' = [mem EXCEPT ![p] = r]
                              /\ r.state = "closed"
                              /\ r.reason = mem[p].reason
      BY <1>6, <3>1, Restated
    <3> QED
      BY <1>3, <3>2
  <2>2. Book!Reject(p)
    <3>1. Book!Moves(p, {"unborn", "pending"}, "rejected")
      BY <1>3, <2>1, BookMoves, Standings DEF Rejected
    <3> QED
      BY <1>6, <3>1 DEF Book!Reject
  <2> QED
    BY <2>2 DEF BookStep, Book!Next
<1>7. CASE execute_live(p) /\ mem' = [mem EXCEPT ![p].state = "pending_open"] /\ UNCHANGED lots
  <2>1. PICK r \in PosRec : mem' = [mem EXCEPT ![p] = r] /\ r.state = "pending_open"
    BY <1>7, Restated DEF PositionState
  <2>2. standing(mem[p]) = "unborn"
    BY <1>2, <1>3, <1>7, Standings DEF NoRec
  <2>3. Book!Submit(p)
    <3>1. Book!Moves(p, {"unborn"}, "pending")
      BY <2>1, <2>2, BookMoves, Standings
    <3> QED
      BY <1>2, <1>7, <3>1 DEF Book!Submit
  <2> QED
    BY <2>3 DEF BookStep, Book!Next
<1>8. \/ mem' = [mem EXCEPT ![p].state = "open_confirmed"] /\ Bought(TokenOf[p])
      \/ mem' = [mem EXCEPT ![p].state = "closed"] /\ UNCHANGED lots
      \/ execute_live(p) /\ mem' = [mem EXCEPT ![p].state = "pending_open"] /\ UNCHANGED lots
  BY <1>1, ErrorsAreTrue DEF execute_live, resume_buy, confirm_fill, reject_fill
<1> QED
  BY <1>5, <1>6, <1>7, <1>8
(* A close, attempted, withdrawn, completed or failed.                     *)
LEMMA BookClose ==
  ASSUME Graceful, PositionInv, NEW p \in Pid, CloseStep(p)
  PROVE  BookStep
<1> USE DEF PositionInv
<1>1. skip_close(p) => BookStep
  BY DEF skip_close, trackerVars, BookStep, book_of
<1>2. CASE cancel_close(p)
  <2>1. /\ mem' = [mem EXCEPT ![p] = [state |-> "open_confirmed", reason |-> "none"]]
        /\ mem[p].state = "closing_requested" /\ mem[p].reason = "take_profit"
        /\ UNCHANGED lots
    BY <1>2 DEF cancel_close, should_cancel_close
  <2>2. [state |-> "open_confirmed", reason |-> "none"] \in PosRec
    BY DEF PosRec, PositionState, CloseReason
  <2>3. standing([state |-> "open_confirmed", reason |-> "none"]) = "held"
    BY DEF standing
  <2>4. Book!Moves(p, {"offered"}, "held")
    <3>1. standing(mem[p]) \in {"offered"}
      BY <2>1, Standings DEF TypeOK
    <3> QED
      BY <2>1, <2>2, <2>3, <3>1, BookMoves
  <2> QED
    BY <2>1, <2>4 DEF Book!Withdraw, BookStep, Book!Next
<1>3. CASE ~ skip_close(p) /\ ~ cancel_close(p)
  <2>1. /\ mem[p].state \in {"closing_requested", "close_pending", "close_failed"}
        /\ mem[p] \in PosRec
        /\ mem[p].reason # "none"
    BY <1>3, PositionConstants DEF CloseStep, execute_close_paper, sell_matched,
       sell_refused, sell_transient, resume_sell, SellDue, CycleOK, InFlight,
       TypeOK, DataInv, RecOK, PositionConstants
  <2>2. standing(mem[p]) \in {"offered", "condemned"}
    BY <2>1, Standings
  <2>3. \/ mem' = [mem EXCEPT ![p].state = "closed"] /\ Sold(TokenOf[p])
        \/ \E s \in {"close_failed", "close_pending"} :
              mem' = [mem EXCEPT ![p].state = s] /\ UNCHANGED lots
    BY <1>3, ErrorsAreTrue DEF CloseStep, execute_close_paper, sell_matched,
       sell_refused, sell_transient, resume_sell, confirm_close, close_failed,
       Graceful
  <2>4. CASE mem' = [mem EXCEPT ![p].state = "closed"] /\ Sold(TokenOf[p])
    <3>1. PICK r \in PosRec : /\ mem' = [mem EXCEPT ![p] = r]
                              /\ r.state = "closed"
                              /\ r.reason = mem[p].reason
      BY <2>4, Restated DEF PositionState
    <3>2. standing(r) = "sold"
      BY <2>1, <3>1, Standings DEF Rejected
    <3>3. Book!Moves(p, {"offered", "condemned"}, "sold")
      BY <2>2, <3>1, <3>2, BookMoves
    <3> QED
      BY <2>4, <3>3 DEF Book!Sell, Sold, BookStep, Book!Next
  <2>5. CASE \E s \in {"close_failed", "close_pending"} :
               mem' = [mem EXCEPT ![p].state = s] /\ UNCHANGED lots
    <3>1. PICK r \in PosRec : /\ mem' = [mem EXCEPT ![p] = r]
                              /\ r.state \in {"close_failed", "close_pending"}
      BY <2>5, Restated DEF PositionState
    <3>2. standing(r) = "condemned"
      BY <3>1, Standings
    <3>3. CASE standing(mem[p]) = "offered"
      <4>1. Book!Moves(p, {"held", "offered"}, "condemned")
        BY <3>1, <3>2, <3>3, BookMoves
      <4> QED
        BY <2>5, <4>1 DEF Book!Condemn, BookStep, Book!Next
    <3>4. CASE standing(mem[p]) = "condemned"
      BY <2>5, <3>1, <3>2, <3>4, BookMove DEF BookStep
    <3> QED
      BY <2>2, <3>3, <3>4
  <2> QED
    BY <2>3, <2>4, <2>5
<1> QED
  BY <1>1, <1>2, <1>3

(* A decision to exit: a take profit is offered, any other exit condemned. *)
LEMMA BookEvaluate ==
  ASSUME PositionInv, NEW p \in Pid, evaluate_position(p)
  PROVE  BookStep
<1> USE DEF PositionInv
<1>1. UNCHANGED lots /\ mem[p].state = "open_confirmed"
  BY DEF evaluate_position, CycleOK, is_open
<1>2. CASE mem' = mem
  BY <1>1, <1>2 DEF BookStep, book_of
<1>3. ASSUME NEW r \in Triggers(p),
             mem' = [mem EXCEPT ![p] = [state |-> "closing_requested", reason |-> r]]
      PROVE  BookStep
  <2>1. r \in CloseReason
    BY TypeHelpers
  <2>2. [state |-> "closing_requested", reason |-> r] \in PosRec
    BY <2>1 DEF PosRec, PositionState
  <2>3. standing(mem[p]) = "held"
    BY <1>1, Standings DEF TypeOK
  <2>4. CASE r = "take_profit"
    <3>1. standing([state |-> "closing_requested", reason |-> r]) = "offered"
      BY <2>4 DEF standing
    <3>2. Book!Moves(p, {"held"}, "offered")
      BY <1>3, <2>2, <2>3, <3>1, BookMoves
    <3> QED
      BY <1>1, <3>2 DEF Book!Offer, BookStep, Book!Next
  <2>5. CASE r # "take_profit"
    <3>1. standing([state |-> "closing_requested", reason |-> r]) = "condemned"
      BY <2>5 DEF standing
    <3>2. Book!Moves(p, {"held", "offered"}, "condemned")
      BY <1>3, <2>2, <2>3, <3>1, BookMoves
    <3> QED
      BY <1>1, <3>2 DEF Book!Condemn, BookStep, Book!Next
  <2> QED
    BY <2>4, <2>5
<1> QED
  BY <1>2, <1>3 DEF evaluate_position, request_close

(* A restart from the rows a graceful stop wrote gives up pending orders.  *)
LEMMA BookStart ==
  ASSUME PositionInv, StopInv, start
  PROVE  BookStep
<1> USE DEF PositionInv
<1>1. \A p \in Pid : db[p] = mem[p]
  BY AbsentIsNoRec DEF start, StopInv, FlushComplete, Present
<1>2. \A p \in Pid : mem'[p] = restore_position(mem[p])
  BY <1>1 DEF start
<1>3. \A p \in Pid : standing(mem'[p]) =
        IF standing(mem[p]) = "pending" THEN "rejected" ELSE standing(mem[p])
  <2> TAKE p \in Pid
  <2>1. mem[p] \in PosRec /\ RecOK(mem[p])
    BY DEF TypeOK, DataInv
  <2>2. CASE mem[p].state = "pending_open"
    <3>1. mem'[p].state = "closed" /\ mem'[p].reason = "none"
      BY <1>2, <2>1, <2>2 DEF restore_position, RecOK, PosRec
    <3>2. standing(mem'[p]) = "rejected"
      BY <3>1 DEF standing
    <3> QED
      BY <2>1, <2>2, <3>2, Standings
  <2>3. CASE mem[p].state # "pending_open"
    BY <1>2, <2>1, <2>3, Standings DEF restore_position
  <2> QED
    BY <2>2, <2>3
<1>4. Book!GiveUp
  BY <1>3 DEF Book!GiveUp, book_of, start
<1> QED
  BY <1>4 DEF BookStep, Book!Next

(* Every step is a step of the book or a stutter.                          *)
LEMMA BookNext ==
  ASSUME Graceful, PositionInv, StopInv, [Next]_vars
  PROVE  BookStep
<1>1. CASE UNCHANGED <<mem, lots>>
  BY <1>1 DEF BookStep, book_of
<1>2. CASE EntryStep
  BY <1>2, BookEntry
<1>3. CASE ExitStep
  <2>1. CASE begin_cycle \/ begin_closing \/ end_cycle \/ end_flush
    BY <1>1, <2>1 DEF begin_cycle, begin_closing, end_cycle, end_flush, trackerVars
  <2>2. CASE \E p \in Pid : periodic_flush(p)
    BY <1>1, <2>2 DEF periodic_flush, Flush, trackerVars
  <2> QED
    BY <1>3, <2>1, <2>2, BookEvaluate, BookClose DEF ExitStep
<1>4. CASE start
  BY <1>4, BookStart
<1>5. CASE save \/ CooldownStep \/ StopStep
  BY <1>1, <1>5 DEF save, CooldownStep, cooldown_over, StopStep, stop,
     stop_evaluation, stopped, flush_state, Flush, trackerVars
<1>6. CASE crash
  BY <1>6 DEF crash, Graceful, Undisturbed
<1>7. CASE UNCHANGED vars
  BY <1>1, <1>7 DEF vars
<1> QED
  BY <1>2, <1>3, <1>4, <1>5, <1>6, <1>7 DEF Next

(* The tracker, the order coroutines, the save tasks, the flushes and the  *)
(* restarts together implement the position book: no stop or start, at     *)
(* whatever point of an order or of a queue of saves, moves a standing the *)
(* book does not allow (Orchestrator.start and stop, OrderExecutor,        *)
(* ExitExecutor, PositionTracker).                                         *)
THEOREM ImplementsBook ==
  ASSUME Graceful
  PROVE  Spec => BookKept
<1>1. Init => Book!Init
  BY DEF Init, Book!Init, book_of, standing, NoRec
<1>2. PositionInv /\ StopInv /\ [Next]_vars => [Book!Next]_<<book_of, lots>>
  BY BookNext DEF BookStep
<1> QED
  BY <1>1, <1>2, GracefulInv, PTL DEF Spec, BookKept, Book!Spec
-----------------------------------------------------------------------------
(* The account, from the book.                                             *)

OnHand == {"held", "offered", "condemned"}

(* The records of positions that hold a lot, by their standing.            *)
LEMMA HoldingStanding ==
  \A r \in PosRec : r.state \in HoldingStates <=> standing(r) \in OnHand
<1> TAKE r \in PosRec
<1>1. r.state \in PositionState \cup {"absent"}
  BY DEF PosRec
<1> QED
  BY <1>1, Standings DEF HoldingStates, OnHand, PositionState

(* The positions that hold a lot of t, now and after a step.               *)
LEMMA HoldingByStanding ==
  ASSUME TypeOK, TypeOK', NEW t \in Token
  PROVE  /\ HoldingOf(t) = {p \in Pid : TokenOf[p] = t /\ book_of[p] \in OnHand}
         /\ HoldingOf(t)' = {p \in Pid : TokenOf[p] = t /\ book_of'[p] \in OnHand}
BY HoldingStanding DEF HoldingOf, book_of, TypeOK

(* No lot and no holder changes.                                           *)
LEMMA LedgerQuiet ==
  ASSUME TypeOK, TypeOK', LedgerAgrees, UNCHANGED lots,
         \A p \in Pid : book_of[p] \in OnHand <=> book_of'[p] \in OnHand
  PROVE  LedgerAgrees'
<1>1. \A t \in Token : HoldingOf(t)' = HoldingOf(t)
  BY HoldingByStanding
<1> QED
  BY <1>1 DEF LedgerAgrees

(* A move of one position that does not change whether it holds a lot.     *)
LEMMA LedgerMove ==
  ASSUME TypeOK, TypeOK', LedgerAgrees, UNCHANGED lots, NEW p \in Pid,
         NEW from, NEW to, Book!Moves(p, from, to),
         from \subseteq OnHand <=> to \in OnHand,
         from \cap OnHand = {} \/ from \subseteq OnHand
  PROVE  LedgerAgrees'
<1>1. \A q \in Pid : book_of[q] \in OnHand <=> book_of'[q] \in OnHand
  BY DEF Book!Moves, book_of
<1> QED
  BY <1>1, LedgerQuiet

(* A fill adds one lot and one holder.                                     *)
LEMMA LedgerFill ==
  ASSUME TypeOK, TypeOK', LedgerAgrees, NEW p \in Pid, Book!Fill(p)
  PROVE  LedgerAgrees'
<1>1. /\ TokenOf[p] \in Token
      /\ book_of[p] \notin OnHand
      /\ book_of'[p] \in OnHand
      /\ \A q \in Pid \ {p} : book_of'[q] = book_of[q]
  BY PositionConstants DEF PositionConstants, Book!Fill, Book!Moves, book_of, OnHand
<1>2. \A t \in Token : HoldingOf(t)' =
        IF t = TokenOf[p] THEN HoldingOf(t) \cup {p} ELSE HoldingOf(t)
  BY <1>1, HoldingByStanding
<1>3. p \notin HoldingOf(TokenOf[p])
  BY <1>1, HoldingByStanding
<1>4. \A t \in Token : lots'[t] = IF t = TokenOf[p] THEN lots[t] + 1 ELSE lots[t]
  BY <1>1 DEF Book!Fill, TypeOK
<1>5. IsFiniteSet(HoldingOf(TokenOf[p]))
  BY PidSubsets DEF HoldingOf
<1>6. Cardinality(HoldingOf(TokenOf[p]) \cup {p}) = Cardinality(HoldingOf(TokenOf[p])) + 1
  BY <1>3, <1>5, FS_AddElement
<1> QED
  BY <1>1, <1>2, <1>4, <1>6 DEF LedgerAgrees

(* A sale takes one lot and one holder away.                               *)
LEMMA LedgerSell ==
  ASSUME TypeOK, TypeOK', LedgerAgrees, NEW p \in Pid, Book!Sell(p)
  PROVE  LedgerAgrees'
<1>1. /\ TokenOf[p] \in Token
      /\ book_of[p] \in OnHand
      /\ book_of'[p] \notin OnHand
      /\ \A q \in Pid \ {p} : book_of'[q] = book_of[q]
  BY PositionConstants DEF PositionConstants, Book!Sell, Book!Moves, book_of, OnHand
<1>2. \A t \in Token : HoldingOf(t)' =
        IF t = TokenOf[p] THEN HoldingOf(t) \ {p} ELSE HoldingOf(t)
  BY <1>1, HoldingByStanding
<1>3. p \in HoldingOf(TokenOf[p])
  BY <1>1, HoldingByStanding
<1>4. \A t \in Token : lots'[t] = IF t = TokenOf[p] THEN lots[t] - 1 ELSE lots[t]
  BY <1>1 DEF Book!Sell, TypeOK
<1>5. IsFiniteSet(HoldingOf(TokenOf[p]))
  BY PidSubsets DEF HoldingOf
<1>6. Cardinality(HoldingOf(TokenOf[p]) \ {p}) = Cardinality(HoldingOf(TokenOf[p])) - 1
  BY <1>3, <1>5, FS_RemoveElement
<1> QED
  BY <1>1, <1>2, <1>4, <1>6 DEF LedgerAgrees

(* Every step of the book keeps the account in agreement with the holders. *)
LEMMA LedgerStep ==
  ASSUME TypeOK, TypeOK', LedgerAgrees, BookStep
  PROVE  LedgerAgrees'
<1>1. CASE UNCHANGED <<book_of, lots>>
  BY <1>1, LedgerQuiet
<1>2. CASE Book!GiveUp
  <2>1. UNCHANGED lots /\ \A p \in Pid : book_of[p] \in OnHand <=> book_of'[p] \in OnHand
    BY <1>2 DEF Book!GiveUp, OnHand
  <2> QED
    BY <2>1, LedgerQuiet
<1>3. ASSUME NEW p \in Pid, Book!Submit(p) \/ Book!Reject(p)
      PROVE  LedgerAgrees'
  <2>1. \E to \in {"pending", "rejected"} :
          UNCHANGED lots /\ Book!Moves(p, {"unborn", "pending"}, to)
    BY <1>3 DEF Book!Submit, Book!Reject, Book!Moves
  <2> QED
    BY <2>1, LedgerMove DEF OnHand
<1>4. ASSUME NEW p \in Pid, Book!Offer(p) \/ Book!Withdraw(p) \/ Book!Condemn(p)
      PROVE  LedgerAgrees'
  <2>1. \E to \in OnHand : UNCHANGED lots /\ Book!Moves(p, OnHand, to)
    BY <1>4 DEF Book!Offer, Book!Withdraw, Book!Condemn, Book!Moves, OnHand
  <2> QED
    BY <2>1, LedgerMove
<1> QED
  BY <1>1, <1>2, <1>3, <1>4, LedgerFill, LedgerSell DEF BookStep, Book!Next

(* With every reply arriving, the account holds exactly one lot for each   *)
(* position that believes it holds one, through refused and repeated       *)
(* orders, stops and restarts (OrderExecutor, ExitExecutor, restore_state).*)
THEOREM AccountAgrees ==
  ASSUME Graceful
  PROVE  Spec => []LedgerAgrees
<1>1. Init => LedgerAgrees
  <2> SUFFICES ASSUME Init PROVE LedgerAgrees
    OBVIOUS
  <2>1. \A t \in Token : HoldingOf(t) = {}
    BY DEF Init, HoldingOf, HoldingStates, NoRec
  <2> QED
    BY <2>1, FS_EmptySet DEF Init, LedgerAgrees
<1>2. PositionInv /\ StopInv /\ (PositionInv /\ StopInv)' /\ LedgerAgrees /\ [Next]_vars
        => LedgerAgrees'
  BY BookNext, LedgerStep DEF PositionInv
<1> QED
  BY <1>1, <1>2, GracefulInv, PTL DEF Spec
=============================================================================
