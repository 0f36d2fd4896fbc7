------------------------------- MODULE Board -------------------------------
(***************************************************************************)
(* The order of the cards in a column of the board                         *)
(* (src/backlog_py/core/repository.py): moving a task to the end of a      *)
(* column, sorting a column, and the batch of file writes that does it.    *)
(* Both hold the project write lock; boards are read without it.           *)
(*                                                                         *)
(* Tasks are numbered as their ids sort.  An ordinal is an integer of any  *)
(* size or a float; floats past Exact are multiples of Spacing only.       *)
(***************************************************************************)
EXTENDS Integers, FiniteSets, SequencesExt

CONSTANTS Tasks,     \* numbers of tasks
          Columns,
          Step,      \* 1000
          Exact,     \* floats up to it are exact; a multiple of Spacing
          Spacing,   \* distance of floats past it, more than two Steps
          Ordinals,  \* ordinals a user may give
          NoOrdinal, NoOp,
          MaxOps,    \* bound on operations
          MaxFaults  \* bound on failing writes and deaths

VARIABLES card, \* card[t]: column, ordinal and priority of task t
          op,   \* the batch that is being written
          ops, faults

boardVars == <<card, op, ops, faults>>

\* _task_record_sort_key: ordinals first, equal ones by id.
Before(t, u) ==
  LET a == card[t].ordinal
      b == card[u].ordinal IN
    CASE a = NoOrdinal /\ b = NoOrdinal -> t < u
      [] a = NoOrdinal /\ b # NoOrdinal -> FALSE
      [] a # NoOrdinal /\ b = NoOrdinal -> TRUE
      [] OTHER                          -> a.n < b.n \/ (a.n = b.n /\ t < u)

Column(c)  == {t \in Tasks : card[t].column = c}
Ordered(S) == SetToSortSeq(S, Before)

Round(n)   == IF n <= Exact THEN n ELSE ((n + (Spacing \div 2)) \div Spacing) * Spacing
Whole(n)   == [n |-> n, float |-> FALSE]

\* _next_task_ordinal.
NextOrdinal(o) ==
  IF o.float /\ Round(o.n + Step) > o.n THEN [o EXCEPT !.n = Round(@ + Step)]
  ELSE Whole(o.n + Step)

BoardTypeOK ==
  /\ card \in [Tasks -> [column : Columns, priority : Nat,
                         ordinal : {NoOrdinal} \cup [n : Nat, float : BOOLEAN]]]
  /\ ops \in 0..MaxOps /\ faults \in 0..MaxFaults

BoardInit ==
  /\ card \in [Tasks -> [column : Columns, priority : {0, 1}, ordinal : Ordinals \cup {NoOrdinal}]]
  /\ op = NoOp /\ ops = 0 /\ faults = 0

Idle  == op = NoOp
Fault == faults < MaxFaults /\ faults' = faults + 1

\* A batch: the cards to write, in order.
Begin(kind, column, moved, updates) ==
  /\ Idle /\ ops < MaxOps /\ ops' = ops + 1
  /\ op' = [kind |-> kind, column |-> column, moved |-> moved,
            updates |-> SelectSeq(updates, LAMBDA u : u.card # card[u.task]),
            done |-> 0, pc |-> "write", clean |-> TRUE, before |-> card]
  /\ UNCHANGED <<card, faults>>

Update(t, new) == [task |-> t, card |-> new]

\* The greatest ordinal among ts, or 0.
Greatest(ts) ==
  LET os == {card[t].ordinal : t \in ts} \ {NoOrdinal} IN
    IF os = {} THEN Whole(0) ELSE CHOOSE o \in os : \A p \in os : p.n <= o.n

\* The i-th ordinal after o.
Later(o, i) ==
  LET later[j \in 0..i] == IF j = 0 THEN o ELSE NextOrdinal(later[j - 1]) IN later[i]

\* The cards of a column that have no ordinal get the next ones.
Materialized(c, t) ==
  LET targets == Column(c) \ {t}
      bare    == Ordered({u \in targets : card[u].ordinal = NoOrdinal})
  IN [i \in 1..Len(bare) |->
        Update(bare[i], [card[bare[i]] EXCEPT !.ordinal = Later(Greatest(targets), i)])]

\* move_task_to_status: the moved card is written last.
MoveTask(t, c) ==
  /\ c # card[t].column
  /\ LET first == Materialized(c, t)
         last  == Later(Greatest(Column(c) \ {t}), Len(first) + 1)
     IN Begin("move", c, t,
              Append(first, Update(t, [card[t] EXCEPT !.column = c, !.ordinal = last])))

\* sort_tasks and _assign_task_ordinals.
Ranked(t, u) == card[t].priority < card[u].priority
                \/ (card[t].priority = card[u].priority /\ t < u)

SortColumn(c) ==
  /\ Column(c) # {}
  /\ LET order == SetToSortSeq(Column(c), Ranked)
     IN Begin("sort", c, order[1],
              [i \in 1..Len(order) |->
                 Update(order[i], [card[order[i]] EXCEPT !.ordinal = Whole(i * Step)])])

\* edit_task writes one file: any column, and any ordinal.
EditTask(t) ==
  /\ Idle /\ ops < MaxOps /\ ops' = ops + 1
  /\ \E c \in Columns, o \in Ordinals :
       card' = [card EXCEPT ![t].column = c, ![t].ordinal = o]
  /\ UNCHANGED <<op, faults>>

-----------------------------------------------------------------------------
(* _write_task_source_batch. *)

At(pc) == ~Idle /\ op.pc = pc
Write(t, new) == card' = [card EXCEPT ![t] = new]

WriteCard ==
  /\ At("write") /\ op.done < Len(op.updates)
  /\ LET u == op.updates[op.done + 1] IN
       \/ Write(u.task, u.card) /\ op' = [op EXCEPT !.done = @ + 1] /\ UNCHANGED faults
       \/ Fault /\ op' = [op EXCEPT !.pc = "undo"] /\ UNCHANGED card
  /\ UNCHANGED ops

\* Mutant: nothing is written back.
UndoCard_Skips ==
  /\ At("undo") /\ op.done > 0 /\ op' = [op EXCEPT !.done = 0]
  /\ UNCHANGED <<card, ops, faults>>

\* Written cards are written back in reverse; a failure is logged.
UndoCard ==
  /\ At("undo") /\ op.done > 0
  /\ LET t == op.updates[op.done].task IN
       \/ /\ Write(t, op.before[t]) /\ op' = [op EXCEPT !.done = @ - 1]
          /\ UNCHANGED faults
       \/ Fault /\ op' = [op EXCEPT !.done = @ - 1, !.clean = FALSE] /\ UNCHANGED card
  /\ UNCHANGED ops

Succeeds == At("write") /\ op.done = Len(op.updates)
Raises   == At("undo") /\ op.done = 0

End ==
  /\ Succeeds \/ Raises
  /\ op' = NoOp
  /\ UNCHANGED <<card, ops, faults>>

Die == ~Idle /\ Fault /\ op' = NoOp /\ UNCHANGED <<card, ops>>

BoardNext ==
  \/ \E t \in Tasks : EditTask(t) \/ \E c \in Columns : MoveTask(t, c)
  \/ \E c \in Columns : SortColumn(c)
  \/ WriteCard \/ UndoCard \/ End \/ Die

Spec == BoardInit /\ [][BoardNext]_boardVars

-----------------------------------------------------------------------------
(* Properties. *)

\* The move of a card, as it goes on, and also when it fails or dies half way,
\* leaves the others of the column it goes to in their order; it puts the card
\* behind them all, whatever their ordinals.
Appends ==
  ~Idle /\ op.kind = "move" =>
    /\ op.clean /\ (op' = NoOp \/ op'.clean) =>
         \A t, u \in Column(op.column) \ {op.moved} : Before(t, u) = Before(t, u)'
    /\ Succeeds => \A t \in Column(op.column) \ {op.moved} : Before(t, op.moved)
MoveAppends == [][Appends]_boardVars

\* A sort leaves the column in the order of priorities; and an operation that
\* raises, where its rollback does not, leaves every card as it was.
BoardOutcomes ==
  /\ Succeeds /\ op.kind = "sort" =>
       \A t, u \in Column(op.column) :
         card[t].priority < card[u].priority => Before(t, u)
  /\ Raises /\ op.clean => card = op.before
=============================================================================
