-------------------------- MODULE MCOrchestration --------------------------
(***************************************************************************)
(* Orchestration on a small instance, under the default policy.  A         *)
(* behaviour is one of Spec in which either two agents work on one task    *)
(* and split it at most once, or one agent splits two tasks, which change  *)
(* once each and whose board stands still: `focus` says which.             *)
(***************************************************************************)
EXTENDS Orchestration, TLC

CONSTANTS a1, a2

VARIABLE focus   \* the one task the agents work on, or NoTask

\* OrchestrationPolicy.default(), models.py:294-310.
DefaultStatuses    == {"todo", "inprogress", "review", "complete", "triage"}
DefaultTransitions ==
  [s \in DefaultStatuses |->
     CASE s = "todo"       -> <<"inprogress">>
       [] s = "inprogress" -> <<"review", "triage">>
       [] s = "review"     -> <<"complete", "inprogress", "triage">>
       [] s = "triage"     -> <<"todo", "inprogress">>
       [] s = "complete"   -> <<>>]

\* State updates: move on; take or renew a lease, or hand it to another agent.
LeaseUpdates ==
  {[status |-> "review", owner |-> NoActor, expires |-> NoTime],
   [status |-> NoStatus, owner |-> a2, expires |-> 3]}

\* Two agents and task t.  A split writes one child and does not move t; one that
\* fails or dies with a child is left to the other part.
OnlyOn(t) ==
  /\ \A u \in Tasks \ {t} : history'[u] = history[u] /\ board'[u] = board[u]
  /\ \A a \in Actors : seen'[a].task \in {t, NoTask}
  /\ split' # NoSplit => split'.task = t /\ split'.event.items = 1 /\ split'.event.to = NoStatus
  /\ Cardinality(files') <= 1 /\ left' = {} /\ ~(RollingBack)'

\* Splits by agent a, and its reports, which push a split's entry onto the marker.
OnlySplitsBy(a) ==
  /\ UNCHANGED <<now, board>>
  /\ \A b \in Actors \ {a} : seen'[b] = seen[b]
  /\ \A t \in Tasks :
       /\ orch'[t].version <= 1
       /\ history'[t] # history[t] =>
            /\ NewEntry(t).actor = a
            /\ \/ NewEntry(t).type = "split_task"
               \/ NewEntry(t).type = "record_run" /\ NewEntry(t).key = NoKey
  /\ split # split' /\ Splitting' =>
       /\ orch[split'.task].version = 0
       /\ split'.event.items = 1 \/ split'.event.to = NoStatus

MCInit ==
  /\ Init /\ focus \in Tasks \cup {NoTask}
  /\ \A t \in Tasks \ {focus} : board[t] = Entry

MCNext ==
  /\ Next /\ UNCHANGED focus
  /\ IF focus = NoTask THEN OnlySplitsBy(a1) ELSE OnlyOn(focus)

MCSpec == MCInit /\ [][MCNext]_<<vars, focus>>

Symmetry == Permutations(Tasks)
=============================================================================
