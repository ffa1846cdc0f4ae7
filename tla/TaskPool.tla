------------------------------- MODULE TaskPool -------------------------------
(***************************************************************************)
(* What a sharded executor promises: a bounded number of tasks wait, the   *)
(* tasks of one shard run one at a time in the order they were accepted,   *)
(* none is lost or run twice, and none is accepted once the pool closed.   *)
(***************************************************************************)
EXTENDS Naturals, Sequences, FiniteSets

CONSTANTS Shards, Tasks, Capacity, NoTask

VARIABLES
  backlog,    \* backlog[s]: accepted tasks of shard s that have not started
  running,    \* running[s]: the task shard s is running, or NoTask
  complete,   \* tasks that have run
  open        \* tasks are still accepted

pool == << backlog, running, complete, open >>

Init ==
  /\ backlog = [ s \in Shards |-> << >> ]
  /\ running = [ s \in Shards |-> NoTask ]
  /\ complete = {}
  /\ open = TRUE

(* The tasks the pool knows of. *)
Accepted ==
  (UNION { { backlog[s][i] : i \in DOMAIN backlog[s] } : s \in Shards })
    \cup { running[s] : s \in Shards } \cup complete

(* The places of the tasks that wait. *)
Waiting == UNION { {s} \X DOMAIN backlog[s] : s \in Shards }

Accept(s, t) ==
  /\ open
  /\ t \notin Accepted
  /\ Cardinality(Waiting) < Capacity
  /\ backlog' = [ backlog EXCEPT ![s] = Append(@, t) ]
  /\ UNCHANGED << running, complete, open >>

Start(s) ==
  /\ running[s] = NoTask
  /\ backlog[s] # << >>
  /\ running' = [ running EXCEPT ![s] = Head(backlog[s]) ]
  /\ backlog' = [ backlog EXCEPT ![s] = Tail(@) ]
  /\ UNCHANGED << complete, open >>

Complete(s) ==
  /\ running[s] # NoTask
  /\ complete' = complete \cup { running[s] }
  /\ running' = [ running EXCEPT ![s] = NoTask ]
  /\ UNCHANGED << backlog, open >>

Close ==
  /\ open' = FALSE
  /\ UNCHANGED << backlog, running, complete >>

Next ==
  \/ \E s \in Shards : Start(s) \/ Complete(s) \/ \E t \in Tasks : Accept(s, t)
  \/ Close

Spec == Init /\ [][Next]_pool
=============================================================================
