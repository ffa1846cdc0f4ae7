--------------------------- MODULE ThreadedExecutor ---------------------------
(***************************************************************************)
(* The threaded executor of src/connection/event_loop.cpp: one worker      *)
(* thread per shard, any number of client threads, one mutex and the two   *)
(* condition variables ready and idle.                                     *)
(*                                                                         *)
(* What a thread does between taking the mutex and giving it back is one   *)
(* action; running a task, and the step of shutdown between the unlock and *)
(* notify_all, happen outside of it.  A wait releases the mutex and sleeps *)
(* in one step, and may end without a notification.  Calls that are        *)
(* refused return an error and change nothing.                             *)
(***************************************************************************)
EXTENDS Integers, Sequences, FiniteSetsExt

CONSTANTS
  Shards,      \* the worker threads
  Clients,     \* the threads that call the executor
  Capacity,    \* capacity: tasks queued, the running ones not counted
  MaxTasks     \* bound of the model: tasks accepted

ASSUME ThreadedExecutorAssumption ==
  /\ IsFiniteSet(Shards) /\ Shards # {}
  /\ Capacity \in Nat /\ MaxTasks \in Nat

VARIABLES
  queue,         \* queues[s].queue
  worker,        \* worker[s]: where the thread of shard s is, and its task
  client,        \* where each client is in its present call, or what the last one returned
  stopping,
  queued,
  active,
  first_error,   \* an error has been recorded
  next_id,
  done,          \* history: the tasks that have run
  failed,        \* history: those of them that returned an error
  own            \* history: own[c], the tasks accepted from client c

state == << queue, worker, stopping, queued, active, first_error, next_id >>
history == << done, failed, own >>
vars == << state, client, history >>

NoTask == 0
Tasks  == 1 .. MaxTasks

WorkerAt == { "awake", "waiting", "running", "exited" }
ClientAt == { "free", "waiting", "woken", "saw_ok", "saw_error",
              "stopping", "joining", "joined" }

(* A client that is not in the middle of a call. *)
Between(c) == client[c] \in { "free", "saw_ok", "saw_error", "joined" }

Init ==
  /\ queue = [ s \in Shards |-> << >> ]
  /\ worker = [ s \in Shards |-> [ at |-> "awake", task |-> NoTask ] ]
  /\ client = [ c \in Clients |-> "free" ]
  /\ stopping = FALSE
  /\ queued = 0 /\ active = 0
  /\ first_error = FALSE
  /\ next_id = 1
  /\ done = {} /\ failed = {}
  /\ own = [ c \in Clients |-> {} ]

(* Mutant: ready.notify_one, which wakes any one of the waiting workers. *)
ReadyNotifiedOne(workers) ==
  LET waiting == { s \in Shards : workers[s].at = "waiting" } IN
  IF waiting = {} THEN workers
  ELSE [ workers EXCEPT ![CHOOSE s \in waiting : TRUE].at = "awake" ]

(* ready.notify_all: every worker shares one condition variable. *)
ReadyNotified(workers) ==
  [ s \in Shards |-> IF workers[s].at = "waiting" THEN [ workers[s] EXCEPT !.at = "awake" ]
                     ELSE workers[s] ]

IdleNotified(clients) ==
  [ c \in Clients |-> IF clients[c] = "waiting" THEN "woken" ELSE clients[c] ]

-----------------------------------------------------------------------------
(* Worker threads *)

(* Mutant: a stopping worker leaves its queue behind. *)
MayExitEarly(s) == stopping

MayExit(s) == stopping /\ queue[s] = << >>

TakeTask(s) ==
  /\ worker[s].at = "awake"
  /\ ~ MayExit(s)
  /\ queue[s] # << >>
  /\ worker' = [ worker EXCEPT ![s] = [ at |-> "running", task |-> Head(queue[s]) ] ]
  /\ queue' = [ queue EXCEPT ![s] = Tail(@) ]
  /\ queued' = queued - 1
  /\ active' = active + 1
  /\ UNCHANGED << client, stopping, first_error, next_id, history >>

FallAsleep(s) ==
  /\ worker[s].at = "awake"
  /\ ~ MayExit(s)
  /\ queue[s] = << >>
  /\ worker' = [ worker EXCEPT ![s].at = "waiting" ]
  /\ UNCHANGED << queue, client, stopping, queued, active, first_error, next_id, history >>

Exit(s) ==
  /\ worker[s].at = "awake"
  /\ MayExit(s)
  /\ worker' = [ worker EXCEPT ![s].at = "exited" ]
  /\ UNCHANGED << queue, client, stopping, queued, active, first_error, next_id, history >>

(* A wait on ready may end without a notification. *)
SpuriousWakeup(s) ==
  /\ worker[s].at = "waiting"
  /\ worker' = [ worker EXCEPT ![s].at = "awake" ]
  /\ UNCHANGED << queue, client, stopping, queued, active, first_error, next_id, history >>

(* Mutants: the tasks that are running are overlooked; the counter is      *)
(* compared before it has been lowered.                                    *)
IdleAfterQueuedOnly(waiting, running) == waiting = 0

IdleAfterTooEarly(waiting, running) == waiting = 0 /\ running + 1 = 0

(* All work is done, by the two counters. *)
IdleAfter(waiting, running) == waiting = 0 /\ running = 0

(* The task returns; its worker records the error and lowers active.       *)
FinishTask(s, ok) ==
  LET task == worker[s].task IN
  /\ worker[s].at = "running"
  /\ worker' = [ worker EXCEPT ![s] = [ at |-> "awake", task |-> NoTask ] ]
  /\ first_error' = (first_error \/ ~ ok)
  /\ active' = active - 1
  /\ client' = IF IdleAfter(queued, active - 1) THEN IdleNotified(client) ELSE client
  /\ done' = done \cup {task}
  /\ failed' = IF ok THEN failed ELSE failed \cup {task}
  /\ UNCHANGED << queue, stopping, queued, next_id, own >>

-----------------------------------------------------------------------------
(* Client threads *)

(* Mutant: one task more than the capacity. *)
HasRoomOffByOne == queued <= Capacity

HasRoom == queued < Capacity

Submit(c, s) ==
  /\ Between(c)
  /\ next_id <= MaxTasks
  /\ ~ stopping
  /\ HasRoom
  /\ queue' = [ queue EXCEPT ![s] = Append(@, next_id) ]
  /\ queued' = queued + 1
  /\ worker' = ReadyNotified(worker)
  /\ next_id' = next_id + 1
  /\ own' = [ own EXCEPT ![c] = @ \cup {next_id} ]
  /\ client' = [ client EXCEPT ![c] = "free" ]
  /\ UNCHANGED << stopping, active, first_error, done, failed >>

(* wait_idle: at its start and after every wake-up. *)
WaitIdle(c) ==
  /\ Between(c) \/ client[c] = "woken"
  /\ client' = [ client EXCEPT ![c] =
                   IF ~ IdleAfter(queued, active) THEN "waiting"
                   ELSE IF first_error THEN "saw_error" ELSE "saw_ok" ]
  /\ UNCHANGED << state, history >>

SpuriousIdle(c) ==
  /\ client[c] = "waiting"
  /\ client' = [ client EXCEPT ![c] = "woken" ]
  /\ UNCHANGED << state, history >>

(* shutdown: the first caller sets the flag, notifies after it has given   *)
(* the mutex back, and joins the workers; a later caller returns at once.  *)
BeginShutdown(c) ==
  /\ Between(c)
  /\ stopping' = TRUE
  /\ client' = [ client EXCEPT ![c] = IF stopping THEN "free" ELSE "stopping" ]
  /\ UNCHANGED << queue, worker, queued, active, first_error, next_id, history >>

NotifyShutdown(c) ==
  /\ client[c] = "stopping"
  /\ worker' = ReadyNotified(worker)
  /\ client' = [ client EXCEPT ![c] = "joining" ]
  /\ UNCHANGED << queue, stopping, queued, active, first_error, next_id, history >>

JoinWorkers(c) ==
  /\ client[c] = "joining"
  /\ \A s \in Shards : worker[s].at = "exited"
  /\ client' = [ client EXCEPT ![c] = "joined" ]
  /\ UNCHANGED << state, history >>

-----------------------------------------------------------------------------
WorkerStep(s) ==
  \/ TakeTask(s)
  \/ FallAsleep(s)
  \/ Exit(s)
  \/ \E ok \in BOOLEAN : FinishTask(s, ok)

(* The rest of a call that has begun. *)
ClientStep(c) ==
  \/ client[c] = "woken" /\ WaitIdle(c)
  \/ NotifyShutdown(c)
  \/ JoinWorkers(c)

Next ==
  \/ \E s \in Shards : WorkerStep(s) \/ SpuriousWakeup(s)
  \/ \E c \in Clients :
       \/ \E s \in Shards : Submit(c, s)
       \/ WaitIdle(c)
       \/ SpuriousIdle(c)
       \/ BeginShutdown(c)
       \/ NotifyShutdown(c)
       \/ JoinWorkers(c)

(* A thread that can go on does: it gets the mutex in the end, and tasks   *)
(* return.  Nobody is obliged to call, to wake up early or to shut down.   *)
Fairness ==
  /\ \A s \in Shards : WF_vars(WorkerStep(s))
  /\ \A c \in Clients : WF_vars(ClientStep(c))

Spec == Init /\ [][Next]_vars /\ Fairness

-----------------------------------------------------------------------------
TypeOK ==
  /\ queue \in [ Shards -> Seq(Tasks) ]
  /\ worker \in [ Shards -> [ at : WorkerAt, task : Tasks \cup {NoTask} ] ]
  /\ client \in [ Clients -> ClientAt ]
  /\ stopping \in BOOLEAN /\ first_error \in BOOLEAN
  /\ queued \in 0 .. Capacity
  /\ active \in Nat
  /\ next_id \in 1 .. MaxTasks + 1
  /\ done \subseteq Tasks /\ failed \subseteq done
  /\ own \in [ Clients -> SUBSET Tasks ]

(* Calls keep their word to their callers while other clients go on: when  *)
(* wait_idle has returned, the caller's own tasks have all run, and it     *)
(* returned success only if none of them had failed; the shutdown that     *)
(* joined the workers left nothing behind, the tasks queued when it was    *)
(* called included.                                                        *)
CallsKeepTheirWord ==
  TypeOK /\ \A c \in Clients :
    /\ client[c] \in { "saw_ok", "saw_error" } => own[c] \subseteq done
    /\ client[c] = "saw_ok" => own[c] \cap failed = {}
    /\ client[c] = "saw_error" => failed # {}
    /\ client[c] = "joined" => stopping /\ queued = 0 /\ active = 0 /\ done = 1 .. next_id - 1

(* Serial and first-in first-out per shard, bounded, nothing lost, nothing *)
(* twice and nothing accepted after shutdown began, as TaskPool puts it.   *)
Pool == INSTANCE TaskPool WITH
  backlog  <- queue,
  running  <- [ s \in Shards |-> worker[s].task ],
  complete <- done,
  open     <- ~ stopping

ImplementsTaskPool == Pool!Spec

(* Every task that was accepted runs: no wake-up is lost although all      *)
(* workers share one condition variable and shutdown notifies unlocked.    *)
AcceptedTasksRun == \A t \in Tasks : (next_id > t) ~> (t \in done)

(* No call hangs: wait_idle and shutdown return once the clients leave the *)
(* executor alone.                                                         *)
EveryCallReturns == \A c \in Clients : (~ Between(c)) ~> Between(c)
=============================================================================
