----------------------- MODULE ThreadedExecutor_proofs -----------------------
(***************************************************************************)
(* Proofs about the threaded executor, for any number of worker threads    *)
(* and of clients, any capacity and any number of tasks.                   *)
(***************************************************************************)
EXTENDS ThreadedExecutor, FiniteSetTheorems, SequenceTheorems, TLAPS

(* The places of the queues that hold a task, and the workers that run one. *)
Places(q) == UNION { {s} \X DOMAIN q[s] : s \in Shards }
Busy(w)   == { s \in Shards : w[s].task # NoTask }

IsQueued(t)  == \E s \in Shards : \E i \in 1 .. Len(queue[s]) : queue[s][i] = t
IsRunning(t) == \E s \in Shards : worker[s].task = t

-----------------------------------------------------------------------------
(* The inductive invariant *)

CountersExact ==
  /\ IsFiniteSet(Places(queue)) /\ queued = Cardinality(Places(queue))
  /\ active = Cardinality(Busy(worker))

WorkersCoherent ==
  \A s \in Shards :
    /\ (worker[s].at = "running") <=> (worker[s].task # NoTask)
    /\ worker[s].at = "exited" => stopping /\ queue[s] = << >>

NothingLost == \A t \in 1 .. next_id - 1 : t \in done \/ IsQueued(t) \/ IsRunning(t)

NothingInvented ==
  /\ done \subseteq 1 .. next_id - 1
  /\ \A s \in Shards : worker[s].task < next_id
  /\ \A s \in Shards : \A i \in 1 .. Len(queue[s]) : queue[s][i] < next_id

NothingTwice ==
  /\ \A s, r \in Shards : \A i \in 1 .. Len(queue[s]), j \in 1 .. Len(queue[r]) :
       queue[s][i] = queue[r][j] => s = r /\ i = j
  /\ \A s \in Shards : \A i \in 1 .. Len(queue[s]) :
       queue[s][i] \notin done /\ ~ IsRunning(queue[s][i])
  /\ \A s \in Shards : worker[s].task \notin done
  /\ \A s, r \in Shards : worker[s].task = worker[r].task /\ worker[s].task # NoTask => s = r

ErrorsRecorded == first_error <=> failed # {}

OwnAccepted == \A c \in Clients : own[c] \subseteq 1 .. next_id - 1

ShuttersStop ==
  \A c \in Clients :
    /\ client[c] \in { "stopping", "joining", "joined" } => stopping
    /\ client[c] = "joined" => \A s \in Shards : worker[s].at = "exited"

IInv ==
  /\ CallsKeepTheirWord
  /\ CountersExact /\ WorkersCoherent
  /\ NothingLost /\ NothingInvented /\ NothingTwice
  /\ ErrorsRecorded /\ OwnAccepted /\ ShuttersStop

-----------------------------------------------------------------------------
(* Counting *)

(* A place is a worker and a position in its queue. *)
LEMMA PlaceIs ==
  ASSUME NEW q \in [ Shards -> Seq(Tasks) ], NEW p
  PROVE  p \in Places(q) <=> \E s \in Shards : \E i \in 1 .. Len(q[s]) : p = << s, i >>
<1>1. \A s \in Shards : DOMAIN q[s] = 1 .. Len(q[s])
  OBVIOUS
<1>2. QED
  BY <1>1 DEF Places

(* In r the queue of s is one task longer than in q. *)
Longer(q, r, s) ==
  \A o \in Shards : Len(r[o]) = IF o = s THEN Len(q[o]) + 1 ELSE Len(q[o])

LEMMA PlacesDiffer ==
  ASSUME NEW q \in [ Shards -> Seq(Tasks) ], NEW r \in [ Shards -> Seq(Tasks) ],
         NEW s \in Shards, Longer(q, r, s)
  PROVE  \E new : new \notin Places(q) /\ Places(r) = Places(q) \cup { new }
<1>1. PICK new : new = << s, Len(q[s]) + 1 >>
  OBVIOUS
<1>2. \A o \in Shards : /\ Len(q[o]) \in Nat
                        /\ Len(r[o]) = IF o = s THEN Len(q[o]) + 1 ELSE Len(q[o])
  BY LenProperties DEF Longer
<1>3. ASSUME NEW p, p \in Places(r) PROVE p \in Places(q) \cup { new }
  <2>1. PICK o \in Shards, i \in Nat : i \in 1 .. Len(r[o]) /\ p = << o, i >>
    BY <1>2, <1>3, PlaceIs
  <2>2. i \in 1 .. Len(q[o]) \/ p = new
    BY <1>1, <1>2, <2>1
  <2>3. QED
    BY <2>1, <2>2, PlaceIs
<1>4. new \in Places(r)
  <2>1. Len(q[s]) + 1 \in 1 .. Len(r[s])
    BY <1>2
  <2>2. QED
    BY <1>1, <2>1, PlaceIs
<1>5. ASSUME NEW p, p \in Places(q) PROVE p \in Places(r)
  <2>1. PICK o \in Shards, i \in Nat : i \in 1 .. Len(q[o]) /\ p = << o, i >>
    BY <1>2, <1>5, PlaceIs
  <2>2. i \in 1 .. Len(r[o])
    BY <1>2, <2>1
  <2>3. QED
    BY <2>1, <2>2, PlaceIs
<1>6. ASSUME new \in Places(q) PROVE FALSE
  <2>1. PICK o \in Shards, i \in Nat : i \in 1 .. Len(q[o]) /\ new = << o, i >>
    BY <1>2, <1>6, PlaceIs
  <2>2. s = o /\ Len(q[s]) + 1 = i
    BY <1>1, <2>1
  <2>3. QED
    BY <1>2, <2>1, <2>2
<1>7. QED
  BY <1>3, <1>4, <1>5, <1>6

(* One task more at the end of a queue is one place more. *)
LEMMA AppendAddsPlace ==
  ASSUME NEW q \in [ Shards -> Seq(Tasks) ], IsFiniteSet(Places(q)),
         NEW s \in Shards, NEW t \in Tasks,
         NEW r, r = [ q EXCEPT ![s] = Append(@, t) ]
  PROVE  /\ r \in [ Shards -> Seq(Tasks) ]
         /\ IsFiniteSet(Places(r)) /\ Cardinality(Places(r)) = Cardinality(Places(q)) + 1
<1>1. r \in [ Shards -> Seq(Tasks) ]
  OBVIOUS
<1>2. Longer(q, r, s)
  BY DEF Longer
<1>3. PICK new : new \notin Places(q) /\ Places(r) = Places(q) \cup { new }
  BY <1>1, <1>2, PlacesDiffer, Zenon
<1>4. /\ IsFiniteSet(Places(q) \cup { new })
      /\ Cardinality(Places(q) \cup { new }) = Cardinality(Places(q)) + 1
  BY <1>3, FS_AddElement, Zenon
<1>5. QED
  BY <1>1, <1>3, <1>4, Zenon

(* The head of a queue taken away is one place less. *)
LEMMA TailRemovesPlace ==
  ASSUME NEW q \in [ Shards -> Seq(Tasks) ], IsFiniteSet(Places(q)),
         NEW s \in Shards, q[s] # << >>, NEW r, r = [ q EXCEPT ![s] = Tail(@) ]
  PROVE  /\ r \in [ Shards -> Seq(Tasks) ]
         /\ IsFiniteSet(Places(r)) /\ Cardinality(Places(r)) = Cardinality(Places(q)) - 1
<1>1. /\ Tail(q[s]) \in Seq(Tasks)
      /\ Len(Tail(q[s])) = Len(q[s]) - 1
      /\ Len(q[s]) \in Nat
  BY HeadTailProperties, LenProperties
<1>2. r \in [ Shards -> Seq(Tasks) ]
  BY <1>1
<1>3. Len(r[s]) = Len(Tail(q[s])) /\ \A o \in Shards \ {s} : Len(r[o]) = Len(q[o])
  OBVIOUS
<1>4. Longer(r, q, s)
  BY <1>1, <1>3 DEF Longer
<1>5. PICK old : old \notin Places(r) /\ Places(q) = Places(r) \cup { old }
  BY <1>2, <1>4, PlacesDiffer, Zenon
<1>6. old \in Places(q) /\ Places(r) = Places(q) \ { old }
  BY <1>5
<1>7. QED
  BY <1>2, <1>6, FS_RemoveElement, Zenon

(* No place and no busy worker: nothing is left to do. *)
LEMMA NothingLeft ==
  ASSUME IInv, queued = 0, active = 0
  PROVE  done = 1 .. next_id - 1
<1>1. Places(queue) = {} /\ IsFiniteSet(Busy(worker)) /\ Busy(worker) = {}
  <2>1. Places(queue) = {}
    BY FS_EmptySet DEF IInv, CountersExact
  <2>2. IsFiniteSet(Busy(worker))
    BY ThreadedExecutorAssumption, FS_Subset DEF Busy
  <2>3. QED
    BY <2>1, <2>2, FS_EmptySet DEF IInv, CountersExact
<1>2. \A t : ~ IsQueued(t)
  <2>1. SUFFICES ASSUME NEW s \in Shards, NEW i \in 1 .. Len(queue[s]) PROVE FALSE
    BY DEF IsQueued
  <2>2. queue \in [ Shards -> Seq(Tasks) ]
    BY DEF IInv, CallsKeepTheirWord, TypeOK
  <2>3. << s, i >> \in Places(queue)
    BY <2>2, PlaceIs
  <2>4. QED
    BY <1>1, <2>3
<1>3. \A t : IsRunning(t) => t = NoTask
  BY <1>1 DEF IsRunning, Busy
<1>4. 1 .. next_id - 1 \subseteq done
  BY <1>2, <1>3 DEF IInv, NothingLost, NoTask, CallsKeepTheirWord, TypeOK
<1>5. QED
  BY <1>4 DEF IInv, NothingInvented

-----------------------------------------------------------------------------
(* The steps *)

LEMMA InitIInv == Init => IInv
<1> SUFFICES ASSUME Init PROVE IInv
  OBVIOUS
<1>1. TypeOK
  <2>1. queue \in [ Shards -> Seq(Tasks) ] /\ own \in [ Clients -> SUBSET Tasks ]
    BY DEF Init
  <2>2. queued \in 0 .. Capacity /\ active \in Nat /\ next_id \in 1 .. MaxTasks + 1
    BY ThreadedExecutorAssumption DEF Init
  <2>3. /\ worker \in [ Shards -> [ at : WorkerAt, task : Tasks \cup {NoTask} ] ]
        /\ client \in [ Clients -> ClientAt ]
    BY DEF Init, WorkerAt, ClientAt
  <2>4. stopping \in BOOLEAN /\ first_error \in BOOLEAN /\ done = {} /\ failed = {}
    BY DEF Init
  <2>5. QED
    BY <2>1, <2>2, <2>3, <2>4 DEF TypeOK
<1>2. CountersExact
  <2>1. ASSUME NEW p, p \in Places(queue) PROVE FALSE
    <3>1. PICK s \in Shards : \E i \in 1 .. Len(queue[s]) : p = << s, i >>
      BY <1>1, <2>1, PlaceIs DEF TypeOK
    <3>2. queue[s] = << >>
      BY DEF Init
    <3>3. QED
      BY <3>1, <3>2
  <2>2. Busy(worker) = {}
    BY DEF Init, Busy
  <2>3. QED
    BY <2>1, <2>2, FS_EmptySet DEF Init, CountersExact
<1>3. CallsKeepTheirWord
  BY <1>1 DEF Init, CallsKeepTheirWord
<1>4. WorkersCoherent /\ NothingLost /\ NothingInvented /\ NothingTwice
  BY DEF Init, WorkersCoherent, NothingLost, NothingInvented, NothingTwice, NoTask, IsRunning
<1>5. ErrorsRecorded /\ OwnAccepted /\ ShuttersStop
  BY DEF Init, ErrorsRecorded, OwnAccepted, ShuttersStop
<1>6. QED
  BY <1>2, <1>3, <1>4, <1>5 DEF IInv

(* A worker takes the head of its queue. *)
LEMMA TakeTaskKeepsIInv ==
  ASSUME IInv, NEW s \in Shards, TakeTask(s)
  PROVE  IInv'
<1>1. /\ queue \in [ Shards -> Seq(Tasks) ] /\ queue[s] # << >>
      /\ worker \in [ Shards -> [ at : WorkerAt, task : Tasks \cup {NoTask} ] ]
      /\ queued \in 0 .. Capacity /\ active \in Nat /\ next_id \in Nat
  BY DEF IInv, CallsKeepTheirWord, TypeOK, TakeTask
<1>2. PICK t \in Tasks : t = Head(queue[s])
  BY <1>1, HeadTailProperties
<1>3. /\ t = queue[s][1] /\ 1 \in 1 .. Len(queue[s])
      /\ \A r \in Shards : Len(queue[r]) \in Nat
  BY <1>1, <1>2, LenProperties
<1>4. /\ queue' \in [ Shards -> Seq(Tasks) ]
      /\ IsFiniteSet(Places(queue')) /\ Cardinality(Places(queue')) = Cardinality(Places(queue)) - 1
  BY <1>1, TailRemovesPlace DEF IInv, CountersExact, TakeTask
<1>5. /\ \A r \in Shards \ {s} : queue'[r] = queue[r]
      /\ Len(queue'[s]) = Len(queue[s]) - 1
      /\ \A i \in 1 .. Len(queue'[s]) : queue'[s][i] = queue[s][i + 1]
  <2>1. queue'[s] = Tail(queue[s]) /\ \A r \in Shards \ {s} : queue'[r] = queue[r]
    BY <1>1 DEF TakeTask
  <2>2. QED
    BY <1>1, <2>1, HeadTailProperties
<1>6. /\ worker' \in [ Shards -> [ at : WorkerAt, task : Tasks \cup {NoTask} ] ]
      /\ worker'[s].task = t /\ worker'[s].at = "running"
      /\ worker[s].task = NoTask /\ worker[s].at = "awake"
      /\ \A r \in Shards \ {s} : worker'[r] = worker[r]
  BY <1>1, <1>2 DEF TakeTask, IInv, WorkersCoherent, WorkerAt
<1>7. t # NoTask
  BY <1>2 DEF Tasks, NoTask
<1>8. UNCHANGED << client, stopping, first_error, next_id, done, failed, own >>
  BY DEF TakeTask, history
<1>9. CountersExact'
  <2>1. s \notin Busy(worker) /\ Busy(worker') = Busy(worker) \cup {s}
    BY <1>6, <1>7 DEF Busy
  <2>2. IsFiniteSet(Busy(worker))
    BY ThreadedExecutorAssumption, FS_Subset DEF Busy
  <2>3. Cardinality(Busy(worker')) = Cardinality(Busy(worker)) + 1
    BY <2>1, <2>2, FS_AddElement, Zenon
  <2>4. QED
    BY <1>4, <2>3 DEF TakeTask, IInv, CountersExact
<1>10. TypeOK'
  <2>1. Cardinality(Places(queue')) \in Nat
    BY <1>4, FS_CardinalityType
  <2>2. queued' \in 0 .. Capacity
    BY <1>1, <1>9, <2>1, ThreadedExecutorAssumption DEF CountersExact, TakeTask
  <2>3. QED
    BY <1>1, <1>4, <1>6, <1>8, <2>2 DEF IInv, CallsKeepTheirWord, TypeOK, TakeTask
<1>11. CallsKeepTheirWord'
  BY <1>6, <1>8, <1>10 DEF IInv, CallsKeepTheirWord, ShuttersStop
<1>12. WorkersCoherent'
  BY <1>5, <1>6, <1>7, <1>8 DEF IInv, WorkersCoherent
<1>13. NothingLost'
  <2>1. SUFFICES ASSUME NEW u \in 1 .. next_id - 1
                 PROVE  u \in done \/ IsQueued(u)' \/ IsRunning(u)'
    BY <1>8 DEF NothingLost
  <2>2. CASE u \in done
    BY <2>2
  <2>3. CASE IsRunning(u)
    <3>1. PICK r \in Shards : worker[r].task = u
      BY <2>3 DEF IsRunning
    <3>2. r # s
      BY <1>6, <3>1 DEF NoTask
    <3>3. QED
      BY <1>6, <3>1, <3>2 DEF IsRunning
  <2>4. CASE IsQueued(u)
    <3>1. PICK r \in Shards, i \in Nat : i \in 1 .. Len(queue[r]) /\ queue[r][i] = u
      BY <1>3, <2>4 DEF IsQueued
    <3>2. CASE r = s /\ i = 1
      BY <1>3, <1>6, <3>1, <3>2 DEF IsRunning
    <3>3. CASE r = s /\ i # 1
      <4>1. i - 1 \in 1 .. Len(queue[s]) - 1 /\ (i - 1) + 1 = i /\ i - 1 \in Nat
        BY <1>3, <3>1, <3>3
      <4>2. i - 1 \in 1 .. Len(queue'[s]) /\ queue'[s][i - 1] = queue[s][(i - 1) + 1]
        BY <1>5, <4>1
      <4>3. QED
        BY <3>1, <3>3, <4>1, <4>2 DEF IsQueued
    <3>4. CASE r # s
      BY <1>5, <3>1, <3>4 DEF IsQueued
    <3>5. QED
      BY <3>2, <3>3, <3>4
  <2>5. QED
    BY <2>2, <2>3, <2>4 DEF IInv, NothingLost
<1>14. \A r \in Shards : \A i \in 1 .. Len(queue'[r]) :
         \E j \in 1 .. Len(queue[r]) :
           queue'[r][i] = queue[r][j] /\ j = (IF r = s THEN i + 1 ELSE i)
  BY <1>3, <1>5
<1>15. NothingInvented'
  <2>1. t < next_id
    BY <1>3 DEF IInv, NothingInvented
  <2>2. \A r \in Shards : worker'[r].task < next_id
    BY <1>6, <2>1 DEF IInv, NothingInvented
  <2>3. ASSUME NEW r \in Shards, NEW i \in 1 .. Len(queue'[r])
        PROVE  queue'[r][i] < next_id
    <3>1. PICK j \in 1 .. Len(queue[r]) : queue'[r][i] = queue[r][j]
      BY <1>14
    <3>2. queue[r][j] < next_id
      BY DEF IInv, NothingInvented
    <3>3. QED
      BY <3>1, <3>2
  <2>4. QED
    BY <1>8, <2>2, <2>3 DEF IInv, NothingInvented
<1>16. NothingTwice'
  <2>1. ASSUME NEW r \in Shards, NEW o \in Shards,
               NEW i \in 1 .. Len(queue'[r]), NEW j \in 1 .. Len(queue'[o]),
               queue'[r][i] = queue'[o][j]
        PROVE  r = o /\ i = j
    <3>1. PICK k \in 1 .. Len(queue[r]) :
            queue'[r][i] = queue[r][k] /\ k = (IF r = s THEN i + 1 ELSE i)
      BY <1>14
    <3>2. PICK l \in 1 .. Len(queue[o]) :
            queue'[o][j] = queue[o][l] /\ l = (IF o = s THEN j + 1 ELSE j)
      BY <1>14
    <3>3. r = o /\ k = l
      <4>1. queue[r][k] = queue[o][l]
        BY <2>1, <3>1, <3>2
      <4>2. QED
        BY <4>1 DEF IInv, NothingTwice
    <3>4. QED
      BY <3>1, <3>2, <3>3
  <2>2. ASSUME NEW r \in Shards, NEW i \in 1 .. Len(queue'[r])
        PROVE  queue'[r][i] \notin done' /\ \A o \in Shards : worker'[o].task # queue'[r][i]
    <3>1. PICK j \in 1 .. Len(queue[r]) :
            queue'[r][i] = queue[r][j] /\ j = (IF r = s THEN i + 1 ELSE i)
      BY <1>14
    <3>2. queue[r][j] # t
      BY <1>3, <3>1 DEF IInv, NothingTwice
    <3>3. QED
      BY <1>6, <1>8, <3>1, <3>2 DEF IInv, NothingTwice, IsRunning
  <2>3. t \notin done /\ \A r \in Shards : worker[r].task # t
    BY <1>3 DEF IInv, NothingTwice, IsRunning
  <2>4. \A r \in Shards : worker'[r].task \notin done'
    BY <1>6, <1>8, <2>3 DEF IInv, NothingTwice
  <2>5. \A r, o \in Shards :
          worker'[r].task = worker'[o].task /\ worker'[r].task # NoTask => r = o
    BY <1>6, <2>3 DEF IInv, NothingTwice
  <2>6. QED
    BY <2>1, <2>2, <2>4, <2>5 DEF NothingTwice, IsRunning
<1>17. ErrorsRecorded' /\ OwnAccepted' /\ ShuttersStop'
  BY <1>6, <1>8 DEF IInv, ErrorsRecorded, OwnAccepted, ShuttersStop
<1>18. QED
  BY <1>9, <1>11, <1>12, <1>13, <1>15, <1>16, <1>17 DEF IInv

(* A step that moves no task keeps what is known about tasks. *)
LEMMA QuietStepKeepsIInv ==
  ASSUME IInv, UNCHANGED << queue, queued, active, first_error, next_id, history >>,
         \A s \in Shards : worker'[s].task = worker[s].task,
         CallsKeepTheirWord', WorkersCoherent', ShuttersStop'
  PROVE  IInv'
<1>1. Busy(worker') = Busy(worker)
  BY DEF Busy
<1>2. CountersExact'
  BY <1>1 DEF IInv, CountersExact
<1>3. NothingLost' /\ NothingInvented'
  BY DEF IInv, NothingLost, NothingInvented, IsQueued, IsRunning, history
<1>4. NothingTwice'
  BY DEF IInv, NothingTwice, IsRunning, history
<1>5. ErrorsRecorded' /\ OwnAccepted'
  BY DEF IInv, ErrorsRecorded, OwnAccepted, history
<1>6. QED
  BY <1>2, <1>3, <1>4, <1>5 DEF IInv

(* A worker falls asleep, wakes up or ends. *)
LEMMA WorkerMovesKeepsIInv ==
  ASSUME IInv, NEW s \in Shards, FallAsleep(s) \/ Exit(s) \/ SpuriousWakeup(s)
  PROVE  IInv'
<1>1. /\ UNCHANGED << queue, client, stopping, queued, active, first_error, next_id, history >>
      /\ worker[s].at \in { "awake", "waiting" }
  BY DEF FallAsleep, Exit, SpuriousWakeup
<1>2. worker \in [ Shards -> [ at : WorkerAt, task : Tasks \cup {NoTask} ] ]
  BY DEF IInv, CallsKeepTheirWord, TypeOK
<1>3. PICK place \in { "awake", "waiting", "exited" } :
        worker' = [ worker EXCEPT ![s].at = place ]
        /\ (place = "exited" => stopping /\ queue[s] = << >>)
  BY DEF FallAsleep, Exit, SpuriousWakeup, MayExit
<1>4. /\ worker' \in [ Shards -> [ at : WorkerAt, task : Tasks \cup {NoTask} ] ]
      /\ worker'[s].at = place /\ worker'[s].task = worker[s].task
      /\ \A r \in Shards \ {s} : worker'[r] = worker[r]
  BY <1>2, <1>3 DEF WorkerAt
<1>5. TypeOK'
  BY <1>1, <1>4 DEF IInv, CallsKeepTheirWord, TypeOK, history
<1>6. CallsKeepTheirWord'
  BY <1>1, <1>5 DEF IInv, CallsKeepTheirWord, history
<1>7. WorkersCoherent'
  BY <1>1, <1>3, <1>4 DEF IInv, WorkersCoherent
<1>8. ShuttersStop'
  BY <1>1, <1>4 DEF IInv, ShuttersStop
<1>9. QED
  BY <1>1, <1>4, <1>6, <1>7, <1>8, QuietStepKeepsIInv DEF WorkersCoherent

(* wait_idle, from its call or a wake-up on: when it returns, every task   *)
(* accepted so far has run.                                                *)
LEMMA WaitIdleKeepsIInv ==
  ASSUME IInv, NEW c \in Clients, WaitIdle(c)
  PROVE  IInv'
<1>1. UNCHANGED << state, history >> /\ client \in [ Clients -> ClientAt ]
  BY DEF WaitIdle, IInv, CallsKeepTheirWord, TypeOK
<1>2. PICK at \in { "waiting", "saw_ok", "saw_error" } :
        /\ client' = [ client EXCEPT ![c] = at ]
        /\ at # "waiting" => queued = 0 /\ active = 0
        /\ at = "saw_ok" => ~ first_error
        /\ at = "saw_error" => first_error
  BY DEF WaitIdle, IdleAfter
<1>3. /\ client' \in [ Clients -> ClientAt ] /\ client'[c] = at
      /\ \A d \in Clients \ {c} : client'[d] = client[d]
  BY <1>1, <1>2 DEF ClientAt
<1>4. TypeOK'
  BY <1>1, <1>3 DEF IInv, CallsKeepTheirWord, TypeOK, state, history
<1>5. at # "waiting" => own[c] \subseteq done
  BY <1>2, NothingLeft DEF IInv, OwnAccepted
<1>6. CallsKeepTheirWord'
  BY <1>1, <1>2, <1>3, <1>4, <1>5 DEF IInv, CallsKeepTheirWord, ErrorsRecorded, state, history
<1>7. WorkersCoherent' /\ ShuttersStop'
  BY <1>1, <1>3 DEF IInv, WorkersCoherent, ShuttersStop, state
<1>8. QED
  BY <1>1, <1>6, <1>7, QuietStepKeepsIInv DEF state

(* A wait ends early; shutdown begins, notifies and joins. *)
LEMMA ClientMovesKeepsIInv ==
  ASSUME IInv, NEW c \in Clients,
         SpuriousIdle(c) \/ BeginShutdown(c) \/ NotifyShutdown(c) \/ JoinWorkers(c)
  PROVE  IInv'
<1>1. /\ UNCHANGED << queue, queued, active, first_error, next_id, history >>
      /\ client \in [ Clients -> ClientAt ] /\ stopping \in BOOLEAN
      /\ worker \in [ Shards -> [ at : WorkerAt, task : Tasks \cup {NoTask} ] ]
  BY DEF SpuriousIdle, BeginShutdown, NotifyShutdown, JoinWorkers, state,
         IInv, CallsKeepTheirWord, TypeOK
<1>2. PICK at \in { "woken", "free", "stopping", "joining", "joined" } :
        /\ client' = [ client EXCEPT ![c] = at ]
        /\ at \in { "stopping", "joining", "joined" } => stopping'
        /\ at = "joined" => \A s \in Shards : worker[s].at = "exited"
  BY DEF SpuriousIdle, BeginShutdown, NotifyShutdown, JoinWorkers, state, IInv, ShuttersStop
<1>3. /\ client' \in [ Clients -> ClientAt ] /\ client'[c] = at
      /\ \A d \in Clients \ {c} : client'[d] = client[d]
  BY <1>1, <1>2 DEF ClientAt
<1>4. stopping' \in BOOLEAN /\ (stopping => stopping')
  BY <1>1 DEF SpuriousIdle, BeginShutdown, NotifyShutdown, JoinWorkers, state
<1>5. worker' \in [ Shards -> [ at : WorkerAt, task : Tasks \cup {NoTask} ] ]
      /\ \A s \in Shards :
           /\ worker'[s].task = worker[s].task
           /\ \/ worker'[s].at = worker[s].at
              \/ worker[s].at = "waiting" /\ worker'[s].at = "awake"
  <2>1. CASE worker' = worker
    BY <1>1, <2>1
  <2>2. CASE worker' = ReadyNotified(worker)
    BY <1>1, <2>2 DEF ReadyNotified, WorkerAt
  <2>3. QED
    BY <2>1, <2>2 DEF SpuriousIdle, BeginShutdown, NotifyShutdown, JoinWorkers, state
<1>6. TypeOK'
  BY <1>1, <1>3, <1>4, <1>5 DEF IInv, CallsKeepTheirWord, TypeOK, history
<1>7. WorkersCoherent'
  BY <1>1, <1>4, <1>5 DEF IInv, WorkersCoherent
<1>8. ShuttersStop'
  BY <1>2, <1>3, <1>4, <1>5 DEF IInv, ShuttersStop
<1>9. at = "joined" => queued = 0 /\ active = 0
  <2>1. SUFFICES ASSUME \A s \in Shards : worker[s].at = "exited"
                 PROVE  queued = 0 /\ active = 0
    BY <1>2
  <2>2. Busy(worker) = {}
    BY <2>1 DEF Busy, IInv, WorkersCoherent
  <2>3. ASSUME NEW p, p \in Places(queue) PROVE FALSE
    <3>1. queue \in [ Shards -> Seq(Tasks) ]
      BY DEF IInv, CallsKeepTheirWord, TypeOK
    <3>2. PICK s \in Shards : \E i \in 1 .. Len(queue[s]) : p = << s, i >>
      BY <2>3, <3>1, PlaceIs
    <3>3. queue[s] = << >>
      BY <2>1 DEF IInv, WorkersCoherent
    <3>4. QED
      BY <3>2, <3>3
  <2>4. Places(queue) = {}
    BY <2>3
  <2>5. QED
    BY <2>2, <2>4, FS_EmptySet DEF IInv, CountersExact
<1>10. CallsKeepTheirWord'
  BY <1>1, <1>2, <1>3, <1>4, <1>6, <1>9, NothingLeft DEF IInv, CallsKeepTheirWord, history
<1>11. QED
  BY <1>1, <1>5, <1>7, <1>8, <1>10, QuietStepKeepsIInv

(* A task returns. *)
LEMMA FinishTaskKeepsIInv ==
  ASSUME IInv, NEW s \in Shards, NEW ok \in BOOLEAN, FinishTask(s, ok)
  PROVE  IInv'
<1>1. /\ worker \in [ Shards -> [ at : WorkerAt, task : Tasks \cup {NoTask} ] ]
      /\ client \in [ Clients -> ClientAt ] /\ first_error \in BOOLEAN
      /\ done \subseteq Tasks /\ failed \subseteq done
      /\ active = Cardinality(Busy(worker))
  BY DEF IInv, CallsKeepTheirWord, TypeOK, CountersExact
<1>2. PICK t \in Tasks : t = worker[s].task /\ t # NoTask /\ t < next_id
  BY <1>1 DEF FinishTask, IInv, WorkersCoherent, NothingInvented
<1>3. /\ worker' \in [ Shards -> [ at : WorkerAt, task : Tasks \cup {NoTask} ] ]
      /\ worker'[s].at = "awake" /\ worker'[s].task = NoTask /\ worker[s].at = "running"
      /\ \A r \in Shards \ {s} : worker'[r] = worker[r]
  BY <1>1 DEF FinishTask, WorkerAt
<1>4. /\ UNCHANGED << queue, stopping, queued, next_id, own >>
      /\ active' = active - 1 /\ done' = done \cup {t}
      /\ failed' = (IF ok THEN failed ELSE failed \cup {t})
      /\ first_error' = (first_error \/ ~ ok)
  BY <1>2 DEF FinishTask
<1>5. /\ client' \in [ Clients -> ClientAt ]
      /\ \A c \in Clients : \/ client'[c] = client[c]
                            \/ client[c] = "waiting" /\ client'[c] = "woken"
  <2>1. CASE client' = client
    BY <1>1, <2>1
  <2>2. CASE client' = IdleNotified(client)
    BY <1>1, <2>2 DEF IdleNotified, ClientAt
  <2>3. QED
    BY <2>1, <2>2 DEF FinishTask
<1>6. t \notin done /\ \A r \in Shards \ {s} : worker[r].task # t
  BY <1>2 DEF IInv, NothingTwice
<1>7. active' = Cardinality(Busy(worker')) /\ active' \in Nat
  <2>1. s \in Busy(worker) /\ Busy(worker') = Busy(worker) \ {s}
    BY <1>2, <1>3 DEF Busy
  <2>2. IsFiniteSet(Busy(worker))
    BY ThreadedExecutorAssumption, FS_Subset DEF Busy
  <2>3. Cardinality(Busy(worker')) = Cardinality(Busy(worker)) - 1 /\ IsFiniteSet(Busy(worker'))
    BY <2>1, <2>2, FS_RemoveElement, Zenon
  <2>4. Cardinality(Busy(worker')) \in Nat
    BY <2>3, FS_CardinalityType
  <2>5. QED
    BY <1>1, <1>4, <2>3, <2>4
<1>8. CountersExact'
  BY <1>4, <1>7 DEF IInv, CountersExact
<1>9. TypeOK'
  BY <1>1, <1>3, <1>4, <1>5, <1>7 DEF IInv, CallsKeepTheirWord, TypeOK
<1>10. CallsKeepTheirWord'
  <2>1. ASSUME NEW c \in Clients, client'[c] \in { "saw_ok", "saw_error" }
        PROVE  /\ own'[c] \subseteq done'
               /\ client'[c] = "saw_ok" => own'[c] \cap failed' = {}
               /\ client'[c] = "saw_error" => failed' # {}
    <3>1. client[c] = client'[c] /\ own[c] \subseteq done
      BY <1>5, <2>1 DEF IInv, CallsKeepTheirWord
    <3>2. QED
      BY <1>4, <1>6, <3>1 DEF IInv, CallsKeepTheirWord
  <2>2. \A c \in Clients : client'[c] # "joined"
    BY <1>3, <1>5 DEF IInv, ShuttersStop
  <2>3. QED
    BY <1>9, <2>1, <2>2 DEF CallsKeepTheirWord
<1>11. WorkersCoherent'
  BY <1>3, <1>4 DEF IInv, WorkersCoherent
<1>12. NothingLost'
  <2>1. SUFFICES ASSUME NEW u \in 1 .. next_id - 1
                 PROVE  u \in done' \/ IsQueued(u)' \/ IsRunning(u)'
    BY <1>4 DEF NothingLost
  <2>2. CASE u \in done
    BY <1>4, <2>2
  <2>3. CASE IsRunning(u)
    <3>1. PICK r \in Shards : worker[r].task = u
      BY <2>3 DEF IsRunning
    <3>2. QED
      BY <1>2, <1>3, <1>4, <3>1 DEF IsRunning
  <2>4. CASE IsQueued(u)
    BY <1>4, <2>4 DEF IsQueued
  <2>5. QED
    BY <2>2, <2>3, <2>4 DEF IInv, NothingLost
<1>13. next_id \in Nat
  BY DEF IInv, CallsKeepTheirWord, TypeOK
<1>14. NothingInvented'
  <2>1. t \in 1 .. next_id - 1 /\ t > 0
    BY <1>2, <1>13 DEF Tasks
  <2>2. NoTask < next_id
    BY <1>13, <2>1 DEF NoTask
  <2>3. QED
    BY <1>3, <1>4, <2>1, <2>2 DEF IInv, NothingInvented
<1>15. NothingTwice'
  <2>1. ASSUME NEW r \in Shards, NEW i \in 1 .. Len(queue[r])
        PROVE  queue[r][i] \notin done' /\ \A o \in Shards : worker'[o].task # queue[r][i]
    <3>1. /\ queue[r][i] \notin done /\ \A o \in Shards : worker[o].task # queue[r][i]
          /\ queue[r][i] \in Tasks
      BY DEF IInv, NothingTwice, IsRunning, CallsKeepTheirWord, TypeOK
    <3>2. QED
      BY <1>2, <1>3, <1>4, <3>1 DEF Tasks, NoTask
  <2>2. NoTask \notin done'
    BY <1>1, <1>2, <1>4 DEF Tasks, NoTask
  <2>3. \A r \in Shards : worker'[r].task \notin done'
    BY <1>3, <1>4, <1>6, <2>2 DEF IInv, NothingTwice
  <2>4. \A r, o \in Shards :
          worker'[r].task = worker'[o].task /\ worker'[r].task # NoTask => r = o
    BY <1>3 DEF IInv, NothingTwice
  <2>5. QED
    BY <1>4, <2>1, <2>3, <2>4 DEF IInv, NothingTwice, IsRunning
<1>16. ErrorsRecorded' /\ OwnAccepted'
  BY <1>4 DEF IInv, ErrorsRecorded, OwnAccepted
<1>17. ShuttersStop'
  BY <1>3, <1>4, <1>5 DEF IInv, ShuttersStop
<1>18. QED
  BY <1>8, <1>10, <1>11, <1>12, <1>14, <1>15, <1>16, <1>17 DEF IInv

(* A task is accepted: its number is new. *)
LEMMA SubmitKeepsIInv ==
  ASSUME IInv, NEW c \in Clients, NEW s \in Shards, Submit(c, s)
  PROVE  IInv'
<1>1. /\ queue \in [ Shards -> Seq(Tasks) ] /\ next_id \in Tasks /\ next_id > 0
      /\ worker \in [ Shards -> [ at : WorkerAt, task : Tasks \cup {NoTask} ] ]
      /\ client \in [ Clients -> ClientAt ] /\ own \in [ Clients -> SUBSET Tasks ]
      /\ queued \in 0 .. Capacity /\ queued < Capacity
  BY ThreadedExecutorAssumption DEF IInv, CallsKeepTheirWord, TypeOK, Submit, Tasks, HasRoom
<1>2. /\ UNCHANGED << stopping, active, first_error, done, failed >> /\ ~ stopping
      /\ next_id' = next_id + 1 /\ queued' = queued + 1
      /\ queue' = [ queue EXCEPT ![s] = Append(@, next_id) ]
  BY DEF Submit
<1>3. /\ queue' \in [ Shards -> Seq(Tasks) ]
      /\ IsFiniteSet(Places(queue')) /\ Cardinality(Places(queue')) = Cardinality(Places(queue)) + 1
  <2>1. IsFiniteSet(Places(queue))
    BY DEF IInv, CountersExact
  <2>2. \A r : r = [ queue EXCEPT ![s] = Append(@, next_id) ] =>
          /\ r \in [ Shards -> Seq(Tasks) ]
          /\ IsFiniteSet(Places(r)) /\ Cardinality(Places(r)) = Cardinality(Places(queue)) + 1
    BY <1>1, <2>1, AppendAddsPlace
  <2>3. QED
    BY <1>2, <2>2, Zenon
<1>4. \A r \in Shards :
        /\ Len(queue[r]) \in Nat
        /\ Len(queue'[r]) = (IF r = s THEN Len(queue[r]) + 1 ELSE Len(queue[r]))
        /\ \A i \in 1 .. Len(queue[r]) : queue'[r][i] = queue[r][i]
  BY <1>1, <1>2
<1>5. queue'[s][Len(queue[s]) + 1] = next_id
  BY <1>1, <1>2
<1>6. /\ worker' \in [ Shards -> [ at : WorkerAt, task : Tasks \cup {NoTask} ] ]
      /\ \A r \in Shards :
           /\ worker'[r].task = worker[r].task
           /\ \/ worker'[r].at = worker[r].at
              \/ worker[r].at = "waiting" /\ worker'[r].at = "awake"
  BY <1>1 DEF Submit, ReadyNotified, WorkerAt
<1>7. /\ client' \in [ Clients -> ClientAt ] /\ client'[c] = "free"
      /\ \A d \in Clients \ {c} : client'[d] = client[d]
      /\ own' \in [ Clients -> SUBSET Tasks ] /\ own'[c] = own[c] \cup {next_id}
      /\ \A d \in Clients \ {c} : own'[d] = own[d]
  BY <1>1 DEF Submit, ClientAt
<1>8. CountersExact'
  <2>1. Busy(worker') = Busy(worker)
    BY <1>6 DEF Busy
  <2>2. QED
    BY <1>2, <1>3, <2>1 DEF IInv, CountersExact
<1>9. TypeOK'
  <2>1. next_id' \in 1 .. MaxTasks + 1 /\ queued' \in 0 .. Capacity
    BY <1>1, <1>2, ThreadedExecutorAssumption DEF Tasks
  <2>2. QED
    BY <1>2, <1>3, <1>6, <1>7, <2>1 DEF IInv, CallsKeepTheirWord, TypeOK
<1>10. CallsKeepTheirWord'
  BY <1>2, <1>7, <1>9 DEF IInv, CallsKeepTheirWord
<1>11. \A r \in Shards : worker[r].at # "exited"
  BY <1>2 DEF IInv, WorkersCoherent
<1>12. WorkersCoherent'
  BY <1>2, <1>6, <1>11 DEF IInv, WorkersCoherent
<1>13. Tasks \subseteq Nat /\ NoTask \in Nat
  BY DEF Tasks, NoTask
<1>14. NothingLost'
  <2>1. SUFFICES ASSUME NEW u \in 1 .. next_id'  - 1
                 PROVE  u \in done \/ (\E r \in Shards : \E i \in 1 .. Len(queue'[r]) : queue'[r][i] = u)
                        \/ (\E r \in Shards : worker'[r].task = u)
    BY <1>2 DEF NothingLost, IsQueued, IsRunning
  <2>2. CASE u = next_id
    BY <1>4, <1>5, <2>2
  <2>3. CASE u # next_id
    <3>1. u \in 1 .. next_id - 1
      BY <1>1, <1>2, <2>3 DEF Tasks
    <3>2. CASE IsQueued(u)
      <4>1. PICK r \in Shards, i \in Nat : i \in 1 .. Len(queue[r]) /\ queue[r][i] = u
        BY <1>4, <3>2 DEF IsQueued
      <4>2. i \in 1 .. Len(queue'[r]) /\ queue'[r][i] = u
        BY <1>4, <4>1
      <4>3. QED
        BY <4>2
    <3>3. QED
      BY <1>6, <3>1, <3>2 DEF IInv, NothingLost, IsRunning
  <2>4. QED
    BY <2>2, <2>3
<1>15. next_id \notin done /\ (\A r \in Shards : worker[r].task < next_id)
       /\ \A r \in Shards : \A i \in 1 .. Len(queue[r]) : queue[r][i] < next_id
  BY <1>1 DEF IInv, NothingInvented, Tasks
<1>16. ASSUME NEW r \in Shards, NEW i \in 1 .. Len(queue'[r])
       PROVE  \/ i \in 1 .. Len(queue[r]) /\ queue'[r][i] = queue[r][i]
              \/ r = s /\ i = Len(queue[s]) + 1 /\ queue'[r][i] = next_id
  BY <1>4, <1>5
<1>17. NothingInvented'
  <2>1. \A r \in Shards : worker[r].task < next_id + 1
    <3>1. \A r \in Shards : worker[r].task \in Nat
      BY <1>1, <1>13
    <3>2. QED
      BY <1>1, <1>15, <3>1 DEF Tasks
  <2>2. ASSUME NEW r \in Shards, NEW i \in 1 .. Len(queue'[r])
        PROVE  queue'[r][i] < next_id + 1
    <3>1. queue'[r][i] \in Nat
      BY <1>3, <1>13, ElementOfSeq
    <3>2. QED
      BY <1>1, <1>15, <1>16, <3>1 DEF Tasks
  <2>3. done \subseteq 1 .. next_id
    BY <1>1 DEF IInv, NothingInvented, Tasks
  <2>4. QED
    BY <1>1, <1>2, <1>6, <2>1, <2>2, <2>3 DEF NothingInvented, Tasks
<1>18. NothingTwice'
  <2>1. ASSUME NEW r \in Shards, NEW o \in Shards,
               NEW i \in 1 .. Len(queue'[r]), NEW j \in 1 .. Len(queue'[o]),
               queue'[r][i] = queue'[o][j]
        PROVE  r = o /\ i = j
    <3>1. \A a \in Shards : \A k \in 1 .. Len(queue[a]) : queue[a][k] # next_id
      <4>1. \A a \in Shards : \A k \in 1 .. Len(queue[a]) : queue[a][k] \in Nat
        BY <1>1, <1>13, ElementOfSeq
      <4>2. QED
        BY <1>1, <1>15, <4>1
    <3>2. \A a, b \in Shards : \A k \in 1 .. Len(queue[a]), l \in 1 .. Len(queue[b]) :
            queue[a][k] = queue[b][l] => a = b /\ k = l
      BY DEF IInv, NothingTwice
    <3>3. CASE i \in 1 .. Len(queue[r]) /\ queue'[r][i] = queue[r][i]
      <4>1. j \in 1 .. Len(queue[o]) /\ queue'[o][j] = queue[o][j]
        BY <1>16, <2>1, <3>1, <3>3
      <4>2. queue[r][i] = queue[o][j]
        BY <2>1, <3>3, <4>1
      <4>3. QED
        BY <3>2, <3>3, <4>1, <4>2
    <3>4. CASE r = s /\ i = Len(queue[s]) + 1 /\ queue'[r][i] = next_id
      <4>1. o = s /\ j = Len(queue[s]) + 1
        BY <1>16, <2>1, <3>1, <3>4
      <4>2. QED
        BY <3>4, <4>1
    <3>5. QED
      BY <1>16, <3>3, <3>4
  <2>2. ASSUME NEW r \in Shards, NEW i \in 1 .. Len(queue'[r])
        PROVE  queue'[r][i] \notin done /\ \A o \in Shards : worker'[o].task # queue'[r][i]
    <3>1. \A o \in Shards : worker[o].task # next_id
      <4>1. \A o \in Shards : worker[o].task \in Nat
        BY <1>1 DEF Tasks, NoTask
      <4>2. QED
        BY <1>1, <1>15, <4>1
    <3>2. QED
      BY <1>6, <1>15, <1>16, <3>1 DEF IInv, NothingTwice, IsRunning
  <2>3. /\ \A r \in Shards : worker'[r].task \notin done
        /\ \A r, o \in Shards :
             worker'[r].task = worker'[o].task /\ worker'[r].task # NoTask => r = o
    BY <1>6 DEF IInv, NothingTwice
  <2>4. QED
    BY <1>2, <2>1, <2>2, <2>3 DEF NothingTwice, IsRunning
<1>19. OwnAccepted' /\ ErrorsRecorded'
  <2>1. ASSUME NEW d \in Clients PROVE own'[d] \subseteq 1 .. next_id
    <3>1. own[d] \subseteq 1 .. next_id /\ next_id \in 1 .. next_id
      BY <1>1, <1>13 DEF IInv, OwnAccepted
    <3>2. QED
      BY <1>7, <3>1
  <2>2. next_id' - 1 = next_id
    BY <1>1, <1>2, <1>13
  <2>3. QED
    BY <1>2, <2>1, <2>2 DEF IInv, OwnAccepted, ErrorsRecorded
<1>20. ShuttersStop'
  BY <1>2, <1>7 DEF IInv, ShuttersStop
<1>21. QED
  BY <1>8, <1>10, <1>12, <1>14, <1>17, <1>18, <1>19, <1>20 DEF IInv

LEMMA NextIInv == IInv /\ [Next]_vars => IInv'
<1> SUFFICES ASSUME IInv, [Next]_vars PROVE IInv'
  OBVIOUS
<1>1. ASSUME NEW s \in Shards, WorkerStep(s) \/ SpuriousWakeup(s) PROVE IInv'
  BY <1>1, TakeTaskKeepsIInv, WorkerMovesKeepsIInv, FinishTaskKeepsIInv DEF WorkerStep
<1>2. ASSUME NEW c \in Clients, NEW s \in Shards, Submit(c, s) PROVE IInv'
  BY <1>2, SubmitKeepsIInv
<1>3. ASSUME NEW c \in Clients, WaitIdle(c) PROVE IInv'
  BY <1>3, WaitIdleKeepsIInv
<1>4. ASSUME NEW c \in Clients,
             SpuriousIdle(c) \/ BeginShutdown(c) \/ NotifyShutdown(c) \/ JoinWorkers(c)
      PROVE  IInv'
  BY <1>4, ClientMovesKeepsIInv
<1>5. CASE UNCHANGED vars
  <2>1. CallsKeepTheirWord' /\ WorkersCoherent' /\ ShuttersStop'
    BY <1>5 DEF vars, state, history, IInv, CallsKeepTheirWord, TypeOK, WorkersCoherent, ShuttersStop
  <2>2. QED
    BY <1>5, <2>1, QuietStepKeepsIInv DEF vars, state, history
<1>6. QED
  BY <1>1, <1>2, <1>3, <1>4, <1>5 DEF Next

LEMMA Invariance == Spec => []IInv
BY InitIInv, NextIInv, PTL DEF Spec

-----------------------------------------------------------------------------
(* The theorems *)

(* wait_idle and shutdown of src/connection/event_loop.cpp: what they      *)
(* return is true of the caller's tasks, whatever other threads do.        *)
THEOREM CallsAlwaysKeepTheirWord == Spec => []CallsKeepTheirWord
<1>1. IInv => CallsKeepTheirWord
  BY DEF IInv
<1>2. QED
  BY <1>1, Invariance, PTL

(* Serial, first-in first-out per shard, bounded, nothing lost, nothing    *)
(* twice, nothing accepted once shutdown began: the executor of            *)
(* src/connection/event_loop.cpp is a TaskPool.                            *)
THEOREM ImplementsPool == Spec => ImplementsTaskPool
<1> USE DEF Pool!pool
<1>1. Init => Pool!Init
  BY DEF Init, Pool!Init
<1>2. ASSUME IInv, [Next]_vars
      PROVE  [ Pool!Next ]_(Pool!pool)
  <2> DEFINE running == [ r \in Shards |-> worker[r].task ]
  <2>0. /\ queue \in [ Shards -> Seq(Tasks) ]
        /\ worker \in [ Shards -> [ at : WorkerAt, task : Tasks \cup {NoTask} ] ]
        /\ next_id \in Nat \ {0}
    BY <1>2 DEF IInv, CallsKeepTheirWord, TypeOK
  <2>1. ASSUME \A r \in Shards : worker'[r].task = worker[r].task,
               queue' = queue, done' = done, stopping' = stopping
        PROVE  UNCHANGED (Pool!pool)
    BY <2>1
  <2>2. ASSUME NEW s \in Shards, TakeTask(s) PROVE Pool!Start(s)
    <3>1. worker[s].task = NoTask /\ queue[s] # << >>
      BY <1>2, <2>2 DEF TakeTask, IInv, WorkersCoherent
    <3>2. running' = [ running EXCEPT ![s] = Head(queue[s]) ]
      BY <2>0, <2>2 DEF TakeTask
    <3>3. queue' = [ queue EXCEPT ![s] = Tail(@) ] /\ done' = done /\ stopping' = stopping
      BY <2>2 DEF TakeTask, history
    <3>4. QED
      BY <3>1, <3>2, <3>3 DEF Pool!Start
  <2>3. ASSUME NEW s \in Shards, NEW ok \in BOOLEAN, FinishTask(s, ok) PROVE Pool!Complete(s)
    <3>1. worker[s].task # NoTask
      BY <1>2, <2>3 DEF FinishTask, IInv, WorkersCoherent
    <3>2. running' = [ running EXCEPT ![s] = NoTask ]
      BY <2>0, <2>3 DEF FinishTask
    <3>3. done' = done \cup { worker[s].task } /\ queue' = queue /\ stopping' = stopping
      BY <2>3 DEF FinishTask
    <3>4. QED
      BY <3>1, <3>2, <3>3 DEF Pool!Complete
  <2>4. ASSUME NEW s \in Shards, FallAsleep(s) \/ Exit(s) \/ SpuriousWakeup(s)
        PROVE  UNCHANGED (Pool!pool)
    <3>1. \A r \in Shards : worker'[r].task = worker[r].task
      <4>1. PICK at : worker' = [ worker EXCEPT ![s].at = at ]
        BY <2>4 DEF FallAsleep, Exit, SpuriousWakeup
      <4>2. QED
        BY <2>0, <4>1
    <3>2. QED
      BY <2>1, <2>4, <3>1 DEF FallAsleep, Exit, SpuriousWakeup, history
  <2>5. ASSUME NEW c \in Clients, NEW s \in Shards, Submit(c, s)
        PROVE  Pool!Accept(s, next_id) /\ next_id \in Tasks
    <3>1. Pool!Cardinality(Pool!Waiting) < Capacity
      <4>1. Cardinality(Pool!Waiting) < Capacity
        BY <1>2, <2>5 DEF Submit, HasRoom, IInv, CountersExact, Pool!Waiting, Places
      <4>2. Pool!Cardinality(Pool!Waiting) = Cardinality(Pool!Waiting)
        BY DEF Pool!Cardinality, Cardinality
      <4>3. QED
        BY <4>1, <4>2
    <3>2. next_id \notin Pool!Accepted
      <4>1. next_id \notin done
        BY <1>2, <2>0 DEF IInv, NothingInvented
      <4>2. \A r \in Shards : worker[r].task # next_id
        <5>1. \A r \in Shards : worker[r].task \in Nat /\ worker[r].task < next_id
          BY <1>2, <2>0 DEF IInv, NothingInvented, Tasks, NoTask
        <5>2. QED
          BY <2>0, <5>1
      <4>3. ASSUME NEW r \in Shards, NEW i \in DOMAIN queue[r] PROVE queue[r][i] # next_id
        <5>1. i \in 1 .. Len(queue[r])
          BY <2>0
        <5>2. queue[r][i] \in Nat
          <6>1. queue[r][i] \in Tasks
            BY <2>0, <5>1, ElementOfSeq
          <6>2. QED
            BY <6>1 DEF Tasks
        <5>3. queue[r][i] < next_id
          BY <1>2, <5>1 DEF IInv, NothingInvented
        <5>4. QED
          BY <2>0, <5>2, <5>3
      <4>4. QED
        BY <4>1, <4>2, <4>3 DEF Pool!Accepted
    <3>3. /\ queue' = [ queue EXCEPT ![s] = Append(@, next_id) ]
          /\ done' = done /\ stopping' = stopping /\ ~ stopping
      BY <2>5 DEF Submit
    <3>4. \A r \in Shards : worker'[r].task = worker[r].task
      BY <2>0, <2>5 DEF Submit, ReadyNotified
    <3>5. running' = running
      BY <3>4
    <3>6. next_id \in Tasks
      BY <2>0, <2>5, ThreadedExecutorAssumption DEF Submit, Tasks
    <3>7. QED
      BY <3>1, <3>2, <3>3, <3>5, <3>6 DEF Pool!Accept
  <2>6. ASSUME NEW c \in Clients, BeginShutdown(c) PROVE Pool!Close
    BY <2>6 DEF BeginShutdown, history, Pool!Close
  <2>7. ASSUME NEW c \in Clients, NotifyShutdown(c) PROVE UNCHANGED (Pool!pool)
    <3>1. \A r \in Shards : worker'[r].task = worker[r].task
      BY <2>0, <2>7 DEF NotifyShutdown, ReadyNotified
    <3>2. QED
      BY <2>1, <2>7, <3>1 DEF NotifyShutdown, history
  <2>8. ASSUME NEW c \in Clients, WaitIdle(c) \/ SpuriousIdle(c) \/ JoinWorkers(c)
        PROVE  UNCHANGED (Pool!pool)
    BY <2>8 DEF WaitIdle, SpuriousIdle, JoinWorkers, state, history
  <2>9. CASE UNCHANGED vars
    BY <2>9 DEF vars, state, history
  <2>10. QED
    BY <1>2, <2>2, <2>3, <2>4, <2>5, <2>6, <2>7, <2>8, <2>9 DEF Next, WorkerStep, Pool!Next
<1>3. QED
  BY <1>1, <1>2, Invariance, PTL DEF Spec, ImplementsTaskPool, Pool!Spec
=============================================================================
