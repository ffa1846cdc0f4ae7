------------------------------- MODULE Plugins -------------------------------
(***************************************************************************)
(* PluginRegistry and PluginLease (src/plugin/registry.cpp) with what      *)
(* holds leases: variables of the application, and plugin dispatches       *)
(* queued in a DeterministicExecutor (src/connection/event_loop.cpp),      *)
(* which other tasks share.                                                *)
(*                                                                         *)
(* An engine is given a copy of the application's registry; entries of the *)
(* copies share their PluginLeaseState.  Families do not affect each       *)
(* other: one stands for all.  The engines here have an executor; without  *)
(* one a lease is released before dispatch returns.                        *)
(***************************************************************************)
EXTENDS Integers, Sequences, FiniteSets, SequencesExt

CONSTANTS
  App, Engines,   \* the owners of a registry
  Holders,        \* variables of the application that can hold a lease
  Descriptors,
  Capacity,       \* capacity_ of the executor
  MaxStates       \* bound of the model: lease states made

ASSUME PluginsAssumption ==
  /\ Capacity \in Nat /\ MaxStates \in Nat
  /\ App \notin Engines
  /\ IsFiniteSet(Holders)

VARIABLES
  states,     \* the PluginLeaseStates, in the order they were made
  entry,      \* entry[r]: the entry of the family in the registry of r
  held,       \* held[h]: the state of the lease in h, or NoLease
  queue,      \* queue_: per task the engine that dispatches and its lease's state
  unloaded    \* history: the states of the entries unregister_family has erased

vars == << states, entry, held, queue, unloaded >>

Owners  == { App } \cup Engines
NoEntry == [ factory |-> "none", state |-> 0 ]
NoLease == 0

Init ==
  /\ states = << >>
  /\ entry = [ r \in Owners |-> NoEntry ]
  /\ held = [ h \in Holders |-> NoLease ]
  /\ queue = << >>
  /\ unloaded = {}

-----------------------------------------------------------------------------
(* PluginLease *)

Acquired(all, s) == [ all EXCEPT ![s].active = @ + 1 ]

Released(all, s) ==
  IF s # NoLease /\ all[s].active > 0 THEN [ all EXCEPT ![s].active = @ - 1 ] ELSE all

(* A lease goes out of scope, or is replaced by an empty one. *)
Drop(h) ==
  /\ held[h] # NoLease
  /\ held' = [ held EXCEPT ![h] = NoLease ]
  /\ states' = Released(states, held[h])
  /\ UNCHANGED << entry, queue, unloaded >>

-----------------------------------------------------------------------------
(* PluginRegistry *)

(* register_factory.  The factory has been moved into the entry that       *)
(* emplace was offered; when there is an entry already, what is left of it *)
(* is an empty function, and that is what the entry is given.              *)
RegisterFactory(d) ==
  LET old == entry[App]
      New(factory) == [ descriptor |-> d, factory |-> factory, state |-> Len(states) + 1 ]
  IN
  /\ Len(states) < MaxStates
  /\ \/ /\ old = NoEntry
        /\ entry' = [ entry EXCEPT ![App] = New("callable") ]
     \/ /\ old # NoEntry /\ old.descriptor = d /\ states[old.state].active = 0
        /\ entry' = [ entry EXCEPT ![App] = New("empty") ]
  /\ states' = Append(states, [ active |-> 0, draining |-> FALSE ])
  /\ UNCHANGED << held, queue, unloaded >>

(* unregister_family: a family with leases drains, and stays registered. *)
UnregisterFamily ==
  LET s == entry[App].state IN
  /\ entry[App] # NoEntry
  /\ states' = [ states EXCEPT ![s].draining = TRUE ]
  /\ IF states[s].active > 0 THEN UNCHANGED << entry, unloaded >>
     ELSE /\ entry' = [ entry EXCEPT ![App] = NoEntry ]
          /\ unloaded' = unloaded \cup { s }
  /\ UNCHANGED << held, queue >>

(* Mutant: a draining family is leased like any other. *)
AvailableDraining(r) == entry[r] # NoEntry

(* create_lease has a plugin to create. *)
Available(r) == entry[r] # NoEntry /\ ~ states[entry[r].state].draining

(* An empty factory throws. *)
CanLease(r) == Available(r) /\ entry[r].factory = "callable"

(* The application assigns a new lease to h, whose old one is released. *)
CreateLease(h) ==
  /\ CanLease(App)
  /\ held' = [ held EXCEPT ![h] = entry[App].state ]
  /\ states' = Released(Acquired(states, entry[App].state), held[h])
  /\ UNCHANGED << entry, queue, unloaded >>

(* An engine is constructed, in place of one of which no task is queued    *)
(* (the tasks refer to their engine).                                      *)
Construct(e) ==
  /\ \A i \in DOMAIN queue : queue[i].engine # e
  /\ entry' = [ entry EXCEPT ![e] = entry[App] ]
  /\ UNCHANGED << states, held, queue, unloaded >>

-----------------------------------------------------------------------------
(* DeterministicExecutor *)

(* submit; a task that is refused is destroyed, with its lease. *)
Submit(task, acquired) ==
  IF Len(queue) >= Capacity THEN UNCHANGED << queue, states >>
  ELSE queue' = Append(queue, task) /\ states' = acquired

(* dispatch of a message that is complete, in handle_data. *)
Dispatch(e) ==
  /\ CanLease(e)
  /\ Submit([ engine |-> e, state |-> entry[e].state ], Acquired(states, entry[e].state))
  /\ UNCHANGED << entry, held, unloaded >>

(* ConnectionShardRouter::submit, or submit itself: a task without lease.  *)
(* The shard does not matter to this executor.                             *)
SubmitTask ==
  /\ Submit([ engine |-> App, state |-> NoLease ], states)
  /\ UNCHANGED << entry, held, unloaded >>

(* Mutant: the newest task is run first. *)
NextTaskNewest == Len(queue)

(* The position of the task drain_one takes. *)
NextTask == 1

(* A task is gone: it ran, with whatever result, or was cancelled. *)
Leaves(i) ==
  /\ queue' = RemoveAt(queue, i)
  /\ states' = Released(states, queue[i].state)
  /\ UNCHANGED << entry, held, unloaded >>

DrainOne == queue # << >> /\ Leaves(NextTask)

(* The leases on s among the first n tasks. *)
LeasesAhead(s, n) == Cardinality({ i \in 1 .. n : queue[i].state = s })

(* drain_all stops at the first task that fails; the n tasks that are gone *)
(* have released their leases, none below zero.                            *)
DrainAll ==
  \E n \in 1 .. Len(queue) :
    /\ states' = [ s \in DOMAIN states |->
                     [ states[s] EXCEPT !.active =
                         IF @ > LeasesAhead(s, n) THEN @ - LeasesAhead(s, n) ELSE 0 ] ]
    /\ queue' = SubSeq(queue, n + 1, Len(queue))
    /\ UNCHANGED << entry, held, unloaded >>

Cancel == \E i \in DOMAIN queue : Leaves(i)

-----------------------------------------------------------------------------
Next ==
  \/ \E d \in Descriptors : RegisterFactory(d)
  \/ UnregisterFamily
  \/ \E h \in Holders : CreateLease(h) \/ Drop(h)
  \/ \E e \in Engines : Construct(e) \/ Dispatch(e)
  \/ SubmitTask
  \/ DrainOne
  \/ DrainAll
  \/ Cancel

(* The owner of the executor keeps draining it, and leases go out of scope. *)
Fairness == WF_vars(DrainOne) /\ \A h \in Holders : WF_vars(Drop(h))

Spec == Init /\ [][Next]_vars /\ Fairness

-----------------------------------------------------------------------------
TypeOK ==
  /\ Len(states) <= MaxStates /\ unloaded \subseteq DOMAIN states
  /\ held \in [ Holders -> { NoLease } \cup DOMAIN states ]
  /\ \A r \in Owners : entry[r].state \in { NoEntry.state } \cup DOMAIN states
  /\ Len(queue) <= Capacity

Leases(s) ==
  Cardinality({ h \in Holders : held[h] = s }) + Cardinality({ i \in DOMAIN queue : queue[i].state = s })

(* A lease state counts the leases on it that live, in the application and *)
(* in the executor's queue, whatever path they leave by; so the state that *)
(* unregister_family erases has none, and gets no other from an engine's   *)
(* copy of its entry.  This is about one lease state: a family that was    *)
(* registered again may have leases on an older one, which are not waited  *)
(* for.                                                                    *)
UnloadWaits ==
  /\ TypeOK
  /\ \A s \in DOMAIN states : states[s].active = Leases(s)
  /\ \A s \in unloaded : Leases(s) = 0

(* A family that is draining gets rid of its leases, although the engines  *)
(* go on dispatching and other tasks keep coming, so that unregister_family *)
(* succeeds when it is called again.                                       *)
UnloadCompletes ==
  \A s \in 1 .. MaxStates :
    (s \in DOMAIN states /\ states[s].draining) ~> Leases(s) = 0

(* The registry maps families to factories: what can be leased can be made *)
(* (docs/ARCHITECTURE.md:17).                                              *)
FamiliesHaveFactories == \A r \in Owners : Available(r) => CanLease(r)
=============================================================================
