---------------------------- MODULE SlotLifecycle ----------------------------
(***************************************************************************)
(* What a channel table promises of one slot: it hosts one channel at a    *)
(* time, each a new incarnation; a channel that has died stays in the way  *)
(* of the next one until its tombstone has been retired; an incarnation    *)
(* never comes back, and a direction that was half-closed stays closed.    *)
(***************************************************************************)
EXTENDS Naturals

CONSTANTS Slots, Directions

VARIABLES
  phase,        \* "free", "live" or "dead"
  incarnation,  \* number of channels the slot has hosted so far
  shut          \* directions the present channel no longer uses

lifecycle == << phase, incarnation, shut >>

Init ==
  /\ phase = [ n \in Slots |-> "free" ]
  /\ incarnation = [ n \in Slots |-> 0 ]
  /\ shut = [ n \in Slots |-> {} ]

Open(n) ==
  /\ phase[n] = "free"
  /\ phase' = [ phase EXCEPT ![n] = "live" ]
  /\ incarnation' = [ incarnation EXCEPT ![n] = @ + 1 ]
  /\ shut' = [ shut EXCEPT ![n] = {} ]

Shut(n, direction) ==
  /\ phase[n] = "live"
  /\ shut' = [ shut EXCEPT ![n] = @ \cup {direction} ]
  /\ UNCHANGED << phase, incarnation >>

Kill(n) ==
  /\ phase[n] = "live"
  /\ phase' = [ phase EXCEPT ![n] = "dead" ]
  /\ UNCHANGED << incarnation, shut >>

Retire(n) ==
  /\ phase[n] = "dead"
  /\ phase' = [ phase EXCEPT ![n] = "free" ]
  /\ UNCHANGED << incarnation, shut >>

Next ==
  \E n \in Slots :
    \/ Open(n) \/ Kill(n) \/ Retire(n)
    \/ \E direction \in Directions : Shut(n, direction)

Spec == Init /\ [][Next]_lifecycle
=============================================================================
