-------------------------------- MODULE Replay --------------------------------
(***************************************************************************)
(* ReplayWindow of src/replay/replay_window.cpp as operators on a value:   *)
(* the sequence entries_ of recorded frames, oldest first.  An entry is    *)
(* [frame, retries]; frame.seq is the frame sequence, the rest of a frame  *)
(* stands for its encoded bytes.  The epoch is the one of the window in    *)
(* every call the engine makes; an ACK of another one is refused like a    *)
(* malformed one.                                                          *)
(***************************************************************************)
EXTENDS Integers, Sequences, FiniteSets

CONSTANT Capacity   \* capacity_: frames retained; 0 would pop an empty deque

ASSUME CapacityAssumption == Capacity \in Nat \ {0}

Recorded(window, seq) == \E i \in 1 .. Len(window) : window[i].frame.seq = seq

Earliest(window) == window[1].frame.seq
Latest(window)   == window[Len(window)].frame.seq

(* The n-th of the positions kept, and the entries at those positions, in  *)
(* their order.                                                            *)
Nth(kept, n) == CHOOSE p \in kept : Cardinality({ q \in kept : q <= p }) = n

EntriesAt(window, kept) == [ n \in 1 .. Cardinality(kept) |-> window[Nth(kept, n)] ]

(* Mutant: the newest entry makes room instead of the oldest. *)
RecordEvictsNewest(window, frame) ==
  Append(IF Len(window) >= Capacity THEN SubSeq(window, 1, Len(window) - 1) ELSE window,
         [ frame |-> frame, retries |-> 0 ])

(* record, once the duplicate check (Recorded) has passed. *)
Record(window, frame) ==
  Append(IF Len(window) >= Capacity THEN Tail(window) ELSE window,
         [ frame |-> frame, retries |-> 0 ])

-----------------------------------------------------------------------------
(* acknowledge *)

(* Mutant: a range ends before its last sequence. *)
InRangeHalfOpen(seq, range) == range.first <= seq /\ seq < range.last

InRange(seq, range) == seq \in range.first .. range.last

(* After sorting, adjacent ranges must be disjoint; that is the case when  *)
(* all of them are.                                                        *)
MalformedRanges(ranges) ==
  \/ \E i \in DOMAIN ranges : ranges[i].first > ranges[i].last
  \/ \E i, j \in DOMAIN ranges :
       /\ i # j
       /\ ranges[i].first <= ranges[j].first
       /\ ranges[j].first <= ranges[i].last

(* "ACK range refers to unsent future frame": the code compares with the   *)
(* newest frame still retained, and with nothing when none is.             *)
BeyondLatest(window, ranges) ==
  /\ window # << >>
  /\ \E i \in DOMAIN ranges : ranges[i].last > Latest(window)

AckRejected(window, ranges) == MalformedRanges(ranges) \/ BeyondLatest(window, ranges)

RetainedAfter(window, ranges) ==
  EntriesAt(window, { p \in DOMAIN window :
                        \A i \in DOMAIN ranges : ~ InRange(window[p].frame.seq, ranges[i]) })

-----------------------------------------------------------------------------
(* due_for_retry *)

Exhausted(window, limit) == { i \in DOMAIN window : window[i].retries >= limit }

(* Mutant: entries that are not exhausted are counted in any case. *)
CountedUpOthers(window, limit) ==
  [ i \in DOMAIN window |->
      IF i \in Exhausted(window, limit) THEN window[i]
      ELSE [ window[i] EXCEPT !.retries = @ + 1 ] ]

(* The loop counts entries up until it meets one that is exhausted: the    *)
(* entries before that one have been counted when it gives up.             *)
CountedUp(window, limit) ==
  [ i \in DOMAIN window |->
      IF \E j \in Exhausted(window, limit) : j <= i
      THEN window[i]
      ELSE [ window[i] EXCEPT !.retries = @ + 1 ] ]

-----------------------------------------------------------------------------
(* can_resume and retained_from *)

(* Mutant: any first sequence up to the newest retained is accepted. *)
CanResumeTooOld(window, first) ==
  window # << >> /\ first <= Latest(window) + 1

CanResume(window, first) ==
  /\ window # << >>
  /\ first >= Earliest(window)
  /\ first <= Latest(window) + 1

RetainedFrom(window, first) ==
  EntriesAt(window, { p \in DOMAIN window : window[p].frame.seq >= first })

-----------------------------------------------------------------------------
(* restore_retained: the entries of a snapshot come back in a fresh window *)
(* and the engine goes on numbering after the newest of them.              *)

(* Mutant: numbering always starts again at 1. *)
NextAfterRestarts(window) == 1

NextAfter(window) == IF window = << >> THEN 1 ELSE Latest(window) + 1
=============================================================================
