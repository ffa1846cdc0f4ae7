------------------------------ MODULE Fragments ------------------------------
(***************************************************************************)
(* The Reassembler of src/channel/channel_state.cpp as operators on a      *)
(* value: the partially received messages of one channel and the number of *)
(* payload bytes they retain.                                              *)
(*                                                                         *)
(* A pending message keeps its ranges as a set.  The code keeps a vector   *)
(* sorted by offset, but it never keeps the same range twice unless it is  *)
(* empty (the second one is contained in the first and dropped), ranges    *)
(* that overlap agree byte for byte, and nothing depends on their order.   *)
(***************************************************************************)
EXTENDS Integers, Sequences, FiniteSetsExt, Functions

CONSTANT MaxMessage    \* max_message_: cap of one message and of all retained bytes

ASSUME MaxMessageAssumption == MaxMessage \in Nat \ {0}

EmptyReassembler == [pending |-> << >>, retained |-> 0]

RangeEnd(range) == range.offset + Len(range.bytes)

Positions(range) == range.offset .. RangeEnd(range) - 1

ByteAt(range, pos) == range.bytes[pos - range.offset + 1]

(* Mutants: the comparison forgotten; made only for equal offsets. *)
ConflictingNever(r, s) == FALSE

ConflictingAtSameOffset(r, s) ==
  /\ r.offset = s.offset
  /\ \E pos \in Positions(r) \cap Positions(s) : ByteAt(r, pos) # ByteAt(s, pos)

(* Two ranges disagree when they hold different bytes for one position. *)
Conflicting(r, s) ==
  \E pos \in Positions(r) \cap Positions(s) : ByteAt(r, pos) # ByteAt(s, pos)

(* A fragment brings nothing new when it overlaps one retained range and   *)
(* lies inside it; the code tests "disjoint" on half-open intervals, so an *)
(* empty fragment strictly inside a range is contained as well.            *)
ContainedIn(frag, range) ==
  /\ frag.offset < RangeEnd(range)
  /\ RangeEnd(frag) > range.offset
  /\ frag.offset >= range.offset
  /\ RangeEnd(frag) <= RangeEnd(range)

(* The bytes that some ranges hold; where ranges overlap they hold both.   *)
Held(ranges) == UNION { {r} \X Positions(r) : r \in ranges }

RetainedBy(ranges) == Cardinality(Held(ranges))

(* Mutant: covered is not advanced past the first range. *)
CoversByOneRange(ranges, total) ==
  \E r \in ranges : r.offset = 0 /\ RangeEnd(r) >= total

(* The contiguous scan over the sorted ranges reaches the total. *)
Covers(ranges, total) ==
  \A pos \in 0 .. total - 1 : \E r \in ranges : pos \in Positions(r)

Assemble(ranges, total) ==
  [ i \in 1 .. total |->
      ByteAt(CHOOSE r \in ranges : i - 1 \in Positions(r), i - 1) ]

(* Mutant: the retained bytes are not given back. *)
ResetKeepsBudget(re, seq) ==
  [ re EXCEPT !.pending = Restrict(re.pending, DOMAIN re.pending \ {seq}) ]

(* reset_message: forget one message and give its bytes back. *)
ResetMessage(re, seq) ==
  IF seq \notin DOMAIN re.pending THEN re
  ELSE [ pending  |-> Restrict(re.pending, DOMAIN re.pending \ {seq}),
         retained |-> re.retained - RetainedBy(re.pending[seq].ranges) ]

Inserted(error, re, message) ==
  [ error |-> error, reassembler |-> re, message |-> message ]

NoMessage == << >>

(* The ranges of a pending message, none when it is not pending. *)
RangesOf(re, seq) ==
  IF seq \in DOMAIN re.pending THEN re.pending[seq].ranges ELSE {}

OverBudget(re, frag) == re.retained + Len(frag.bytes) > MaxMessage

(* Store one more range; the message leaves the buffer once it is covered. *)
Retain(re, seq, total, frag) ==
  LET ranges == RangesOf(re, seq) \cup {frag}
      kept   == [ pending  |-> [ s \in DOMAIN re.pending \cup {seq} |->
                                   IF s = seq THEN [ total |-> total, ranges |-> ranges ]
                                   ELSE re.pending[s] ],
                  retained |-> re.retained + Len(frag.bytes) ]
  IN  IF Covers(ranges, total)
      THEN Inserted("none", ResetMessage(kept, seq), Assemble(ranges, total))
      ELSE Inserted("none", kept, NoMessage)

(* Reassembler::insert, its checks in the order of the code.  A new entry  *)
(* that finds no budget is erased again, so a refusal leaves no trace.     *)
Insert(re, seq, total, frag) ==
  LET known == seq \in DOMAIN re.pending
      old   == RangesOf(re, seq)
  IN
  IF total = 0 \/ total > MaxMessage
    THEN Inserted("resource_limit", re, NoMessage)
  ELSE IF RangeEnd(frag) > total
    THEN Inserted("fragment_range", re, NoMessage)
  ELSE IF known /\ re.pending[seq].total # total
    THEN Inserted("fragment_range", ResetMessage(re, seq), NoMessage)
  ELSE IF \E r \in old : Conflicting(frag, r)
    THEN Inserted("fragment_overlap", ResetMessage(re, seq), NoMessage)
  ELSE IF \E r \in old : ContainedIn(frag, r)
    THEN Inserted("none", re, NoMessage)
  ELSE IF OverBudget(re, frag)
    THEN Inserted("resource_limit", re, NoMessage)
  ELSE Retain(re, seq, total, frag)
=============================================================================
