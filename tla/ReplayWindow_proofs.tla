------------------------- MODULE ReplayWindow_proofs -------------------------
(***************************************************************************)
(* Proofs about the replay window, for any capacity and retry limit, any   *)
(* number of frames and of restarts.                                       *)
(***************************************************************************)
EXTENDS ReplayWindow, FiniteSetTheorems, SequenceTheorems, TLAPS

-----------------------------------------------------------------------------
(* The inductive invariant *)

Sorted(w) == \A i, j \in 1 .. Len(w) : i < j => w[i].frame.seq < w[j].frame.seq

(* An entry has been retried at least as often as the younger ones. *)
Aged(w) == \A i, j \in 1 .. Len(w) : i < j => w[j].retries <= w[i].retries

BelowNext ==
  /\ \A i \in 1 .. Len(window) : window[i].frame.seq < next_frame_seq
  /\ \A frame \in known \cup retired : frame.seq < next_frame_seq

(* A frame that is neither retained nor retired is older than those that are. *)
Accounted ==
  \A frame \in known \ retired :
    \/ frame \in FramesOf(window)
    \/ \A i \in 1 .. Len(window) : frame.seq < window[i].frame.seq

(* A frame that was retired is gone. *)
RetiredAreGone == \A frame \in FramesOf(window) : frame \notin retired

IInv ==
  /\ TypeOK
  /\ Sorted(window) /\ Sorted(snapshot)
  /\ Aged(window) /\ Aged(snapshot)
  /\ BelowNext
  /\ Accounted
  /\ RetiredAreGone

-----------------------------------------------------------------------------
(* What erasing entries does to a window *)

LEMMA IntervalSize ==
  ASSUME NEW n \in Nat
  PROVE  IsFiniteSet(1 .. n) /\ Cardinality(1 .. n) = n
<1>1. IsFiniteSet(1 .. n) /\ Cardinality(1 .. n) = IF 1 > n THEN 0 ELSE n - 1 + 1
  BY FS_Interval
<1>2. QED
  BY <1>1

(* Positions in order: each has one rank, and each rank is of one of them. *)
LEMMA NthIs ==
  ASSUME NEW kept \in SUBSET Nat, IsFiniteSet(kept)
  PROVE  /\ \A n \in 1 .. Cardinality(kept) : Nth(kept, n) \in kept
         /\ \A m, n \in 1 .. Cardinality(kept) : m < n => Nth(kept, m) < Nth(kept, n)
         /\ \A p \in kept : \E n \in 1 .. Cardinality(kept) : Nth(kept, n) = p
<1> DEFINE Upto(p) == { q \in kept : q <= p }
<1>1. PICK size \in Nat : size = Cardinality(kept)
  BY FS_CardinalityType
<1>2. PICK rank : rank = [ p \in kept |-> Cardinality(Upto(p)) ]
  OBVIOUS
<1>3. \A p \in kept : IsFiniteSet(Upto(p)) /\ rank[p] = Cardinality(Upto(p)) /\ rank[p] \in 1 .. size
  <2> SUFFICES ASSUME NEW p \in kept
               PROVE  /\ IsFiniteSet(Upto(p)) /\ rank[p] = Cardinality(Upto(p))
                      /\ rank[p] \in 1 .. size
    OBVIOUS
  <2>1. Upto(p) \in SUBSET kept /\ p \in Upto(p) /\ rank[p] = Cardinality(Upto(p))
    BY <1>2
  <2> HIDE DEF Upto
  <2>2. IsFiniteSet(Upto(p)) /\ Cardinality(Upto(p)) <= Cardinality(kept)
    BY <2>1, FS_Subset, Zenon
  <2>3. Cardinality(Upto(p)) \in Nat /\ Cardinality(Upto(p)) # 0
    BY <2>1, <2>2, FS_CardinalityType, FS_EmptySet
  <2>4. QED
    BY <1>1, <2>1, <2>2, <2>3
<1>4. \A p, q \in kept : p < q => rank[p] < rank[q]
  <2> SUFFICES ASSUME NEW p \in kept, NEW q \in kept, p < q
               PROVE  rank[p] < rank[q]
    OBVIOUS
  <2>1. Upto(p) \in SUBSET Upto(q) /\ q \in Upto(q) /\ q \notin Upto(p)
    <3>1. p \in Nat /\ q \in Nat /\ \A x \in kept : x \in Nat
      OBVIOUS
    <3>2. \A x \in kept : x <= p => x <= q
      BY <3>1
    <3>3. q <= q /\ ~ (q <= p)
      BY <3>1
    <3>4. QED
      BY <3>2, <3>3
  <2> HIDE DEF Upto
  <2>2. rank[p] \in Nat /\ rank[q] \in Nat
    BY <1>3
  <2>3. Cardinality(Upto(p)) <= Cardinality(Upto(q)) /\ Cardinality(Upto(p)) # Cardinality(Upto(q))
    BY <1>3, <2>1, FS_Subset, Zenon
  <2>4. QED
    BY <1>3, <2>2, <2>3
<1> HIDE DEF Upto
<1>5. \A p \in kept : p \in Nat /\ rank[p] \in 1 .. size
  BY <1>3
<1>6. \A p, q \in kept : rank[p] = rank[q] => p = q
  BY <1>4, <1>5
<1>7. rank \in Surjection(kept, 1 .. size)
  <2>1. rank \in Injection(kept, 1 .. size)
    <3>1. rank \in [ kept -> 1 .. size ]
      BY <1>2, <1>5
    <3>2. QED
      BY <1>6, <3>1 DEF Injection, IsInjective
  <2>2. IsFiniteSet(1 .. size) /\ Cardinality(kept) = Cardinality(1 .. size)
    BY <1>1, IntervalSize
  <2>3. QED
    BY <2>1, <2>2, FS_Injection, Zenon
<1>8. \A n \in 1 .. size : Nth(kept, n) \in kept /\ rank[Nth(kept, n)] = n
  <2> SUFFICES ASSUME NEW n \in 1 .. size
               PROVE  Nth(kept, n) \in kept /\ rank[Nth(kept, n)] = n
    OBVIOUS
  <2>1. \E p \in kept : rank[p] = n
    BY <1>7 DEF Surjection
  <2>2. \E p \in kept : Cardinality({ q \in kept : q <= p }) = n
    BY <1>3, <2>1 DEF Upto
  <2>3. Nth(kept, n) \in kept /\ Cardinality({ q \in kept : q <= Nth(kept, n) }) = n
    BY <2>2, Zenon DEF Nth
  <2>4. QED
    BY <1>3, <2>3 DEF Upto
<1>9. \A m, n \in 1 .. size : m < n => Nth(kept, m) < Nth(kept, n)
  <2> SUFFICES ASSUME NEW m \in 1 .. size, NEW n \in 1 .. size, m < n
               PROVE  Nth(kept, m) < Nth(kept, n)
    OBVIOUS
  <2>1. PICK p \in kept : p = Nth(kept, m) /\ rank[p] = m
    BY <1>8
  <2>2. PICK q \in kept : q = Nth(kept, n) /\ rank[q] = n
    BY <1>8
  <2>3. p \in Nat /\ q \in Nat /\ p # q /\ ~ (q < p)
    BY <1>4, <1>5, <2>1, <2>2
  <2>4. QED
    BY <2>1, <2>2, <2>3
<1>10. \A p \in kept : \E n \in 1 .. size : Nth(kept, n) = p
  BY <1>5, <1>6, <1>8
<1>11. QED
  BY <1>1, <1>8, <1>9, <1>10

(* The entries kept are those at the positions kept, in their old order. *)
LEMMA EntriesAtKeeps ==
  ASSUME NEW S, NEW w \in Seq(S), NEW kept \in SUBSET (1 .. Len(w)),
         NEW r, r = EntriesAt(w, kept)
  PROVE  /\ r \in Seq(S) /\ Len(r) <= Len(w)
         /\ \E h \in [ 1 .. Len(r) -> kept ] :
              /\ \A n \in 1 .. Len(r) : r[n] = w[h[n]]
              /\ \A m, n \in 1 .. Len(r) : m < n => h[m] < h[n]
              /\ \A p \in kept : \E n \in 1 .. Len(r) : h[n] = p
<1>1. Len(w) \in Nat
  BY LenProperties
<1>2. PICK size \in Nat : size = Cardinality(kept) /\ size <= Len(w) /\ IsFiniteSet(kept)
  <2>1. IsFiniteSet(1 .. Len(w)) /\ Cardinality(1 .. Len(w)) = Len(w)
    BY <1>1, IntervalSize
  <2>2. IsFiniteSet(kept) /\ Cardinality(kept) <= Cardinality(1 .. Len(w))
    BY <2>1, FS_Subset, Zenon
  <2>3. QED
    BY <2>1, <2>2, FS_CardinalityType
<1>3. PICK h : h = [ n \in 1 .. size |-> Nth(kept, n) ]
  OBVIOUS
<1>4. /\ h \in [ 1 .. size -> kept ]
      /\ \A m, n \in 1 .. size : m < n => h[m] < h[n]
      /\ \A p \in kept : \E n \in 1 .. size : h[n] = p
  <2>1. kept \in SUBSET Nat
    BY <1>1
  <2>2. QED
    BY <1>2, <1>3, <2>1, NthIs
<1>5. r = [ n \in 1 .. size |-> w[h[n]] ]
  BY <1>2, <1>3 DEF EntriesAt
<1>6. r \in Seq(S) /\ Len(r) = size
  <2>1. \A n \in 1 .. size : w[h[n]] \in S
    BY <1>4, ElementOfSeq
  <2>2. r \in [ 1 .. size -> S ]
    BY <1>5, <2>1
  <2>3. QED
    BY <2>2, SeqDef, LenProperties
<1>7. QED
  BY <1>2, <1>4, <1>5, <1>6

LEMMA DomainIs ==
  ASSUME NEW w \in Seq(Entry)
  PROVE  DOMAIN w = 1 .. Len(w) /\ Len(w) \in Nat
OBVIOUS

LEMMA EntryIs ==
  ASSUME NEW w \in Seq(Entry), NEW i \in 1 .. Len(w)
  PROVE  /\ w[i] \in Entry /\ w[i].frame \in Frame /\ w[i].frame.seq \in Nat
         /\ w[i].retries \in Nat /\ w[i].retries <= RetryLimit
<1>1. w[i] \in Entry
  BY ElementOfSeq
<1>2. QED
  BY <1>1, ReplayWindowAssumption DEF Entry, Frame

(* r has some of the entries of w, in their order. *)
Thinned(w, r) ==
  /\ r \in Seq(Entry) /\ Len(r) <= Len(w)
  /\ \E h \in [ 1 .. Len(r) -> 1 .. Len(w) ] :
       /\ \A n \in 1 .. Len(r) : r[n] = w[h[n]]
       /\ \A m, n \in 1 .. Len(r) : m < n => h[m] < h[n]

(* Thinning keeps the order and the ages. *)
LEMMA ThinnedKeeps ==
  ASSUME NEW w \in Seq(Entry), NEW r, Thinned(w, r)
  PROVE  /\ Sorted(w) => Sorted(r)
         /\ Aged(w) => Aged(r)
         /\ FramesOf(r) \subseteq FramesOf(w)
<1>1. PICK h \in [ 1 .. Len(r) -> 1 .. Len(w) ] :
        /\ \A n \in 1 .. Len(r) : r[n] = w[h[n]]
        /\ \A m, n \in 1 .. Len(r) : m < n => h[m] < h[n]
  BY DEF Thinned
<1>2. Sorted(w) => Sorted(r)
  BY <1>1 DEF Sorted
<1>3. Aged(w) => Aged(r)
  BY <1>1 DEF Aged
<1>4. FramesOf(r) \subseteq FramesOf(w)
  <2>1. r \in Seq(Entry)
    BY DEF Thinned
  <2>2. DOMAIN r = 1 .. Len(r) /\ DOMAIN w = 1 .. Len(w)
    BY <2>1, DomainIs
  <2>3. \A n \in DOMAIN r : r[n] = w[h[n]] /\ h[n] \in DOMAIN w
    BY <1>1, <2>2
  <2>4. QED
    BY <2>3 DEF FramesOf
<1>5. QED
  BY <1>2, <1>3, <1>4

(* An ACK takes the entries it names away, and no others. *)
LEMMA RetainedAfterIs ==
  ASSUME NEW w \in Seq(Entry), NEW ranges
  PROVE  /\ Thinned(w, RetainedAfter(w, ranges))
         /\ EntriesOf(RetainedAfter(w, ranges)) =
              { e \in EntriesOf(w) : e.frame \notin Named(w, ranges) }
<1> DEFINE Spared(seq) == \A i \in DOMAIN ranges : seq \notin ranges[i].first .. ranges[i].last
<1>1. PICK kept \in SUBSET (1 .. Len(w)) :
        /\ RetainedAfter(w, ranges) = EntriesAt(w, kept)
        /\ \A p \in 1 .. Len(w) : p \in kept <=> Spared(w[p].frame.seq)
  <2>1. PICK kept : kept = { p \in 1 .. Len(w) : Spared(w[p].frame.seq) }
    OBVIOUS
  <2>2. RetainedAfter(w, ranges) = EntriesAt(w, kept)
    BY <2>1, DomainIs DEF RetainedAfter, InRange
  <2> HIDE DEF Spared
  <2>3. kept \in SUBSET (1 .. Len(w)) /\ \A p \in 1 .. Len(w) : p \in kept <=> Spared(w[p].frame.seq)
    BY <2>1
  <2>4. QED
    BY <2>2, <2>3
<1>2. \A frame \in FramesOf(w) : frame \notin Named(w, ranges) <=> Spared(frame.seq)
  BY DEF Named
<1> HIDE DEF Spared
<1>3. PICK r : r = RetainedAfter(w, ranges)
  OBVIOUS
<1>4. r \in Seq(Entry) /\ Len(r) <= Len(w)
  BY <1>1, <1>3, EntriesAtKeeps
<1>5. PICK h \in [ 1 .. Len(r) -> kept ] :
        /\ \A n \in 1 .. Len(r) : r[n] = w[h[n]]
        /\ \A m, n \in 1 .. Len(r) : m < n => h[m] < h[n]
        /\ \A p \in kept : \E n \in 1 .. Len(r) : h[n] = p
  BY <1>1, <1>3, EntriesAtKeeps
<1>6. Thinned(w, r)
  <2>1. h \in [ 1 .. Len(r) -> 1 .. Len(w) ]
    OBVIOUS
  <2>2. QED
    BY <1>4, <1>5, <2>1 DEF Thinned
<1>7. DOMAIN r = 1 .. Len(r) /\ DOMAIN w = 1 .. Len(w)
  BY <1>4, DomainIs
<1>8. \A p \in 1 .. Len(w) : w[p].frame \notin Named(w, ranges) <=> p \in kept
  BY <1>1, <1>2, <1>7 DEF FramesOf
<1>9. ASSUME NEW e
      PROVE  e \in EntriesOf(r) <=> e \in EntriesOf(w) /\ e.frame \notin Named(w, ranges)
  <2>1. ASSUME e \in EntriesOf(r) PROVE e \in EntriesOf(w) /\ e.frame \notin Named(w, ranges)
    <3>1. PICK n \in 1 .. Len(r) : e = r[n]
      BY <1>7, <2>1 DEF EntriesOf
    <3>2. h[n] \in kept /\ h[n] \in 1 .. Len(w) /\ e = w[h[n]]
      BY <1>5, <3>1
    <3>3. QED
      BY <1>7, <1>8, <3>2 DEF EntriesOf
  <2>2. ASSUME e \in EntriesOf(w), e.frame \notin Named(w, ranges) PROVE e \in EntriesOf(r)
    <3>1. PICK p \in 1 .. Len(w) : e = w[p]
      BY <1>7, <2>2 DEF EntriesOf
    <3>2. PICK n \in 1 .. Len(r) : h[n] = p
      BY <1>5, <1>8, <2>2, <3>1
    <3>3. e = r[n]
      BY <1>5, <3>1, <3>2
    <3>4. QED
      BY <1>7, <3>3 DEF EntriesOf
  <2>3. QED
    BY <2>1, <2>2
<1>10. QED
  BY <1>3, <1>6, <1>9

(* The frames sent for a RESUME are those numbered from first on. *)
LEMMA RetainedFromIs ==
  ASSUME NEW w \in Seq(Entry), NEW first, NEW i \in 1 .. Len(w), w[i].frame.seq >= first
  PROVE  w[i].frame \in FramesOf(RetainedFrom(w, first))
<1>1. PICK kept \in SUBSET (1 .. Len(w)) :
        RetainedFrom(w, first) = EntriesAt(w, kept) /\ i \in kept
  BY DomainIs DEF RetainedFrom
<1>2. PICK r : r = RetainedFrom(w, first)
  OBVIOUS
<1>3. r \in Seq(Entry) /\ \E n \in 1 .. Len(r) : r[n] = w[i]
  BY <1>1, <1>2, EntriesAtKeeps
<1>4. QED
  BY <1>2, <1>3, DomainIs DEF FramesOf

(* The number of entries that a window gives up for a new frame. *)
Shed(w) == IF Len(w) >= Capacity THEN 1 ELSE 0

(* A new frame is the last entry; a full window gives its first one up. *)
LEMMA RecordIs ==
  ASSUME NEW w \in Seq(Entry), Len(w) <= Capacity, NEW frame \in Frame
  PROVE  /\ Record(w, frame) \in Seq(Entry) /\ Len(Record(w, frame)) <= Capacity
         /\ Len(Record(w, frame)) = Len(w) - Shed(w) + 1 /\ Len(Record(w, frame)) \in Nat
         /\ Record(w, frame)[Len(Record(w, frame))] = [ frame |-> frame, retries |-> 0 ]
         /\ \A i \in 1 .. Len(Record(w, frame)) - 1 : Record(w, frame)[i] = w[i + Shed(w)]
<1> DEFINE e == [ frame |-> frame, retries |-> 0 ]
           d == IF Len(w) >= Capacity THEN 1 ELSE 0
           r == Record(w, frame)
<1>0. d = Shed(w)
  BY DEF Shed
<1>1. e \in Entry
  BY ReplayWindowAssumption DEF Entry
<1>2. Len(w) \in Nat /\ Capacity \in Nat \ {0} /\ d \in 0 .. 1
  BY CapacityAssumption
<1>3. PICK t : t = (IF Len(w) >= Capacity THEN Tail(w) ELSE w)
  OBVIOUS
<1>4. /\ t \in Seq(Entry) /\ Len(t) = Len(w) - d /\ Len(t) < Capacity
      /\ \A i \in 1 .. Len(t) : t[i] = w[i + d]
  <2>1. CASE Len(w) >= Capacity
    <3>1. w # << >>
      BY <1>2, <2>1
    <3>2. QED
      BY <1>2, <1>3, <2>1, <3>1, HeadTailProperties
  <2>2. CASE ~ (Len(w) >= Capacity)
    BY <1>2, <1>3, <2>2
  <2>3. QED
    BY <2>1, <2>2
<1> HIDE DEF e
<1>5. r = Append(t, e)
  BY <1>3 DEF Record, e
<1> HIDE DEF r
<1>6. /\ r \in Seq(Entry) /\ Len(r) = Len(t) + 1 /\ r[Len(r)] = e
      /\ \A i \in 1 .. Len(t) : r[i] = t[i]
  BY <1>1, <1>4, <1>5, AppendProperties
<1>7. PICK k \in Nat : k = Len(t)
  BY <1>4
<1>8. Len(r) = k + 1 /\ Len(r) - 1 = k /\ Len(r) \in Nat /\ k < Capacity /\ k = Len(w) - d
  BY <1>4, <1>6, <1>7
<1>9. Len(r) <= Capacity /\ Len(r) = Len(w) - d + 1
  <2>1. k + 1 <= Capacity
    <3>1. \A a, b \in Nat : a < b => a + 1 <= b
      OBVIOUS
    <3>2. Capacity \in Nat /\ k < Capacity
      BY <1>2, <1>8
    <3>3. QED
      BY <3>1, <3>2, Zenon
  <2>2. CASE d = 0
    BY <1>2, <1>8, <2>1, <2>2
  <2>3. CASE d = 1
    BY <1>2, <1>8, <2>1, <2>3
  <2>4. QED
    BY <1>2, <2>2, <2>3
<1>10. \A i \in 1 .. Len(r) - 1 : r[i] = w[i + d]
  BY <1>4, <1>6, <1>7, <1>8
<1>11. QED
  BY <1>0, <1>6, <1>8, <1>9, <1>10, Zenon DEF e, r

(* Every entry of a window is counted up, or none is. *)
LEMMA CountedUpIs ==
  ASSUME NEW w \in Seq(Entry), Aged(w)
  PROVE  LET r == CountedUp(w, RetryLimit) IN
         /\ r \in Seq(Entry) /\ Len(r) = Len(w) /\ Aged(r)
         /\ \A i \in 1 .. Len(w) : r[i].frame = w[i].frame
         /\ Exhausted(w, RetryLimit) # {} => r = w
<1>1. DOMAIN w = 1 .. Len(w) /\ Len(w) \in Nat /\ RetryLimit \in Nat
  BY DomainIs, ReplayWindowAssumption
<1>2. PICK r : r = CountedUp(w, RetryLimit)
  OBVIOUS
<1>3. CASE Exhausted(w, RetryLimit) # {}
  <2>1. PICK j \in 1 .. Len(w) : w[j].retries >= RetryLimit
    BY <1>1, <1>3 DEF Exhausted
  <2>2. 1 \in 1 .. Len(w) /\ w[1].retries >= RetryLimit
    <3>1. 1 \in 1 .. Len(w) /\ (1 < j \/ 1 = j)
      BY <1>1
    <3>2. w[1].retries \in Nat /\ w[j].retries \in Nat
      BY <3>1, EntryIs
    <3>3. QED
      BY <1>1, <2>1, <3>1, <3>2 DEF Aged
  <2>3. 1 \in Exhausted(w, RetryLimit) /\ \A i \in 1 .. Len(w) : 1 <= i
    BY <1>1, <2>2 DEF Exhausted
  <2>4. r = [ i \in 1 .. Len(w) |-> w[i] ]
    BY <1>1, <1>2, <2>3 DEF CountedUp
  <2>5. r = w
    BY <1>1, <2>4
  <2>6. QED
    BY <1>2, <2>5
<1>4. CASE Exhausted(w, RetryLimit) = {}
  <2>1. \A i \in 1 .. Len(w) : w[i].retries < RetryLimit
    <3>1. \A i \in 1 .. Len(w) : ~ (w[i].retries >= RetryLimit)
      BY <1>1, <1>4 DEF Exhausted
    <3>2. QED
      BY <1>1, <3>1, EntryIs
  <2>2. r = [ i \in 1 .. Len(w) |-> [ w[i] EXCEPT !.retries = @ + 1 ] ]
    BY <1>1, <1>2, <1>4 DEF CountedUp
  <2>3. \A i \in 1 .. Len(w) : /\ r[i] \in Entry /\ r[i].frame = w[i].frame
                               /\ r[i].retries = w[i].retries + 1
    <3>1. SUFFICES ASSUME NEW i \in 1 .. Len(w)
                   PROVE  /\ r[i] \in Entry /\ r[i].frame = w[i].frame
                          /\ r[i].retries = w[i].retries + 1
      OBVIOUS
    <3>2. w[i] \in Entry /\ w[i].retries \in Nat /\ w[i].retries < RetryLimit
      BY <2>1, EntryIs
    <3>3. r[i] = [ w[i] EXCEPT !.retries = @ + 1 ]
      BY <2>2
    <3>4. QED
      BY <1>1, <3>2, <3>3 DEF Entry
  <2>4. r \in [ 1 .. Len(w) -> Entry ]
    BY <2>2, <2>3
  <2>5. r \in Seq(Entry) /\ Len(r) = Len(w)
    BY <1>1, <2>4, SeqDef, LenProperties
  <2>6. Aged(r)
    <3>1. \A i \in 1 .. Len(w) : w[i].retries \in Nat
      BY EntryIs
    <3>2. QED
      BY <2>3, <2>5, <3>1 DEF Aged
  <2>7. QED
    BY <1>2, <1>4, <2>3, <2>5, <2>6
<1>5. QED
  BY <1>3, <1>4

-----------------------------------------------------------------------------
(* The steps *)

LEMMA InitIInv == Init => IInv
<1> SUFFICES ASSUME Init PROVE IInv
  OBVIOUS
<1>1. << >> \in Seq(Entry) /\ Len(<< >>) = 0 /\ 0 <= Capacity
  BY CapacityAssumption
<1>2. TypeOK
  BY <1>1 DEF Init, TypeOK, FileStates
<1>3. Sorted(<< >>) /\ Aged(<< >>)
  BY <1>1 DEF Sorted, Aged
<1>4. QED
  BY <1>1, <1>2, <1>3 DEF Init, IInv, BelowNext, Accounted, RetiredAreGone, FramesOf

(* A frame is recorded. *)
LEMMA EmitKeepsIInv ==
  ASSUME IInv, Emit
  PROVE  /\ IInv'
         /\ \A frame \in FramesOf(window) \ FramesOf(window') :
              frame.seq = Earliest(window) /\ Len(window) = Capacity
<1>1. /\ window \in Seq(Entry) /\ Len(window) <= Capacity /\ Capacity \in Nat
      /\ next_frame_seq \in Nat \ {0} /\ boot \in Nat
      /\ known \subseteq Frame /\ retired \subseteq Frame
  BY CapacityAssumption DEF IInv, TypeOK
<1>2. PICK frame : frame = [ seq |-> next_frame_seq, boot |-> boot ]
  OBVIOUS
<1>3. frame \in Frame /\ frame.seq = next_frame_seq
  BY <1>1, <1>2 DEF Frame
<1>4. ~ Recorded(window, frame.seq)
  <2>1. \A i \in 1 .. Len(window) : window[i].frame.seq < next_frame_seq
    BY DEF IInv, BelowNext
  <2>2. QED
    BY <1>1, <1>3, <2>1 DEF Recorded
<1>5. /\ window' = Record(window, frame) /\ known' = known \cup {frame}
      /\ next_frame_seq' = next_frame_seq + 1
      /\ UNCHANGED << file, snapshot, saving, boot, retired >>
  BY <1>2, <1>4 DEF Emit
<1>6. PICK d \in 0 .. 1 : /\ d = Shed(window)
                          /\ d = IF Len(window) >= Capacity THEN 1 ELSE 0
  BY DEF Shed
<1>7. PICK n \in Nat : n = Len(window') /\ n = Len(window) - d + 1
  <2>1. ASSUME NEW r, r = Record(window, frame)
        PROVE  Len(r) \in Nat /\ Len(r) = Len(window) - d + 1
    BY <1>1, <1>3, <1>6, <2>1, RecordIs, Zenon
  <2>2. QED
    BY <1>5, <2>1
<1>8. /\ window' \in Seq(Entry) /\ n <= Capacity /\ DOMAIN window' = 1 .. n
      /\ window'[n].frame = frame /\ window'[n].retries = 0
      /\ \A i \in 1 .. n - 1 : window'[i] = window[i + d]
  <2>1. PICK r : r = Record(window, frame) /\ r = window' /\ n = Len(r)
    BY <1>5, <1>7
  <2>2. /\ r \in Seq(Entry) /\ n <= Capacity
        /\ r[n] = [ frame |-> frame, retries |-> 0 ]
        /\ \A i \in 1 .. n - 1 : r[i] = window[i + d]
    <3>1. ASSUME NEW q, q = Record(window, frame)
          PROVE  /\ q \in Seq(Entry) /\ Len(q) <= Capacity
                 /\ q[Len(q)] = [ frame |-> frame, retries |-> 0 ]
                 /\ \A i \in 1 .. Len(q) - 1 : q[i] = window[i + d]
      <4>1. d = Shed(window)
        BY <1>6
      <4>2. QED
        BY <1>1, <1>3, <3>1, <4>1, RecordIs
    <3>2. QED
      BY <2>1, <3>1
  <2>3. DOMAIN r = 1 .. n
    BY <2>1, <2>2, DomainIs
  <2>4. QED
    BY <2>1, <2>2, <2>3
<1>9. Len(window) \in Nat /\ n > 0 /\ \A i \in 1 .. n - 1 : i + d \in 1 .. Len(window)
  <2>1. PICK length \in Nat : length = Len(window)
    BY <1>1, DomainIs
  <2>2. n = length - d + 1 /\ (d = 1 => length > 0)
    BY <1>1, <1>6, <1>7, <2>1, CapacityAssumption
  <2>3. n > 0 /\ \A i \in 1 .. n - 1 : i + d \in 1 .. length
    BY <2>2
  <2>4. QED
    BY <2>1, <2>3
<1>10. \A i \in 1 .. Len(window) : /\ window[i].frame.seq \in Nat
                                   /\ window[i].frame.seq < next_frame_seq
                                   /\ window[i].retries \in Nat
  BY <1>1, EntryIs DEF IInv, BelowNext
<1>11. TypeOK'
  BY <1>1, <1>3, <1>5, <1>7, <1>8 DEF IInv, TypeOK
<1>12. Sorted(window')
  <2>1. SUFFICES ASSUME NEW i \in 1 .. n, NEW j \in 1 .. n, i < j
                 PROVE  window'[i].frame.seq < window'[j].frame.seq
    BY <1>7 DEF Sorted
  <2>2. i \in 1 .. n - 1 /\ i + d < j + d
    BY <1>6, <2>1
  <2>3. CASE j = n
    BY <1>3, <1>8, <1>9, <1>10, <2>2, <2>3
  <2>4. CASE j # n
    <3>1. j \in 1 .. n - 1
      BY <2>4
    <3>2. QED
      BY <1>8, <1>9, <2>2, <3>1 DEF IInv, Sorted
  <2>5. QED
    BY <2>3, <2>4
<1>13. Aged(window')
  <2>1. SUFFICES ASSUME NEW i \in 1 .. n, NEW j \in 1 .. n, i < j
                 PROVE  window'[j].retries <= window'[i].retries
    BY <1>7 DEF Aged
  <2>2. i \in 1 .. n - 1 /\ i + d < j + d
    BY <1>6, <2>1
  <2>3. CASE j = n
    BY <1>8, <1>9, <1>10, <2>2, <2>3
  <2>4. CASE j # n
    <3>1. j \in 1 .. n - 1
      BY <2>4
    <3>2. QED
      BY <1>8, <1>9, <2>2, <3>1 DEF IInv, Aged
  <2>5. QED
    BY <2>3, <2>4
<1>14. BelowNext'
  <2>1. ASSUME NEW i \in 1 .. n PROVE window'[i].frame.seq < next_frame_seq + 1
    <3>1. CASE i = n
      BY <1>1, <1>3, <1>8, <3>1
    <3>2. CASE i # n
      <4>1. i \in 1 .. n - 1
        BY <3>2
      <4>2. i + d \in 1 .. Len(window) /\ window'[i] = window[i + d]
        BY <1>8, <1>9, <4>1
      <4>3. QED
        BY <1>1, <1>10, <4>2
    <3>3. QED
      BY <3>1, <3>2
  <2>2. ASSUME NEW f \in known' \cup retired PROVE f.seq < next_frame_seq + 1
    <3>1. f.seq \in Nat
      BY <1>1, <1>3, <1>5 DEF Frame
    <3>2. QED
      BY <1>1, <1>3, <1>5, <3>1 DEF IInv, BelowNext
  <2>3. QED
    BY <1>5, <1>7, <2>1, <2>2 DEF BelowNext
<1>15. ASSUME NEW i \in 1 .. Len(window), i > d
       PROVE  window[i].frame \in FramesOf(window')
  <2>1. i - d \in 1 .. n - 1 /\ (i - d) + d = i
    BY <1>6, <1>7, <1>9, <1>15
  <2>2. window'[i - d].frame = window[i].frame
    BY <1>8, <2>1
  <2>3. i - d \in DOMAIN window'
    BY <1>8, <2>1
  <2>4. QED
    BY <2>2, <2>3 DEF FramesOf
<1>16. Accounted'
  <2>1. SUFFICES ASSUME NEW f \in known' \ retired
                 PROVE  \/ f \in FramesOf(window')
                        \/ \A i \in 1 .. n : f.seq < window'[i].frame.seq
    BY <1>5, <1>7 DEF Accounted
  <2>2. CASE f = frame
    <3>1. n \in DOMAIN window'
      BY <1>8, <1>9
    <3>2. QED
      BY <1>8, <2>2, <3>1 DEF FramesOf
  <2>3. CASE f \in known /\ f \in FramesOf(window)
    <3>1. PICK k \in 1 .. Len(window) : f = window[k].frame
      BY <1>1, <2>3, DomainIs DEF FramesOf
    <3>2. CASE k > d
      BY <1>15, <3>1, <3>2
    <3>3. CASE ~ (k > d)
      <4>1. \A i \in 1 .. n - 1 : k < i + d
        BY <1>6, <3>3
      <4>2. \A i \in 1 .. n - 1 : f.seq < window'[i].frame.seq
        BY <1>8, <1>9, <3>1, <4>1 DEF IInv, Sorted
      <4>3. f.seq < window'[n].frame.seq
        BY <1>3, <1>8, <1>10, <3>1
      <4>4. QED
        BY <1>9, <4>2, <4>3
    <3>4. QED
      BY <3>2, <3>3
  <2>4. CASE f \in known /\ \A i \in 1 .. Len(window) : f.seq < window[i].frame.seq
    <3>1. \A i \in 1 .. n - 1 : f.seq < window'[i].frame.seq
      BY <1>8, <1>9, <2>4
    <3>2. f.seq < window'[n].frame.seq
      BY <1>3, <1>8, <2>4 DEF IInv, BelowNext
    <3>3. QED
      BY <1>9, <3>1, <3>2
  <2>5. QED
    BY <1>5, <2>2, <2>3, <2>4 DEF IInv, Accounted
<1>17. ASSUME NEW f \in FramesOf(window) \ FramesOf(window')
       PROVE  f.seq = Earliest(window) /\ Len(window) = Capacity
  <2>1. PICK k \in 1 .. Len(window) : f = window[k].frame
    BY <1>1, <1>17, DomainIs DEF FramesOf
  <2>2. ~ (k > d)
    BY <1>15, <1>17, <2>1
  <2>3. k = 1 /\ d = 1
    BY <1>6, <1>9, <2>1, <2>2
  <2>4. QED
    BY <1>1, <1>6, <1>9, <2>1, <2>3 DEF Earliest
<1>18. RetiredAreGone'
  <2>1. SUFFICES ASSUME NEW i \in 1 .. n PROVE window'[i].frame \notin retired
    BY <1>5, <1>8 DEF RetiredAreGone, FramesOf
  <2>2. CASE i = n
    BY <1>1, <1>3, <1>8, <2>2 DEF IInv, BelowNext
  <2>3. CASE i # n
    <3>1. i + d \in DOMAIN window /\ window'[i] = window[i + d]
      BY <1>1, <1>8, <1>9, <2>3, DomainIs
    <3>2. QED
      BY <3>1 DEF IInv, RetiredAreGone, FramesOf
  <2>4. QED
    BY <2>2, <2>3
<1>19. QED
  BY <1>5, <1>11, <1>12, <1>13, <1>14, <1>16, <1>17, <1>18 DEF IInv

(* Frames are acknowledged. *)
LEMMA AcknowledgeKeepsIInv ==
  ASSUME IInv, NEW ranges, Acknowledge(ranges)
  PROVE  /\ IInv'
         /\ EntriesOf(window') = { e \in EntriesOf(window) : e.frame \notin retired' }
<1>1. UNCHANGED << next_frame_seq, file, snapshot, saving, boot, known >>
  BY DEF Acknowledge
<1>2. /\ window \in Seq(Entry) /\ Len(window) <= Capacity /\ Len(window) \in Nat
      /\ known \subseteq Frame /\ retired \subseteq Frame /\ Capacity \in Nat
      /\ DOMAIN window = 1 .. Len(window)
  BY CapacityAssumption, DomainIs DEF IInv, TypeOK
<1>3. \A e \in EntriesOf(window) : e.frame \in FramesOf(window) /\ e.frame \notin retired
  BY DEF IInv, RetiredAreGone, EntriesOf, FramesOf
<1>4. CASE window' = window /\ retired' = retired
  <2>1. IInv'
    BY <1>1, <1>4 DEF IInv, TypeOK, BelowNext, Accounted, RetiredAreGone, FramesOf
  <2>2. QED
    BY <1>3, <1>4, <2>1
<1>5. CASE /\ window' = RetainedAfter(window, ranges)
           /\ retired' = retired \cup Named(window, ranges)
  <2>1. /\ Thinned(window, window')
        /\ EntriesOf(window') = { e \in EntriesOf(window) : e.frame \notin Named(window, ranges) }
    BY <1>2, <1>5, RetainedAfterIs
  <2>2. EntriesOf(window') = { e \in EntriesOf(window) : e.frame \notin retired' }
    BY <1>3, <1>5, <2>1
  <2>3. Sorted(window') /\ Aged(window') /\ FramesOf(window') \subseteq FramesOf(window)
    BY <1>2, <2>1, ThinnedKeeps DEF IInv
  <2>4. window' \in Seq(Entry) /\ Len(window') <= Len(window) /\ Len(window') \in Nat
    BY <2>1 DEF Thinned
  <2>5. Named(window, ranges) \subseteq FramesOf(window) /\ FramesOf(window) \subseteq Frame
    BY <1>2, DomainIs, EntryIs DEF FramesOf, Named
  <2>6. TypeOK'
    BY <1>1, <1>2, <1>5, <2>4, <2>5 DEF IInv, TypeOK
  <2>7. \A n \in 1 .. Len(window') : \E i \in 1 .. Len(window) : window'[n] = window[i]
    BY <2>1 DEF Thinned
  <2>8. BelowNext'
    <3>1. \A f \in FramesOf(window) : f.seq < next_frame_seq
      BY <1>2 DEF IInv, BelowNext, FramesOf
    <3>2. \A f \in known' \cup retired' : f.seq < next_frame_seq
      BY <1>1, <1>5, <2>5, <3>1 DEF IInv, BelowNext
    <3>3. QED
      BY <1>1, <2>7, <3>2 DEF IInv, BelowNext
  <2>9. \A f \in FramesOf(window) : f \in FramesOf(window') <=> f \notin retired'
    <3>1. ASSUME NEW f \in FramesOf(window), f \notin retired' PROVE f \in FramesOf(window')
      <4>1. PICK e \in EntriesOf(window) : e.frame = f
        BY DEF EntriesOf, FramesOf
      <4>2. e \in EntriesOf(window')
        BY <2>2, <3>1, <4>1
      <4>3. QED
        BY <4>1, <4>2 DEF EntriesOf, FramesOf
    <3>2. ASSUME NEW f \in FramesOf(window') PROVE f \notin retired'
      <4>1. PICK e \in EntriesOf(window') : e.frame = f
        BY DEF EntriesOf, FramesOf
      <4>2. QED
        BY <2>2, <4>1
    <3>3. QED
      BY <3>1, <3>2
  <2>10. Accounted'
    <3>1. SUFFICES ASSUME NEW f \in known \ retired'
                   PROVE  \/ f \in FramesOf(window')
                          \/ \A n \in 1 .. Len(window') : f.seq < window'[n].frame.seq
      BY <1>1 DEF Accounted
    <3>2. f \in known \ retired
      BY <1>5
    <3>3. CASE f \in FramesOf(window)
      BY <2>9, <3>1, <3>3
    <3>4. CASE \A i \in 1 .. Len(window) : f.seq < window[i].frame.seq
      BY <2>7, <3>4
    <3>5. QED
      BY <3>2, <3>3, <3>4 DEF IInv, Accounted
  <2>11. RetiredAreGone'
    BY <2>3, <2>9 DEF RetiredAreGone
  <2>12. QED
    BY <1>1, <2>2, <2>3, <2>6, <2>8, <2>10, <2>11 DEF IInv
<1>6. QED
  BY <1>4, <1>5 DEF Acknowledge

(* A round of retries. *)
LEMMA RetryKeepsIInv ==
  ASSUME IInv, Retry
  PROVE  /\ IInv'
         /\ FramesOf(window') = FramesOf(window)
         /\ ~ call'.ok => window' = window
<1>1. window \in Seq(Entry) /\ Len(window) <= Capacity /\ Aged(window) /\ Sorted(window)
  BY DEF IInv, TypeOK
<1>2. /\ window' \in Seq(Entry) /\ Len(window') = Len(window) /\ Aged(window')
      /\ \A i \in 1 .. Len(window) : window'[i].frame = window[i].frame
      /\ Exhausted(window, RetryLimit) # {} => window' = window
  BY <1>1, CountedUpIs DEF Retry
<1>3. UNCHANGED << next_frame_seq, file, snapshot, saving, boot, known, retired >>
  BY DEF Retry
<1>4. TypeOK'
  BY <1>1, <1>2, <1>3 DEF IInv, TypeOK
<1>5. Sorted(window')
  BY <1>1, <1>2 DEF Sorted
<1>6. FramesOf(window') = FramesOf(window)
  BY <1>1, <1>2, DomainIs DEF FramesOf
<1>7. BelowNext' /\ Accounted' /\ RetiredAreGone'
  BY <1>2, <1>3, <1>6 DEF IInv, BelowNext, Accounted, RetiredAreGone
<1>8. ~ call'.ok => window' = window
  BY <1>2 DEF Retry
<1>9. QED
  BY <1>2, <1>3, <1>4, <1>5, <1>6, <1>7, <1>8 DEF IInv

(* A step of a save: at most the file changes, and it gets a prefix. *)
LEMMA SaveKeepsIInv ==
  ASSUME IInv, WriteTemporary \/ RemoveOld \/ Publish
  PROVE  IInv' /\ UNCHANGED << window, boot >> /\ call'.op \notin { "ack", "retry" }
<1>1. /\ window \in Seq(Entry) /\ Len(window) <= Capacity /\ Len(window) \in Nat
      /\ Sorted(window) /\ Aged(window) /\ Capacity \in Nat
  BY CapacityAssumption DEF IInv, TypeOK
<1>2. /\ UNCHANGED << window, next_frame_seq, boot, known, retired >>
      /\ saving' \in { "no", "written", "removed" } /\ file' \in FileStates
      /\ call'.op \notin { "ack", "retry" }
  BY DEF WriteTemporary, RemoveOld, Publish, Published, SaveFails, SaveCall, NoCall, FileStates,
         IInv, TypeOK
<1>3. /\ snapshot' \in Seq(Entry) /\ Len(snapshot') <= Capacity
      /\ Sorted(snapshot') /\ Aged(snapshot')
  <2>1. CASE snapshot' = snapshot
    BY <2>1 DEF IInv, TypeOK
  <2>2. CASE snapshot' = << >>
    <3>1. << >> \in Seq(Entry) /\ Len(<< >>) = 0
      OBVIOUS
    <3>2. QED
      BY <1>1, <2>2, <3>1 DEF Sorted, Aged
  <2>3. CASE snapshot' = window
    BY <1>1, <2>3
  <2>4. ASSUME NEW flushed \in 0 .. Len(window) - 1, snapshot' = SubSeq(window, 1, flushed)
        PROVE  /\ snapshot' \in Seq(Entry) /\ Len(snapshot') <= Capacity
               /\ Sorted(snapshot') /\ Aged(snapshot')
    <3>1. /\ snapshot' \in Seq(Entry) /\ Len(snapshot') = flushed
          /\ \A i \in 1 .. flushed : snapshot'[i] = window[i]
      BY <1>1, <2>4
    <3>2. Sorted(window) => Sorted(snapshot')
      BY <1>1, <3>1 DEF Sorted
    <3>3. Aged(window) => Aged(snapshot')
      BY <1>1, <3>1 DEF Aged
    <3>4. QED
      BY <1>1, <3>1, <3>2, <3>3
  <2>5. QED
    BY <2>1, <2>2, <2>3, <2>4 DEF WriteTemporary, RemoveOld, Publish, Published, SaveFails
<1>4. TypeOK'
  BY <1>2, <1>3 DEF IInv, TypeOK
<1>5. QED
  BY <1>2, <1>3, <1>4 DEF IInv, BelowNext, Accounted, RetiredAreGone, FramesOf

(* The process starts again from the file. *)
LEMMA RestartKeepsIInv ==
  ASSUME IInv, Restart
  PROVE  IInv' /\ boot' # boot /\ call'.op # "retry"
<1>1. /\ snapshot \in Seq(Entry) /\ Len(snapshot) <= Capacity /\ Len(snapshot) \in Nat
      /\ Sorted(snapshot) /\ Aged(snapshot) /\ boot \in Nat
  BY DEF IInv, TypeOK
<1>2. /\ window' = snapshot /\ snapshot' = snapshot /\ saving' = "no" /\ boot' = boot + 1
      /\ file' \in FileStates
      /\ next_frame_seq' = NextAfter(snapshot)
      /\ known' = FramesOf(snapshot) /\ retired' = {} /\ call'.op # "retry"
  BY DEF Restart, NoCall, IInv, TypeOK
<1>3. \A i \in 1 .. Len(snapshot) : snapshot[i].frame \in Frame /\ snapshot[i].frame.seq \in Nat
  BY <1>1, EntryIs
<1>4. /\ NextAfter(snapshot) \in Nat \ {0}
      /\ \A i \in 1 .. Len(snapshot) : snapshot[i].frame.seq < NextAfter(snapshot)
  <2>1. CASE snapshot = << >>
    BY <2>1 DEF NextAfter
  <2>2. CASE snapshot # << >>
    <3>1. Len(snapshot) \in 1 .. Len(snapshot)
      BY <1>1, <2>2
    <3>2. PICK latest \in Nat : latest = snapshot[Len(snapshot)].frame.seq
      BY <1>3, <3>1
    <3>3. NextAfter(snapshot) = latest + 1
      BY <2>2, <3>2 DEF NextAfter, Latest
    <3>4. ASSUME NEW i \in 1 .. Len(snapshot) PROVE snapshot[i].frame.seq <= latest
      <4>1. i = Len(snapshot) \/ i < Len(snapshot)
        BY <1>1
      <4>2. QED
        BY <1>1, <1>3, <3>1, <3>2, <4>1 DEF Sorted
    <3>5. \A i \in 1 .. Len(snapshot) : snapshot[i].frame.seq < latest + 1
      BY <1>3, <3>2, <3>4
    <3>6. QED
      BY <3>2, <3>3, <3>5
  <2>3. QED
    BY <2>1, <2>2
<1>5. FramesOf(snapshot) = { snapshot[i].frame : i \in 1 .. Len(snapshot) }
  BY <1>1, DomainIs DEF FramesOf
<1>6. TypeOK'
  BY <1>1, <1>2, <1>3, <1>4, <1>5 DEF TypeOK
<1>7. BelowNext' /\ Accounted' /\ RetiredAreGone'
  BY <1>2, <1>4, <1>5 DEF BelowNext, Accounted, RetiredAreGone
<1>8. QED
  BY <1>1, <1>2, <1>6, <1>7 DEF IInv

LEMMA NextIInv == IInv /\ [Next]_vars => IInv'
<1>1. ASSUME IInv, UNCHANGED vars PROVE IInv'
  BY <1>1 DEF vars, IInv, TypeOK, Sorted, Aged, BelowNext, Accounted, RetiredAreGone, FramesOf
<1>2. QED
  BY <1>1, EmitKeepsIInv, AcknowledgeKeepsIInv, RetryKeepsIInv, SaveKeepsIInv, RestartKeepsIInv
     DEF Next

LEMMA Invariance == Spec => []IInv
BY InitIInv, NextIInv, PTL DEF Spec

-----------------------------------------------------------------------------
(* The theorems *)

(* ReplayWindow::record, acknowledge and restore_retained keep the entries *)
(* sorted, and the numbering of make_frame above them, across restarts.    *)
THEOREM WindowAlwaysSorted == Spec => []WindowSorted
<1>1. IInv => WindowSorted
  BY DomainIs DEF IInv, TypeOK, WindowSorted, Sorted, BelowNext
<1>2. QED
  BY <1>1, Invariance, PTL

(* can_resume accepts only what retained_from can answer in full. *)
THEOREM ResumeAlwaysComplete == Spec => []ResumeIsComplete
<1>1. ASSUME IInv PROVE ResumeIsComplete
  <2>1. SUFFICES ASSUME NEW first \in 0 .. MaxFrames + 1, CanResume(window, first),
                        NEW frame \in known, frame.seq >= first, frame \notin retired
                 PROVE  frame \in FramesOf(RetainedFrom(window, first))
    BY DEF ResumeIsComplete
  <2>2. window \in Seq(Entry) /\ known \subseteq Frame /\ first \in Int
    BY <1>1, ReplayWindowAssumption DEF IInv, TypeOK
  <2>3. 1 \in 1 .. Len(window) /\ window[1].frame.seq <= first
    BY <2>1, <2>2 DEF CanResume, Earliest
  <2>4. window[1].frame.seq \in Nat /\ frame.seq \in Nat
    BY <2>2, <2>3, EntryIs DEF Frame
  <2>5. ~ (frame.seq < window[1].frame.seq)
    BY <2>1, <2>2, <2>3, <2>4
  <2>6. frame \in FramesOf(window)
    BY <1>1, <2>1, <2>3, <2>5 DEF IInv, Accounted
  <2>7. PICK i \in 1 .. Len(window) : frame = window[i].frame
    BY <2>2, <2>6, DomainIs DEF FramesOf
  <2>8. QED
    BY <2>1, <2>2, <2>7, RetainedFromIs
<1>2. QED
  BY <1>1, Invariance, PTL

(* acknowledge erases exactly the retained frames its ranges name, record  *)
(* the oldest one of a full window, and nothing else erases any.           *)
THEOREM AcksRetireExactly == Spec => AckRetiresExactly
<1> DEFINE Exactly == EntriesOf(window') = { entry \in EntriesOf(window) : entry.frame \notin retired' }
           Evicted == \A frame \in FramesOf(window) \ FramesOf(window') :
                        call'.op = "emit" /\ frame.seq = Earliest(window) /\ Len(window) = Capacity
           Retires == boot' = boot => IF call'.op = "ack" THEN Exactly ELSE Evicted
<1>1. ASSUME IInv, Next PROVE Retires
  <2>1. CASE Emit
    <3>1. call'.op = "emit"
      BY <2>1 DEF Emit
    <3>2. QED
      BY <1>1, <2>1, <3>1, EmitKeepsIInv
  <2>2. ASSUME NEW ranges, Acknowledge(ranges) PROVE Retires
    <3>1. Exactly /\ call'.op = "ack"
      BY <1>1, <2>2, AcknowledgeKeepsIInv DEF Acknowledge
    <3>2. QED
      BY <3>1
  <2>3. CASE Retry
    <3>1. call'.op = "retry" /\ FramesOf(window') = FramesOf(window)
      BY <1>1, <2>3, RetryKeepsIInv DEF Retry
    <3>2. QED
      BY <3>1
  <2>4. CASE WriteTemporary \/ RemoveOld \/ Publish
    <3>1. call'.op # "ack" /\ FramesOf(window') = FramesOf(window)
      BY <1>1, <2>4, SaveKeepsIInv DEF FramesOf
    <3>2. QED
      BY <3>1
  <2>5. CASE Restart
    BY <1>1, <2>5, RestartKeepsIInv
  <2>6. QED
    BY <1>1, <2>1, <2>2, <2>3, <2>4, <2>5 DEF Next
<1>2. IInv /\ [Next]_vars => [ Retires ]_vars
  BY <1>1
<1>3. QED
  BY <1>2, Invariance, PTL DEF Spec, AckRetiresExactly

(* due_for_retry counts while it loops; it gives up before the first entry *)
(* or not at all, because older entries have been retried as often.        *)
THEOREM RetriesAllOrNothing == Spec => RetryAllOrNothing
<1> DEFINE AllOrNothing == call'.op = "retry" /\ ~ call'.ok => window' = window
<1>1. ASSUME IInv, [Next]_vars PROVE AllOrNothing
  <2>1. CASE UNCHANGED vars
    BY <2>1 DEF vars
  <2>2. CASE Emit
    BY <2>2 DEF Emit
  <2>3. ASSUME NEW ranges, Acknowledge(ranges) PROVE AllOrNothing
    BY <2>3 DEF Acknowledge
  <2>4. CASE Retry
    BY <1>1, <2>4, RetryKeepsIInv
  <2>5. CASE WriteTemporary \/ RemoveOld \/ Publish
    BY <1>1, <2>5, SaveKeepsIInv
  <2>6. CASE Restart
    BY <1>1, <2>6, RestartKeepsIInv
  <2>7. QED
    BY <1>1, <2>1, <2>2, <2>3, <2>4, <2>5, <2>6 DEF Next
<1>2. IInv /\ [Next]_vars => [ AllOrNothing ]_vars
  BY <1>1
<1>3. QED
  BY <1>2, Invariance, PTL DEF Spec, RetryAllOrNothing
=============================================================================
