----------------------- MODULE OutboundScheduler_proofs -----------------------
(***************************************************************************)
(* Proofs about the outbound scheduler, for any number of channels, any    *)
(* sizes of frames and any byte limit.                                     *)
(***************************************************************************)
EXTENDS OutboundScheduler, FiniteSetTheorems, FunctionTheorems, SequenceTheorems,
        WellFoundedInduction, TLAPS

(* Items of queue q. *)
ItemOf(q) ==
  { item \in [ priority : { "control", "data" }, channel : { q }, sequence : Nat,
               size : ItemSizes, left : Nat ] :
      /\ item.left \in 1 .. item.size
      /\ item.priority = IF q = ControlQueue THEN "control" ELSE "data" }

-----------------------------------------------------------------------------
(* Sums as cardinalities *)

(* The cells that stand for n bytes at x. *)
Strip(x, n) == {x} \X (1 .. n)

LEMMA StripSize ==
  ASSUME NEW x, NEW n \in Nat
  PROVE  IsFiniteSet(Strip(x, n)) /\ Cardinality(Strip(x, n)) = n
<1>1. IsFiniteSet({x}) /\ Cardinality({x}) = 1
  BY FS_Singleton
<1>2. IsFiniteSet(1 .. n) /\ Cardinality(1 .. n) = n
  BY FS_Interval
<1>3. IsFiniteSet({x} \X (1 .. n)) /\ Cardinality({x} \X (1 .. n)) = Cardinality({x}) * Cardinality(1 .. n)
  BY <1>1, <1>2, FS_Product
<1>4. QED
  BY <1>1, <1>2, <1>3 DEF Strip

Cells(bytes) == UNION { Strip(i, bytes[i]) : i \in DOMAIN bytes }

LEMMA CellIs ==
  ASSUME NEW bytes
  PROVE  /\ Total(bytes) = Cardinality(Cells(bytes))
         /\ \A i, b : << i, b >> \in Cells(bytes) <=> i \in DOMAIN bytes /\ b \in 1 .. bytes[i]
         /\ \A x \in Cells(bytes) : \E i \in DOMAIN bytes : \E b \in 1 .. bytes[i] : x = << i, b >>
BY DEF Total, Cells, Strip

LEMMA CellsFinite ==
  ASSUME NEW bytes, IsFiniteSet(DOMAIN bytes), \A i \in DOMAIN bytes : bytes[i] \in Nat
  PROVE  IsFiniteSet(Cells(bytes)) /\ Total(bytes) \in Nat
<1> DEFINE T == { Strip(i, bytes[i]) : i \in DOMAIN bytes }
           f == [ i \in DOMAIN bytes |-> Strip(i, bytes[i]) ]
<1>1. f \in Surjection(DOMAIN bytes, T)
  BY DEF Surjection
<1>2. \A s \in T : IsFiniteSet(s)
  BY StripSize
<1> HIDE DEF T, f
<1>3. IsFiniteSet(T)
  BY <1>1, FS_Surjection
<1>4. IsFiniteSet(UNION T)
  BY <1>2, <1>3, FS_UNION
<1>5. QED
  BY <1>4, FS_CardinalityType, CellIs DEF T, Cells

-----------------------------------------------------------------------------
(* Taken *)

(* The bytes of the items of an order before the i-th. *)
Before(order, i) == [ j \in 1 .. i - 1 |-> order[j].left ]

LEMMA BeforeGrows ==
  ASSUME NEW order, DOMAIN order = 1 .. Len(order), Len(order) \in Nat,
         \A i \in DOMAIN order : order[i].left \in Nat,
         NEW i \in DOMAIN order, NEW j \in DOMAIN order, i < j
  PROVE  /\ Total(Before(order, i)) \in Nat /\ Total(Before(order, j)) \in Nat
         /\ Total(Before(order, i)) + order[i].left <= Total(Before(order, j))
<1> DEFINE A == Cells(Before(order, i))
           B == Cells(Before(order, j))
           C == Strip(i, order[i].left)
<1>1. \A k \in DOMAIN order : /\ DOMAIN Before(order, k) = 1 .. k - 1
                              /\ \A l \in 1 .. k - 1 : Before(order, k)[l] = order[l].left
                              /\ \A l \in 1 .. k - 1 : Before(order, k)[l] \in Nat
  BY DEF Before
<1>2. \A k \in DOMAIN order : IsFiniteSet(Cells(Before(order, k))) /\ Total(Before(order, k)) \in Nat
  <2> SUFFICES ASSUME NEW k \in DOMAIN order
               PROVE  IsFiniteSet(Cells(Before(order, k))) /\ Total(Before(order, k)) \in Nat
    OBVIOUS
  <2>1. IsFiniteSet(1 .. k - 1)
    BY FS_Interval
  <2>2. QED
    BY <1>1, <2>1, CellsFinite
<1>3. IsFiniteSet(C) /\ Cardinality(C) = order[i].left
  BY StripSize
<1>4. A \cap C = {}
  BY <1>1, CellIs DEF Strip
<1>5. A \cup C \subseteq B
  <2>1. ASSUME NEW x \in A PROVE x \in B
    <3>1. PICK k \in 1 .. i - 1 : \E b \in 1 .. order[k].left : x = << k, b >>
      <4>1. PICK k \in DOMAIN Before(order, i) : \E b \in 1 .. Before(order, i)[k] : x = << k, b >>
        BY <2>1, CellIs
      <4>2. QED
        BY <1>1, <4>1
    <3>2. k \in 1 .. j - 1
      BY <3>1
    <3>3. QED
      BY <1>1, <3>1, <3>2, CellIs
  <2>2. ASSUME NEW x \in C PROVE x \in B
    <3>1. PICK b \in 1 .. order[i].left : x = << i, b >>
      BY <2>2 DEF Strip
    <3>2. i \in 1 .. j - 1
      OBVIOUS
    <3>3. QED
      BY <1>1, <3>1, <3>2, CellIs
  <2>3. QED
    BY <2>1, <2>2
<1>6. IsFiniteSet(A) /\ IsFiniteSet(B) /\ Cardinality(A) = Total(Before(order, i))
      /\ Cardinality(B) = Total(Before(order, j))
  BY <1>2, CellIs
<1> HIDE DEF A, B, C
<1>7. IsFiniteSet(A \cup C) /\ Cardinality(A \cup C) = Cardinality(A) + Cardinality(C) - Cardinality(A \cap C)
  BY <1>3, <1>6, FS_Union
<1>8. Cardinality(A \cap C) = 0
  BY <1>4, FS_EmptySet
<1>9. Cardinality(A \cup C) <= Cardinality(B)
  BY <1>5, <1>6, FS_Subset
<1>10. Cardinality(A) \in Nat /\ Cardinality(B) \in Nat /\ order[i].left \in Nat
  BY <1>2, <1>6
<1>11. QED
  BY <1>2, <1>3, <1>6, <1>7, <1>8, <1>9, <1>10

(* A write takes whole items, then a prefix of one, then nothing. *)
LEMMA TakenIs ==
  ASSUME NEW order, DOMAIN order = 1 .. Len(order), Len(order) \in Nat,
         \A i \in DOMAIN order : order[i].left \in Nat \ {0},
         NEW room \in Nat
  PROVE  /\ DOMAIN Taken(order, room) = DOMAIN order
         /\ \A i \in DOMAIN order : Taken(order, room)[i] \in 0 .. order[i].left
         /\ \A i, j \in DOMAIN order :
              i < j /\ Taken(order, room)[j] > 0 => Taken(order, room)[i] = order[i].left
<1> DEFINE taken == Taken(order, room)
           Free(i) == room - Total(Before(order, i))
<1>1. /\ DOMAIN taken = DOMAIN order
      /\ \A i \in DOMAIN order :
           taken[i] = IF Free(i) <= 0 THEN 0 ELSE IF Free(i) < order[i].left THEN Free(i) ELSE order[i].left
  BY DEF Taken, Before
<1>2. ASSUME NEW i \in DOMAIN order PROVE Free(i) \in Int /\ order[i].left \in Nat \ {0}
  <2>1. IsFiniteSet(1 .. i - 1)
    BY FS_Interval
  <2>2. /\ DOMAIN Before(order, i) = 1 .. i - 1
        /\ \A l \in 1 .. i - 1 : Before(order, i)[l] \in Nat
    BY DEF Before
  <2>3. Total(Before(order, i)) \in Nat
    BY <2>1, <2>2, CellsFinite
  <2>4. QED
    BY <2>3
<1>3. ASSUME NEW i \in DOMAIN order, NEW j \in DOMAIN order, i < j
      PROVE  Free(i) - order[i].left >= Free(j)
  <2>1. /\ Total(Before(order, i)) \in Nat /\ Total(Before(order, j)) \in Nat
        /\ Total(Before(order, i)) + order[i].left <= Total(Before(order, j))
    BY <1>3, BeforeGrows
  <2>2. QED
    BY <1>2, <2>1
<1> HIDE DEF taken, Free
<1>4. \A i \in DOMAIN order : taken[i] \in 0 .. order[i].left
  BY <1>1, <1>2
<1>5. ASSUME NEW i \in DOMAIN order, NEW j \in DOMAIN order, i < j, taken[j] > 0
      PROVE  taken[i] = order[i].left
  <2>1. Free(j) > 0
    BY <1>1, <1>2, <1>5
  <2>2. ~ (Free(i) <= 0) /\ ~ (Free(i) < order[i].left)
    BY <1>2, <1>3, <1>5, <2>1
  <2>3. QED
    BY <1>1, <2>2
<1>6. QED
  BY <1>1, <1>4, <1>5 DEF taken

(* A set of positions that has every earlier one is an initial segment. *)
LEMMA Segment ==
  ASSUME NEW n \in Nat, NEW W \in SUBSET (1 .. n), \A i \in 1 .. n, j \in W : i < j => i \in W
  PROVE  Cardinality(W) \in 0 .. n /\ W = 1 .. Cardinality(W)
<1>1. IsFiniteSet(1 .. n) /\ Cardinality(1 .. n) = n
  BY FS_Interval
<1>2. IsFiniteSet(W) /\ Cardinality(W) \in Nat /\ Cardinality(W) <= n
  BY <1>1, FS_Subset, FS_CardinalityType
<1>3. W \subseteq 1 .. Cardinality(W)
  <2> SUFFICES ASSUME NEW j \in W PROVE j \in 1 .. Cardinality(W)
    OBVIOUS
  <2>1. 1 .. j \subseteq W /\ j \in Nat
    OBVIOUS
  <2>2. Cardinality(1 .. j) = j
    BY <2>1, FS_Interval
  <2>3. Cardinality(1 .. j) <= Cardinality(W)
    BY <1>2, <2>1, FS_Subset
  <2>4. QED
    BY <1>2, <2>1, <2>2, <2>3
<1>4. IsFiniteSet(1 .. Cardinality(W)) /\ Cardinality(1 .. Cardinality(W)) = Cardinality(W)
  BY <1>2, FS_Interval
<1>5. W = 1 .. Cardinality(W)
  BY <1>3, <1>4, FS_Subset
<1>6. QED
  BY <1>2, <1>5

-----------------------------------------------------------------------------
(* Rotation *)

LEMMA SoonerIsOrder ==
  ASSUME NEW k \in Nat
  PROVE  /\ \A c \in Nat : ~ Sooner(k, c, c)
         /\ \A c, d \in Nat : Sooner(k, c, d) \/ c = d \/ Sooner(k, d, c)
         /\ \A c, d \in Nat : ~ (Sooner(k, c, d) /\ Sooner(k, d, c))
         /\ \A c, d, e \in Nat : Sooner(k, c, d) /\ Sooner(k, d, e) => Sooner(k, c, e)
BY DEF Sooner

(* Some of the channels, seen from a cursor, and those ahead of one.       *)
Ahead(turn, k, c) == { d \in turn : Sooner(k, d, c) }

LEMMA RanksDiffer ==
  ASSUME NEW turn \in SUBSET Nat, IsFiniteSet(turn), NEW k \in Nat
  PROVE  /\ \A c \in turn : Cardinality(Ahead(turn, k, c)) \in 0 .. Cardinality(turn) - 1
         /\ \A c, d \in turn :
              Sooner(k, c, d) => Cardinality(Ahead(turn, k, c)) < Cardinality(Ahead(turn, k, d))
<1>1. ASSUME NEW c \in turn
      PROVE  IsFiniteSet(Ahead(turn, k, c)) /\ Cardinality(Ahead(turn, k, c)) \in Nat
  <2>1. Ahead(turn, k, c) \subseteq turn
    BY DEF Ahead
  <2>2. QED
    BY <2>1, FS_Subset, FS_CardinalityType
<1>2. ASSUME NEW c \in turn PROVE Cardinality(Ahead(turn, k, c)) <= Cardinality(turn) - 1
  <2>1. Ahead(turn, k, c) \subseteq turn \ {c}
    <3>1. ~ Sooner(k, c, c)
      BY SoonerIsOrder
    <3>2. QED
      BY <3>1, Zenon DEF Ahead
  <2>2. IsFiniteSet(turn \ {c}) /\ Cardinality(turn \ {c}) = Cardinality(turn) - 1
    BY FS_RemoveElement
  <2>3. QED
    BY <2>1, <2>2, FS_Subset
<1>3. ASSUME NEW c \in turn, NEW d \in turn, Sooner(k, c, d)
      PROVE  Cardinality(Ahead(turn, k, c)) < Cardinality(Ahead(turn, k, d))
  <2> DEFINE A == Ahead(turn, k, c)
             B == Ahead(turn, k, d)
  <2>1. A \subseteq B \ {c} /\ c \in B
    <3>1. ~ Sooner(k, c, c) /\ \A e \in turn : Sooner(k, e, c) => Sooner(k, e, d)
      BY <1>3, SoonerIsOrder
    <3>2. QED
      BY <1>3, <3>1, Zenon DEF Ahead
  <2>2. IsFiniteSet(A) /\ IsFiniteSet(B) /\ Cardinality(A) \in Nat /\ Cardinality(B) \in Nat
    BY <1>1
  <2> HIDE DEF A, B
  <2>3. IsFiniteSet(B \ {c}) /\ Cardinality(B \ {c}) = Cardinality(B) - 1
    BY <2>1, <2>2, FS_RemoveElement
  <2>4. Cardinality(A) <= Cardinality(B \ {c})
    BY <2>1, <2>3, FS_Subset
  <2>5. Cardinality(A) < Cardinality(B)
    BY <2>2, <2>3, <2>4
  <2>6. QED
    BY <2>5 DEF A, B
<1>4. Cardinality(turn) \in Nat
  BY FS_CardinalityType
<1>5. \A c \in turn : Cardinality(Ahead(turn, k, c)) \in 0 .. Cardinality(turn) - 1
  BY <1>1, <1>2, <1>4
<1>6. QED
  BY <1>3, <1>5

(* There is a channel at every rank. *)
LEMMA RanksFilled ==
  ASSUME NEW turn \in SUBSET Nat, IsFiniteSet(turn), NEW k \in Nat,
         NEW i \in 1 .. Cardinality(turn)
  PROVE  \E c \in turn : Cardinality(Ahead(turn, k, c)) = i - 1
<1> DEFINE n == Cardinality(turn)
           Rank(c) == Cardinality(Ahead(turn, k, c))
           f == [ c \in turn |-> Rank(c) + 1 ]
<1>1. n \in Nat
  BY FS_CardinalityType
<1>2. /\ \A c \in turn : Rank(c) \in 0 .. n - 1
      /\ \A c, d \in turn : Sooner(k, c, d) => Rank(c) < Rank(d)
  BY RanksDiffer
<1>3. IsFiniteSet(1 .. n) /\ Cardinality(1 .. n) = n
  BY <1>1, FS_Interval
<1> HIDE DEF Rank
<1>4. f \in [ turn -> 1 .. n ]
  BY <1>1, <1>2
<1>5. \A c, d \in turn : f[c] = f[d] => c = d
  BY <1>1, <1>2, SoonerIsOrder
<1>6. f \in Injection(turn, 1 .. n)
  BY <1>4, <1>5 DEF Injection, IsInjective
<1> HIDE DEF f
<1>7. f \in Surjection(turn, 1 .. n)
  BY <1>3, <1>6, FS_Injection
<1>8. PICK c \in turn : f[c] = i
  BY <1>7 DEF Surjection
<1>9. Rank(c) = i - 1
  BY <1>1, <1>2, <1>8 DEF f
<1>10. QED
  BY <1>9 DEF Rank

Turn(s) == { c \in DataChannels : InTurn(s, c) }

(* Every channel in turn has its place, and the places are in order. *)
LEMMA RotationIs ==
  ASSUME NEW s, s.cursor \in Nat
  PROVE  /\ Cardinality(Turn(s)) \in Nat /\ DOMAIN Rotation(s) = 1 .. Cardinality(Turn(s))
         /\ \A i \in DOMAIN Rotation(s) : Rotation(s)[i] \in Turn(s)
         /\ \A c \in Turn(s) : \E i \in DOMAIN Rotation(s) : Rotation(s)[i] = c
         /\ \A i, j \in DOMAIN Rotation(s) : i < j <=> Sooner(s.cursor, Rotation(s)[i], Rotation(s)[j])
<1> DEFINE turn == Turn(s)
           k == s.cursor
           n == Cardinality(turn)
           Rank(c) == Cardinality(Ahead(turn, k, c))
           r == Rotation(s)
<1>1. turn \in SUBSET Nat /\ IsFiniteSet(turn) /\ n \in Nat
  BY SchedulerAssumption, FS_Subset, FS_CardinalityType DEF Turn
<1>2. r = [ i \in 1 .. n |-> CHOOSE c \in turn : Rank(c) = i - 1 ]
  BY DEF Rotation, Turn, Ahead
<1>3. \A i \in 1 .. n : \E c \in turn : Rank(c) = i - 1
  BY <1>1, RanksFilled
<1>4. \A i \in 1 .. n : r[i] \in turn /\ Rank(r[i]) = i - 1
  BY <1>2, <1>3
<1>5. DOMAIN r = 1 .. n
  BY <1>2
<1>6. /\ \A c \in turn : Rank(c) \in 0 .. n - 1
      /\ \A c, d \in turn : Sooner(k, c, d) => Rank(c) < Rank(d)
  BY <1>1, RanksDiffer
<1> HIDE DEF r, Rank, turn
<1>7. \A c, d \in turn : Rank(c) = Rank(d) => c = d
  BY <1>1, <1>6, SoonerIsOrder
<1>8. ASSUME NEW c \in turn PROVE \E i \in 1 .. n : r[i] = c
  <2>1. Rank(c) + 1 \in 1 .. n /\ (Rank(c) + 1) - 1 = Rank(c)
    BY <1>1, <1>6
  <2>2. r[Rank(c) + 1] \in turn /\ Rank(r[Rank(c) + 1]) = Rank(c)
    BY <1>4, <2>1
  <2>3. r[Rank(c) + 1] = c
    BY <1>7, <2>2
  <2>4. QED
    BY <2>1, <2>3
<1>9. ASSUME NEW i \in 1 .. n, NEW j \in 1 .. n PROVE i < j <=> Sooner(k, r[i], r[j])
  <2>1. r[i] \in turn /\ r[j] \in turn /\ Rank(r[i]) = i - 1 /\ Rank(r[j]) = j - 1
    BY <1>4
  <2>2. Sooner(k, r[i], r[j]) => i < j
    BY <1>6, <2>1
  <2>3. Sooner(k, r[j], r[i]) => j < i
    BY <1>6, <2>1
  <2>4. Sooner(k, r[i], r[j]) \/ r[i] = r[j] \/ Sooner(k, r[j], r[i])
    BY <1>1, <2>1, SoonerIsOrder
  <2>5. r[i] = r[j] => i = j
    BY <2>1
  <2>6. QED
    BY <2>2, <2>3, <2>4, <2>5
<1>10. /\ n \in Nat /\ DOMAIN r = 1 .. n
       /\ \A i \in DOMAIN r : r[i] \in turn
       /\ \A c \in turn : \E i \in DOMAIN r : r[i] = c
       /\ \A i, j \in DOMAIN r : i < j <=> Sooner(k, r[i], r[j])
  BY <1>1, <1>4, <1>5, <1>8, <1>9
<1>11. QED
  BY <1>10 DEF r, turn

-----------------------------------------------------------------------------
(* The order of a drain *)

SchedulerOK(s) ==
  /\ DOMAIN s.data = DataChannels
  /\ \A q \in Queues : ItemsIn(s, q) \in Seq(ItemOf(q))
  /\ DOMAIN s.expected = DataChannels /\ \A c \in DataChannels : s.expected[c] \in Nat
  /\ s.cursor \in Nat

LEMMA QueuesAre ==
  /\ ControlQueue \in Queues /\ ControlQueue \notin DataChannels /\ DataChannels \subseteq Queues
  /\ \A q \in Queues : q = ControlQueue \/ q \in DataChannels
  /\ \A s : ItemsIn(s, ControlQueue) = s.control
  /\ \A s : \A c \in DataChannels : ItemsIn(s, c) = s.data[c]
BY SchedulerAssumption DEF Queues, ControlQueue, ItemsIn

LEMMA ItemIs ==
  ASSUME NEW q \in Queues, NEW item \in ItemOf(q)
  PROVE  /\ item.channel = q /\ item.sequence \in Nat /\ item.size \in Nat
         /\ item.left \in 1 .. item.size /\ item.left \in Nat \ {0}
         /\ (item.priority = "data" <=> q \in DataChannels)
         /\ QueueOf(item) = q
<1>1. /\ item.channel = q /\ item.sequence \in Nat /\ item.size \in ItemSizes
      /\ item.left \in 1 .. item.size
      /\ item.priority = IF q = ControlQueue THEN "control" ELSE "data"
  BY DEF ItemOf
<1>2. item.size \in Nat
  BY <1>1, OutboundSchedulerAssumption
<1>3. item.left \in Nat \ {0}
  BY <1>1, <1>2
<1>4. item.priority = "data" <=> q \in DataChannels
  BY <1>1, QueuesAre
<1>5. QueueOf(item) = q
  BY <1>1 DEF QueueOf
<1>6. QED
  BY <1>1, <1>2, <1>3, <1>4, <1>5

LEMMA OrderIs ==
  ASSUME NEW s, SchedulerOK(s)
  PROVE  LET m == Len(s.control)
             n == Cardinality(Turn(s))
             order == ServiceOrder(s)
         IN  /\ m \in Nat /\ n \in Nat /\ Len(order) = m + n /\ DOMAIN order = 1 .. m + n
             /\ \A i \in 1 .. m : order[i] = s.control[i] /\ order[i] \in ItemOf(ControlQueue)
             /\ \A i \in 1 .. n : /\ Rotation(s)[i] \in Turn(s)
                                 /\ order[m + i] = s.data[Rotation(s)[i]][1]
                                 /\ order[m + i] \in ItemOf(Rotation(s)[i])
             /\ \A i \in DOMAIN order : order[i].left \in Nat \ {0}
<1> DEFINE m == Len(s.control)
           n == Cardinality(Turn(s))
           turn == Rotation(s)
           heads == Heads(s)
           order == ServiceOrder(s)
           Items == UNION { ItemOf(q) : q \in Queues }
<1>1. n \in Nat /\ DOMAIN turn = 1 .. n /\ \A i \in 1 .. n : turn[i] \in Turn(s)
  BY RotationIs DEF SchedulerOK
<1>2. s.control \in Seq(ItemOf(ControlQueue)) /\ m \in Nat /\ \A i \in 1 .. m : s.control[i] \in ItemOf(ControlQueue)
  BY QueuesAre, ElementOfSeq, LenProperties DEF SchedulerOK
<1>3. ASSUME NEW c \in Turn(s)
      PROVE  /\ c \in DataChannels /\ c \in Queues
             /\ Head(s.data[c]) = s.data[c][1] /\ s.data[c][1] \in ItemOf(c)
  <2>1. c \in DataChannels /\ c \in Queues /\ s.data[c] \in Seq(ItemOf(c)) /\ s.data[c] # << >>
    BY QueuesAre DEF SchedulerOK, Turn, InTurn
  <2>2. Head(s.data[c]) \in ItemOf(c) /\ Head(s.data[c]) = s.data[c][1]
    BY <2>1, HeadTailProperties
  <2>3. QED
    BY <2>1, <2>2
<1>4. heads = [ i \in 1 .. n |-> Head(s.data[turn[i]]) ]
  BY <1>1 DEF Heads
<1> HIDE DEF m, n, turn, heads
<1>5. \A i \in 1 .. n : heads[i] = s.data[turn[i]][1] /\ heads[i] \in ItemOf(turn[i]) /\ heads[i] \in Items
  BY <1>1, <1>3, <1>4
<1>6. \A i \in 1 .. m : s.control[i] \in Items
  BY <1>2, QueuesAre
<1> HIDE DEF Items
<1>7. heads \in Seq(Items) /\ Len(heads) = n
  <2>1. heads \in [ 1 .. n -> Items ]
    BY <1>4, <1>5
  <2>2. QED
    BY <1>1, <2>1, SeqDef, LenProperties
<1>8. s.control \in Seq(Items)
  BY <1>2, <1>6, LenProperties, SeqDef DEF m
<1>9. order = s.control \o heads
  BY DEF ServiceOrder, heads
<1> HIDE DEF order
<1>10. /\ order \in Seq(Items) /\ Len(order) = m + n
       /\ \A i \in 1 .. m + n : order[i] = IF i <= m THEN s.control[i] ELSE heads[i - m]
  BY <1>7, <1>8, <1>9, ConcatProperties DEF m
<1>11. DOMAIN order = 1 .. m + n
  BY <1>10, LenProperties
<1>12. \A i \in 1 .. m : order[i] = s.control[i] /\ order[i] \in ItemOf(ControlQueue)
  BY <1>1, <1>2, <1>10
<1>13. ASSUME NEW i \in 1 .. n
       PROVE  turn[i] \in Turn(s) /\ order[m + i] = s.data[turn[i]][1] /\ order[m + i] \in ItemOf(turn[i])
  <2>1. m + i \in 1 .. m + n /\ ~ (m + i <= m) /\ (m + i) - m = i
    BY <1>1, <1>2 DEF m
  <2>2. order[m + i] = heads[i]
    BY <1>10, <2>1
  <2>3. QED
    BY <1>1, <1>5, <2>2
<1>14. ASSUME NEW i \in DOMAIN order PROVE order[i].left \in Nat \ {0}
  <2>1. CASE i \in 1 .. m
    BY <1>12, <2>1, QueuesAre, ItemIs
  <2>2. CASE i \notin 1 .. m
    <3>1. i - m \in 1 .. n /\ m + (i - m) = i
      BY <1>1, <1>2, <1>11, <2>2 DEF m
    <3>2. order[i] \in ItemOf(turn[i - m]) /\ turn[i - m] \in Queues
      BY <1>3, <1>13, <3>1
    <3>3. QED
      BY <3>2, ItemIs
  <2>3. QED
    BY <2>1, <2>2
<1>15. QED
  BY <1>1, <1>2, <1>10, <1>11, <1>12, <1>13, <1>14 DEF m, n, turn, order

(* Bytes are taken of the items of an order, as a write takes them. *)
Taking(order, taken) ==
  /\ DOMAIN taken = DOMAIN order
  /\ \A i \in DOMAIN order : taken[i] \in 0 .. order[i].left
  /\ \A i, j \in DOMAIN order : i < j /\ taken[j] > 0 => taken[i] = order[i].left

(* The position of the channel of a data queue that is served. *)
LEMMA ServedIs ==
  ASSUME NEW s, SchedulerOK(s), NEW taken, Taking(ServiceOrder(s), taken), NEW c \in DataChannels
  PROVE  \/ /\ Served(ServiceOrder(s), taken, c) = 0
            /\ \A i \in 1 .. Cardinality(Turn(s)) : Rotation(s)[i] = c => taken[Len(s.control) + i] = 0
         \/ \E i \in 1 .. Cardinality(Turn(s)) :
              /\ Rotation(s)[i] = c
              /\ Served(ServiceOrder(s), taken, c) = Len(s.control) + i
              /\ taken[Len(s.control) + i] > 0
<1> DEFINE m == Len(s.control)
           n == Cardinality(Turn(s))
           order == ServiceOrder(s)
           turn == Rotation(s)
           at == { i \in DOMAIN order : /\ order[i].priority = "data"
                                        /\ order[i].channel = c
                                        /\ taken[i] > 0 }
<1>1. /\ m \in Nat /\ n \in Nat /\ DOMAIN order = 1 .. m + n
      /\ \A i \in 1 .. m : order[i] \in ItemOf(ControlQueue)
      /\ \A i \in 1 .. n : turn[i] \in Turn(s) /\ order[m + i] \in ItemOf(turn[i])
  BY OrderIs
<1>2. Served(order, taken, c) = IF at = {} THEN 0 ELSE CHOOSE i \in at : TRUE
  BY DEF Served
<1> HIDE DEF m, n, order, turn
<1>3. ASSUME NEW i \in at PROVE i - m \in 1 .. n /\ m + (i - m) = i /\ turn[i - m] = c /\ taken[i] > 0
  <2>1. i \notin 1 .. m
    BY <1>1, QueuesAre, ItemIs
  <2>2. i - m \in 1 .. n /\ m + (i - m) = i
    BY <1>1, <2>1
  <2>3. order[i] \in ItemOf(turn[i - m]) /\ turn[i - m] \in Queues
    BY <1>1, <2>2, QueuesAre DEF Turn
  <2>4. QED
    BY <2>2, <2>3, ItemIs
<1>4. ASSUME NEW i \in 1 .. n, turn[i] = c, taken[m + i] > 0 PROVE m + i \in at
  <2>1. m + i \in DOMAIN order
    BY <1>1
  <2>2. order[m + i] \in ItemOf(c) /\ c \in Queues
    BY <1>1, <1>4, QueuesAre
  <2>3. order[m + i].priority = "data" /\ order[m + i].channel = c
    BY <2>2, ItemIs
  <2>4. QED
    BY <1>4, <2>1, <2>3
<1>5. CASE at = {}
  <2>1. Served(order, taken, c) = 0
    BY <1>2, <1>5
  <2>2. ASSUME NEW i \in 1 .. n, turn[i] = c PROVE taken[m + i] = 0
    <3>1. ~ (taken[m + i] > 0)
      BY <1>4, <1>5, <2>2
    <3>2. m + i \in DOMAIN order
      BY <1>1
    <3>3. taken[m + i] \in 0 .. order[m + i].left
      BY <3>2 DEF Taking, order
    <3>4. QED
      BY <3>1, <3>3
  <2>3. QED
    BY <2>1, <2>2 DEF m, n, order, turn
<1>6. CASE at # {}
  <2>1. PICK k \in at : Served(order, taken, c) = k
    BY <1>2, <1>6
  <2>2. k - m \in 1 .. n /\ m + (k - m) = k /\ turn[k - m] = c /\ taken[k] > 0
    BY <1>3
  <2>3. QED
    BY <2>1, <2>2 DEF m, n, order, turn
<1>7. QED
  BY <1>5, <1>6

(* The control items that are written whole come first. *)
LEMMA ControlSent ==
  ASSUME NEW s, SchedulerOK(s), NEW taken, Taking(ServiceOrder(s), taken),
         NEW W, W = { i \in 1 .. Len(s.control) : Rest(ServiceOrder(s)[i], taken[i]).left = 0 }
  PROVE  /\ Cardinality(W) \in 0 .. Len(s.control)
         /\ \A i \in 1 .. Len(s.control) : taken[i] = s.control[i].left <=> i <= Cardinality(W)
<1> DEFINE m == Len(s.control)
           n == Cardinality(Turn(s))
           order == ServiceOrder(s)
<1>1. /\ m \in Nat /\ n \in Nat /\ DOMAIN order = 1 .. m + n
      /\ \A i \in 1 .. m : order[i] = s.control[i] /\ order[i] \in ItemOf(ControlQueue)
  BY OrderIs
<1> HIDE DEF m, n, order
<1>2. ASSUME NEW i \in 1 .. m
      PROVE  /\ order[i].left \in Nat \ {0} /\ taken[i] \in 0 .. order[i].left
             /\ Rest(order[i], taken[i]).left = order[i].left - taken[i]
             /\ order[i].left = s.control[i].left
  <2>1. order[i].left \in Nat \ {0}
    BY <1>1, QueuesAre, ItemIs
  <2>2. i \in DOMAIN order
    BY <1>1
  <2>3. taken[i] \in 0 .. order[i].left
    BY <2>2 DEF Taking, order
  <2>4. Rest(order[i], taken[i]).left = order[i].left - taken[i]
    BY <1>1 DEF Rest, ItemOf
  <2>5. QED
    BY <1>1, <2>1, <2>3, <2>4
<1>3. W = { i \in 1 .. m : taken[i] = order[i].left }
  <2>1. W = { i \in 1 .. m : Rest(order[i], taken[i]).left = 0 }
    BY DEF m, order
  <2>2. ASSUME NEW i \in 1 .. m
        PROVE  (Rest(order[i], taken[i]).left = 0) <=> (taken[i] = order[i].left)
    <3>1. PICK x \in Nat, y \in Int : x = order[i].left /\ y = taken[i]
      BY <1>2
    <3>2. x - y = 0 <=> y = x
      OBVIOUS
    <3>3. QED
      BY <1>2, <3>1, <3>2
  <2>3. QED
    BY <2>1, <2>2, Zenon
<1>4. ASSUME NEW i \in 1 .. m, NEW j \in W, i < j PROVE i \in W
  <2>1. j \in 1 .. m /\ taken[j] > 0
    BY <1>2, <1>3
  <2>2. i \in DOMAIN order /\ j \in DOMAIN order
    BY <1>1, <2>1
  <2>3. taken[i] = order[i].left
    BY <1>4, <2>1, <2>2 DEF Taking, order
  <2>4. QED
    BY <1>3, <2>3
<1>5. W \in SUBSET (1 .. m)
  BY <1>3
<1>6. Cardinality(W) \in 0 .. m /\ W = 1 .. Cardinality(W)
  BY <1>1, <1>4, <1>5, Segment
<1>7. ASSUME NEW i \in 1 .. m PROVE taken[i] = s.control[i].left <=> i <= Cardinality(W)
  <2>1. i \in W <=> taken[i] = s.control[i].left
    BY <1>2, <1>3
  <2>2. i \in 1 .. Cardinality(W) <=> i <= Cardinality(W)
    BY <1>1, <1>6
  <2>3. QED
    BY <1>6, <2>1, <2>2
<1>8. QED
  BY <1>6, <1>7 DEF m

-----------------------------------------------------------------------------
(* What a drain leaves of each queue *)

(* The bytes taken of the i-th item of queue q. *)
TakenOf(s, taken, q, i) ==
  IF q = ControlQueue THEN taken[i]
  ELSE IF i = 1 /\ Served(ServiceOrder(s), taken, q) # 0 THEN taken[Served(ServiceOrder(s), taken, q)]
  ELSE 0

(* How many items of queue q are written whole. *)
Shift(s, taken, q) ==
  IF q = ControlQueue
  THEN Cardinality({ i \in 1 .. Len(s.control) : Rest(ServiceOrder(s)[i], taken[i]).left = 0 })
  ELSE IF s.data[q] # << >> /\ TakenOf(s, taken, q, 1) = s.data[q][1].left THEN 1 ELSE 0

(* The new queue is the old one without what has been taken. *)
Moves(old, new, q, k, s, taken) ==
  /\ k \in 0 .. Len(old) /\ Len(old) \in Nat
  /\ new \in Seq(ItemOf(q)) /\ Len(new) = Len(old) - k
  /\ \A i \in 1 .. Len(old) : /\ TakenOf(s, taken, q, i) \in 0 .. old[i].left
                             /\ (TakenOf(s, taken, q, i) = old[i].left <=> i <= k)
  /\ \A i \in 1 .. Len(new) : /\ new[i].left = old[k + i].left - TakenOf(s, taken, q, k + i)
                             /\ new[i].sequence = old[k + i].sequence /\ new[i].size = old[k + i].size

LEMMA RestIs ==
  ASSUME NEW q \in Queues, NEW item \in ItemOf(q), NEW n \in 0 .. item.left
  PROVE  /\ Rest(item, n).left = item.left - n
         /\ Rest(item, n).sequence = item.sequence /\ Rest(item, n).size = item.size
         /\ (n # item.left => Rest(item, n) \in ItemOf(q))
         /\ (Rest(item, n).left = 0 <=> n = item.left)
<1>1. item.left \in 1 .. item.size /\ item.left \in Nat /\ item.size \in Nat
  BY ItemIs
<1>2. item \in [ priority : { "control", "data" }, channel : { q }, sequence : Nat, size : ItemSizes, left : Nat ]
  BY DEF ItemOf
<1>3. Rest(item, n) = [ item EXCEPT !.left = item.left - n ]
  BY DEF Rest
<1>4. item.left - n \in Nat /\ (n # item.left => item.left - n \in 1 .. item.size)
  BY <1>1
<1>5. /\ Rest(item, n) \in [ priority : { "control", "data" }, channel : { q }, sequence : Nat,
                             size : ItemSizes, left : Nat ]
      /\ Rest(item, n).left = item.left - n /\ Rest(item, n).sequence = item.sequence
      /\ Rest(item, n).size = item.size /\ Rest(item, n).priority = item.priority
  BY <1>2, <1>3, <1>4
<1>6. n # item.left => Rest(item, n) \in ItemOf(q)
  BY <1>4, <1>5 DEF ItemOf
<1>7. item.left - n = 0 <=> n = item.left
  BY <1>1
<1>8. QED
  BY <1>5, <1>6, <1>7

LEMMA ControlMoves ==
  ASSUME NEW s, SchedulerOK(s), NEW taken, Taking(ServiceOrder(s), taken)
  PROVE  Moves(s.control, Drained(s, ServiceOrder(s), taken).control, ControlQueue,
               Shift(s, taken, ControlQueue), s, taken)
<1> DEFINE m == Len(s.control)
           n == Cardinality(Turn(s))
           order == ServiceOrder(s)
           k == Shift(s, taken, ControlQueue)
           rest == [ i \in DOMAIN order |-> Rest(order[i], taken[i]) ]
           W == { i \in 1 .. m : rest[i].left = 0 }
           new == Drained(s, order, taken).control
<1>1. /\ m \in Nat /\ n \in Nat /\ DOMAIN order = 1 .. m + n
      /\ \A i \in 1 .. m : order[i] = s.control[i] /\ order[i] \in ItemOf(ControlQueue)
  BY OrderIs
<1>2. new = SubSeq(rest, Cardinality(W) + 1, m)
  BY DEF Drained
<1>3. W = { i \in 1 .. m : Rest(order[i], taken[i]).left = 0 }
  BY <1>1
<1>4. k = Cardinality(W)
  BY <1>3 DEF Shift
<1> HIDE DEF m, n, order, k, W, new
<1>5. k \in 0 .. m /\ \A i \in 1 .. m : taken[i] = s.control[i].left <=> i <= k
  BY <1>3, <1>4, ControlSent DEF m, order
<1>6. ASSUME NEW i \in 1 .. m
      PROVE  /\ rest[i] = Rest(order[i], taken[i]) /\ taken[i] \in 0 .. order[i].left
             /\ rest[i].left = order[i].left - taken[i]
             /\ rest[i].sequence = order[i].sequence /\ rest[i].size = order[i].size
             /\ (i > k => rest[i] \in ItemOf(ControlQueue))
  <2>1. i \in DOMAIN order
    BY <1>1
  <2>2. taken[i] \in 0 .. order[i].left
    BY <2>1 DEF Taking, order
  <2>3. i > k => taken[i] # order[i].left
    BY <1>1, <1>5
  <2>4. order[i] \in ItemOf(ControlQueue) /\ ControlQueue \in Queues /\ rest[i] = Rest(order[i], taken[i])
    BY <1>1, <2>1, QueuesAre
  <2> HIDE DEF rest
  <2>5. QED
    BY <2>2, <2>3, <2>4, RestIs
<1> HIDE DEF rest
<1>7. /\ new \in Seq(ItemOf(ControlQueue)) /\ Len(new) = m - k
      /\ \A i \in 1 .. m - k : new[i] = rest[k + i]
  <2>1. PICK a \in Nat : a = k + 1 /\ a <= m + 1
    BY <1>1, <1>5
  <2>2. \A i \in a .. m : rest[i] \in ItemOf(ControlQueue)
    BY <1>1, <1>5, <1>6, <2>1
  <2>3. /\ SubSeq(rest, a, m) \in Seq(ItemOf(ControlQueue))
        /\ Len(SubSeq(rest, a, m)) = IF a <= m THEN m - a + 1 ELSE 0
        /\ \A i \in 1 .. m - a + 1 : SubSeq(rest, a, m)[i] = rest[a + i - 1]
    BY <1>1, <2>1, <2>2, SubSeqProperties
  <2>4. new = SubSeq(rest, a, m)
    BY <1>2, <1>4, <2>1
  <2>5. (IF a <= m THEN m - a + 1 ELSE 0) = m - k /\ m - a + 1 = m - k
    BY <1>1, <1>5, <2>1
  <2>6. \A i \in 1 .. m - k : a + i - 1 = k + i
    BY <1>1, <1>5, <2>1
  <2>7. QED
    BY <2>3, <2>4, <2>5, <2>6
<1>8. \A i : TakenOf(s, taken, ControlQueue, i) = taken[i]
  BY DEF TakenOf
<1>9. \A i \in 1 .. m : taken[i] \in 0 .. s.control[i].left
  BY <1>1, <1>6
<1>10. \A i \in 1 .. m - k : /\ new[i].left = s.control[k + i].left - taken[k + i]
                           /\ new[i].sequence = s.control[k + i].sequence /\ new[i].size = s.control[k + i].size
  <2> SUFFICES ASSUME NEW i \in 1 .. m - k
               PROVE  /\ new[i].left = s.control[k + i].left - taken[k + i]
                      /\ new[i].sequence = s.control[k + i].sequence /\ new[i].size = s.control[k + i].size
    OBVIOUS
  <2>1. k + i \in 1 .. m
    BY <1>1, <1>5
  <2>2. new[i] = rest[k + i] /\ order[k + i] = s.control[k + i]
    BY <1>1, <1>7, <2>1
  <2>3. QED
    BY <1>6, <2>1, <2>2
<1>11. Moves(s.control, new, ControlQueue, k, s, taken)
  <2>1. k \in 0 .. Len(s.control) /\ Len(s.control) \in Nat
    BY <1>1, <1>5 DEF m
  <2>2. new \in Seq(ItemOf(ControlQueue)) /\ Len(new) = Len(s.control) - k
    BY <1>7 DEF m
  <2>3. \A i \in 1 .. Len(s.control) :
          /\ TakenOf(s, taken, ControlQueue, i) \in 0 .. s.control[i].left
          /\ (TakenOf(s, taken, ControlQueue, i) = s.control[i].left <=> i <= k)
    BY <1>5, <1>8, <1>9 DEF m
  <2>4. \A i \in 1 .. Len(new) :
          /\ new[i].left = s.control[k + i].left - TakenOf(s, taken, ControlQueue, k + i)
          /\ new[i].sequence = s.control[k + i].sequence /\ new[i].size = s.control[k + i].size
    BY <1>7, <1>8, <1>10
  <2>5. QED
    BY <2>1, <2>2, <2>3, <2>4 DEF Moves
<1>12. QED
  BY <1>11 DEF new, k, order

LEMMA DataMoves ==
  ASSUME NEW s, SchedulerOK(s), NEW taken, Taking(ServiceOrder(s), taken), NEW c \in DataChannels
  PROVE  Moves(s.data[c], Drained(s, ServiceOrder(s), taken).data[c], c, Shift(s, taken, c), s, taken)
<1> DEFINE m == Len(s.control)
           n == Cardinality(Turn(s))
           order == ServiceOrder(s)
           old == s.data[c]
           new == Drained(s, order, taken).data[c]
           k == Shift(s, taken, c)
           at == Served(order, taken, c)
           T(i) == TakenOf(s, taken, c, i)
<1>1. c \in Queues /\ c # ControlQueue /\ old \in Seq(ItemOf(c))
  BY QueuesAre DEF SchedulerOK
<1>2. Len(old) \in Nat /\ DOMAIN old = 1 .. Len(old)
  BY <1>1, LenProperties
<1>3. \A i \in 1 .. Len(old) : old[i] \in ItemOf(c) /\ old[i].left \in Nat \ {0}
  BY <1>1, <1>2, ElementOfSeq, ItemIs
<1>4. k = IF old # << >> /\ T(1) = old[1].left THEN 1 ELSE 0
  BY <1>1 DEF Shift
<1>5. CASE at = 0
  <2>1. new = old
    BY <1>5 DEF Drained
  <2>2. \A i : T(i) = 0
    BY <1>1, <1>5 DEF TakenOf
  <2>3. k = 0
    <3>1. old # << >> => 1 \in 1 .. Len(old)
      BY <1>1, <1>2, EmptySeq
    <3>2. QED
      BY <1>3, <1>4, <2>2, <3>1
  <2> HIDE DEF new, old, k, T
  <2>4. \A i \in 1 .. Len(old) : T(i) \in 0 .. old[i].left /\ (T(i) = old[i].left <=> i <= k)
    BY <1>2, <1>3, <2>2, <2>3
  <2>5. \A i \in 1 .. Len(new) : /\ new[i].left = old[k + i].left - T(k + i)
                                /\ new[i].sequence = old[k + i].sequence /\ new[i].size = old[k + i].size
    BY <1>2, <1>3, <2>1, <2>2, <2>3
  <2>6. k \in 0 .. Len(old) /\ new \in Seq(ItemOf(c)) /\ Len(new) = Len(old) - k
    BY <1>1, <1>2, <2>1, <2>3
  <2>7. QED
    BY <1>2, <2>4, <2>5, <2>6 DEF Moves, new, old, k, T
<1>6. CASE at # 0
  <2>1. PICK j \in 1 .. n : Rotation(s)[j] = c /\ at = m + j /\ taken[at] > 0
    BY <1>6, ServedIs
  <2>2. /\ m \in Nat /\ n \in Nat /\ DOMAIN order = 1 .. m + n
        /\ c \in Turn(s) /\ order[at] = old[1]
    BY <2>1, OrderIs
  <2>3. old # << >> /\ 1 \in 1 .. Len(old)
    <3>1. old # << >>
      BY <2>2 DEF Turn, InTurn
    <3>2. Len(old) # 0
      BY <1>1, <3>1, EmptySeq
    <3>3. QED
      BY <1>2, <3>1, <3>2
  <2>4. at \in DOMAIN order
    BY <2>1, <2>2
  <2>5. taken[at] \in 0 .. old[1].left
    BY <2>2, <2>4 DEF Taking
  <2>6. T(1) = taken[at] /\ \A i : i # 1 => T(i) = 0
    BY <1>1, <1>6 DEF TakenOf
  <2> DEFINE first == Rest(old[1], taken[at])
  <2>7. new = IF first.left = 0 THEN Tail(old) ELSE [ old EXCEPT ![1] = first ]
    BY <1>6, <2>2, <2>4 DEF Drained
  <2> HIDE DEF m, n, order, at, new, old, k, T, first
  <2>8. /\ first.left = old[1].left - taken[at]
        /\ first.sequence = old[1].sequence /\ first.size = old[1].size
        /\ (taken[at] # old[1].left => first \in ItemOf(c))
        /\ (first.left = 0 <=> taken[at] = old[1].left)
    BY <1>1, <1>3, <2>3, <2>5, RestIs DEF first
  <2>9. CASE taken[at] = old[1].left
    <3>1. k = 1 /\ new = Tail(old)
      BY <1>4, <2>3, <2>6, <2>7, <2>8, <2>9
    <3>2. new \in Seq(ItemOf(c)) /\ Len(new) = Len(old) - 1 /\ \A i \in 1 .. Len(old) - 1 : new[i] = old[i + 1]
      BY <1>1, <2>3, <3>1, HeadTailProperties
    <3>3. \A i \in 1 .. Len(old) : T(i) \in 0 .. old[i].left /\ (T(i) = old[i].left <=> i <= k)
      <4> SUFFICES ASSUME NEW i \in 1 .. Len(old)
                   PROVE  T(i) \in 0 .. old[i].left /\ (T(i) = old[i].left <=> i <= k)
        OBVIOUS
      <4>1. CASE i = 1
        BY <2>5, <2>6, <2>9, <3>1, <4>1
      <4>2. CASE i # 1
        BY <1>2, <1>3, <2>6, <3>1, <4>2
      <4>3. QED
        BY <4>1, <4>2
    <3>4. \A i \in 1 .. Len(new) : /\ new[i].left = old[k + i].left - T(k + i)
                                  /\ new[i].sequence = old[k + i].sequence /\ new[i].size = old[k + i].size
      <4> SUFFICES ASSUME NEW i \in 1 .. Len(new)
                   PROVE  /\ new[i].left = old[k + i].left - T(k + i)
                          /\ new[i].sequence = old[k + i].sequence /\ new[i].size = old[k + i].size
        OBVIOUS
      <4>1. i + 1 \in 1 .. Len(old) /\ k + i = i + 1 /\ i + 1 # 1 /\ i \in 1 .. Len(old) - 1
        BY <1>2, <3>1, <3>2
      <4>2. new[i] = old[i + 1] /\ T(i + 1) = 0 /\ old[i + 1].left \in Nat
        BY <1>3, <2>6, <3>2, <4>1
      <4>3. QED
        BY <4>1, <4>2
    <3>5. k \in 0 .. Len(old) /\ Len(new) = Len(old) - k
      BY <1>2, <2>3, <3>1, <3>2
    <3>6. QED
      BY <1>2, <3>2, <3>3, <3>4, <3>5 DEF Moves, new, old, k, T, order
  <2>10. CASE taken[at] # old[1].left
    <3>1. k = 0 /\ new = [ old EXCEPT ![1] = first ] /\ first \in ItemOf(c)
      BY <1>4, <2>6, <2>7, <2>8, <2>10
    <3>2. /\ new \in Seq(ItemOf(c)) /\ Len(new) = Len(old)
          /\ new[1] = first /\ \A i \in 1 .. Len(old) : i # 1 => new[i] = old[i]
      BY <1>1, <1>2, <2>3, <3>1, ExceptSeq
    <3>3. \A i \in 1 .. Len(old) : T(i) \in 0 .. old[i].left /\ (T(i) = old[i].left <=> i <= k)
      <4> SUFFICES ASSUME NEW i \in 1 .. Len(old)
                   PROVE  T(i) \in 0 .. old[i].left /\ (T(i) = old[i].left <=> i <= k)
        OBVIOUS
      <4>1. CASE i = 1
        BY <2>5, <2>6, <2>10, <3>1, <4>1
      <4>2. CASE i # 1
        BY <1>2, <1>3, <2>6, <3>1, <4>2
      <4>3. QED
        BY <4>1, <4>2
    <3>4. \A i \in 1 .. Len(new) : /\ new[i].left = old[k + i].left - T(k + i)
                                  /\ new[i].sequence = old[k + i].sequence /\ new[i].size = old[k + i].size
      <4> SUFFICES ASSUME NEW i \in 1 .. Len(new)
                   PROVE  /\ new[i].left = old[k + i].left - T(k + i)
                          /\ new[i].sequence = old[k + i].sequence /\ new[i].size = old[k + i].size
        OBVIOUS
      <4>1. i \in 1 .. Len(old) /\ k + i = i
        BY <1>2, <3>1, <3>2
      <4>2. CASE i = 1
        BY <2>6, <2>8, <3>2, <4>1, <4>2
      <4>3. CASE i # 1
        <5>1. new[i] = old[i] /\ T(i) = 0 /\ old[i].left \in Nat
          BY <1>3, <2>6, <3>2, <4>1, <4>3
        <5>2. QED
          BY <4>1, <5>1
      <4>4. QED
        BY <4>2, <4>3
    <3>5. k \in 0 .. Len(old) /\ Len(new) = Len(old) - k
      BY <1>2, <3>1, <3>2
    <3>6. QED
      BY <1>2, <3>2, <3>3, <3>4, <3>5 DEF Moves, new, old, k, T, order
  <2>11. QED
    BY <2>9, <2>10
<1>7. QED
  BY <1>5, <1>6

(* A drain, queue by queue. *)
LEMMA QueueMoves ==
  ASSUME NEW s, SchedulerOK(s), NEW taken, Taking(ServiceOrder(s), taken),
         NEW r, r = Drained(s, ServiceOrder(s), taken), NEW q \in Queues
  PROVE  Moves(ItemsIn(s, q), ItemsIn(r, q), q, Shift(s, taken, q), s, taken)
<1>1. CASE q = ControlQueue
  BY <1>1, QueuesAre, ControlMoves
<1>2. CASE q # ControlQueue
  BY <1>2, QueuesAre, DataMoves
<1>3. QED
  BY <1>1, <1>2

-----------------------------------------------------------------------------
(* Accounting of bytes *)

LEMMA UnsentIs ==
  ASSUME NEW s
  PROVE  \A x : x \in Unsent(s) <=>
                \E q \in Queues : \E i \in DOMAIN ItemsIn(s, q) : \E b \in 1 .. ItemsIn(s, q)[i].left :
                  x = << << q, i >>, b >>
BY DEF Unsent

(* Where the k-th item of an order is queued. *)
Place(s, k) == IF k <= Len(s.control) THEN << ControlQueue, k >> ELSE << Rotation(s)[k - Len(s.control)], 1 >>

LEMMA PlacesAre ==
  ASSUME NEW s, SchedulerOK(s), NEW taken, Taking(ServiceOrder(s), taken)
  PROVE  /\ \A k \in DOMAIN taken :
              \E q \in Queues : \E i \in DOMAIN ItemsIn(s, q) :
                /\ Place(s, k) = << q, i >>
                /\ taken[k] \in 0 .. ItemsIn(s, q)[i].left
                /\ (taken[k] > 0 => TakenOf(s, taken, q, i) = taken[k])
         /\ \A k, l \in DOMAIN taken : Place(s, k) = Place(s, l) => k = l
         /\ \A q \in Queues : \A i \in DOMAIN ItemsIn(s, q) :
              TakenOf(s, taken, q, i) > 0 =>
                \E k \in DOMAIN taken : Place(s, k) = << q, i >> /\ taken[k] = TakenOf(s, taken, q, i)
<1> DEFINE m == Len(s.control)
           n == Cardinality(Turn(s))
           order == ServiceOrder(s)
           turn == Rotation(s)
<1>1. /\ m \in Nat /\ n \in Nat /\ DOMAIN order = 1 .. m + n /\ DOMAIN taken = 1 .. m + n
      /\ \A i \in 1 .. m : order[i] = s.control[i]
      /\ \A i \in 1 .. n : turn[i] \in Turn(s) /\ order[m + i] = s.data[turn[i]][1]
  BY OrderIs DEF Taking
<1>2. /\ DOMAIN turn = 1 .. n /\ Turn(s) \subseteq DataChannels /\ Turn(s) \subseteq Nat
      /\ \A i, j \in 1 .. n : i < j <=> Sooner(s.cursor, turn[i], turn[j])
  BY RotationIs, SchedulerAssumption DEF SchedulerOK, Turn
<1>3. \A i, j \in 1 .. n : turn[i] = turn[j] => i = j
  <2> SUFFICES ASSUME NEW i \in 1 .. n, NEW j \in 1 .. n, turn[i] = turn[j] PROVE i = j
    OBVIOUS
  <2>1. ~ Sooner(s.cursor, turn[i], turn[j]) /\ ~ Sooner(s.cursor, turn[j], turn[i])
    BY <1>1, <1>2, SoonerIsOrder DEF SchedulerOK
  <2>2. ~ (i < j) /\ ~ (j < i)
    BY <1>2, <2>1
  <2>3. QED
    BY <2>2
<1>4. \A k \in 1 .. m + n : taken[k] \in 0 .. order[k].left
  BY <1>1 DEF Taking
<1>5. \A k : TakenOf(s, taken, ControlQueue, k) = taken[k]
  BY DEF TakenOf
<1>6. DOMAIN ItemsIn(s, ControlQueue) = 1 .. m
  BY QueuesAre, LenProperties DEF SchedulerOK
<1>7. ASSUME NEW c \in Turn(s) PROVE c \in Queues /\ c # ControlQueue /\ 1 \in DOMAIN ItemsIn(s, c)
  <2>1. c \in Queues /\ c # ControlQueue /\ s.data[c] \in Seq(ItemOf(c)) /\ s.data[c] # << >>
    BY <1>2, QueuesAre DEF SchedulerOK, Turn, InTurn
  <2>2. QED
    BY <1>2, <2>1, QueuesAre, EmptySeq, LenProperties
<1>8. ASSUME NEW i \in 1 .. n, taken[m + i] > 0 PROVE TakenOf(s, taken, turn[i], 1) = taken[m + i]
  <2>1. turn[i] \in DataChannels /\ turn[i] # ControlQueue
    BY <1>1, <1>2, <1>7
  <2>2. PICK j \in 1 .. n : turn[j] = turn[i] /\ Served(order, taken, turn[i]) = m + j
    <3>1. m + i \in 1 .. m + n /\ taken[m + i] \in Nat /\ taken[m + i] # 0
      BY <1>1, <1>4, <1>8
    <3>2. QED
      BY <2>1, <3>1, ServedIs
  <2>3. j = i
    BY <1>3, <2>2
  <2>4. Served(order, taken, turn[i]) = m + i /\ m + i # 0
    BY <1>1, <2>2, <2>3
  <2>5. QED
    BY <2>1, <2>4 DEF TakenOf
<1> HIDE DEF m, n, order, turn
<1>9. /\ \A k \in 1 .. m : Place(s, k) = << ControlQueue, k >>
      /\ \A i \in 1 .. n : Place(s, m + i) = << turn[i], 1 >>
  <2>1. ASSUME NEW i \in 1 .. n PROVE Place(s, m + i) = << turn[i], 1 >>
    <3>1. ~ (m + i <= m) /\ (m + i) - m = i
      BY <1>1
    <3>2. QED
      BY <3>1 DEF Place, m, turn
  <2>2. QED
    BY <1>1, <2>1 DEF Place, m
<1>10. ASSUME NEW k \in 1 .. m + n PROVE k \in 1 .. m \/ \E i \in 1 .. n : k = m + i
  <2>1. k \notin 1 .. m => k - m \in 1 .. n /\ k = m + (k - m)
    BY <1>1
  <2>2. QED
    BY <2>1
<1>11. ASSUME NEW k \in 1 .. m + n
       PROVE  \E q \in Queues : \E i \in DOMAIN ItemsIn(s, q) :
                /\ Place(s, k) = << q, i >>
                /\ taken[k] \in 0 .. ItemsIn(s, q)[i].left
                /\ (taken[k] > 0 => TakenOf(s, taken, q, i) = taken[k])
  <2>1. CASE k \in 1 .. m
    <3>1. taken[k] \in 0 .. ItemsIn(s, ControlQueue)[k].left
      BY <1>1, <1>4, <2>1, QueuesAre
    <3>2. QED
      BY <1>5, <1>6, <1>9, <2>1, <3>1, QueuesAre
  <2>2. CASE \E i \in 1 .. n : k = m + i
    <3>1. PICK i \in 1 .. n : k = m + i
      BY <2>2
    <3>2. turn[i] \in Turn(s) /\ turn[i] \in Queues /\ 1 \in DOMAIN ItemsIn(s, turn[i])
      BY <1>1, <1>7
    <3>3. order[k] = ItemsIn(s, turn[i])[1]
      BY <1>1, <1>2, <3>1, <3>2, QueuesAre
    <3>4. taken[k] \in 0 .. ItemsIn(s, turn[i])[1].left
      BY <1>4, <3>3
    <3>5. Place(s, k) = << turn[i], 1 >> /\ (taken[k] > 0 => TakenOf(s, taken, turn[i], 1) = taken[k])
      BY <1>8, <1>9, <3>1
    <3>6. QED
      BY <3>2, <3>4, <3>5
  <2>3. QED
    BY <1>10, <2>1, <2>2
<1>12. ASSUME NEW k \in 1 .. m + n, NEW l \in 1 .. m + n, Place(s, k) = Place(s, l) PROVE k = l
  <2>1. CASE k \in 1 .. m /\ l \in 1 .. m
    BY <1>9, <1>12, <2>1
  <2>2. ASSUME NEW i \in 1 .. n, NEW j \in 1 .. m PROVE Place(s, m + i) # Place(s, j)
    <3>1. Place(s, m + i) = << turn[i], 1 >> /\ Place(s, j) = << ControlQueue, j >>
      BY <1>9
    <3>2. turn[i] # ControlQueue
      BY <1>1, <1>7
    <3>3. QED
      BY <3>1, <3>2
  <2>3. ASSUME NEW i \in 1 .. n, NEW j \in 1 .. n, Place(s, m + i) = Place(s, m + j) PROVE m + i = m + j
    BY <1>3, <1>9, <2>3
  <2>4. QED
    BY <1>10, <1>12, <2>1, <2>2, <2>3
<1>13. ASSUME NEW q \in Queues, NEW i \in DOMAIN ItemsIn(s, q), TakenOf(s, taken, q, i) > 0
       PROVE  \E k \in 1 .. m + n : Place(s, k) = << q, i >> /\ taken[k] = TakenOf(s, taken, q, i)
  <2>1. CASE q = ControlQueue
    <3>1. i \in 1 .. m /\ i \in 1 .. m + n
      BY <1>1, <1>6, <2>1
    <3>2. QED
      BY <1>5, <1>9, <2>1, <3>1
  <2>2. CASE q # ControlQueue
    <3>1. q \in DataChannels
      BY <2>2, QueuesAre
    <3>2. i = 1 /\ Served(order, taken, q) # 0 /\ TakenOf(s, taken, q, i) = taken[Served(order, taken, q)]
      BY <1>13, <2>2 DEF TakenOf, order
    <3>3. PICK j \in 1 .. n : turn[j] = q /\ Served(order, taken, q) = m + j
      BY <3>1, <3>2, ServedIs DEF m, n, order, turn
    <3>4. m + j \in 1 .. m + n
      BY <1>1
    <3>5. QED
      BY <1>9, <3>2, <3>3, <3>4
  <2>3. QED
    BY <2>1, <2>2
<1>14. QED
  BY <1>1, <1>11, <1>12, <1>13

LEMMA MovesAre ==
  ASSUME NEW s, SchedulerOK(s), NEW taken, Taking(ServiceOrder(s), taken),
         NEW r, r = Drained(s, ServiceOrder(s), taken), NEW q \in Queues,
         NEW old, old = ItemsIn(s, q), NEW new, new = ItemsIn(r, q), NEW k, k = Shift(s, taken, q)
  PROVE  /\ k \in Nat /\ DOMAIN old \subseteq Nat /\ DOMAIN new \subseteq Nat
         /\ \A i \in DOMAIN old : /\ old[i].left \in Nat /\ TakenOf(s, taken, q, i) \in Nat
                                 /\ TakenOf(s, taken, q, i) <= old[i].left
                                 /\ (TakenOf(s, taken, q, i) = old[i].left <=> i <= k)
         /\ \A i \in DOMAIN new : /\ i + k \in DOMAIN old
                                 /\ new[i].left = old[i + k].left - TakenOf(s, taken, q, i + k)
         /\ \A i \in DOMAIN old : i > k => i - k \in DOMAIN new
<1>1. Moves(old, new, q, k, s, taken)
  BY QueueMoves
<1>2. old \in Seq(ItemOf(q)) /\ new \in Seq(ItemOf(q))
  BY <1>1 DEF SchedulerOK, Moves
<1>3. DOMAIN old = 1 .. Len(old) /\ DOMAIN new = 1 .. Len(new)
  BY <1>2, LenProperties
<1>4. \A i \in DOMAIN old : old[i].left \in Nat
  BY <1>2, <1>3, ElementOfSeq, ItemIs
<1>5. k \in 0 .. Len(old) /\ Len(old) \in Nat /\ Len(new) = Len(old) - k
  BY <1>1 DEF Moves
<1>6. \A i \in 1 .. Len(old) : /\ TakenOf(s, taken, q, i) \in 0 .. old[i].left
                             /\ (TakenOf(s, taken, q, i) = old[i].left <=> i <= k)
  BY <1>1 DEF Moves
<1>7. \A i \in 1 .. Len(new) : new[i].left = old[k + i].left - TakenOf(s, taken, q, k + i)
  BY <1>1 DEF Moves
<1>8. ASSUME NEW i \in DOMAIN old
      PROVE  /\ TakenOf(s, taken, q, i) \in Nat /\ TakenOf(s, taken, q, i) <= old[i].left
             /\ (TakenOf(s, taken, q, i) = old[i].left <=> i <= k)
             /\ (i > k => i - k \in DOMAIN new)
  <2>1. old[i].left \in Nat /\ TakenOf(s, taken, q, i) \in 0 .. old[i].left
    <3>1. i \in 1 .. Len(old)
      BY <1>3
    <3>2. TakenOf(s, taken, q, i) \in 0 .. old[i].left
      BY <1>6, <3>1, Zenon
    <3>3. QED
      BY <1>4, <3>2
  <2>2. i > k => i - k \in DOMAIN new
    BY <1>3, <1>5
  <2>3. QED
    BY <1>3, <1>6, <2>1, <2>2
<1>9. ASSUME NEW i \in DOMAIN new
      PROVE  i + k \in DOMAIN old /\ new[i].left = old[i + k].left - TakenOf(s, taken, q, i + k)
  <2>1. i + k \in DOMAIN old /\ i + k = k + i
    BY <1>3, <1>5
  <2>2. QED
    BY <1>3, <1>7, <2>1
<1>10. k \in Nat /\ DOMAIN old \subseteq Nat /\ DOMAIN new \subseteq Nat
  BY <1>3, <1>5
<1>11. QED
  BY <1>4, <1>8, <1>9, <1>10

(* What a write takes is what is missing from the queues after it. *)
LEMMA DrainAccounts ==
  ASSUME NEW s, SchedulerOK(s), IsFiniteSet(Unsent(s)),
         NEW taken, Taking(ServiceOrder(s), taken),
         NEW r, r = Drained(s, ServiceOrder(s), taken)
  PROVE  /\ IsFiniteSet(Unsent(r)) /\ Total(taken) \in Nat
         /\ Cardinality(Unsent(s)) = Cardinality(Unsent(r)) + Total(taken)
<1> DEFINE T(q, i) == TakenOf(s, taken, q, i)
           K(q) == Shift(s, taken, q)
           Old(q) == ItemsIn(s, q)
           New(q) == ItemsIn(r, q)
           A == Unsent(s)
           B == Unsent(r)
           C == Cells(taken)
           G == { x \in A : x[2] <= T(x[1][1], x[1][2]) }
           f == [ x \in C |-> << Place(s, x[1]), x[2] >> ]
           g == [ x \in B |-> << << x[1][1], x[1][2] + K(x[1][1]) >>,
                                x[2] + T(x[1][1], x[1][2] + K(x[1][1])) >> ]
<1>1. \A q \in Queues :
        /\ K(q) \in Nat /\ DOMAIN Old(q) \subseteq Nat /\ DOMAIN New(q) \subseteq Nat
        /\ \A i \in DOMAIN New(q) : /\ i + K(q) \in DOMAIN Old(q)
                                   /\ New(q)[i].left = Old(q)[i + K(q)].left - T(q, i + K(q))
        /\ \A i \in DOMAIN Old(q) : i > K(q) => i - K(q) \in DOMAIN New(q)
  BY MovesAre
<1>2. \A q \in Queues : \A i \in DOMAIN Old(q) :
        /\ Old(q)[i].left \in Nat /\ T(q, i) \in Nat /\ T(q, i) <= Old(q)[i].left
        /\ (T(q, i) = Old(q)[i].left <=> i <= K(q))
  <2>1. ASSUME NEW q \in Queues, NEW i \in DOMAIN Old(q)
        PROVE  /\ Old(q)[i].left \in Nat /\ T(q, i) \in Nat /\ T(q, i) <= Old(q)[i].left
               /\ (T(q, i) = Old(q)[i].left <=> i <= K(q))
    BY MovesAre
  <2>2. QED
    BY <2>1
<1>3. /\ \A k \in DOMAIN taken :
            \E q \in Queues : \E i \in DOMAIN Old(q) :
              /\ Place(s, k) = << q, i >> /\ taken[k] \in 0 .. Old(q)[i].left
              /\ (taken[k] > 0 => T(q, i) = taken[k])
      /\ \A k, l \in DOMAIN taken : Place(s, k) = Place(s, l) => k = l
      /\ \A q \in Queues : \A i \in DOMAIN Old(q) :
            T(q, i) > 0 => \E k \in DOMAIN taken : Place(s, k) = << q, i >> /\ taken[k] = T(q, i)
  BY PlacesAre
<1>4. \A x : x \in A <=> \E q \in Queues : \E i \in DOMAIN Old(q) : \E b \in 1 .. Old(q)[i].left :
                           x = << << q, i >>, b >>
  BY UnsentIs
<1>5. \A x : x \in B <=> \E q \in Queues : \E i \in DOMAIN New(q) : \E b \in 1 .. New(q)[i].left :
                           x = << << q, i >>, b >>
  BY UnsentIs
<1>6. /\ Total(taken) = Cardinality(C)
      /\ \A k, b : << k, b >> \in C <=> k \in DOMAIN taken /\ b \in 1 .. taken[k]
      /\ \A x \in C : \E k \in DOMAIN taken : \E b \in 1 .. taken[k] : x = << k, b >>
  BY CellIs
<1> HIDE DEF T, K, Old, New, A, B, C
<1> HIDE DEF G
<1>7. \A x \in G : \E q \in Queues : \E i \in DOMAIN Old(q) : \E b \in 1 .. T(q, i) : x = << << q, i >>, b >>
  <2> SUFFICES ASSUME NEW x \in G
               PROVE  \E q \in Queues : \E i \in DOMAIN Old(q) : \E b \in 1 .. T(q, i) : x = << << q, i >>, b >>
    OBVIOUS
  <2>1. PICK q \in Queues : \E i \in DOMAIN Old(q) : \E b \in 1 .. Old(q)[i].left : x = << << q, i >>, b >>
    <3>1. x \in A
      BY DEF G
    <3>2. QED
      BY <1>4, <3>1
  <2>2. PICK i \in DOMAIN Old(q) : \E b \in 1 .. Old(q)[i].left : x = << << q, i >>, b >>
    BY <2>1
  <2>3. PICK b \in 1 .. Old(q)[i].left : x = << << q, i >>, b >>
    BY <2>2
  <2>4. b <= T(q, i) /\ T(q, i) \in Nat
    <3>1. x[1][1] = q /\ x[1][2] = i /\ x[2] = b
      BY <2>3
    <3>2. x[2] <= T(x[1][1], x[1][2])
      BY DEF G
    <3>3. QED
      BY <1>2, <3>1, <3>2
  <2>5. b \in 1 .. T(q, i)
    BY <2>3, <2>4
  <2>6. QED
    BY <2>3, <2>5
<1>8. \A q \in Queues : \A i \in DOMAIN Old(q) : \A b \in 1 .. T(q, i) : << << q, i >>, b >> \in G
  <2> SUFFICES ASSUME NEW q \in Queues, NEW i \in DOMAIN Old(q), NEW b \in 1 .. T(q, i)
               PROVE  << << q, i >>, b >> \in G
    OBVIOUS
  <2>1. b \in 1 .. Old(q)[i].left /\ b <= T(q, i)
    <3>1. T(q, i) \in Nat /\ Old(q)[i].left \in Nat /\ T(q, i) <= Old(q)[i].left
      BY <1>2
    <3>2. QED
      BY <3>1
  <2>2. << << q, i >>, b >> \in A
    BY <1>4, <2>1
  <2>3. QED
    BY <2>1, <2>2 DEF G
<1>9. Cardinality(C) = Cardinality(G) /\ IsFiniteSet(G)
  <2>0. IsFiniteSet(G)
    <3>1. G \subseteq A
      BY DEF G
    <3>2. QED
      BY <3>1, FS_Subset DEF A
  <2>1. ASSUME NEW x \in C PROVE f[x] \in G
    <3>1. PICK k \in DOMAIN taken : \E b \in 1 .. taken[k] : x = << k, b >>
      BY <1>6
    <3>2. PICK b \in 1 .. taken[k] : x = << k, b >>
      BY <3>1
    <3>3. PICK q \in Queues : \E i \in DOMAIN Old(q) :
              /\ Place(s, k) = << q, i >> /\ taken[k] \in 0 .. Old(q)[i].left
              /\ (taken[k] > 0 => T(q, i) = taken[k])
      BY <1>3
    <3>4. PICK i \in DOMAIN Old(q) :
              /\ Place(s, k) = << q, i >> /\ taken[k] \in 0 .. Old(q)[i].left
              /\ (taken[k] > 0 => T(q, i) = taken[k])
      BY <3>3
    <3>5. b \in 1 .. T(q, i)
      BY <3>2, <3>4
    <3>6. f[x] = << << q, i >>, b >>
      BY <3>2, <3>4
    <3>7. QED
      BY <1>8, <3>5, <3>6
  <2>2. ASSUME NEW x \in C, NEW y \in C, f[x] = f[y] PROVE x = y
    <3>1. PICK k \in DOMAIN taken, b \in Int : x = << k, b >>
      BY <1>6
    <3>2. PICK l \in DOMAIN taken, d \in Int : y = << l, d >>
      BY <1>6
    <3>3. Place(s, k) = Place(s, l) /\ b = d
      BY <2>2, <3>1, <3>2
    <3>4. QED
      BY <1>3, <3>1, <3>2, <3>3
  <2>3. ASSUME NEW y \in G PROVE \E x \in C : f[x] = y
    <3>1. PICK q \in Queues : \E i \in DOMAIN Old(q) : \E b \in 1 .. T(q, i) : y = << << q, i >>, b >>
      BY <1>7
    <3>2. PICK i \in DOMAIN Old(q) : \E b \in 1 .. T(q, i) : y = << << q, i >>, b >>
      BY <3>1
    <3>3. PICK b \in 1 .. T(q, i) : y = << << q, i >>, b >>
      BY <3>2
    <3>4. T(q, i) > 0
      <4>1. T(q, i) \in Nat
        BY <1>2
      <4>2. QED
        BY <3>3, <4>1
    <3>5. PICK k \in DOMAIN taken : Place(s, k) = << q, i >> /\ taken[k] = T(q, i)
      BY <1>3, <3>4
    <3>6. << k, b >> \in C
      BY <1>6, <3>3, <3>5
    <3>7. f[<< k, b >>] = y
      BY <3>3, <3>5, <3>6
    <3>8. QED
      BY <3>6, <3>7
  <2>4. f \in [ C -> G ]
    BY <2>1
  <2> HIDE DEF f
  <2>5. IsFiniteSet(C)
    <3>1. f \in Injection(C, G)
      BY <2>2, <2>4 DEF Injection, IsInjective
    <3>2. QED
      BY <2>0, <3>1, FS_Injection
  <2>6. f \in Bijection(C, G)
    BY <2>2, <2>3, <2>4 DEF Bijection, Injection, Surjection, IsInjective
  <2>7. ExistsBijection(C, G)
    BY <2>6 DEF ExistsBijection
  <2>8. QED
    BY <2>0, <2>5, <2>7, FS_Bijection
<1>10. IsFiniteSet(B) /\ Cardinality(A \ G) = Cardinality(B)
  <2>0. IsFiniteSet(A \ G)
    BY FS_Difference DEF A
  <2>1. ASSUME NEW x \in B
        PROVE  \E q \in Queues : \E i, b \in Nat :
                 /\ x = << << q, i >>, b >> /\ b >= 1
                 /\ i + K(q) \in DOMAIN Old(q) /\ T(q, i + K(q)) \in Nat /\ K(q) \in Nat
                 /\ b + T(q, i + K(q)) \in 1 .. Old(q)[i + K(q)].left
                 /\ g[x] = << << q, i + K(q) >>, b + T(q, i + K(q)) >>
    <3>1. PICK q \in Queues : \E i \in DOMAIN New(q) : \E b \in 1 .. New(q)[i].left : x = << << q, i >>, b >>
      BY <1>5
    <3>2. PICK i \in DOMAIN New(q) : \E b \in 1 .. New(q)[i].left : x = << << q, i >>, b >>
      BY <3>1
    <3>3. PICK b \in 1 .. New(q)[i].left : x = << << q, i >>, b >>
      BY <3>2
    <3>4. /\ i \in Nat /\ K(q) \in Nat /\ i + K(q) \in DOMAIN Old(q)
          /\ New(q)[i].left = Old(q)[i + K(q)].left - T(q, i + K(q))
      BY <1>1
    <3>5. Old(q)[i + K(q)].left \in Nat /\ T(q, i + K(q)) \in Nat
      BY <1>2, <3>4
    <3>6. b + T(q, i + K(q)) \in 1 .. Old(q)[i + K(q)].left /\ b \in Nat /\ b >= 1
      BY <3>3, <3>4, <3>5
    <3>7. g[x] = << << q, i + K(q) >>, b + T(q, i + K(q)) >>
      BY <3>3
    <3>8. QED
      BY <3>3, <3>4, <3>5, <3>6, <3>7
  <2>2. ASSUME NEW x \in B PROVE g[x] \in A \ G
    <3>1. PICK q \in Queues, i \in Nat, b \in Nat :
                 /\ x = << << q, i >>, b >> /\ b >= 1
                 /\ i + K(q) \in DOMAIN Old(q) /\ T(q, i + K(q)) \in Nat /\ K(q) \in Nat
                 /\ b + T(q, i + K(q)) \in 1 .. Old(q)[i + K(q)].left
                 /\ g[x] = << << q, i + K(q) >>, b + T(q, i + K(q)) >>
      BY <2>1
    <3>5. g[x] \in A
      BY <1>4, <3>1
    <3>6. g[x][2] = b + T(q, i + K(q)) /\ g[x][1][1] = q /\ g[x][1][2] = i + K(q)
      BY <3>1
    <3>7. ~ (b + T(q, i + K(q)) <= T(q, i + K(q)))
      BY <3>1
    <3>8. g[x] \notin G
      BY <3>6, <3>7 DEF G
    <3>9. QED
      BY <3>5, <3>8
  <2>3. ASSUME NEW x \in B, NEW y \in B, g[x] = g[y] PROVE x = y
    <3>1. PICK q \in Queues, i \in Nat, b \in Nat :
                 /\ x = << << q, i >>, b >> /\ K(q) \in Nat /\ T(q, i + K(q)) \in Nat
                 /\ g[x] = << << q, i + K(q) >>, b + T(q, i + K(q)) >>
      BY <2>1
    <3>2. PICK p \in Queues, j \in Nat, d \in Nat :
                 /\ y = << << p, j >>, d >> /\ K(p) \in Nat /\ T(p, j + K(p)) \in Nat
                 /\ g[y] = << << p, j + K(p) >>, d + T(p, j + K(p)) >>
      BY <2>1
    <3>3. q = p /\ i + K(q) = j + K(p) /\ b + T(q, i + K(q)) = d + T(p, j + K(p))
      BY <2>3, <3>1, <3>2
    <3>4. i = j /\ b = d
      BY <3>1, <3>2, <3>3
    <3>5. QED
      BY <3>1, <3>2, <3>3, <3>4
  <2>4. ASSUME NEW y \in A \ G PROVE \E x \in B : g[x] = y
    <3>1. PICK q \in Queues : \E i \in DOMAIN Old(q) : \E b \in 1 .. Old(q)[i].left : y = << << q, i >>, b >>
      BY <1>4
    <3>2. PICK i \in DOMAIN Old(q) : \E b \in 1 .. Old(q)[i].left : y = << << q, i >>, b >>
      BY <3>1
    <3>3. PICK b \in 1 .. Old(q)[i].left : y = << << q, i >>, b >>
      BY <3>2
    <3>4. /\ i \in Nat /\ K(q) \in Nat /\ T(q, i) \in Nat /\ Old(q)[i].left \in Nat
          /\ T(q, i) <= Old(q)[i].left
      BY <1>1, <1>2
    <3>5. b \notin 1 .. T(q, i)
      BY <1>8, <3>3
    <3>6. b - T(q, i) \in 1 .. Old(q)[i].left - T(q, i) /\ T(q, i) # Old(q)[i].left
      BY <3>4, <3>5
    <3>7. ~ (i <= K(q))
      BY <1>2, <3>4, <3>6
    <3>8. i - K(q) \in DOMAIN New(q) /\ (i - K(q)) + K(q) = i
      BY <1>1, <3>4, <3>7
    <3>9. New(q)[i - K(q)].left = Old(q)[i].left - T(q, i)
      BY <1>1, <3>8
    <3>10. << << q, i - K(q) >>, b - T(q, i) >> \in B
      BY <1>5, <3>6, <3>8, <3>9
    <3>11. (b - T(q, i)) + T(q, i) = b
      BY <3>4
    <3>12. g[<< << q, i - K(q) >>, b - T(q, i) >>] = y
      BY <3>3, <3>8, <3>10, <3>11
    <3>13. QED
      BY <3>10, <3>12
  <2>5. g \in [ B -> A \ G ]
    BY <2>2
  <2> HIDE DEF g
  <2>6. IsFiniteSet(B)
    <3>1. g \in Injection(B, A \ G)
      BY <2>3, <2>5 DEF Injection, IsInjective
    <3>2. QED
      BY <2>0, <3>1, FS_Injection
  <2>7. g \in Bijection(B, A \ G)
    BY <2>3, <2>4, <2>5 DEF Bijection, Injection, Surjection, IsInjective
  <2>8. ExistsBijection(B, A \ G)
    BY <2>7 DEF ExistsBijection
  <2>9. QED
    BY <2>6, <2>8, FS_Bijection
<1>11. IsFiniteSet(A) /\ A \cap G = G
  BY DEF A, G
<1>12. Cardinality(A \ G) = Cardinality(A) - Cardinality(A \cap G)
  BY <1>11, FS_Difference
<1>13. Cardinality(A) \in Nat /\ Cardinality(B) \in Nat /\ Cardinality(G) \in Nat
  BY <1>9, <1>10, <1>11, FS_CardinalityType
<1>14. Cardinality(A) = Cardinality(B) + Total(taken) /\ Total(taken) \in Nat
  <2>1. Total(taken) = Cardinality(G)
    BY <1>6, <1>9
  <2>2. Cardinality(B) = Cardinality(A) - Cardinality(G)
    BY <1>10, <1>11, <1>12
  <2>3. QED
    BY <1>13, <2>1, <2>2
<1>15. QED
  BY <1>10, <1>14 DEF A, B

(* The items of an order that some bytes are written of come first. *)
LEMMA LastIs ==
  ASSUME NEW s, SchedulerOK(s), NEW taken, Taking(ServiceOrder(s), taken),
         NEW last, last = Cardinality({ i \in DOMAIN ServiceOrder(s) : taken[i] > 0 })
  PROVE  /\ last \in 0 .. Len(s.control) + Cardinality(Turn(s))
         /\ \A i \in DOMAIN ServiceOrder(s) : (taken[i] > 0 <=> i <= last)
<1> DEFINE order == ServiceOrder(s)
           m == Len(s.control)
           n == Cardinality(Turn(s))
           W == { i \in DOMAIN order : taken[i] > 0 }
<1>1. m \in Nat /\ n \in Nat /\ DOMAIN order = 1 .. m + n /\ \A i \in DOMAIN order : order[i].left \in Nat \ {0}
  BY OrderIs
<1>2. \A i, j \in DOMAIN order : i < j /\ taken[j] > 0 => taken[i] = order[i].left
  BY DEF Taking
<1> HIDE DEF order, m, n
<1>3. W \in SUBSET (1 .. m + n) /\ m + n \in Nat
  BY <1>1
<1>4. ASSUME NEW i \in 1 .. m + n, NEW j \in W, i < j PROVE i \in W
  <2>1. taken[i] = order[i].left
    BY <1>1, <1>2, <1>4
  <2>2. QED
    BY <1>1, <2>1
<1>5. Cardinality(W) \in 0 .. m + n /\ W = 1 .. Cardinality(W)
  BY <1>3, <1>4, Segment
<1>6. last = Cardinality(W)
  BY DEF order
<1>7. ASSUME NEW i \in DOMAIN order PROVE taken[i] > 0 <=> i <= last
  <2>1. i \in W <=> taken[i] > 0
    OBVIOUS
  <2>2. i \in 1 .. last <=> i <= last
    BY <1>1, <1>5, <1>6
  <2>3. QED
    BY <1>5, <1>6, <2>1, <2>2
<1>8. QED
  BY <1>5, <1>6, <1>7 DEF order, m, n

IsRecord(s) ==
  s = [ control |-> s.control, data |-> s.data, expected |-> s.expected,
        cursor |-> s.cursor, queued |-> s.queued ]

LEMMA DrainedIs ==
  ASSUME NEW s, SchedulerOK(s), NEW taken, Taking(ServiceOrder(s), taken),
         NEW r, r = Drained(s, ServiceOrder(s), taken)
  PROVE  SchedulerOK(r) /\ IsRecord(r) /\ r.queued = s.queued - Total(taken)
<1> DEFINE order == ServiceOrder(s)
           m == Len(s.control)
           n == Cardinality(Turn(s))
           last == Cardinality({ i \in DOMAIN order : taken[i] > 0 })
           at(c) == Served(order, taken, c)
<1>1. /\ m \in Nat /\ n \in Nat /\ DOMAIN order = 1 .. m + n
      /\ \A i \in 1 .. n : Rotation(s)[i] \in Turn(s) /\ order[m + i] \in ItemOf(Rotation(s)[i])
  BY OrderIs
<1>2. IsRecord(r) /\ r.queued = s.queued - Total(taken)
  BY DEF IsRecord, Drained
<1>3. /\ DOMAIN r.data = DataChannels /\ DOMAIN r.expected = DataChannels
      /\ r.cursor = IF last <= m THEN s.cursor ELSE CursorAfter(order[last].channel)
      /\ \A c \in DataChannels :
           r.expected[c] = IF at(c) # 0 /\ taken[at(c)] = order[at(c)].left
                           THEN ExpectedAfter(order[at(c)]) ELSE s.expected[c]
  BY DEF Drained
<1>4. ASSUME NEW q \in Queues PROVE ItemsIn(r, q) \in Seq(ItemOf(q))
  BY QueueMoves DEF Moves
<1>5. ASSUME NEW i \in 1 .. n PROVE order[m + i].channel \in Nat /\ order[m + i].sequence \in Nat
  <2>1. Rotation(s)[i] \in DataChannels /\ Rotation(s)[i] \in Queues
    BY <1>1, QueuesAre DEF Turn
  <2>2. order[m + i] \in ItemOf(Rotation(s)[i])
    BY <1>1
  <2> HIDE DEF order, m, n, last, at
  <2>3. order[m + i].channel = Rotation(s)[i] /\ order[m + i].sequence \in Nat
    BY <2>1, <2>2, ItemIs
  <2>4. Rotation(s)[i] \in Nat
    BY <2>1, SchedulerAssumption
  <2>5. QED
    BY <2>3, <2>4
<1>6. last \in 0 .. m + n
  BY LastIs
<1>7. r.cursor \in Nat
  <2>1. CASE last <= m
    BY <1>3, <2>1 DEF SchedulerOK
  <2>2. CASE ~ (last <= m)
    <3> HIDE DEF last, m, n, order
    <3>1. last - m \in 1 .. n /\ m + (last - m) = last
      BY <1>1, <1>6, <2>2
    <3>2. order[last].channel \in Nat
      BY <1>5, <3>1
    <3>3. QED
      BY <1>3, <2>2, <3>2 DEF CursorAfter
  <2>3. QED
    BY <2>1, <2>2
<1>8. ASSUME NEW c \in DataChannels PROVE r.expected[c] \in Nat
  <2>1. CASE at(c) = 0
    BY <1>3, <2>1 DEF SchedulerOK
  <2>2. CASE at(c) # 0
    <3>1. PICK i \in 1 .. n : at(c) = m + i
      BY <2>2, ServedIs
    <3>2. order[at(c)].sequence \in Nat
      BY <1>5, <3>1
    <3>3. s.expected[c] \in Nat
      BY DEF SchedulerOK
    <3>4. QED
      BY <1>3, <3>2, <3>3 DEF ExpectedAfter
  <2>3. QED
    BY <2>1, <2>2
<1>9. QED
  BY <1>2, <1>3, <1>4, <1>7, <1>8 DEF SchedulerOK

-----------------------------------------------------------------------------
(* An item is queued *)

LEMMA EnqueueIs ==
  ASSUME NEW s, SchedulerOK(s), IsRecord(s), NEW q \in Queues, NEW item \in ItemOf(q),
         NEW r, r = Enqueue(s, item)
  PROVE  /\ SchedulerOK(r) /\ IsRecord(r) /\ r.queued = s.queued + item.left
         /\ ItemsIn(r, q) = Append(ItemsIn(s, q), item)
         /\ \A p \in Queues : p # q => ItemsIn(r, p) = ItemsIn(s, p)
         /\ r.expected = s.expected /\ r.cursor = s.cursor
<1>1. item.channel = q /\ (item.priority = "control" <=> q = ControlQueue)
  BY DEF ItemOf
<1>2. CASE q = ControlQueue
  <2>1. r = [ s EXCEPT !.queued = s.queued + item.left, !.control = Append(s.control, item) ]
    BY <1>1, <1>2 DEF Enqueue
  <2>2. r = [ control |-> Append(s.control, item), data |-> s.data, expected |-> s.expected,
              cursor |-> s.cursor, queued |-> s.queued + item.left ]
    BY <2>1 DEF IsRecord
  <2>3. /\ IsRecord(r) /\ r.queued = s.queued + item.left
        /\ r.control = Append(s.control, item) /\ r.data = s.data
        /\ r.expected = s.expected /\ r.cursor = s.cursor
    BY <2>2 DEF IsRecord
  <2> HIDE <2>1, <2>2
  <2>4. ItemsIn(r, q) = Append(ItemsIn(s, q), item)
    BY <1>2, <2>3, QueuesAre
  <2>5. \A p \in Queues : p # q => ItemsIn(r, p) = ItemsIn(s, p)
    BY <1>2, <2>3, QueuesAre
  <2>6. Append(ItemsIn(s, q), item) \in Seq(ItemOf(q))
    BY AppendProperties DEF SchedulerOK
  <2>7. SchedulerOK(r)
    BY <2>3, <2>4, <2>5, <2>6 DEF SchedulerOK
  <2>8. QED
    BY <2>3, <2>4, <2>5, <2>7
<1>3. CASE q # ControlQueue
  <2>1. q \in DataChannels /\ DOMAIN s.data = DataChannels
    BY <1>3, QueuesAre DEF SchedulerOK
  <2>2. r = [ s EXCEPT !.queued = s.queued + item.left, !.data[q] = Append(s.data[q], item) ]
    BY <1>1, <1>3 DEF Enqueue
  <2>3. r = [ control |-> s.control, data |-> [ s.data EXCEPT ![q] = Append(s.data[q], item) ],
              expected |-> s.expected, cursor |-> s.cursor, queued |-> s.queued + item.left ]
    BY <2>2 DEF IsRecord
  <2>4. /\ IsRecord(r) /\ r.queued = s.queued + item.left
        /\ r.control = s.control /\ r.data = [ s.data EXCEPT ![q] = Append(s.data[q], item) ]
        /\ r.expected = s.expected /\ r.cursor = s.cursor
    BY <2>3 DEF IsRecord
  <2> HIDE <2>2, <2>3
  <2>5. /\ DOMAIN r.data = DataChannels /\ r.data[q] = Append(s.data[q], item)
        /\ \A p \in DataChannels : p # q => r.data[p] = s.data[p]
    BY <2>1, <2>4
  <2>6. ItemsIn(r, q) = Append(ItemsIn(s, q), item)
    BY <2>1, <2>5, QueuesAre
  <2>7. \A p \in Queues : p # q => ItemsIn(r, p) = ItemsIn(s, p)
    BY <2>4, <2>5, QueuesAre
  <2>8. Append(ItemsIn(s, q), item) \in Seq(ItemOf(q))
    BY AppendProperties DEF SchedulerOK
  <2>9. SchedulerOK(r)
    BY <2>4, <2>5, <2>6, <2>7, <2>8 DEF SchedulerOK
  <2>10. QED
    BY <2>4, <2>6, <2>7, <2>9
<1>4. QED
  BY <1>2, <1>3

LEMMA EnqueueAccounts ==
  ASSUME NEW s, SchedulerOK(s), IsRecord(s), IsFiniteSet(Unsent(s)),
         NEW q \in Queues, NEW item \in ItemOf(q), NEW r, r = Enqueue(s, item)
  PROVE  /\ IsFiniteSet(Unsent(r))
         /\ Cardinality(Unsent(r)) = Cardinality(Unsent(s)) + item.left
<1> DEFINE old == ItemsIn(s, q)
           place == << q, Len(old) + 1 >>
           A == Unsent(s)
           B == Strip(place, item.left)
<1>1. /\ ItemsIn(r, q) = Append(old, item)
      /\ \A p \in Queues : p # q => ItemsIn(r, p) = ItemsIn(s, p)
  BY EnqueueIs
<1>2. old \in Seq(ItemOf(q)) /\ item.left \in Nat
  BY ItemIs DEF SchedulerOK
<1>3. Len(old) \in Nat /\ DOMAIN old = 1 .. Len(old)
  BY <1>2, LenProperties
<1>4. /\ Append(old, item) \in Seq(ItemOf(q)) /\ Len(Append(old, item)) = Len(old) + 1
      /\ Append(old, item)[Len(old) + 1] = item
      /\ \A i \in 1 .. Len(old) : Append(old, item)[i] = old[i]
  BY <1>2, AppendProperties
<1>5. DOMAIN Append(old, item) = 1 .. Len(old) + 1
  BY <1>4, LenProperties
<1>6. \A x : x \in A <=> \E p \in Queues : \E i \in DOMAIN ItemsIn(s, p) : \E b \in 1 .. ItemsIn(s, p)[i].left :
                           x = << << p, i >>, b >>
  BY UnsentIs
<1>7. \A x : x \in Unsent(r) <=>
               \E p \in Queues : \E i \in DOMAIN ItemsIn(r, p) : \E b \in 1 .. ItemsIn(r, p)[i].left :
                 x = << << p, i >>, b >>
  BY UnsentIs
<1> HIDE DEF A
<1>8. ASSUME NEW x \in Unsent(r) PROVE x \in A \cup B
  <2>1. PICK p \in Queues : \E i \in DOMAIN ItemsIn(r, p) : \E b \in 1 .. ItemsIn(r, p)[i].left :
                              x = << << p, i >>, b >>
    BY <1>7
  <2>2. PICK i \in DOMAIN ItemsIn(r, p) : \E b \in 1 .. ItemsIn(r, p)[i].left : x = << << p, i >>, b >>
    BY <2>1
  <2>3. PICK b \in 1 .. ItemsIn(r, p)[i].left : x = << << p, i >>, b >>
    BY <2>2
  <2>4. CASE p # q
    BY <1>1, <1>6, <2>3, <2>4
  <2>5. CASE p = q /\ i \in 1 .. Len(old)
    BY <1>1, <1>3, <1>4, <1>6, <2>3, <2>5
  <2>6. CASE p = q /\ i \notin 1 .. Len(old)
    <3>1. i = Len(old) + 1
      BY <1>1, <1>3, <1>5, <2>6
    <3>2. ItemsIn(r, p)[i] = item
      BY <1>1, <1>4, <2>6, <3>1
    <3>3. QED
      BY <2>3, <2>6, <3>1, <3>2 DEF Strip
  <2>7. QED
    BY <2>4, <2>5, <2>6
<1>9. ASSUME NEW x \in A PROVE x \in Unsent(r) /\ x \notin B
  <2>1. PICK p \in Queues : \E i \in DOMAIN ItemsIn(s, p) : \E b \in 1 .. ItemsIn(s, p)[i].left :
                              x = << << p, i >>, b >>
    BY <1>6
  <2>2. PICK i \in DOMAIN ItemsIn(s, p) : \E b \in 1 .. ItemsIn(s, p)[i].left : x = << << p, i >>, b >>
    BY <2>1
  <2>3. PICK b \in 1 .. ItemsIn(s, p)[i].left : x = << << p, i >>, b >>
    BY <2>2
  <2>4. CASE p # q
    <3>1. x \in Unsent(r)
      BY <1>1, <1>7, <2>3, <2>4
    <3>2. x \notin B
      BY <2>3, <2>4 DEF Strip
    <3>3. QED
      BY <3>1, <3>2
  <2>5. CASE p = q
    <3>1. i \in 1 .. Len(old) /\ i \in 1 .. Len(old) + 1 /\ i # Len(old) + 1
      BY <1>3, <2>5
    <3>2. i \in DOMAIN ItemsIn(r, q) /\ ItemsIn(r, q)[i] = ItemsIn(s, q)[i]
      BY <1>1, <1>4, <1>5, <3>1
    <3>3. x \in Unsent(r)
      BY <1>7, <2>3, <2>5, <3>2
    <3>4. x \notin B
      BY <2>3, <3>1 DEF Strip
    <3>5. QED
      BY <3>3, <3>4
  <2>6. QED
    BY <2>4, <2>5
<1>10. ASSUME NEW x \in B PROVE x \in Unsent(r)
  <2>1. PICK b \in 1 .. item.left : x = << place, b >>
    BY DEF Strip
  <2>2. Len(old) + 1 \in DOMAIN ItemsIn(r, q) /\ ItemsIn(r, q)[Len(old) + 1] = item
    BY <1>1, <1>3, <1>4, <1>5
  <2>3. QED
    BY <1>7, <2>1, <2>2
<1>11. Unsent(r) = A \cup B /\ A \cap B = {}
  BY <1>8, <1>9, <1>10
<1>12. IsFiniteSet(A) /\ Cardinality(A) \in Nat
  BY FS_CardinalityType DEF A
<1>13. IsFiniteSet(B) /\ Cardinality(B) = item.left
  BY <1>2, StripSize
<1> HIDE DEF B
<1>14. IsFiniteSet(A \cup B) /\ Cardinality(A \cup B) = Cardinality(A) + Cardinality(B) - Cardinality(A \cap B)
  BY <1>12, <1>13, FS_Union
<1>15. Cardinality(A \cap B) = 0
  BY <1>11, FS_EmptySet
<1>16. Cardinality(A \cup B) = Cardinality(A) + item.left
  BY <1>2, <1>12, <1>13, <1>14, <1>15
<1>17. QED
  BY <1>11, <1>14, <1>16 DEF A

-----------------------------------------------------------------------------
(* The inductive invariant *)

Accounts ==
  /\ SchedulerOK(sch) /\ IsRecord(sch)
  /\ numbers \in [ Queues -> Nat ]
  /\ IsFiniteSet(Unsent(sch))
  /\ sch.queued = Cardinality(Unsent(sch))
  /\ sch.queued <= ByteLimit

LEMMA ItemMade ==
  ASSUME NEW q \in Queues, NEW n \in Nat, NEW size \in ItemSizes
  PROVE  Item(q, n, size) \in ItemOf(q) /\ Item(q, n, size).left = size
<1>1. size \in Nat \ {0}
  BY OutboundSchedulerAssumption
<1>2. size \in 1 .. size
  BY <1>1
<1>3. QED
  BY <1>1, <1>2 DEF Item, ItemOf

LEMMA InitAccounts == Init => Accounts
<1> SUFFICES ASSUME Init PROVE Accounts
  OBVIOUS
<1>1. sch = EmptyScheduler /\ numbers = [ q \in Queues |-> 1 ]
  BY DEF Init
<1>2. \A q \in Queues : ItemsIn(sch, q) = << >>
  BY <1>1, QueuesAre DEF EmptyScheduler
<1>3. Unsent(sch) = {}
  <2>1. DOMAIN << >> = {}
    OBVIOUS
  <2>2. QED
    BY <1>2, <2>1, UnsentIs
<1>4. IsFiniteSet(Unsent(sch)) /\ Cardinality(Unsent(sch)) = 0
  BY <1>3, FS_EmptySet
<1>5. SchedulerOK(sch) /\ IsRecord(sch) /\ sch.queued = 0
  <2>1. /\ DOMAIN sch.data = DataChannels /\ DOMAIN sch.expected = DataChannels
        /\ \A c \in DataChannels : sch.expected[c] = 0
        /\ sch.cursor = 0 /\ sch.queued = 0 /\ IsRecord(sch)
    BY <1>1 DEF EmptyScheduler, IsRecord
  <2>2. \A q \in Queues : ItemsIn(sch, q) \in Seq(ItemOf(q))
    BY <1>2, EmptySeq
  <2>3. QED
    BY <2>1, <2>2 DEF SchedulerOK
<1>6. QED
  BY <1>1, <1>4, <1>5, SchedulerAssumption DEF Accounts

(* A frame of a queue that is in order is accepted within the byte limit.  *)
LEMMA OfferAccounts ==
  ASSUME Accounts, NEW q \in Queues, NEW size \in ItemSizes, Offer(q, size)
  PROVE  Accounts'
<1> DEFINE item == Item(q, numbers[q], size)
<1>1. numbers[q] \in Nat
  BY DEF Accounts
<1>2. item \in ItemOf(q) /\ item.left \in Nat /\ QueueOf(item) = q
  BY <1>1, ItemMade, ItemIs
<1>3. numbers' \in [ Queues -> Nat ]
  <2>1. numbers' = numbers \/ numbers' = Advance(q)
    BY DEF Offer
  <2>2. Advance(q) \in [ Queues -> Nat ]
    BY DEF Advance, Accounts
  <2>3. QED
    BY <2>1, <2>2 DEF Accounts
<1> HIDE DEF item
<1>4. CASE EnqueueError(sch, item) = "none"
  <2>1. sch' = Enqueue(sch, item)
    BY <1>4 DEF Offer, Accept, item
  <2>2. sch.queued + item.left <= ByteLimit
    <3>1. ~ (sch.queued + item.left > ByteLimit)
      BY <1>4 DEF EnqueueError
    <3>2. sch.queued \in Nat
      BY FS_CardinalityType DEF Accounts
    <3>3. QED
      BY <1>2, <3>1, <3>2, SchedulerAssumption
  <2>3. SchedulerOK(sch') /\ IsRecord(sch') /\ sch'.queued = sch.queued + item.left
    BY <1>2, <2>1, EnqueueIs DEF Accounts
  <2>4. IsFiniteSet(Unsent(sch')) /\ Cardinality(Unsent(sch')) = Cardinality(Unsent(sch)) + item.left
    BY <1>2, <2>1, EnqueueAccounts DEF Accounts
  <2>5. QED
    BY <1>3, <2>2, <2>3, <2>4 DEF Accounts
<1>5. CASE EnqueueError(sch, item) # "none"
  BY <1>3, <1>5 DEF Offer, Accounts, item
<1>6. QED
  BY <1>4, <1>5

(* A frame whose sequence is not a new one is never accepted. *)
LEMMA RegressedRefused ==
  ASSUME SchedulerOK(sch), NEW c \in DataChannels, NEW size \in ItemSizes, OfferRegressed(c, size)
  PROVE  UNCHANGED vars
<1> DEFINE item == Item(c, Last(sch.data[c]).sequence, size)
<1>1. sch.data[c] # << >> /\ sch.data[c] \in Seq(ItemOf(c)) /\ c \in Queues /\ c # ControlQueue
  BY QueuesAre DEF SchedulerOK, OfferRegressed
<1>2. Len(sch.data[c]) \in 1 .. Len(sch.data[c]) /\ Last(sch.data[c]) = sch.data[c][Len(sch.data[c])]
  <2>1. Len(sch.data[c]) \in Nat /\ Len(sch.data[c]) # 0
    BY <1>1, EmptySeq, LenProperties
  <2>2. QED
    BY <2>1 DEF Last
<1>3. Last(sch.data[c]).sequence \in Nat
  BY <1>1, <1>2, ElementOfSeq, ItemIs
<1>4. item.priority = "data" /\ item.channel = c /\ item.sequence = Last(sch.data[c]).sequence
  BY <1>1 DEF Item
<1>5. Regressed(sch, item)
  BY <1>1, <1>3, <1>4 DEF Regressed
<1>6. EnqueueError(sch, item) # "none"
  BY <1>5 DEF EnqueueError
<1>7. QED
  BY <1>6 DEF OfferRegressed, vars

LEMMA WriteTakes ==
  ASSUME SchedulerOK(sch), NEW writable \in Nat
  PROVE  Taking(ServiceOrder(sch), Taken(ServiceOrder(sch), writable))
<1>1. /\ DOMAIN ServiceOrder(sch) = 1 .. Len(ServiceOrder(sch)) /\ Len(ServiceOrder(sch)) \in Nat
      /\ \A i \in DOMAIN ServiceOrder(sch) : ServiceOrder(sch)[i].left \in Nat \ {0}
  BY OrderIs
<1>2. QED
  BY <1>1, TakenIs DEF Taking

LEMMA WriteAccounts ==
  ASSUME Accounts, NEW writable \in 1 .. MaxWrite, Write(writable)
  PROVE  Accounts'
<1> DEFINE taken == Taken(ServiceOrder(sch), writable)
<1>1. SchedulerOK(sch) /\ IsFiniteSet(Unsent(sch)) /\ sch.queued = Cardinality(Unsent(sch))
  BY DEF Accounts
<1>2. writable \in Nat
  BY OutboundSchedulerAssumption
<1>3. Taking(ServiceOrder(sch), taken)
  BY <1>1, <1>2, WriteTakes
<1>4. sch' = Drained(sch, ServiceOrder(sch), taken) /\ numbers' = numbers
  BY DEF Write
<1> HIDE DEF taken
<1>5. SchedulerOK(sch') /\ IsRecord(sch') /\ sch'.queued = sch.queued - Total(taken)
  BY <1>1, <1>3, <1>4, DrainedIs
<1>6. /\ IsFiniteSet(Unsent(sch')) /\ Total(taken) \in Nat
      /\ Cardinality(Unsent(sch)) = Cardinality(Unsent(sch')) + Total(taken)
  BY <1>1, <1>3, <1>4, DrainAccounts
<1>7. Cardinality(Unsent(sch')) \in Nat
  BY <1>6, FS_CardinalityType
<1>8. sch'.queued = Cardinality(Unsent(sch'))
  BY <1>1, <1>5, <1>6, <1>7
<1>9. sch'.queued <= ByteLimit
  <2>1. sch.queued <= ByteLimit
    BY DEF Accounts
  <2>2. QED
    BY <1>1, <1>6, <1>7, <1>8, <2>1, SchedulerAssumption
<1>10. QED
  BY <1>4, <1>5, <1>6, <1>8, <1>9 DEF Accounts

LEMMA StepAccounts == Accounts /\ [Next]_vars => Accounts'
<1> SUFFICES ASSUME Accounts, [Next]_vars PROVE Accounts'
  OBVIOUS
<1>1. ASSUME NEW q \in Queues, NEW size \in ItemSizes, Offer(q, size) PROVE Accounts'
  BY <1>1, OfferAccounts
<1>2. ASSUME NEW c \in DataChannels, NEW size \in ItemSizes, OfferRegressed(c, size) PROVE Accounts'
  <2>1. UNCHANGED vars
    BY <1>2, RegressedRefused DEF Accounts
  <2>2. QED
    BY <2>1 DEF vars, Accounts
<1>3. ASSUME NEW writable \in 1 .. MaxWrite, Write(writable) PROVE Accounts'
  BY <1>3, WriteAccounts
<1>4. CASE UNCHANGED vars
  BY <1>4 DEF vars, Accounts
<1>5. QED
  BY <1>1, <1>2, <1>3, <1>4 DEF Next

LEMMA AccountsHold == Accounts => QueuedBytesExact
<1> SUFFICES ASSUME Accounts PROVE QueuedBytesExact
  OBVIOUS
<1>1. sch.queued \in 0 .. ByteLimit
  <2>1. sch.queued \in Nat /\ sch.queued <= ByteLimit
    BY FS_CardinalityType DEF Accounts
  <2>2. QED
    BY <2>1, SchedulerAssumption
<1>2. ASSUME NEW q \in Queues, NEW i \in DOMAIN ItemsIn(sch, q)
      PROVE  ItemsIn(sch, q)[i].left \in 1 .. ItemsIn(sch, q)[i].size /\ QueueOf(ItemsIn(sch, q)[i]) = q
  <2>1. ItemsIn(sch, q) \in Seq(ItemOf(q))
    BY DEF Accounts, SchedulerOK
  <2>2. i \in 1 .. Len(ItemsIn(sch, q))
    BY <2>1, LenProperties
  <2>3. ItemsIn(sch, q)[i] \in ItemOf(q)
    BY <2>1, <2>2, ElementOfSeq
  <2>4. QED
    BY <2>3, ItemIs
<1>3. TypeOK
  BY <1>1, <1>2 DEF TypeOK, Accounts, SchedulerOK
<1>4. QED
  BY <1>3 DEF QueuedBytesExact, Accounts

(* The number of bytes that enqueue and drain keep in queued_bytes_ is     *)
(* always the number of unsent bytes in the queues, whatever a write cut   *)
(* short, and never exceeds the byte limit.                                *)
THEOREM QueuedBytesAlwaysExact == Spec => []QueuedBytesExact
<1>1. Init => Accounts
  BY InitAccounts
<1>2. Accounts /\ [Next]_vars => Accounts'
  BY StepAccounts
<1>3. Accounts => QueuedBytesExact
  BY AccountsHold
<1>4. QED
  BY <1>1, <1>2, <1>3, PTL DEF Spec

-----------------------------------------------------------------------------
(* Round robin *)

(* The channels that come after c from a cursor on.                        *)
Behind(k, c) == { d \in DataChannels : Sooner(k, c, d) }

LEMMA BehindFinite ==
  ASSUME NEW k \in Nat, NEW c \in DataChannels
  PROVE  /\ IsFiniteSet(Behind(k, c)) /\ Cardinality(Behind(k, c)) \in Nat
         /\ Cardinality(Behind(k, c)) <= Cardinality(DataChannels) - 1
<1>1. Behind(k, c) \subseteq DataChannels \ {c}
  BY SchedulerAssumption, SoonerIsOrder DEF Behind
<1>2. /\ IsFiniteSet(DataChannels \ {c})
      /\ Cardinality(DataChannels \ {c}) = Cardinality(DataChannels) - 1
  BY SchedulerAssumption, FS_RemoveElement
<1>3. QED
  BY <1>1, <1>2, FS_Subset, FS_CardinalityType

(* The cursor is moved behind the last channel l that was served: those    *)
(* from the old cursor to l keep their order, and come after all others.   *)
LEMMA CursorMoves ==
  ASSUME NEW k \in Nat, NEW l \in Nat, NEW c \in Nat, NEW d \in Nat
  PROVE  /\ (Sooner(k, c, d) /\ (d = l \/ Sooner(k, d, l))) => Sooner(l + 1, c, d)
         /\ (Sooner(k, l, c) /\ (d = l \/ Sooner(k, d, l))) => Sooner(l + 1, c, d) /\ Sooner(k, d, c)
         /\ (Sooner(k, l, c) /\ Sooner(k, c, d)) => Sooner(l + 1, c, d)
BY DEF Sooner

(* A write serves the channels in turn, from the cursor to one of them.    *)
ServesInTurn(s, taken, cursor) ==
  /\ \A c \in DataChannels : Served(ServiceOrder(s), taken, c) \in Nat
  /\ \A c, d \in DataChannels :
       (Served(ServiceOrder(s), taken, c) # 0 /\ Served(ServiceOrder(s), taken, d) # 0) =>
         (Served(ServiceOrder(s), taken, c) < Served(ServiceOrder(s), taken, d) <=> Sooner(s.cursor, c, d))
  /\ \/ cursor = s.cursor /\ \A c \in DataChannels : Served(ServiceOrder(s), taken, c) = 0
     \/ \E l \in DataChannels :
          /\ cursor = l + 1
          /\ \A c \in DataChannels :
               Served(ServiceOrder(s), taken, c) # 0 <=> (c \in Turn(s) /\ (c = l \/ Sooner(s.cursor, c, l)))

LEMMA TurnsAreTaken ==
  ASSUME NEW s, SchedulerOK(s), NEW taken, Taking(ServiceOrder(s), taken),
         NEW r, r = Drained(s, ServiceOrder(s), taken)
  PROVE  ServesInTurn(s, taken, r.cursor)
<1> DEFINE order == ServiceOrder(s)
           m == Len(s.control)
           n == Cardinality(Turn(s))
           turn == Rotation(s)
           last == Cardinality({ i \in DOMAIN order : taken[i] > 0 })
           at(c) == Served(order, taken, c)
<1>1. /\ m \in Nat /\ n \in Nat /\ DOMAIN order = 1 .. m + n
      /\ \A i \in 1 .. n : turn[i] \in Turn(s) /\ order[m + i] \in ItemOf(turn[i])
  BY OrderIs
<1>2. /\ DOMAIN turn = 1 .. n
      /\ \A c \in Turn(s) : \E i \in 1 .. n : turn[i] = c
      /\ \A i, j \in 1 .. n : i < j <=> Sooner(s.cursor, turn[i], turn[j])
  BY RotationIs DEF SchedulerOK
<1>3. last \in 0 .. m + n /\ \A i \in DOMAIN order : (taken[i] > 0 <=> i <= last)
  BY LastIs
<1>4. r.cursor = IF last <= m THEN s.cursor ELSE order[last].channel + 1
  BY DEF Drained, CursorAfter
<1>5. ASSUME NEW c \in DataChannels
      PROVE  \/ at(c) = 0 /\ \A i \in 1 .. n : turn[i] = c => taken[m + i] = 0
             \/ \E i \in 1 .. n : turn[i] = c /\ at(c) = m + i /\ taken[m + i] > 0
  BY ServedIs
<1>6. s.cursor \in Nat /\ Turn(s) \subseteq DataChannels /\ DataChannels \subseteq Nat
  BY SchedulerAssumption DEF SchedulerOK, Turn
<1> HIDE DEF order, m, n, turn, last, at
<1>7. \A i \in 1 .. n : m + i \in DOMAIN order /\ (taken[m + i] > 0 <=> m + i <= last)
  BY <1>1, <1>3
<1>8. ASSUME NEW c \in DataChannels
      PROVE  \/ at(c) = 0 /\ \A i \in 1 .. n : turn[i] = c => ~ (m + i <= last)
             \/ \E i \in 1 .. n : turn[i] = c /\ at(c) = m + i /\ m + i <= last
  <2>1. CASE at(c) = 0 /\ \A i \in 1 .. n : turn[i] = c => taken[m + i] = 0
    BY <1>7, <2>1
  <2>2. CASE \E i \in 1 .. n : turn[i] = c /\ at(c) = m + i /\ taken[m + i] > 0
    BY <1>7, <2>2
  <2>3. QED
    BY <1>5, <2>1, <2>2
<1>9. ASSUME NEW c \in DataChannels PROVE at(c) \in Nat
  BY <1>1, <1>8
<1>10. ASSUME NEW c \in DataChannels, NEW d \in DataChannels, at(c) # 0, at(d) # 0
       PROVE  at(c) < at(d) <=> Sooner(s.cursor, c, d)
  <2>1. PICK i \in 1 .. n : turn[i] = c /\ at(c) = m + i
    BY <1>8, <1>10
  <2>2. PICK j \in 1 .. n : turn[j] = d /\ at(d) = m + j
    BY <1>8, <1>10
  <2>3. m + i < m + j <=> i < j
    BY <1>1
  <2>4. QED
    BY <1>2, <2>1, <2>2, <2>3
<1>11. CASE last <= m
  <2>1. ASSUME NEW c \in DataChannels PROVE at(c) = 0
    <3>1. \A i \in 1 .. n : ~ (m + i <= last)
      BY <1>1, <1>3, <1>11
    <3>2. QED
      BY <1>8, <3>1
  <2>2. r.cursor = s.cursor
    BY <1>4, <1>11
  <2>3. QED
    BY <1>9, <1>10, <2>1, <2>2 DEF ServesInTurn, at, order
<1>12. CASE ~ (last <= m)
  <2>1. PICK z \in 1 .. n : last = m + z
    <3>1. last - m \in 1 .. n /\ last = m + (last - m)
      BY <1>1, <1>3, <1>12
    <3>2. QED
      BY <3>1
  <2>2. turn[z] \in DataChannels /\ turn[z] \in Turn(s) /\ turn[z] \in Queues
    BY <1>1, <1>6, QueuesAre
  <2>3. order[last].channel = turn[z]
    BY <1>1, <2>1, <2>2, ItemIs
  <2>4. r.cursor = turn[z] + 1
    BY <1>4, <1>12, <2>3
  <2>5. ASSUME NEW c \in DataChannels
        PROVE  at(c) # 0 <=> (c \in Turn(s) /\ (c = turn[z] \/ Sooner(s.cursor, c, turn[z])))
    <3>1. ASSUME at(c) # 0 PROVE c \in Turn(s) /\ (c = turn[z] \/ Sooner(s.cursor, c, turn[z]))
      <4>1. PICK i \in 1 .. n : turn[i] = c /\ m + i <= last
        BY <1>8, <3>1
      <4>2. i = z \/ i < z
        BY <1>1, <2>1, <4>1
      <4>3. QED
        BY <1>1, <1>2, <4>1, <4>2
    <3>2. ASSUME c \in Turn(s), c = turn[z] \/ Sooner(s.cursor, c, turn[z]) PROVE at(c) # 0
      <4>1. \E i \in 1 .. n : turn[i] = c /\ i <= z
        <5>1. CASE c = turn[z]
          BY <5>1
        <5>2. CASE Sooner(s.cursor, c, turn[z])
          <6>1. PICK i \in 1 .. n : turn[i] = c
            BY <1>2, <3>2
          <6>2. i < z
            BY <1>2, <5>2, <6>1
          <6>3. QED
            BY <6>1, <6>2
        <5>3. QED
          BY <3>2, <5>1, <5>2
      <4>2. PICK i \in 1 .. n : turn[i] = c /\ i <= z
        BY <4>1
      <4>3. m + i <= last
        BY <1>1, <2>1, <4>2
      <4>4. \E j \in 1 .. n : at(c) = m + j
        BY <1>8, <4>2, <4>3
      <4>5. QED
        BY <1>1, <4>4
    <3>3. QED
      BY <3>1, <3>2
  <2>6. QED
    BY <1>9, <1>10, <2>2, <2>4, <2>5 DEF ServesInTurn, at, order
<1>13. QED
  BY <1>11, <1>12

(* How long a channel that keeps data waits behind the others is bounded   *)
(* by how far it is from the cursor, before a write and after.             *)
LEMMA WaitIsBounded ==
  ASSUME NEW s, s.cursor \in Nat, NEW taken, NEW cursor, ServesInTurn(s, taken, cursor),
         NEW c \in Turn(s), NEW waited \in Nat, waited <= Cardinality(Behind(s.cursor, c)),
         NEW after, after = WritesAfter(ServiceOrder(s), taken, c)
  PROVE  /\ after \in Nat /\ after <= Cardinality(Behind(cursor, c))
         /\ (Served(ServiceOrder(s), taken, c) = 0 => after + waited <= Cardinality(Behind(cursor, c)))
<1> DEFINE at(d) == Served(ServiceOrder(s), taken, d)
           A == { d \in DataChannels : at(d) > at(c) }
           B == Behind(s.cursor, c)
           D == Behind(cursor, c)
<1>1. c \in DataChannels /\ c \in Nat /\ DataChannels \subseteq Nat /\ IsFiniteSet(DataChannels)
  BY SchedulerAssumption DEF Turn
<1>2. after = Cardinality(A)
  BY DEF WritesAfter
<1>3. /\ \A d \in DataChannels : at(d) \in Nat
      /\ \A d, e \in DataChannels : (at(d) # 0 /\ at(e) # 0) => (at(d) < at(e) <=> Sooner(s.cursor, d, e))
      /\ \/ cursor = s.cursor /\ \A d \in DataChannels : at(d) = 0
         \/ \E l \in DataChannels :
              /\ cursor = l + 1
              /\ \A d \in DataChannels :
                   at(d) # 0 <=> (d \in Turn(s) /\ (d = l \/ Sooner(s.cursor, d, l)))
  BY DEF ServesInTurn
<1> HIDE DEF at
<1>4. A \subseteq DataChannels /\ IsFiniteSet(A) /\ Cardinality(A) \in Nat
  BY <1>1, FS_Subset, FS_CardinalityType
<1>5. cursor \in Nat
  BY <1>1, <1>3
<1>6. IsFiniteSet(B) /\ Cardinality(B) \in Nat /\ IsFiniteSet(D) /\ Cardinality(D) \in Nat
  BY <1>1, <1>5, BehindFinite
<1>7. CASE cursor = s.cursor /\ \A d \in DataChannels : at(d) = 0
  <2>1. A = {}
    <3>1. ASSUME NEW d \in DataChannels PROVE ~ (at(d) > at(c))
      <4>1. at(d) = 0 /\ at(c) = 0
        BY <1>1, <1>7
      <4>2. QED
        BY <4>1
    <3>2. QED
      BY <3>1
  <2>2. Cardinality(A) = 0 /\ Cardinality(B) = Cardinality(D)
    BY <1>7, <2>1, FS_EmptySet
  <2> HIDE DEF A, B
  <2>3. QED
    BY <1>2, <1>6, <2>2 DEF at, B, D
<1>8. ASSUME NEW l \in DataChannels, cursor = l + 1,
             \A d \in DataChannels : at(d) # 0 <=> (d \in Turn(s) /\ (d = l \/ Sooner(s.cursor, d, l)))
      PROVE  /\ after <= Cardinality(D)
             /\ (at(c) = 0 => after + waited <= Cardinality(D))
  <2>1. \A d \in A : d \in DataChannels /\ d \in Nat /\ at(d) # 0 /\ (d = l \/ Sooner(s.cursor, d, l))
    BY <1>1, <1>3, <1>8
  <2>2. l \in Nat
    BY <1>1, <1>8
  <2>3. CASE at(c) # 0
    <3>1. \A d \in A : Sooner(s.cursor, c, d)
      BY <1>1, <1>3, <2>1, <2>3
    <3>2. A \subseteq D
      BY <1>1, <1>8, <2>1, <2>2, <3>1, CursorMoves DEF Behind
    <3>3. Cardinality(A) <= Cardinality(D)
      BY <1>6, <3>2, FS_Subset
    <3>4. QED
      BY <1>2, <2>3, <3>3
  <2>4. CASE at(c) = 0
    <3>1. Sooner(s.cursor, l, c)
      BY <1>1, <1>8, <2>2, <2>4, SoonerIsOrder
    <3>2. A \subseteq D /\ B \subseteq D /\ A \cap B = {}
      <4>1. \A d \in A : Sooner(cursor, c, d) /\ Sooner(s.cursor, d, c)
        BY <1>1, <1>8, <2>1, <2>2, <3>1, CursorMoves
      <4>2. \A d \in B : d \in DataChannels /\ d \in Nat /\ Sooner(s.cursor, c, d)
        BY <1>1 DEF Behind
      <4>3. \A d \in B : Sooner(cursor, c, d)
        BY <1>1, <1>8, <2>2, <3>1, <4>2, CursorMoves
      <4>4. A \cap B = {}
        BY <1>1, <4>1, <4>2, SoonerIsOrder
      <4>5. QED
        BY <1>4, <4>1, <4>2, <4>3, <4>4 DEF Behind
    <3> HIDE DEF A, B, D
    <3>3. IsFiniteSet(A \cup B) /\ Cardinality(A \cup B) = Cardinality(A) + Cardinality(B) - Cardinality(A \cap B)
      BY <1>4, <1>6, FS_Union
    <3>4. Cardinality(A \cap B) = 0
      BY <3>2, FS_EmptySet
    <3>5. Cardinality(A \cup B) <= Cardinality(D)
      <4>1. A \cup B \subseteq D
        BY <3>2
      <4>2. QED
        BY <1>6, <4>1, FS_Subset
    <3>6. Cardinality(A) + Cardinality(B) <= Cardinality(D)
      BY <1>4, <1>6, <3>3, <3>4, <3>5
    <3>7. waited <= Cardinality(B)
      BY DEF B
    <3>8. QED
      BY <1>2, <1>4, <1>6, <3>6, <3>7
  <2>5. QED
    BY <2>3, <2>4
<1>9. (after <= Cardinality(D)) /\ (at(c) = 0 => after + waited <= Cardinality(D))
  <2>1. CASE \E l \in DataChannels :
              /\ cursor = l + 1
              /\ \A d \in DataChannels :
                   at(d) # 0 <=> (d \in Turn(s) /\ (d = l \/ Sooner(s.cursor, d, l)))
    <3> HIDE DEF D
    <3>1. QED
      BY <1>8, <2>1
  <2>2. CASE cursor = s.cursor /\ \A d \in DataChannels : at(d) = 0
    BY <1>7, <2>2 DEF at, D
  <2>3. QED
    BY <1>3, <2>1, <2>2
<1>10. QED
  BY <1>2, <1>4, <1>9 DEF at, D

(* Where every channel is numbered on its own, the items of a channel are  *)
(* numbered one after the other up to the next number it hands out, and    *)
(* the drain expects the first of them.                                    *)
Numbers(ns) == ns \in [ Queues -> Nat ]

Numbered(s, ns, c) ==
  /\ \A i \in 1 .. Len(s.data[c]) : s.data[c][i].sequence + Len(s.data[c]) + 1 = ns[c] + i
  /\ s.expected[c] = 0 \/ s.expected[c] + Len(s.data[c]) = ns[c]

(* A channel with data is in turn. *)
LEMMA NumberedInTurn ==
  ASSUME NEW s, SchedulerOK(s), NEW ns, Numbers(ns), NEW c \in DataChannels, Numbered(s, ns, c)
  PROVE  c \in Turn(s) <=> s.data[c] # << >>
<1>1. s.data[c] \in Seq(ItemOf(c)) /\ c \in Queues /\ s.expected[c] \in Nat /\ ns[c] \in Nat
  BY QueuesAre DEF SchedulerOK, Numbers
<1>2. ASSUME s.data[c] # << >> PROVE s.expected[c] \in { 0, Head(s.data[c]).sequence }
  <2>1. Len(s.data[c]) \in Nat /\ 1 \in 1 .. Len(s.data[c]) /\ Head(s.data[c]) = s.data[c][1]
    BY <1>1, <1>2, EmptySeq, LenProperties, HeadTailProperties
  <2>2. s.data[c][1].sequence \in Nat
    BY <1>1, <2>1, ElementOfSeq, ItemIs
  <2>3. s.data[c][1].sequence + Len(s.data[c]) + 1 = ns[c] + 1
    BY <2>1 DEF Numbered
  <2>4. s.expected[c] = 0 \/ s.expected[c] + Len(s.data[c]) = ns[c]
    BY DEF Numbered
  <2>5. s.expected[c] = 0 \/ s.expected[c] = s.data[c][1].sequence
    <3>1. PICK n \in Nat, e \in Nat, l \in Nat, a \in Nat :
            n = ns[c] /\ e = s.expected[c] /\ l = Len(s.data[c]) /\ a = s.data[c][1].sequence
      BY <1>1, <2>1, <2>2
    <3>2. a + l + 1 = n + 1 /\ (e = 0 \/ e + l = n)
      BY <2>3, <2>4, <3>1, Zenon
    <3>3. e = 0 \/ e = a
      BY <3>2
    <3>4. QED
      BY <3>1, <3>3, Zenon
  <2>6. QED
    BY <2>1, <2>5
<1>3. QED
  BY <1>2 DEF Turn, InTurn

(* A frame that is queued takes the next number. *)
LEMMA EnqueueNumbered ==
  ASSUME NEW s, SchedulerOK(s), IsRecord(s), NEW ns, Numbers(ns),
         NEW q \in Queues, NEW item \in ItemOf(q), item.sequence = ns[q],
         NEW r, r = Enqueue(s, item), NEW c \in DataChannels, Numbered(s, ns, c)
  PROVE  Numbered(r, [ ns EXCEPT ![q] = @ + 1 ], c)
<1> DEFINE old == s.data[c]
           new == r.data[c]
           nt == [ ns EXCEPT ![q] = @ + 1 ]
<1>1. /\ ItemsIn(r, q) = Append(ItemsIn(s, q), item)
      /\ \A p \in Queues : p # q => ItemsIn(r, p) = ItemsIn(s, p)
      /\ r.expected = s.expected
  BY EnqueueIs
<1>2. /\ c \in Queues /\ ItemsIn(s, c) = old /\ ItemsIn(r, c) = new /\ old \in Seq(ItemOf(c))
      /\ s.expected[c] \in Nat /\ ns[c] \in Nat /\ Len(old) \in Nat
  BY QueuesAre, LenProperties DEF SchedulerOK, Numbers
<1>3. /\ \A i \in 1 .. Len(old) : old[i].sequence + Len(old) + 1 = ns[c] + i
      /\ s.expected[c] = 0 \/ s.expected[c] + Len(old) = ns[c]
  BY DEF Numbered
<1>4. \A i \in 1 .. Len(old) : old[i].sequence \in Nat
  BY <1>2, ElementOfSeq, ItemIs
<1>5. CASE c # q
  <2>1. new = old /\ nt[c] = ns[c]
    BY <1>1, <1>2, <1>5 DEF Numbers
  <2>2. QED
    BY <1>1, <1>3, <2>1 DEF Numbered
<1>6. CASE c = q
  <2>1. new = Append(old, item) /\ nt[c] = ns[c] + 1
    BY <1>1, <1>2, <1>6 DEF Numbers
  <2>2. /\ Len(new) = Len(old) + 1 /\ new[Len(old) + 1] = item
        /\ \A i \in 1 .. Len(old) : new[i] = old[i]
    BY <1>2, <1>6, <2>1, AppendProperties
  <2> HIDE DEF old, new, nt
  <2>3. ASSUME NEW i \in 1 .. Len(new) PROVE new[i].sequence + Len(new) + 1 = nt[c] + i
    <3>0. Len(old) \in Nat /\ Len(new) = Len(old) + 1 /\ ns[c] \in Nat /\ nt[c] = ns[c] + 1 /\ i \in Nat
      BY <1>2, <2>1, <2>2
    <3>1. CASE i \in 1 .. Len(old)
      <4>1. new[i].sequence \in Nat /\ new[i].sequence + Len(old) + 1 = ns[c] + i
        BY <1>3, <1>4, <2>2, <3>1
      <4>2. PICK a \in Nat, l \in Nat, n \in Nat :
              a = new[i].sequence /\ l = Len(old) /\ n = ns[c] /\ a + l + 1 = n + i
        BY <3>0, <4>1
      <4>3. a + (l + 1) + 1 = (n + 1) + i
        <5>1. i \in Nat /\ a + l + 1 = n + i
          BY <3>0, <4>2
        <5>2. QED
          BY <5>1
      <4>4. QED
        BY <3>0, <4>2, <4>3
    <3>2. CASE i = Len(old) + 1
      <4>1. new[i].sequence = ns[c]
        BY <1>6, <2>2, <3>2
      <4>2. QED
        BY <3>0, <3>2, <4>1
    <3>3. QED
      BY <1>2, <2>2, <3>1, <3>2
  <2>4. r.expected[c] = 0 \/ r.expected[c] + Len(new) = nt[c]
    <3>1. r.expected[c] = s.expected[c] /\ s.expected[c] \in Nat /\ ns[c] \in Nat /\ Len(old) \in Nat
      BY <1>1, <1>2
    <3>2. Len(new) = Len(old) + 1 /\ nt[c] = ns[c] + 1
      BY <2>1, <2>2
    <3>3. s.expected[c] = 0 \/ s.expected[c] + Len(old) = ns[c]
      BY <1>3
    <3>4. QED
      BY <3>1, <3>2, <3>3
  <2>5. QED
    BY <2>3, <2>4 DEF Numbered, new, nt
<1>7. QED
  BY <1>5, <1>6

(* An item that is written whole makes its successor the expected one.     *)
LEMMA ExpectedMoves ==
  ASSUME NEW s, SchedulerOK(s), NEW taken, Taking(ServiceOrder(s), taken),
         NEW r, r = Drained(s, ServiceOrder(s), taken), NEW c \in DataChannels
  PROVE  \/ Shift(s, taken, c) = 0 /\ r.expected[c] = s.expected[c]
         \/ Shift(s, taken, c) = 1 /\ r.expected[c] = s.data[c][1].sequence + 1 /\ 1 \in 1 .. Len(s.data[c])
<1> DEFINE order == ServiceOrder(s)
           at == Served(order, taken, c)
           old == s.data[c]
           T == TakenOf(s, taken, c, 1)
<1>1. c \in Queues /\ c # ControlQueue /\ old \in Seq(ItemOf(c))
  BY QueuesAre DEF SchedulerOK
<1>2. old # << >> => 1 \in 1 .. Len(old) /\ old[1].left \in Nat \ {0}
  <2>1. ASSUME old # << >> PROVE 1 \in 1 .. Len(old)
    BY <1>1, <2>1, EmptySeq, LenProperties
  <2>2. QED
    BY <1>1, <2>1, ElementOfSeq, ItemIs
<1>3. r.expected[c] = IF at # 0 /\ taken[at] = order[at].left THEN ExpectedAfter(order[at]) ELSE s.expected[c]
  BY DEF Drained
<1>4. Shift(s, taken, c) = IF old # << >> /\ T = old[1].left THEN 1 ELSE 0
  BY <1>1 DEF Shift
<1>5. T = IF at # 0 THEN taken[at] ELSE 0
  BY <1>1 DEF TakenOf
<1>6. at # 0 => order[at] = old[1] /\ old # << >>
  <2> SUFFICES ASSUME at # 0 PROVE order[at] = old[1] /\ old # << >>
    OBVIOUS
  <2>1. PICK j \in 1 .. Cardinality(Turn(s)) : Rotation(s)[j] = c /\ at = Len(s.control) + j
    BY ServedIs
  <2>2. c \in Turn(s) /\ order[at] = old[1]
    BY <2>1, OrderIs
  <2>3. QED
    BY <2>2 DEF Turn, InTurn
<1> HIDE DEF order, at, old, T
<1>7. CASE at # 0 /\ taken[at] = order[at].left
  BY <1>2, <1>3, <1>4, <1>5, <1>6, <1>7 DEF ExpectedAfter, old
<1>8. CASE ~ (at # 0 /\ taken[at] = order[at].left)
  BY <1>2, <1>3, <1>4, <1>5, <1>6, <1>8
<1>9. QED
  BY <1>7, <1>8

LEMMA DrainNumbered ==
  ASSUME NEW s, SchedulerOK(s), NEW taken, Taking(ServiceOrder(s), taken),
         NEW r, r = Drained(s, ServiceOrder(s), taken),
         NEW ns, Numbers(ns), NEW c \in DataChannels, Numbered(s, ns, c)
  PROVE  Numbered(r, ns, c) /\ (r.data[c] # << >> => s.data[c] # << >>)
<1> DEFINE old == s.data[c]
           new == r.data[c]
           k == Shift(s, taken, c)
<1>1. /\ k \in 0 .. Len(old) /\ Len(old) \in Nat /\ new \in Seq(ItemOf(c)) /\ Len(new) = Len(old) - k
      /\ \A i \in 1 .. Len(new) : new[i].sequence = old[k + i].sequence
  <2>1. Moves(old, new, c, k, s, taken)
    BY DataMoves
  <2> HIDE DEF old, new, k
  <2>2. QED
    BY <2>1 DEF Moves
<1>2. c \in Queues /\ old \in Seq(ItemOf(c)) /\ s.expected[c] \in Nat /\ ns[c] \in Nat
  BY QueuesAre DEF SchedulerOK, Numbers
<1>3. /\ \A i \in 1 .. Len(old) : old[i].sequence + Len(old) + 1 = ns[c] + i
      /\ s.expected[c] = 0 \/ s.expected[c] + Len(old) = ns[c]
  BY DEF Numbered
<1>4. \A i \in 1 .. Len(old) : old[i].sequence \in Nat
  BY <1>2, ElementOfSeq, ItemIs
<1>5. \/ k = 0 /\ r.expected[c] = s.expected[c]
      \/ k = 1 /\ r.expected[c] = old[1].sequence + 1 /\ 1 \in 1 .. Len(old)
  BY ExpectedMoves
<1> HIDE DEF old, new, k
<1>6. ASSUME NEW i \in 1 .. Len(new) PROVE new[i].sequence + Len(new) + 1 = ns[c] + i
  <2>0. /\ k \in Nat /\ Len(old) \in Nat /\ Len(new) \in Nat /\ ns[c] \in Nat /\ i \in Nat
        /\ Len(new) + k = Len(old)
    BY <1>1, <1>2
  <2>1. k + i \in 1 .. Len(old)
    BY <1>1
  <2>2. new[i].sequence \in Nat /\ new[i].sequence + Len(old) + 1 = ns[c] + (k + i)
    BY <1>1, <1>3, <1>4, <2>1
  <2>3. PICK a \in Nat, l \in Nat, m \in Nat, n \in Nat :
          a = new[i].sequence /\ l = Len(old) /\ m = Len(new) /\ n = ns[c]
    BY <2>0, <2>2
  <2>4. m + k = l /\ a + l + 1 = n + (k + i)
    BY <2>0, <2>2, <2>3, Zenon
  <2>5. a + m + 1 = n + i
    BY <2>0, <2>4
  <2>6. QED
    BY <2>3, <2>5, Zenon
<1>7. r.expected[c] = 0 \/ r.expected[c] + Len(new) = ns[c]
  <2>1. CASE k = 0 /\ r.expected[c] = s.expected[c]
    <3>1. Len(new) = Len(old)
      BY <1>1, <2>1
    <3>2. QED
      BY <1>3, <2>1, <3>1
  <2>2. CASE k = 1 /\ r.expected[c] = old[1].sequence + 1 /\ 1 \in 1 .. Len(old)
    <3>1. old[1].sequence \in Nat /\ old[1].sequence + Len(old) + 1 = ns[c] + 1
      BY <1>3, <1>4, <2>2
    <3>2. Len(old) \in Nat /\ Len(new) = Len(old) - 1 /\ ns[c] \in Nat
      BY <1>1, <1>2, <2>2
    <3>3. old[1].sequence + 1 + Len(new) = ns[c]
      BY <3>1, <3>2
    <3>4. QED
      BY <2>2, <3>3
  <2>3. QED
    BY <1>5, <2>1, <2>2
<1>8. new # << >> => old # << >>
  <2>1. old = << >> => Len(old) = 0
    BY <1>2, EmptySeq
  <2>2. Len(old) = 0 => Len(new) = 0
    <3>1. Len(new) \in Nat /\ Len(old) \in Nat /\ Len(new) <= Len(old)
      BY <1>1
    <3>2. QED
      BY <3>1
  <2>3. Len(new) = 0 => new = << >>
    BY <1>1, EmptySeq
  <2>4. QED
    BY <2>1, <2>2, <2>3
<1>9. QED
  BY <1>6, <1>7, <1>8 DEF Numbered, old, new

-----------------------------------------------------------------------------
(* The bound on waiting *)

Waits(s, waited) ==
  /\ waited \in [ DataChannels -> Nat ]
  /\ \A c \in DataChannels : s.data[c] # << >> => waited[c] <= Cardinality(Behind(s.cursor, c))

RoundRobin ==
  /\ Accounts
  /\ \A c \in DataChannels : Numbered(sch, numbers, c)
  /\ Waits(sch, passed)

LEMMA InitRoundRobin == Init => RoundRobin
<1> SUFFICES ASSUME Init PROVE RoundRobin
  OBVIOUS
<1>1. /\ numbers = [ q \in Queues |-> 1 ] /\ passed = [ c \in DataChannels |-> 0 ]
      /\ \A c \in DataChannels : sch.data[c] = << >> /\ sch.expected[c] = 0
  BY DEF Init, EmptyScheduler
<1>2. \A c \in DataChannels : Numbered(sch, numbers, c)
  <2>1. 1 .. Len(<< >>) = {}
    BY EmptySeq
  <2>2. QED
    BY <1>1, <2>1 DEF Numbered
<1>3. Waits(sch, passed)
  BY <1>1 DEF Waits
<1>4. QED
  BY <1>2, <1>3, InitAccounts DEF RoundRobin

LEMMA OfferRoundRobin ==
  ASSUME OneNumbering = FALSE, RoundRobin, NEW q \in Queues, NEW size \in ItemSizes, Offer(q, size)
  PROVE  RoundRobin'
<1> DEFINE item == Item(q, numbers[q], size)
<1>1. Accounts'
  BY OfferAccounts DEF RoundRobin
<1>2. SchedulerOK(sch) /\ IsRecord(sch) /\ Numbers(numbers) /\ numbers[q] \in Nat
  BY DEF RoundRobin, Accounts, Numbers
<1>3. item \in ItemOf(q) /\ item.sequence = numbers[q] /\ QueueOf(item) = q
  <2>1. item \in ItemOf(q)
    BY <1>2, ItemMade
  <2>2. item.sequence = numbers[q]
    BY DEF Item
  <2> HIDE DEF item
  <2>3. QED
    BY <2>1, <2>2, ItemIs
<1> HIDE DEF item
<1>4. CASE EnqueueError(sch, item) = "none"
  <2>1. /\ sch' = Enqueue(sch, item) /\ numbers' = [ numbers EXCEPT ![q] = @ + 1 ]
        /\ passed' = IF q # ControlQueue /\ sch.data[q] = << >> THEN [ passed EXCEPT ![q] = 0 ] ELSE passed
    BY <1>3, <1>4 DEF Offer, Accept, Advance, item
  <2>2. ASSUME NEW c \in DataChannels PROVE Numbered(sch', numbers', c)
    <3>1. Numbered(sch, numbers, c)
      BY DEF RoundRobin
    <3>2. QED
      BY <1>2, <1>3, <2>1, <3>1, EnqueueNumbered
  <2>3. /\ \A p \in Queues : p # q => ItemsIn(sch', p) = ItemsIn(sch, p)
        /\ sch'.cursor = sch.cursor
    BY <1>2, <1>3, <2>1, EnqueueIs
  <2>4. /\ passed \in [ DataChannels -> Nat ]
        /\ \A c \in DataChannels : sch.data[c] # << >> => passed[c] <= Cardinality(Behind(sch.cursor, c))
    BY DEF RoundRobin, Waits
  <2>5. passed' \in [ DataChannels -> Nat ]
    BY <2>1, <2>4
  <2>6. ASSUME NEW c \in DataChannels, sch'.data[c] # << >>
        PROVE  passed'[c] <= Cardinality(Behind(sch.cursor, c))
    <3>1. CASE c = q /\ sch.data[c] = << >>
      <4>1. passed'[c] = 0
        BY <2>1, <2>4, <3>1, QueuesAre
      <4>2. Cardinality(Behind(sch.cursor, c)) \in Nat
        BY <1>2, BehindFinite DEF SchedulerOK
      <4>3. QED
        BY <4>1, <4>2
    <3>2. CASE ~ (c = q /\ sch.data[c] = << >>)
      <4>1. sch.data[c] # << >>
        BY <2>3, <2>6, <3>2, QueuesAre
      <4>2. passed'[c] = passed[c]
        BY <2>1, <2>4, <3>2
      <4>3. QED
        BY <2>4, <4>1, <4>2
    <3>3. QED
      BY <3>1, <3>2
  <2>7. Waits(sch', passed')
    BY <2>3, <2>5, <2>6 DEF Waits
  <2>8. QED
    BY <1>1, <2>2, <2>7 DEF RoundRobin
<1>5. CASE EnqueueError(sch, item) # "none"
  <2>1. sch' = sch /\ numbers' = numbers /\ passed' = passed
    BY <1>5 DEF Offer, item
  <2>2. QED
    BY <1>1, <2>1 DEF RoundRobin
<1>6. QED
  BY <1>4, <1>5

LEMMA WriteRoundRobin ==
  ASSUME RoundRobin, NEW writable \in 1 .. MaxWrite, Write(writable)
  PROVE  RoundRobin'
<1> DEFINE order == ServiceOrder(sch)
           taken == Taken(order, writable)
<1>1. Accounts'
  BY WriteAccounts DEF RoundRobin
<1>2. SchedulerOK(sch) /\ sch.cursor \in Nat /\ Numbers(numbers)
  BY DEF RoundRobin, Accounts, SchedulerOK, Numbers
<1>3. Taking(order, taken)
  BY <1>2, WriteTakes, OutboundSchedulerAssumption
<1>4. /\ sch' = Drained(sch, order, taken) /\ numbers' = numbers
      /\ passed' = [ c \in DataChannels |->
                       WritesAfter(order, taken, c) + (IF Served(order, taken, c) = 0 THEN passed[c] ELSE 0) ]
  BY DEF Write
<1> HIDE DEF taken
<1>5. ASSUME NEW c \in DataChannels
      PROVE  Numbered(sch', numbers', c) /\ (sch'.data[c] # << >> => sch.data[c] # << >>)
  <2>1. Numbered(sch, numbers, c)
    BY DEF RoundRobin
  <2>2. QED
    BY <1>2, <1>3, <1>4, <2>1, DrainNumbered
<1>6. ServesInTurn(sch, taken, sch'.cursor)
  BY <1>2, <1>3, <1>4, TurnsAreTaken
<1>7. /\ passed \in [ DataChannels -> Nat ]
      /\ \A c \in DataChannels : sch.data[c] # << >> => passed[c] <= Cardinality(Behind(sch.cursor, c))
  BY DEF RoundRobin, Waits
<1>8. \A c \in DataChannels : WritesAfter(order, taken, c) \in Nat
  <2> SUFFICES ASSUME NEW c \in DataChannels PROVE WritesAfter(order, taken, c) \in Nat
    OBVIOUS
  <2>1. IsFiniteSet({ d \in DataChannels : Served(order, taken, d) > Served(order, taken, c) })
    BY SchedulerAssumption, FS_Subset
  <2>2. QED
    BY <2>1, FS_CardinalityType DEF WritesAfter
<1>9. passed' \in [ DataChannels -> Nat ]
  BY <1>4, <1>7, <1>8
<1>10. ASSUME NEW c \in DataChannels, sch'.data[c] # << >>
       PROVE  passed'[c] <= Cardinality(Behind(sch'.cursor, c))
  <2>1. sch.data[c] # << >>
    BY <1>5, <1>10
  <2>2. c \in Turn(sch)
    <3>1. Numbered(sch, numbers, c)
      BY DEF RoundRobin
    <3>2. QED
      BY <1>2, <2>1, <3>1, NumberedInTurn
  <2>3. passed[c] \in Nat /\ passed[c] <= Cardinality(Behind(sch.cursor, c))
    BY <1>7, <2>1
  <2>4. /\ WritesAfter(order, taken, c) \in Nat
        /\ WritesAfter(order, taken, c) <= Cardinality(Behind(sch'.cursor, c))
        /\ (Served(order, taken, c) = 0 =>
              WritesAfter(order, taken, c) + passed[c] <= Cardinality(Behind(sch'.cursor, c)))
    BY <1>2, <1>6, <2>2, <2>3, WaitIsBounded
  <2>5. passed'[c] = WritesAfter(order, taken, c) + (IF Served(order, taken, c) = 0 THEN passed[c] ELSE 0)
    BY <1>4
  <2> HIDE DEF order
  <2>6. CASE Served(order, taken, c) = 0
    BY <2>4, <2>5, <2>6
  <2>7. CASE Served(order, taken, c) # 0
    <3>1. passed'[c] = WritesAfter(order, taken, c)
      BY <2>4, <2>5, <2>7
    <3>2. QED
      BY <2>4, <3>1
  <2>8. QED
    BY <2>6, <2>7
<1>11. Waits(sch', passed')
  BY <1>9, <1>10 DEF Waits
<1>12. QED
  BY <1>1, <1>5, <1>11 DEF RoundRobin

LEMMA StepRoundRobin ==
  ASSUME OneNumbering = FALSE, RoundRobin, [Next]_vars
  PROVE  RoundRobin'
<1>1. ASSUME UNCHANGED vars PROVE RoundRobin'
  <2>1. sch' = sch /\ numbers' = numbers /\ passed' = passed
    BY <1>1 DEF vars
  <2>2. Accounts'
    BY <1>1, StepAccounts DEF RoundRobin
  <2>3. QED
    BY <2>1, <2>2 DEF RoundRobin
<1>2. ASSUME NEW q \in Queues, NEW size \in ItemSizes, Offer(q, size) PROVE RoundRobin'
  BY <1>2, OfferRoundRobin
<1>3. ASSUME NEW c \in DataChannels, NEW size \in ItemSizes, OfferRegressed(c, size) PROVE RoundRobin'
  <2>1. UNCHANGED vars
    BY <1>3, RegressedRefused DEF RoundRobin, Accounts
  <2>2. QED
    BY <1>1, <2>1
<1>4. ASSUME NEW writable \in 1 .. MaxWrite, Write(writable) PROVE RoundRobin'
  BY <1>4, WriteRoundRobin
<1>5. QED
  BY <1>1, <1>2, <1>3, <1>4 DEF Next

LEMMA RoundRobinHolds == RoundRobin => BoundedBypass
<1> SUFFICES ASSUME RoundRobin, NEW c \in DataChannels, sch.data[c] # << >>
             PROVE  passed[c] <= Cardinality(DataChannels) - 1
  BY DEF BoundedBypass
<1>1. passed[c] \in Nat /\ passed[c] <= Cardinality(Behind(sch.cursor, c))
  BY DEF RoundRobin, Waits
<1>2. sch.cursor \in Nat
  BY DEF RoundRobin, Accounts, SchedulerOK
<1>3. /\ Cardinality(Behind(sch.cursor, c)) \in Nat
      /\ Cardinality(Behind(sch.cursor, c)) <= Cardinality(DataChannels) - 1
  BY <1>2, BehindFinite
<1>4. Cardinality(DataChannels) \in Nat
  BY SchedulerAssumption, FS_CardinalityType
<1>5. QED
  BY <1>1, <1>3, <1>4

(* Round robin: where every channel is numbered on its own, a channel with *)
(* data waits for at most one write of each other channel, however short   *)
(* the writes are and wherever they leave the cursor.                      *)
THEOREM BypassAlwaysBounded ==
  ASSUME OneNumbering = FALSE
  PROVE  Spec => []BoundedBypass
<1>1. Init => RoundRobin
  BY InitRoundRobin
<1>2. RoundRobin /\ [Next]_vars => RoundRobin'
  BY StepRoundRobin
<1>3. RoundRobin => BoundedBypass
  BY RoundRobinHolds
<1>4. QED
  BY <1>1, <1>2, <1>3, PTL DEF Spec

-----------------------------------------------------------------------------
(* Sequences put end to end *)

(* Every set of numbers that is closed under successors up to n is full.   *)
LEMMA Induction ==
  ASSUME NEW n \in Nat, NEW G, 0 \in G, \A i \in 1 .. n : i - 1 \in G => i \in G
  PROVE  \A i \in 0 .. n : i \in G
<1> DEFINE R == OpToRel(<, Nat)
           T == { i \in 0 .. n : i \notin G }
<1>1. IsWellFoundedOn(R, Nat)
  BY NatLessThanWellFounded
<1>2. \A x, y \in Nat : << x, y >> \in R <=> x < y
  BY DEF OpToRel
<1> HIDE DEF R
<1>3. SUFFICES ASSUME T # {} PROVE FALSE
  OBVIOUS
<1>4. T \subseteq Nat
  OBVIOUS
<1> HIDE DEF T
<1>5. PICK x \in T : \A y \in T : ~ (<< y, x >> \in R)
  BY <1>1, <1>3, <1>4, WFMin
<1>6. x \in 0 .. n /\ x \notin G
  BY DEF T
<1>7. x \in 1 .. n /\ x - 1 \in 0 .. n
  BY <1>6
<1>8. x - 1 \notin G
  BY <1>6, <1>7
<1>9. x - 1 \in T
  BY <1>7, <1>8 DEF T
<1>10. << x - 1, x >> \in R
  BY <1>2, <1>4, <1>7, <1>9
<1>11. QED
  BY <1>5, <1>9, <1>10

-----------------------------------------------------------------------------
(* f joins the first n sequences of s, one after the other. *)
Flattens(f, s, n) == f = [ i \in 1 .. n |-> IF i = 1 THEN s[i] ELSE f[i - 1] \o s[i] ]

Flatten(s) == CHOOSE f : Flattens(f, s, Len(s))

LEMMA FlattensIs ==
  ASSUME NEW f, NEW s, NEW n
  PROVE  Flattens(f, s, n) <=>
           /\ f = [ i \in 1 .. n |-> f[i] ]
           /\ \A i \in 1 .. n : f[i] = IF i = 1 THEN s[i] ELSE f[i - 1] \o s[i]
<1>1. ASSUME Flattens(f, s, n)
      PROVE  /\ f = [ i \in 1 .. n |-> f[i] ]
             /\ \A i \in 1 .. n : f[i] = IF i = 1 THEN s[i] ELSE f[i - 1] \o s[i]
  <2> DEFINE g == [ i \in 1 .. n |-> IF i = 1 THEN s[i] ELSE f[i - 1] \o s[i] ]
  <2>1. f = g
    BY <1>1 DEF Flattens
  <2>2. g = [ i \in 1 .. n |-> g[i] ] /\ \A i \in 1 .. n : g[i] = IF i = 1 THEN s[i] ELSE f[i - 1] \o s[i]
    OBVIOUS
  <2> HIDE DEF g
  <2>3. QED
    BY <2>1, <2>2, Zenon
<1>2. ASSUME f = [ i \in 1 .. n |-> f[i] ],
             \A i \in 1 .. n : f[i] = IF i = 1 THEN s[i] ELSE f[i - 1] \o s[i]
      PROVE  Flattens(f, s, n)
  <2>1. [ i \in 1 .. n |-> f[i] ] = [ i \in 1 .. n |-> IF i = 1 THEN s[i] ELSE f[i - 1] \o s[i] ]
    BY <1>2, Zenon
  <2>2. QED
    BY <1>2, <2>1, Zenon DEF Flattens
<1>3. QED
  BY <1>1, <1>2, Zenon

LEMMA FlattenDefined ==
  ASSUME NEW s, Len(s) \in Nat
  PROVE  Flattens(Flatten(s), s, Len(s))
<1> DEFINE G == { n \in 0 .. Len(s) : \E f : Flattens(f, s, n) }
<1>1. 0 \in G
  <2>1. PICK f : f = [ i \in 1 .. 0 |-> 0 ]
    OBVIOUS
  <2>2. Flattens(f, s, 0)
    BY <2>1 DEF Flattens
  <2>3. QED
    BY <2>2
<1>2. ASSUME NEW n \in 1 .. Len(s), n - 1 \in G PROVE n \in G
  <2>1. PICK g : Flattens(g, s, n - 1)
    BY <1>2
  <2>2. \A i \in 1 .. n - 1 : g[i] = IF i = 1 THEN s[i] ELSE g[i - 1] \o s[i]
    BY <2>1, FlattensIs, Zenon
  <2>3. PICK last : last = IF n = 1 THEN s[n] ELSE g[n - 1] \o s[n]
    OBVIOUS
  <2>4. PICK f : f = [ i \in 1 .. n |-> IF i = n THEN last ELSE g[i] ]
    OBVIOUS
  <2>5. /\ f = [ i \in 1 .. n |-> f[i] ] /\ f[n] = last
        /\ \A i \in 1 .. n - 1 : f[i] = g[i]
    BY <1>2, <2>4
  <2> HIDE <2>4
  <2>6. ASSUME NEW i \in 1 .. n PROVE f[i] = IF i = 1 THEN s[i] ELSE f[i - 1] \o s[i]
    <3>1. CASE i = n
      <4>1. n # 1 => n - 1 \in 1 .. n - 1
        BY <1>2
      <4>2. n # 1 => f[n - 1] = g[n - 1]
        BY <2>5, <4>1
      <4>3. QED
        BY <2>3, <2>5, <3>1, <4>2
    <3>2. CASE i # n
      <4>1. i \in 1 .. n - 1 /\ (i # 1 => i - 1 \in 1 .. n - 1)
        BY <1>2, <3>2
      <4>2. f[i] = g[i] /\ (i # 1 => f[i - 1] = g[i - 1])
        BY <2>5, <4>1
      <4>3. QED
        BY <2>2, <4>1, <4>2
    <3>3. QED
      BY <3>1, <3>2
  <2>7. Flattens(f, s, n)
    BY <2>5, <2>6, FlattensIs, Zenon
  <2>8. QED
    BY <2>7
<1>3. Len(s) \in G
  <2> HIDE DEF G
  <2>1. \A i \in 1 .. Len(s) : i - 1 \in G => i \in G
    BY <1>2
  <2>2. \A i \in 0 .. Len(s) : i \in G
    BY <1>1, <2>1, Induction
  <2>3. QED
    BY <2>2
<1>4. QED
  BY <1>3 DEF Flatten

-----------------------------------------------------------------------------
(* f[i] joins the first i sequences of s. *)
Joins(f, s) == f[0] = << >> /\ \A i \in 1 .. Len(s) : f[i] = f[i - 1] \o s[i]

LEMMA FlattenJoins ==
  ASSUME NEW S, NEW s \in Seq(Seq(S))
  PROVE  \E f \in [ 0 .. Len(s) -> Seq(S) ] : Joins(f, s) /\ FlattenSeq(s) = f[Len(s)]
<1>1. PICK n \in Nat : n = Len(s)
  BY LenProperties
<1>2. PICK g : g = Flatten(s)
  OBVIOUS
<1>3. \A i \in 1 .. n : g[i] = IF i = 1 THEN s[i] ELSE g[i - 1] \o s[i]
  BY <1>1, <1>2, FlattenDefined, FlattensIs
<1>4. FlattenSeq(s) = IF n = 0 THEN s ELSE g[n]
  BY <1>1, <1>2 DEF FlattenSeq, Flatten, Flattens
<1>5. \A i \in 1 .. n : s[i] \in Seq(S)
  BY <1>1, ElementOfSeq
<1>6. PICK f : f = [ i \in 0 .. n |-> IF i = 0 THEN << >> ELSE g[i] ]
  OBVIOUS
<1>7. f[0] = << >> /\ (\A i \in 1 .. n : f[i] = g[i]) /\ f = [ i \in 0 .. n |-> f[i] ]
  BY <1>1, <1>6
<1>8. ASSUME NEW i \in 1 .. n PROVE f[i] = f[i - 1] \o s[i]
  <2>1. CASE i = 1
    <3>1. f[1] = s[1] /\ s[1] \in Seq(S)
      BY <1>3, <1>5, <1>7, <2>1
    <3>2. << >> \o s[1] = s[1]
      BY <3>1, ConcatEmptySeq
    <3>3. i - 1 = 0
      BY <2>1
    <3>4. QED
      BY <1>7, <2>1, <3>1, <3>2, <3>3
  <2>2. CASE i # 1
    <3>1. i - 1 \in 1 .. n
      BY <1>1, <2>2
    <3>2. QED
      BY <1>3, <1>7, <2>2, <3>1
  <2>3. QED
    BY <2>1, <2>2
<1> DEFINE G == { i \in 0 .. n : f[i] \in Seq(S) }
<1>9. 0 \in G
  BY <1>1, <1>7, EmptySeq
<1>10. ASSUME NEW i \in 1 .. n, i - 1 \in G PROVE i \in G
  <2>1. f[i - 1] \in Seq(S) /\ s[i] \in Seq(S) /\ i \in 0 .. n
    BY <1>1, <1>5, <1>10
  <2>2. f[i - 1] \o s[i] \in Seq(S)
    BY <2>1, ConcatProperties
  <2>3. f[i] \in Seq(S)
    BY <1>8, <2>2
  <2>4. QED
    BY <2>1, <2>3
<1> HIDE DEF G
<1>11. \A i \in 0 .. n : i \in G
  BY <1>9, <1>10, Induction
<1>12. \A i \in 0 .. n : f[i] \in Seq(S)
  BY <1>11 DEF G
<1>13. f \in [ 0 .. n -> Seq(S) ]
  BY <1>7, <1>12
<1>14. Joins(f, s)
  BY <1>1, <1>7, <1>8 DEF Joins
<1>15. FlattenSeq(s) = f[n]
  <2>1. CASE n = 0
    BY <1>1, <1>4, <1>7, <2>1, EmptySeq
  <2>2. CASE n # 0
    <3>1. n \in 1 .. n
      BY <2>2
    <3>2. QED
      BY <1>4, <1>7, <2>2, <3>1
  <2>3. QED
    BY <2>1, <2>2
<1>16. QED
  BY <1>1, <1>13, <1>14, <1>15

(* Flattening nothing, and joining one sequence more. *)
LEMMA FlattenIs ==
  ASSUME NEW S, NEW s \in Seq(Seq(S))
  PROVE  FlattenSeq(s) \in Seq(S) /\ (s = << >> => FlattenSeq(s) = << >>)
<1>1. PICK f \in [ 0 .. Len(s) -> Seq(S) ] : Joins(f, s) /\ FlattenSeq(s) = f[Len(s)]
  BY FlattenJoins
<1>2. Len(s) \in 0 .. Len(s)
  BY LenProperties
<1>3. s = << >> => Len(s) = 0
  OBVIOUS
<1>4. QED
  BY <1>1, <1>2, <1>3 DEF Joins

(* s is t with d empty sequences ahead of it and some behind it. *)
Pads(s, t, d) ==
  /\ d + Len(t) <= Len(s)
  /\ \A i \in 1 .. Len(t) : s[d + i] = t[i]
  /\ \A i \in 1 .. Len(s) : i <= d \/ d + Len(t) < i => s[i] = << >>

Within(i, n) == IF i < 0 THEN 0 ELSE IF i > n THEN n ELSE i

LEMMA PaddingFlattens ==
  ASSUME NEW S, NEW s \in Seq(Seq(S)), NEW t \in Seq(Seq(S)), NEW d \in Nat, Pads(s, t, d)
  PROVE  FlattenSeq(s) = FlattenSeq(t)
<1>1. PICK n \in Nat, m \in Nat : n = Len(s) /\ m = Len(t)
  BY LenProperties
<1>2. PICK f \in [ 0 .. n -> Seq(S) ] : Joins(f, s) /\ FlattenSeq(s) = f[n]
  BY <1>1, FlattenJoins
<1>3. PICK g \in [ 0 .. m -> Seq(S) ] : Joins(g, t) /\ FlattenSeq(t) = g[m]
  BY <1>1, FlattenJoins
<1>4. /\ f[0] = << >> /\ \A i \in 1 .. n : f[i] = f[i - 1] \o s[i]
      /\ g[0] = << >> /\ \A i \in 1 .. m : g[i] = g[i - 1] \o t[i]
  BY <1>1, <1>2, <1>3 DEF Joins
<1>5. /\ d + m <= n
      /\ \A i \in 1 .. m : s[d + i] = t[i]
      /\ \A i \in 1 .. n : i <= d \/ d + m < i => s[i] = << >>
  BY <1>1 DEF Pads
<1> DEFINE Same(i) == f[i] = g[Within(i - d, m)]
           G == { i \in 0 .. n : Same(i) }
<1>6. 0 \in G
  <2>1. Within(0 - d, m) = 0
    BY DEF Within
  <2>2. Same(0)
    BY <1>4, <2>1
  <2> HIDE DEF Same
  <2>3. QED
    BY <2>2
<1>7. ASSUME NEW i \in 1 .. n, i - 1 \in G PROVE i \in G
  <2>0. Same(i - 1)
    BY <1>7
  <2>1. f[i - 1] = g[Within(i - 1 - d, m)] /\ f[i] = f[i - 1] \o s[i]
    BY <1>4, <2>0
  <2>2. CASE d < i /\ i <= d + m
    <3>1. PICK j \in 1 .. m : j = i - d
      BY <2>2
    <3>2. Within(i - 1 - d, m) = j - 1 /\ Within(i - d, m) = j /\ d + j = i
      BY <3>1 DEF Within
    <3>3. s[i] = t[j] /\ g[j] = g[j - 1] \o t[j]
      BY <1>4, <1>5, <3>1, <3>2
    <3>4. Same(i)
      BY <2>1, <3>2, <3>3
    <3> HIDE DEF Same
    <3>5. QED
      BY <3>4
  <2>3. CASE i <= d \/ d + m < i
    <3>1. Within(i - 1 - d, m) = Within(i - d, m)
      BY <2>3 DEF Within
    <3>2. s[i] = << >> /\ f[i - 1] \in Seq(S)
      <4>1. s[i] = << >>
        BY <1>5, <2>3
      <4>2. i - 1 \in 0 .. n
        OBVIOUS
      <4>3. QED
        BY <1>2, <4>1, <4>2
    <3>3. f[i] = f[i - 1]
      BY <2>1, <3>2, ConcatEmptySeq
    <3>4. Same(i)
      BY <2>1, <3>1, <3>3
    <3> HIDE DEF Same
    <3>5. QED
      BY <3>4
  <2>4. QED
    BY <2>2, <2>3
<1> HIDE DEF G
<1>8. n \in G
  <2>1. \A i \in 0 .. n : i \in G
    BY <1>6, <1>7, Induction
  <2>2. QED
    BY <2>1
<1>9. Within(n - d, m) = m
  BY <1>5 DEF Within
<1>10. QED
  BY <1>2, <1>3, <1>8, <1>9 DEF G

LEMMA AppendFlattens ==
  ASSUME NEW S, NEW s \in Seq(Seq(S)), NEW x \in Seq(S)
  PROVE  FlattenSeq(Append(s, x)) = FlattenSeq(s) \o x
<1>1. PICK t \in Seq(Seq(S)), n \in Nat :
        /\ t = Append(s, x) /\ n = Len(s) /\ Len(t) = n + 1
        /\ t[n + 1] = x /\ \A i \in 1 .. n : t[i] = s[i]
  <2>1. /\ Append(s, x) \in Seq(Seq(S)) /\ Len(s) \in Nat
        /\ Len(Append(s, x)) = Len(s) + 1 /\ Append(s, x)[Len(s) + 1] = x
        /\ \A i \in 1 .. Len(s) : Append(s, x)[i] = s[i]
    BY AppendProperties, LenProperties
  <2>2. QED
    BY <2>1, Zenon
<1>2. PICK f \in [ 0 .. n -> Seq(S) ] : Joins(f, s) /\ FlattenSeq(s) = f[n]
  BY <1>1, FlattenJoins
<1>3. PICK g \in [ 0 .. n + 1 -> Seq(S) ] : Joins(g, t) /\ FlattenSeq(t) = g[n + 1]
  <2>1. \E g \in [ 0 .. Len(t) -> Seq(S) ] : Joins(g, t) /\ FlattenSeq(t) = g[Len(t)]
    BY FlattenJoins
  <2>2. QED
    BY <1>1, <2>1, Zenon
<1>4. /\ f[0] = << >> /\ \A i \in 1 .. n : f[i] = f[i - 1] \o s[i]
      /\ g[0] = << >> /\ \A i \in 1 .. n + 1 : g[i] = g[i - 1] \o t[i]
  BY <1>1, <1>2, <1>3 DEF Joins
<1> DEFINE G == { i \in 0 .. n : f[i] = g[i] }
<1>5. 0 \in G
  BY <1>4
<1>6. ASSUME NEW i \in 1 .. n, i - 1 \in G PROVE i \in G
  <2>1. f[i - 1] = g[i - 1] /\ i \in 1 .. n + 1 /\ i \in 0 .. n
    BY <1>6
  <2>2. f[i] = g[i]
    BY <1>1, <1>4, <2>1
  <2>3. QED
    BY <2>1, <2>2
<1> HIDE DEF G
<1>7. n \in G
  <2>1. \A i \in 0 .. n : i \in G
    BY <1>5, <1>6, Induction
  <2>2. QED
    BY <2>1
<1>8. g[n + 1] = g[n] \o x
  <2>1. n + 1 \in 1 .. n + 1 /\ (n + 1) - 1 = n
    OBVIOUS
  <2>2. QED
    BY <1>1, <1>4, <2>1
<1>9. QED
  BY <1>1, <1>2, <1>3, <1>7, <1>8 DEF G

Concat(s, t) == s \o t

LEMMA ConcatGroups ==
  ASSUME NEW S, NEW a \in Seq(S), NEW b \in Seq(S), NEW c \in Seq(S)
  PROVE  Concat(Concat(a, b), c) = Concat(a, Concat(b, c))
BY ConcatAssociative DEF Concat

(* Two neighbours change places when one of them is empty. *)
LEMMA Regroup ==
  ASSUME NEW S, NEW a \in Seq(S), NEW b \in Seq(S), NEW p \in Seq(S), NEW q \in Seq(S),
         p = << >> \/ b = << >>
  PROVE  Concat(Concat(a, p), Concat(b, q)) = Concat(Concat(a, b), Concat(p, q))
<1>1. CASE p = << >>
  <2>1. Concat(a, p) = a /\ Concat(p, q) = q
    BY <1>1, ConcatEmptySeq DEF Concat
  <2>2. Concat(Concat(a, b), q) = Concat(a, Concat(b, q))
    BY ConcatGroups
  <2>3. QED
    BY <2>1, <2>2, Zenon
<1>2. CASE b = << >>
  <2>1. Concat(b, q) = q /\ Concat(a, b) = a
    BY <1>2, ConcatEmptySeq DEF Concat
  <2>2. Concat(Concat(a, p), q) = Concat(a, Concat(p, q))
    BY ConcatGroups
  <2>3. QED
    BY <2>1, <2>2, Zenon
<1>3. QED
  BY <1>1, <1>2

(* Every sequence is cut in two, and none after the first that has a rest  *)
(* has a front: the fronts and then the rests are the whole.               *)
Cuts(whole, front, rest) ==
  /\ Len(front) = Len(whole) /\ Len(rest) = Len(whole)
  /\ \A i \in 1 .. Len(whole) : whole[i] = front[i] \o rest[i]
  /\ \A i \in 1 .. Len(whole) : front[i] = << >> \/ \A j \in 1 .. i - 1 : rest[j] = << >>

LEMMA CutsFlatten ==
  ASSUME NEW S, NEW whole \in Seq(Seq(S)), NEW front \in Seq(Seq(S)), NEW rest \in Seq(Seq(S)),
         Cuts(whole, front, rest)
  PROVE  FlattenSeq(front) \o FlattenSeq(rest) = FlattenSeq(whole)
<1>1. PICK n \in Nat : n = Len(whole) /\ n = Len(front) /\ n = Len(rest)
  BY LenProperties DEF Cuts
<1>2. PICK w \in [ 0 .. n -> Seq(S) ] : Joins(w, whole) /\ FlattenSeq(whole) = w[n]
  BY <1>1, FlattenJoins
<1>3. PICK f \in [ 0 .. n -> Seq(S) ] : Joins(f, front) /\ FlattenSeq(front) = f[n]
  BY <1>1, FlattenJoins
<1>4. PICK r \in [ 0 .. n -> Seq(S) ] : Joins(r, rest) /\ FlattenSeq(rest) = r[n]
  BY <1>1, FlattenJoins
<1>5. /\ w[0] = << >> /\ \A i \in 1 .. n : w[i] = w[i - 1] \o whole[i]
      /\ f[0] = << >> /\ \A i \in 1 .. n : f[i] = f[i - 1] \o front[i]
      /\ r[0] = << >> /\ \A i \in 1 .. n : r[i] = r[i - 1] \o rest[i]
  BY <1>1, <1>2, <1>3, <1>4 DEF Joins
<1>6. \A i \in 1 .. n : /\ whole[i] = front[i] \o rest[i]
                        /\ front[i] \in Seq(S) /\ rest[i] \in Seq(S)
                        /\ front[i] = << >> \/ \A j \in 1 .. i - 1 : rest[j] = << >>
  BY <1>1, ElementOfSeq DEF Cuts
<1> DEFINE Bare(i) == \A j \in 1 .. i : rest[j] = << >>
           Same(i) == f[i] \o r[i] = w[i] /\ (Bare(i) => r[i] = << >>)
           G == { i \in 0 .. n : Same(i) }
<1>7. 0 \in G
  <2>1. << >> \o << >> = << >>
    OBVIOUS
  <2>2. Same(0)
    BY <1>5, <2>1
  <2> HIDE DEF Same
  <2>3. QED
    BY <2>2
<1>8. ASSUME NEW i \in 1 .. n, i - 1 \in G PROVE i \in G
  <2>1. PICK a \in Seq(S), b \in Seq(S), p \in Seq(S), q \in Seq(S) :
          /\ a = f[i - 1] /\ b = r[i - 1] /\ p = front[i] /\ q = rest[i]
          /\ f[i] = a \o p /\ r[i] = b \o q /\ w[i] = w[i - 1] \o (p \o q)
    <3>1. i - 1 \in 0 .. n
      OBVIOUS
    <3>2. f[i - 1] \in Seq(S) /\ r[i - 1] \in Seq(S) /\ front[i] \in Seq(S) /\ rest[i] \in Seq(S)
      BY <1>2, <1>3, <1>4, <1>6, <3>1
    <3>3. /\ f[i] = f[i - 1] \o front[i] /\ r[i] = r[i - 1] \o rest[i]
          /\ w[i] = w[i - 1] \o (front[i] \o rest[i])
      BY <1>5, <1>6
    <3>4. QED
      BY <3>2, <3>3, Zenon
  <2>2. a \o b = w[i - 1] /\ (Bare(i - 1) => b = << >>)
    <3>1. Same(i - 1)
      BY <1>8
    <3> HIDE DEF Bare
    <3>2. QED
      BY <2>1, <3>1
  <2>3. p = << >> \/ b = << >>
    BY <1>6, <2>1, <2>2
  <2>4. (a \o p) \o (b \o q) = (a \o b) \o (p \o q)
    <3>1. Concat(Concat(a, p), Concat(b, q)) = Concat(Concat(a, b), Concat(p, q))
      <4>1. a \in Seq(S) /\ b \in Seq(S) /\ p \in Seq(S) /\ q \in Seq(S)
        BY <2>1
      <4>2. QED
        BY <2>3, <4>1, Regroup
    <3>2. QED
      BY <3>1, Zenon DEF Concat
  <2>5. ASSUME Bare(i) PROVE b \o q = << >>
    <3>1. Bare(i - 1) /\ q = << >>
      BY <2>1, <2>5
    <3>2. << >> \o << >> = << >>
      OBVIOUS
    <3>3. QED
      BY <2>2, <3>1, <3>2
  <2>6. f[i] \o r[i] = w[i] /\ (Bare(i) => r[i] = << >>) /\ i \in 0 .. n
    <3>1. i \in 0 .. n
      OBVIOUS
    <3> HIDE DEF Bare
    <3>2. QED
      BY <2>1, <2>2, <2>4, <2>5, <3>1
  <2>7. Same(i)
    BY <2>6
  <2> HIDE DEF Same
  <2>8. QED
    BY <2>6, <2>7
<1> HIDE DEF G
<1>9. n \in G
  <2>1. \A i \in 0 .. n : i \in G
    BY <1>7, <1>8, Induction
  <2>2. QED
    BY <2>1
<1>10. QED
  BY <1>2, <1>3, <1>4, <1>9 DEF G

-----------------------------------------------------------------------------
(* The bytes of items *)

Cell == Nat \X Int

LEMMA BytesAre ==
  ASSUME NEW item, item.sequence \in Nat, item.size \in Nat, item.left \in Nat
  PROVE  /\ BytesOf(item) \in Seq(Cell) /\ Len(BytesOf(item)) = item.left
         /\ \A i \in 1 .. item.left : BytesOf(item)[i] = << item.sequence, item.size - item.left + i >>
<1>1. PICK a \in Nat, b \in Nat, n \in Nat : a = item.sequence /\ b = item.size /\ n = item.left
  OBVIOUS
<1> DEFINE cell(i) == << a, b - n + i >>
           f == [ i \in 1 .. n |-> cell(i) ]
<1>2. BytesOf(item) = f
  BY <1>1 DEF BytesOf
<1>3. \A i \in 1 .. n : cell(i) \in Cell
  BY <1>1 DEF Cell
<1>4. f \in Seq(Cell) /\ Len(f) = n /\ \A i \in 1 .. n : f[i] = cell(i)
  <2> HIDE DEF cell
  <2>1. QED
    BY <1>1, <1>3
<1>5. QED
  BY <1>1, <1>2, <1>4

(* An item is what is written of it and what is left of it. *)
LEMMA BytesCut ==
  ASSUME NEW q \in Queues, NEW item \in ItemOf(q), NEW n \in 0 .. item.left
  PROVE  /\ SubSeq(BytesOf(item), 1, n) \in Seq(Cell)
         /\ BytesOf(Rest(item, n)) \in Seq(Cell) /\ BytesOf(item) \in Seq(Cell)
         /\ SubSeq(BytesOf(item), 1, n) \o BytesOf(Rest(item, n)) = BytesOf(item)
         /\ (n = 0 => SubSeq(BytesOf(item), 1, n) = << >>)
         /\ (n = item.left => BytesOf(Rest(item, n)) = << >>)
<1>1. PICK l \in Nat, a \in Nat, b \in Nat : l = item.left /\ a = item.sequence /\ b = item.size
  BY ItemIs
<1>2. PICK rest : rest = Rest(item, n)
  OBVIOUS
<1>3. rest.left = l - n /\ rest.sequence = a /\ rest.size = b /\ l - n \in Nat /\ n \in Nat
  BY <1>1, <1>2, RestIs
<1>4. PICK x \in Seq(Cell) :
        x = BytesOf(item) /\ Len(x) = l /\ \A i \in 1 .. l : x[i] = << a, b - l + i >>
  BY <1>1, BytesAre
<1>5. PICK z \in Seq(Cell) :
        z = BytesOf(rest) /\ Len(z) = l - n /\ \A i \in 1 .. l - n : z[i] = << a, b - (l - n) + i >>
  BY <1>1, <1>3, BytesAre
<1>6. PICK y \in Seq(Cell) :
        y = SubSeq(x, 1, n) /\ Len(y) = n /\ \A i \in 1 .. n : y[i] = x[i]
  <2>1. \A i \in 1 .. n : x[i] \in Cell
    BY <1>1, <1>4, ElementOfSeq
  <2>2. /\ SubSeq(x, 1, n) \in Seq(Cell) /\ Len(SubSeq(x, 1, n)) = IF 1 <= n THEN n - 1 + 1 ELSE 0
        /\ \A i \in 1 .. n - 1 + 1 : SubSeq(x, 1, n)[i] = x[1 + i - 1]
    BY <1>3, <2>1, SubSeqProperties
  <2>3. (IF 1 <= n THEN n - 1 + 1 ELSE 0) = n /\ n - 1 + 1 = n /\ \A i \in 1 .. n : 1 + i - 1 = i
    BY <1>3
  <2>4. QED
    BY <2>2, <2>3
<1>7. y \o z \in Seq(Cell) /\ Len(y \o z) = l
  <2>1. n + (l - n) = l
    BY <1>1, <1>3
  <2>2. QED
    BY <1>5, <1>6, <2>1, ConcatProperties
<1>8. ASSUME NEW i \in 1 .. l PROVE (y \o z)[i] = x[i]
  <2>1. (y \o z)[i] = IF i <= n THEN y[i] ELSE z[i - n]
    <3>1. i \in 1 .. Len(y) + Len(z)
      BY <1>1, <1>3, <1>5, <1>6
    <3>2. (y \o z)[i] = IF i <= Len(y) THEN y[i] ELSE z[i - Len(y)]
      BY <1>5, <1>6, <3>1, ConcatProperties
    <3>3. QED
      BY <1>6, <3>2
  <2>2. CASE i <= n
    BY <1>3, <1>6, <2>1, <2>2
  <2>3. CASE ~ (i <= n)
    <3>1. i - n \in 1 .. l - n /\ b - (l - n) + (i - n) = b - l + i
      BY <1>1, <1>3, <2>3
    <3>2. QED
      BY <1>4, <1>5, <2>1, <2>3, <3>1
  <2>4. QED
    BY <2>2, <2>3
<1>9. y \o z = x
  BY <1>4, <1>7, <1>8, SeqEqual
<1>10. n = 0 => y = << >>
  BY <1>6, EmptySeq
<1>11. n = l => z = << >>
  BY <1>1, <1>5, EmptySeq
<1>12. QED
  BY <1>1, <1>2, <1>4, <1>5, <1>6, <1>9, <1>10, <1>11

(* The byte sequences of the items of a queue. *)
Strings(items) == [ i \in DOMAIN items |-> BytesOf(items[i]) ]

LEMMA StringsAre ==
  ASSUME NEW q \in Queues, NEW items \in Seq(ItemOf(q))
  PROVE  /\ Strings(items) \in Seq(Seq(Cell)) /\ Len(Strings(items)) = Len(items)
         /\ \A i \in 1 .. Len(items) : Strings(items)[i] = BytesOf(items[i])
         /\ BytesIn(items) = FlattenSeq(Strings(items)) /\ BytesIn(items) \in Seq(Cell)
<1>1. PICK n \in Nat : n = Len(items) /\ DOMAIN items = 1 .. n
  BY LenProperties
<1>2. ASSUME NEW i \in 1 .. n PROVE BytesOf(items[i]) \in Seq(Cell)
  <2>1. items[i] \in ItemOf(q)
    BY <1>1, ElementOfSeq
  <2>2. QED
    BY <2>1, ItemIs, BytesAre
<1>3. PICK f : f = Strings(items)
  OBVIOUS
<1>4. f = [ i \in 1 .. n |-> BytesOf(items[i]) ]
  BY <1>1, <1>3 DEF Strings
<1>5. f \in Seq(Seq(Cell)) /\ Len(f) = n /\ \A i \in 1 .. n : f[i] = BytesOf(items[i])
  BY <1>1, <1>2, <1>4
<1>6. BytesIn(items) = FlattenSeq(f)
  BY <1>3 DEF BytesIn, Strings
<1>7. FlattenSeq(f) \in Seq(Cell)
  BY <1>5, FlattenIs
<1>8. QED
  BY <1>1, <1>3, <1>5, <1>6, <1>7

LEMMA AppendedBytes ==
  ASSUME NEW q \in Queues, NEW items \in Seq(ItemOf(q)), NEW item \in ItemOf(q)
  PROVE  BytesIn(Append(items, item)) = BytesIn(items) \o BytesOf(item)
<1>1. PICK n \in Nat : n = Len(items)
  BY LenProperties
<1>2. PICK new \in Seq(ItemOf(q)) :
        /\ new = Append(items, item) /\ Len(new) = n + 1 /\ new[n + 1] = item
        /\ \A i \in 1 .. n : new[i] = items[i]
  <2>1. /\ Append(items, item) \in Seq(ItemOf(q)) /\ Len(Append(items, item)) = Len(items) + 1
        /\ Append(items, item)[Len(items) + 1] = item
        /\ \A i \in 1 .. Len(items) : Append(items, item)[i] = items[i]
    BY AppendProperties
  <2>2. QED
    BY <1>1, <2>1, Zenon
<1>3. PICK s \in Seq(Seq(Cell)) :
        /\ s = Strings(items) /\ Len(s) = n /\ \A i \in 1 .. n : s[i] = BytesOf(items[i])
  BY <1>1, StringsAre
<1>4. PICK t \in Seq(Seq(Cell)) :
        /\ t = Strings(new) /\ Len(t) = n + 1 /\ \A i \in 1 .. n + 1 : t[i] = BytesOf(new[i])
  BY <1>2, StringsAre
<1>5. PICK x \in Seq(Cell) : x = BytesOf(item)
  BY ItemIs, BytesAre
<1>6. PICK u \in Seq(Seq(Cell)) :
        /\ u = Append(s, x) /\ Len(u) = n + 1 /\ u[n + 1] = x /\ \A i \in 1 .. n : u[i] = s[i]
  <2>1. /\ Append(s, x) \in Seq(Seq(Cell)) /\ Len(Append(s, x)) = Len(s) + 1
        /\ Append(s, x)[Len(s) + 1] = x
        /\ \A i \in 1 .. Len(s) : Append(s, x)[i] = s[i]
    <3>1. PICK T : T = Seq(Cell)
      OBVIOUS
    <3>2. s \in Seq(T) /\ x \in T
      BY <1>3, <1>5, <3>1
    <3>3. /\ Append(s, x) \in Seq(T) /\ Len(Append(s, x)) = Len(s) + 1
          /\ Append(s, x)[Len(s) + 1] = x
          /\ \A i \in 1 .. Len(s) : Append(s, x)[i] = s[i]
      BY <3>2, AppendProperties
    <3>4. QED
      BY <3>1, <3>3, Zenon
  <2>2. QED
    BY <1>3, <2>1, Zenon
<1>7. ASSUME NEW i \in 1 .. n + 1 PROVE t[i] = u[i]
  <2>1. CASE i = n + 1
    BY <1>2, <1>4, <1>5, <1>6, <2>1
  <2>2. CASE i # n + 1
    <3>1. i \in 1 .. n
      BY <2>2
    <3>2. QED
      BY <1>2, <1>3, <1>4, <1>6, <3>1
  <2>3. QED
    BY <2>1, <2>2
<1>8. t = u
  BY <1>4, <1>6, <1>7, SeqEqual
<1>9. FlattenSeq(u) = FlattenSeq(s) \o x
  BY <1>6, AppendFlattens
<1>10. QED
  BY <1>2, <1>3, <1>4, <1>5, <1>8, <1>9, StringsAre

-----------------------------------------------------------------------------
(* The bytes of a drain *)

(* What a drain writes of each item of a queue, and what it leaves of it. *)
Gone(s, taken, q, i) == SubSeq(BytesOf(ItemsIn(s, q)[i]), 1, TakenOf(s, taken, q, i))
Left(s, taken, q, i)  == BytesOf(Rest(ItemsIn(s, q)[i], TakenOf(s, taken, q, i)))

Fronts(s, taken, q) == [ i \in 1 .. Len(ItemsIn(s, q)) |-> Gone(s, taken, q, i) ]
Rests(s, taken, q)  == [ i \in 1 .. Len(ItemsIn(s, q)) |-> Left(s, taken, q, i) ]

(* What a drain writes of each item of its order, as far as it is of q. *)
Part(order, taken, q, i) ==
  IF QueueOf(order[i]) = q THEN SubSeq(BytesOf(order[i]), 1, taken[i]) ELSE << >>

Parts(order, taken, q) == [ i \in DOMAIN order |-> Part(order, taken, q, i) ]

LEMMA WrittenIs ==
  ASSUME NEW order, NEW taken, NEW q
  PROVE  WrittenBy(order, taken, q) = FlattenSeq(Parts(order, taken, q))
BY DEF WrittenBy, Parts, Part

(* The items of a queue are taken in order. *)
LEMMA TakenInOrder ==
  ASSUME NEW s, SchedulerOK(s), NEW taken, Taking(ServiceOrder(s), taken), NEW q \in Queues,
         NEW i \in 1 .. Len(ItemsIn(s, q)), NEW j \in 1 .. Len(ItemsIn(s, q)), j < i,
         TakenOf(s, taken, q, i) > 0
  PROVE  TakenOf(s, taken, q, j) = ItemsIn(s, q)[j].left
<1>1. CASE q = ControlQueue
  <2>1. PICK m \in Nat, n \in Nat :
          /\ m = Len(s.control) /\ DOMAIN ServiceOrder(s) = 1 .. m + n
          /\ \A k \in 1 .. m : ServiceOrder(s)[k] = s.control[k]
    BY OrderIs
  <2>2. i \in 1 .. m /\ j \in 1 .. m /\ ItemsIn(s, q) = s.control
    BY <1>1, <2>1, QueuesAre
  <2>3. taken[i] > 0 /\ TakenOf(s, taken, q, j) = taken[j]
    BY <1>1 DEF TakenOf
  <2>4. i \in DOMAIN ServiceOrder(s) /\ j \in DOMAIN ServiceOrder(s)
    BY <2>1, <2>2
  <2>5. taken[j] = ServiceOrder(s)[j].left
    BY <2>3, <2>4 DEF Taking
  <2>6. QED
    BY <2>1, <2>2, <2>3, <2>5
<1>2. CASE q # ControlQueue
  <2>1. i # 1
    <3>1. PICK n : n = Len(ItemsIn(s, q))
      OBVIOUS
    <3>2. n \in Nat
      BY <3>1, LenProperties DEF SchedulerOK
    <3>3. i \in 1 .. n /\ j \in 1 .. n
      BY <3>1
    <3>4. QED
      BY <3>2, <3>3
  <2>2. TakenOf(s, taken, q, i) = 0
    BY <1>2, <2>1 DEF TakenOf
  <2>3. QED
    BY <2>2
<1>3. QED
  BY <1>1, <1>2

LEMMA DrainCuts ==
  ASSUME NEW s, SchedulerOK(s), NEW taken, Taking(ServiceOrder(s), taken), NEW q \in Queues,
         NEW r, r = Drained(s, ServiceOrder(s), taken)
  PROVE  /\ Fronts(s, taken, q) \in Seq(Seq(Cell)) /\ Len(Fronts(s, taken, q)) = Len(ItemsIn(s, q))
         /\ Rests(s, taken, q) \in Seq(Seq(Cell)) /\ Len(Rests(s, taken, q)) = Len(ItemsIn(s, q))
         /\ Cuts(Strings(ItemsIn(s, q)), Fronts(s, taken, q), Rests(s, taken, q))
<1> DEFINE old == ItemsIn(s, q)
           T(i) == TakenOf(s, taken, q, i)
           f(i) == Gone(s, taken, q, i)
           l(i) == Left(s, taken, q, i)
<1>1. old \in Seq(ItemOf(q))
  BY DEF SchedulerOK
<1>2. PICK n \in Nat : n = Len(old)
  BY <1>1, LenProperties
<1>3. \A i \in 1 .. n : T(i) \in 0 .. old[i].left
  BY <1>2, QueueMoves DEF Moves
<1>4. ASSUME NEW i \in 1 .. n
      PROVE  /\ f(i) \in Seq(Cell) /\ l(i) \in Seq(Cell) /\ f(i) \o l(i) = BytesOf(old[i])
             /\ (T(i) = 0 => f(i) = << >>) /\ (T(i) = old[i].left => l(i) = << >>)
  <2>1. old[i] \in ItemOf(q)
    BY <1>1, <1>2, ElementOfSeq
  <2>2. QED
    BY <1>3, <2>1, BytesCut DEF Gone, Left
<1>5. ASSUME NEW i \in 1 .. n, NEW j \in 1 .. i - 1 PROVE f(i) = << >> \/ l(j) = << >>
  <2>1. j \in 1 .. n /\ j < i
    OBVIOUS
  <2>2. T(i) > 0 => T(j) = old[j].left
    BY <1>2, <2>1, TakenInOrder
  <2>3. T(i) = 0 \/ T(i) > 0
    <3>1. old[i] \in ItemOf(q)
      BY <1>1, <1>2, ElementOfSeq
    <3>2. old[i].left \in Nat
      BY <3>1, ItemIs
    <3>3. QED
      BY <1>3, <3>2
  <2>4. QED
    BY <1>4, <2>1, <2>2, <2>3
<1>6. PICK fs, rs : fs = Fronts(s, taken, q) /\ rs = Rests(s, taken, q)
  OBVIOUS
<1>7. fs = [ i \in 1 .. n |-> f(i) ] /\ rs = [ i \in 1 .. n |-> l(i) ]
  BY <1>2, <1>6 DEF Fronts, Rests
<1> HIDE DEF f, l, T
<1>8. /\ fs \in Seq(Seq(Cell)) /\ Len(fs) = n /\ \A i \in 1 .. n : fs[i] = f(i)
      /\ rs \in Seq(Seq(Cell)) /\ Len(rs) = n /\ \A i \in 1 .. n : rs[i] = l(i)
  <2>1. PICK U : U = Seq(Cell)
    OBVIOUS
  <2>2. \A i \in 1 .. n : f(i) \in U /\ l(i) \in U
    BY <1>4, <2>1
  <2>3. fs \in Seq(U) /\ rs \in Seq(U) /\ Len(fs) = n /\ Len(rs) = n
    BY <1>2, <1>7, <2>2
  <2>4. QED
    BY <1>7, <2>1, <2>3
<1>9. Len(Strings(old)) = n /\ \A i \in 1 .. n : Strings(old)[i] = BytesOf(old[i])
  BY <1>1, <1>2, StringsAre
<1>10. Cuts(Strings(old), fs, rs)
  <2>1. \A i \in 1 .. n : Strings(old)[i] = fs[i] \o rs[i]
    BY <1>4, <1>8, <1>9
  <2>2. ASSUME NEW i \in 1 .. n PROVE fs[i] = << >> \/ \A j \in 1 .. i - 1 : rs[j] = << >>
    <3>1. ASSUME NEW j \in 1 .. i - 1, fs[i] # << >> PROVE rs[j] = << >>
      <4>1. j \in 1 .. n
        BY <1>2
      <4>2. QED
        BY <1>5, <1>8, <3>1, <4>1
    <3>2. QED
      BY <3>1
  <2>3. QED
    BY <1>8, <1>9, <2>1, <2>2 DEF Cuts
<1>11. QED
  BY <1>2, <1>6, <1>8, <1>10

(* What is left of the items is what the queue holds afterwards. *)
LEMMA RestsFlatten ==
  ASSUME NEW s, SchedulerOK(s), NEW taken, Taking(ServiceOrder(s), taken), NEW q \in Queues,
         NEW r, r = Drained(s, ServiceOrder(s), taken)
  PROVE  FlattenSeq(Rests(s, taken, q)) = BytesIn(ItemsIn(r, q)) /\ BytesIn(ItemsIn(r, q)) \in Seq(Cell)
<1> DEFINE old == ItemsIn(s, q)
           T(i) == TakenOf(s, taken, q, i)
           k == Shift(s, taken, q)
           new == ItemsIn(r, q)
<1>1. Moves(old, new, q, k, s, taken) /\ old \in Seq(ItemOf(q))
  BY QueueMoves DEF SchedulerOK
<1>2. /\ k \in 0 .. Len(old) /\ Len(old) \in Nat /\ new \in Seq(ItemOf(q)) /\ Len(new) = Len(old) - k
      /\ \A i \in 1 .. Len(old) : T(i) \in 0 .. old[i].left /\ (T(i) = old[i].left <=> i <= k)
      /\ \A i \in 1 .. Len(new) : /\ new[i].left = old[k + i].left - T(k + i)
                                 /\ new[i].sequence = old[k + i].sequence /\ new[i].size = old[k + i].size
  BY <1>1 DEF Moves
<1> HIDE DEF old, T, k, new
<1>3. PICK n \in Nat, d \in Nat, m \in Nat : n = Len(old) /\ d = k /\ m = Len(new) /\ d + m = n
  BY <1>2
<1>4. PICK rs \in Seq(Seq(Cell)) :
        rs = Rests(s, taken, q) /\ Len(rs) = n /\ \A i \in 1 .. n : rs[i] = BytesOf(Rest(old[i], T(i)))
  <2>1. Rests(s, taken, q) \in Seq(Seq(Cell)) /\ Len(Rests(s, taken, q)) = n
    BY <1>3, DrainCuts DEF old
  <2>2. \A i \in 1 .. n : Rests(s, taken, q)[i] = BytesOf(Rest(old[i], T(i)))
    BY <1>3 DEF Rests, Left, old, T
  <2>3. QED
    BY <2>1, <2>2, Zenon
<1>5. PICK t \in Seq(Seq(Cell)) :
        /\ t = Strings(new) /\ Len(t) = m /\ \A i \in 1 .. m : t[i] = BytesOf(new[i])
        /\ BytesIn(new) = FlattenSeq(t) /\ BytesIn(new) \in Seq(Cell)
  BY <1>2, <1>3, StringsAre
<1>6. ASSUME NEW i \in 1 .. n
      PROVE  /\ old[i] \in ItemOf(q) /\ T(i) \in 0 .. old[i].left
             /\ (T(i) = old[i].left <=> i <= d)
  BY <1>1, <1>2, <1>3, ElementOfSeq DEF old
<1>7. ASSUME NEW i \in 1 .. m PROVE rs[d + i] = t[i]
  <2>1. d + i \in 1 .. n
    BY <1>3
  <2>2. PICK x : x = Rest(old[d + i], T(d + i))
    OBVIOUS
  <2>3. x.left = old[d + i].left - T(d + i) /\ x.sequence = old[d + i].sequence /\ x.size = old[d + i].size
    BY <1>6, <2>1, <2>2, RestIs
  <2>4. x.left = new[i].left /\ x.sequence = new[i].sequence /\ x.size = new[i].size
    BY <1>2, <1>3, <2>3
  <2>5. BytesOf(x) = BytesOf(new[i])
    BY <2>4, Zenon DEF BytesOf
  <2>6. QED
    BY <1>4, <1>5, <2>1, <2>2, <2>5
<1>8. ASSUME NEW i \in 1 .. n, i <= d \/ d + m < i PROVE rs[i] = << >>
  <2>1. i <= d
    BY <1>3, <1>8
  <2>2. T(i) = old[i].left
    BY <1>6, <2>1
  <2>3. BytesOf(Rest(old[i], T(i))) = << >>
    BY <1>6, <2>2, BytesCut
  <2>4. QED
    BY <1>4, <2>3
<1>9. Pads(rs, t, d)
  BY <1>3, <1>4, <1>5, <1>7, <1>8 DEF Pads
<1>10. FlattenSeq(rs) = FlattenSeq(t)
  BY <1>3, <1>4, <1>5, <1>9, PaddingFlattens
<1>11. QED
  BY <1>4, <1>5, <1>10 DEF new

LEMMA PlaceTaken ==
  ASSUME NEW s, SchedulerOK(s), NEW taken, Taking(ServiceOrder(s), taken), NEW q \in Queues,
         NEW i \in 1 .. Len(ItemsIn(s, q)), NEW k \in DOMAIN taken, Place(s, k) = << q, i >>
  PROVE  TakenOf(s, taken, q, i) = taken[k] /\ taken[k] \in Nat
<1>1. PICK n \in Nat : n = Len(ItemsIn(s, q)) /\ DOMAIN ItemsIn(s, q) = 1 .. n
  BY LenProperties DEF SchedulerOK
<1>2. taken[k] \in Nat /\ (taken[k] > 0 => TakenOf(s, taken, q, i) = taken[k])
  <2>1. PICK p \in Queues : \E j \in DOMAIN ItemsIn(s, p) :
          /\ Place(s, k) = << p, j >>
          /\ taken[k] \in 0 .. ItemsIn(s, p)[j].left
          /\ (taken[k] > 0 => TakenOf(s, taken, p, j) = taken[k])
    BY PlacesAre
  <2>2. PICK j \in DOMAIN ItemsIn(s, p) :
          /\ Place(s, k) = << p, j >>
          /\ taken[k] \in 0 .. ItemsIn(s, p)[j].left
          /\ (taken[k] > 0 => TakenOf(s, taken, p, j) = taken[k])
    BY <2>1
  <2>3. p = q /\ j = i
    BY <2>2
  <2>4. ItemsIn(s, q)[i].left \in Nat
    <3>1. ItemsIn(s, q)[i] \in ItemOf(q)
      BY <1>1, ElementOfSeq DEF SchedulerOK
    <3>2. QED
      BY <3>1, ItemIs
  <2>5. QED
    BY <2>2, <2>3, <2>4
<1>3. TakenOf(s, taken, q, i) > 0 => TakenOf(s, taken, q, i) = taken[k]
  <2>1. SUFFICES ASSUME TakenOf(s, taken, q, i) > 0 PROVE TakenOf(s, taken, q, i) = taken[k]
    OBVIOUS
  <2>2. i \in DOMAIN ItemsIn(s, q)
    BY <1>1
  <2>3. PICK l \in DOMAIN taken : Place(s, l) = << q, i >> /\ taken[l] = TakenOf(s, taken, q, i)
    BY <2>1, <2>2, PlacesAre
  <2>4. l = k
    BY <2>3, PlacesAre
  <2>5. QED
    BY <2>3, <2>4
<1>4. TakenOf(s, taken, q, i) \in Nat
  <2>1. PICK r : r = Drained(s, ServiceOrder(s), taken)
    OBVIOUS
  <2>2. TakenOf(s, taken, q, i) \in 0 .. ItemsIn(s, q)[i].left
    BY <2>1, QueueMoves DEF Moves
  <2>3. ItemsIn(s, q)[i] \in ItemOf(q)
    BY <1>1, ElementOfSeq DEF SchedulerOK
  <2>4. ItemsIn(s, q)[i].left \in Nat
    BY <2>3, ItemIs
  <2>5. QED
    BY <2>2, <2>4
<1>5. QED
  BY <1>2, <1>3, <1>4

(* What is written of an item of the order is what is taken of its queue's. *)
LEMMA PartIs ==
  ASSUME NEW s, SchedulerOK(s), NEW taken, Taking(ServiceOrder(s), taken), NEW q \in Queues,
         NEW k \in DOMAIN taken
  PROVE  \/ /\ Part(ServiceOrder(s), taken, q, k) = << >>
            /\ \A i : Place(s, k) # << q, i >>
         \/ \E i \in 1 .. Len(ItemsIn(s, q)) :
              /\ Place(s, k) = << q, i >> /\ (q \in DataChannels => i = 1) /\ (q = ControlQueue => i = k)
              /\ Part(ServiceOrder(s), taken, q, k) = Gone(s, taken, q, i)
<1>1. PICK m \in Nat, n \in Nat :
        /\ m = Len(s.control) /\ DOMAIN taken = 1 .. m + n
        /\ \A i \in 1 .. m : ServiceOrder(s)[i] = s.control[i] /\ ServiceOrder(s)[i] \in ItemOf(ControlQueue)
        /\ \A i \in 1 .. n : /\ Rotation(s)[i] \in Turn(s)
                            /\ ServiceOrder(s)[m + i] = s.data[Rotation(s)[i]][1]
                            /\ ServiceOrder(s)[m + i] \in ItemOf(Rotation(s)[i])
  <2>1. PICK m \in Nat, n \in Nat : m = Len(s.control) /\ n = Cardinality(Turn(s))
    BY OrderIs
  <2>2. /\ DOMAIN ServiceOrder(s) = 1 .. m + n
        /\ \A i \in 1 .. m : ServiceOrder(s)[i] = s.control[i] /\ ServiceOrder(s)[i] \in ItemOf(ControlQueue)
        /\ \A i \in 1 .. n : /\ Rotation(s)[i] \in Turn(s)
                            /\ ServiceOrder(s)[m + i] = s.data[Rotation(s)[i]][1]
                            /\ ServiceOrder(s)[m + i] \in ItemOf(Rotation(s)[i])
    BY <2>1, OrderIs
  <2>3. DOMAIN taken = 1 .. m + n
    BY <2>2 DEF Taking
  <2>4. QED
    BY <2>1, <2>2, <2>3, Zenon
<1>2. PICK p \in Queues, j \in Nat :
        /\ j \in 1 .. Len(ItemsIn(s, p))
        /\ Place(s, k) = << p, j >> /\ (p \in DataChannels => j = 1) /\ (p = ControlQueue => j = k)
        /\ ServiceOrder(s)[k] = ItemsIn(s, p)[j] /\ ServiceOrder(s)[k] \in ItemOf(p)
  <2>1. CASE k <= m
    <3>1. k \in 1 .. m
      BY <1>1, <2>1
    <3>2. Place(s, k) = << ControlQueue, k >>
      BY <1>1, <2>1 DEF Place
    <3>3. k \in 1 .. Len(ItemsIn(s, ControlQueue)) /\ ControlQueue \in Queues
          /\ ControlQueue \notin DataChannels /\ ServiceOrder(s)[k] = ItemsIn(s, ControlQueue)[k]
          /\ ServiceOrder(s)[k] \in ItemOf(ControlQueue)
      BY <1>1, <3>1, QueuesAre
    <3>4. QED
      BY <3>2, <3>3
  <2>2. CASE ~ (k <= m)
    <3>1. k - m \in 1 .. n /\ m + (k - m) = k
      BY <1>1, <2>2
    <3>2. PICK c : c = Rotation(s)[k - m]
      OBVIOUS
    <3>3. Place(s, k) = << c, 1 >>
      BY <1>1, <2>2, <3>2 DEF Place
    <3>4. c \in DataChannels /\ s.data[c] # << >>
      BY <1>1, <3>1, <3>2 DEF Turn, InTurn
    <3>5. c \in Queues /\ c # ControlQueue /\ ItemsIn(s, c) = s.data[c] /\ s.data[c] \in Seq(ItemOf(c))
      BY <3>4, QueuesAre DEF SchedulerOK
    <3>6. 1 \in 1 .. Len(ItemsIn(s, c))
      <4>1. Len(s.data[c]) \in Nat /\ Len(s.data[c]) # 0
        BY <3>4, <3>5, EmptySeq, LenProperties
      <4>2. QED
        BY <3>5, <4>1
    <3>7. ServiceOrder(s)[k] = ItemsIn(s, c)[1] /\ ServiceOrder(s)[k] \in ItemOf(c)
      BY <1>1, <3>1, <3>2, <3>5
    <3>8. QED
      BY <3>3, <3>5, <3>6, <3>7
  <2>3. QED
    BY <2>1, <2>2
<1>3. QueueOf(ServiceOrder(s)[k]) = p
  BY <1>2, ItemIs
<1>4. CASE p # q
  <2>1. Part(ServiceOrder(s), taken, q, k) = << >>
    BY <1>3, <1>4 DEF Part
  <2>2. \A i : Place(s, k) # << q, i >>
    BY <1>2, <1>4
  <2>3. QED
    BY <2>1, <2>2
<1>5. CASE p = q
  <2>1. TakenOf(s, taken, q, j) = taken[k]
    BY <1>2, <1>5, PlaceTaken
  <2>2. Part(ServiceOrder(s), taken, q, k) = SubSeq(BytesOf(ServiceOrder(s)[k]), 1, taken[k])
    BY <1>3, <1>5 DEF Part
  <2>3. Part(ServiceOrder(s), taken, q, k) = Gone(s, taken, q, j)
    BY <1>2, <1>5, <2>1, <2>2, Zenon DEF Gone
  <2>4. QED
    BY <1>2, <1>5, <2>3
<1>6. QED
  BY <1>4, <1>5

(* A drain writes what it takes of each queue, item after item. *)
LEMMA PartsFlatten ==
  ASSUME NEW s, SchedulerOK(s), NEW taken, Taking(ServiceOrder(s), taken), NEW q \in Queues
  PROVE  FlattenSeq(Parts(ServiceOrder(s), taken, q)) = FlattenSeq(Fronts(s, taken, q))
<1> DEFINE part(k) == Part(ServiceOrder(s), taken, q, k)
           gone(i) == Gone(s, taken, q, i)
<1>1. PICK n \in Nat, d \in Nat :
        n = Len(ItemsIn(s, q)) /\ DOMAIN taken = 1 .. d /\ DOMAIN ServiceOrder(s) = 1 .. d
        /\ (q = ControlQueue => n <= d /\ \A i \in 1 .. n : Place(s, i) = << q, i >>)
  <2>1. PICK m \in Nat, l \in Nat :
          /\ m = Len(s.control) /\ DOMAIN ServiceOrder(s) = 1 .. m + l
    <3>1. /\ Len(s.control) \in Nat /\ Cardinality(Turn(s)) \in Nat
          /\ DOMAIN ServiceOrder(s) = 1 .. Len(s.control) + Cardinality(Turn(s))
      BY OrderIs
    <3>2. QED
      BY <3>1
  <2>2. Len(ItemsIn(s, q)) \in Nat
    BY LenProperties DEF SchedulerOK
  <2>3. m + l \in Nat /\ m <= m + l /\ DOMAIN taken = 1 .. m + l
    BY <2>1 DEF Taking
  <2>4. q = ControlQueue => Len(ItemsIn(s, q)) = m /\ \A i \in 1 .. m : Place(s, i) = << q, i >>
    BY <2>1, QueuesAre DEF Place
  <2>5. QED
    BY <2>1, <2>2, <2>3, <2>4
<1>2. PICK fs \in Seq(Seq(Cell)) : fs = Fronts(s, taken, q) /\ Len(fs) = n /\ \A i \in 1 .. n : fs[i] = gone(i)
  <2>1. PICK r : r = Drained(s, ServiceOrder(s), taken)
    OBVIOUS
  <2>2. Fronts(s, taken, q) \in Seq(Seq(Cell)) /\ Len(Fronts(s, taken, q)) = n
    BY <1>1, <2>1, DrainCuts
  <2>3. \A i \in 1 .. n : Fronts(s, taken, q)[i] = gone(i)
    BY <1>1 DEF Fronts
  <2>4. QED
    BY <2>2, <2>3, Zenon
<1>3. \A k \in 1 .. d :
        \/ part(k) = << >> /\ \A i : Place(s, k) # << q, i >>
        \/ \E i \in 1 .. n : /\ Place(s, k) = << q, i >> /\ (q \in DataChannels => i = 1)
                            /\ (q = ControlQueue => i = k) /\ part(k) = gone(i)
  BY <1>1, PartIs
<1>4. ASSUME NEW i \in 1 .. n PROVE gone(i) \in Seq(Cell)
  <2>1. PICK T : T = Seq(Cell)
    OBVIOUS
  <2>2. fs \in Seq(T) /\ i \in 1 .. Len(fs)
    BY <1>2, <2>1
  <2>3. fs[i] \in T
    BY <2>2, ElementOfSeq
  <2>4. QED
    BY <1>2, <2>1, <2>3
<1>5. ASSUME NEW i \in 1 .. n, \A k \in 1 .. d : Place(s, k) # << q, i >> PROVE gone(i) = << >>
  <2>1. PICK len \in Nat : len = Len(ItemsIn(s, q)) /\ DOMAIN ItemsIn(s, q) = 1 .. len
    BY LenProperties DEF SchedulerOK
  <2>2. ~ (TakenOf(s, taken, q, i) > 0)
    BY <1>1, <1>5, <2>1, PlacesAre
  <2>3. ItemsIn(s, q)[i] \in ItemOf(q)
    BY <1>1, ElementOfSeq DEF SchedulerOK
  <2>4. TakenOf(s, taken, q, i) \in 0 .. ItemsIn(s, q)[i].left
    <3>1. PICK r : r = Drained(s, ServiceOrder(s), taken)
      OBVIOUS
    <3>2. QED
      BY <1>1, <3>1, QueueMoves DEF Moves
  <2>5. ItemsIn(s, q)[i].left \in Nat
    BY <2>3, ItemIs
  <2>6. TakenOf(s, taken, q, i) = 0 /\ 0 \in 0 .. ItemsIn(s, q)[i].left
    BY <2>2, <2>4, <2>5
  <2>7. QED
    BY <2>3, <2>6, BytesCut DEF Gone
<1>6. PICK ps \in Seq(Seq(Cell)) :
        ps = Parts(ServiceOrder(s), taken, q) /\ Len(ps) = d /\ \A k \in 1 .. d : ps[k] = part(k)
  <2>1. PICK T : T = Seq(Cell)
    OBVIOUS
  <2>2. PICK f : f = Parts(ServiceOrder(s), taken, q)
    OBVIOUS
  <2>3. f = [ k \in 1 .. d |-> part(k) ]
    BY <1>1, <2>2 DEF Parts
  <2>4. ASSUME NEW k \in 1 .. d PROVE part(k) \in T
    <3>1. << >> \in Seq(Cell)
      BY EmptySeq
    <3> HIDE DEF part, gone
    <3>2. QED
      BY <1>3, <1>4, <2>1, <3>1
  <2> HIDE DEF part
  <2>5. f \in Seq(T) /\ Len(f) = d /\ \A k \in 1 .. d : f[k] = part(k)
    BY <1>1, <2>3, <2>4
  <2>6. QED
    BY <2>1, <2>2, <2>5
<1> HIDE DEF part, gone
<1>7. CASE q = ControlQueue
  <2>1. n <= d /\ \A i \in 1 .. n : Place(s, i) = << q, i >>
    BY <1>1, <1>7
  <2>2. ASSUME NEW i \in 1 .. n PROVE ps[0 + i] = fs[i]
    <3>1. i \in 1 .. d /\ Place(s, i) = << q, i >> /\ 0 + i = i
      BY <2>1
    <3>2. part(i) = gone(i)
      BY <1>3, <1>7, <3>1
    <3>3. QED
      BY <1>2, <1>6, <3>1, <3>2
  <2>3. ASSUME NEW k \in 1 .. d, k <= 0 \/ 0 + n < k PROVE ps[k] = << >>
    <3>1. k \notin 1 .. n
      BY <2>3
    <3>2. part(k) = << >>
      BY <1>3, <1>7, <3>1
    <3>3. QED
      BY <1>6, <3>2
  <2>4. Pads(ps, fs, 0)
    BY <1>2, <1>6, <2>1, <2>2, <2>3 DEF Pads
  <2>5. QED
    BY <1>2, <1>6, <2>4, PaddingFlattens
<1>8. CASE q # ControlQueue /\ \E k \in 1 .. d : Place(s, k) = << q, 1 >>
  <2>1. PICK at \in 1 .. d : Place(s, at) = << q, 1 >>
    BY <1>8
  <2>2. q \in DataChannels
    BY <1>8, QueuesAre
  <2>3. 1 \in 1 .. n /\ part(at) = gone(1)
    BY <1>3, <2>1
  <2>4. PICK t \in Seq(Seq(Cell)) : Len(t) = 1 /\ t[1] = gone(1)
    <3>1. PICK T : T = Seq(Cell)
      OBVIOUS
    <3>2. gone(1) \in T
      BY <1>4, <2>3, <3>1
    <3>3. << gone(1) >> \in Seq(T) /\ Len(<< gone(1) >>) = 1 /\ << gone(1) >>[1] = gone(1)
      BY <3>2
    <3>4. QED
      BY <3>1, <3>3
  <2>5. ASSUME NEW k \in 1 .. d, k # at PROVE ps[k] = << >>
    <3>1. k \in DOMAIN taken /\ at \in DOMAIN taken
      BY <1>1
    <3>2. Place(s, k) # Place(s, at)
      BY <2>5, <3>1, PlacesAre
    <3>3. part(k) = << >>
      BY <1>3, <2>1, <2>2, <3>2
    <3>4. QED
      BY <1>6, <3>3
  <2>6. ASSUME NEW i \in 1 .. n, i # 1 PROVE fs[i] = << >>
    <3>1. \A k \in 1 .. d : Place(s, k) # << q, i >>
      BY <1>3, <2>2, <2>6
    <3>2. QED
      BY <1>2, <1>5, <3>1
  <2>7. Pads(ps, t, at - 1)
    <3>1. (at - 1) + 1 <= d /\ (at - 1) + 1 = at
      BY <1>1
    <3>2. \A i \in 1 .. 1 : ps[(at - 1) + i] = t[i]
      BY <1>6, <2>3, <2>4, <3>1
    <3>3. \A k \in 1 .. d : k <= at - 1 \/ (at - 1) + 1 < k => ps[k] = << >>
      BY <1>1, <2>5
    <3>4. QED
      BY <1>6, <2>4, <3>1, <3>2, <3>3 DEF Pads
  <2>8. Pads(fs, t, 0)
    <3>1. 0 + 1 <= n /\ \A i \in 1 .. 1 : fs[0 + i] = t[i]
      BY <1>1, <1>2, <2>3, <2>4
    <3>2. \A i \in 1 .. n : i <= 0 \/ 0 + 1 < i => fs[i] = << >>
      BY <1>1, <2>6
    <3>3. QED
      BY <1>2, <2>4, <3>1, <3>2 DEF Pads
  <2>9. at - 1 \in Nat
    BY <1>1
  <2>10. FlattenSeq(ps) = FlattenSeq(t) /\ FlattenSeq(fs) = FlattenSeq(t)
    BY <1>2, <1>6, <2>4, <2>7, <2>8, <2>9, PaddingFlattens
  <2>11. QED
    BY <1>2, <1>6, <2>10
<1>9. CASE q # ControlQueue /\ \A k \in 1 .. d : Place(s, k) # << q, 1 >>
  <2>1. q \in DataChannels
    BY <1>9, QueuesAre
  <2>2. \A i \in 1 .. n : \A k \in 1 .. d : Place(s, k) # << q, i >>
    BY <1>3, <1>9, <2>1
  <2>3. \A i \in 1 .. n : fs[i] = << >>
    BY <1>2, <1>5, <2>2
  <2>4. \A k \in 1 .. d : ps[k] = << >>
    BY <1>3, <1>6, <2>2
  <2>5. PICK t \in Seq(Seq(Cell)) : Len(t) = 0
    <3>1. << >> \in Seq(Seq(Cell)) /\ Len(<< >>) = 0
      BY EmptySeq
    <3>2. QED
      BY <3>1
  <2>6. Pads(ps, t, 0) /\ Pads(fs, t, 0)
    BY <1>1, <1>2, <1>6, <2>3, <2>4, <2>5 DEF Pads
  <2>7. FlattenSeq(ps) = FlattenSeq(t) /\ FlattenSeq(fs) = FlattenSeq(t)
    <3>1. 0 \in Nat
      OBVIOUS
    <3>2. FlattenSeq(ps) = FlattenSeq(t)
      BY <2>6, <3>1, PaddingFlattens
    <3>3. FlattenSeq(fs) = FlattenSeq(t)
      BY <2>6, <3>1, PaddingFlattens
    <3>4. QED
      BY <3>2, <3>3
  <2>8. QED
    BY <1>2, <1>6, <2>7
<1>10. QED
  BY <1>7, <1>8, <1>9

(* What a drain writes of a queue and what it leaves there is what the     *)
(* queue held.                                                             *)
LEMMA DrainStreams ==
  ASSUME NEW s, SchedulerOK(s), NEW taken, Taking(ServiceOrder(s), taken), NEW q \in Queues,
         NEW r, r = Drained(s, ServiceOrder(s), taken)
  PROVE  /\ WrittenBy(ServiceOrder(s), taken, q) \in Seq(Cell)
         /\ BytesIn(ItemsIn(r, q)) \in Seq(Cell) /\ BytesIn(ItemsIn(s, q)) \in Seq(Cell)
         /\ Concat(WrittenBy(ServiceOrder(s), taken, q), BytesIn(ItemsIn(r, q))) = BytesIn(ItemsIn(s, q))
<1>1. PICK f \in Seq(Seq(Cell)), l \in Seq(Seq(Cell)) :
        f = Fronts(s, taken, q) /\ l = Rests(s, taken, q) /\ Cuts(Strings(ItemsIn(s, q)), f, l)
  BY DrainCuts, Zenon
<1>2. ItemsIn(s, q) \in Seq(ItemOf(q))
  BY DEF SchedulerOK
<1>3. PICK w \in Seq(Seq(Cell)) :
        w = Strings(ItemsIn(s, q)) /\ BytesIn(ItemsIn(s, q)) = FlattenSeq(w)
  BY <1>2, StringsAre, Zenon
<1>4. FlattenSeq(f) \o FlattenSeq(l) = FlattenSeq(w)
  BY <1>1, <1>3, CutsFlatten
<1>5. WrittenBy(ServiceOrder(s), taken, q) = FlattenSeq(f)
  BY <1>1, WrittenIs, PartsFlatten
<1>6. FlattenSeq(f) \in Seq(Cell) /\ FlattenSeq(w) \in Seq(Cell)
  BY FlattenIs
<1>7. FlattenSeq(l) = BytesIn(ItemsIn(r, q)) /\ BytesIn(ItemsIn(r, q)) \in Seq(Cell)
  BY <1>1, RestsFlatten
<1>8. QED
  BY <1>3, <1>4, <1>5, <1>6, <1>7 DEF Concat

-----------------------------------------------------------------------------
(* The streams of the queues *)

Streams ==
  /\ Accounts
  /\ written \in [ Queues -> Seq(Cell) ] /\ submitted \in [ Queues -> Seq(Cell) ]
  /\ StreamExact

LEMMA InitStreams == Init => Streams
<1> SUFFICES ASSUME Init PROVE Streams
  OBVIOUS
<1>1. Accounts
  BY InitAccounts
<1>2. << >> \in Seq(Cell)
  BY EmptySeq
<1>3. written = [ q \in Queues |-> << >> ] /\ submitted = [ q \in Queues |-> << >> ]
  BY DEF Init
<1>4. ASSUME NEW q \in Queues PROVE written[q] \o BytesIn(ItemsIn(sch, q)) = submitted[q]
  <2>1. ItemsIn(sch, q) = << >>
    BY QueuesAre DEF Init, EmptyScheduler
  <2>2. ItemsIn(sch, q) \in Seq(ItemOf(q))
    BY <1>1 DEF Accounts, SchedulerOK
  <2>3. PICK t \in Seq(Seq(Cell)) : t = Strings(ItemsIn(sch, q)) /\ Len(t) = 0 /\ BytesIn(ItemsIn(sch, q)) = FlattenSeq(t)
    <3>1. Len(ItemsIn(sch, q)) = 0
      BY <2>1
    <3>2. QED
      BY <2>2, <3>1, StringsAre
  <2>4. t = << >>
    BY <2>3, EmptySeq
  <2>5. FlattenSeq(t) = << >>
    BY <2>4, FlattenIs
  <2>6. << >> \o << >> = << >>
    OBVIOUS
  <2>7. QED
    BY <1>3, <2>3, <2>5, <2>6
<1>5. QED
  BY <1>1, <1>2, <1>3, <1>4 DEF Streams, StreamExact

LEMMA OfferStreams ==
  ASSUME Streams, NEW q \in Queues, NEW size \in ItemSizes, Offer(q, size)
  PROVE  Streams'
<1> DEFINE item == Item(q, numbers[q], size)
<1>1. Accounts /\ Accounts'
  BY OfferAccounts DEF Streams
<1>2. item \in ItemOf(q) /\ QueueOf(item) = q
  BY <1>1, ItemMade, ItemIs DEF Accounts
<1>3. written' = written
  BY DEF Offer
<1>4. CASE EnqueueError(sch, item) = "none"
  <2>1. sch' = Enqueue(sch, item) /\ submitted' = [ submitted EXCEPT ![q] = submitted[q] \o BytesOf(item) ]
    BY <1>2, <1>4 DEF Offer, Accept
  <2> HIDE DEF item
  <2>2. /\ ItemsIn(sch', q) = Append(ItemsIn(sch, q), item)
        /\ \A p \in Queues : p # q => ItemsIn(sch', p) = ItemsIn(sch, p)
    BY <1>1, <1>2, <2>1, EnqueueIs DEF Accounts
  <2>3. PICK a \in Seq(Cell), b \in Seq(Cell), c \in Seq(Cell) :
          /\ a = written[q] /\ b = BytesIn(ItemsIn(sch, q)) /\ c = BytesOf(item)
    <3>1. written[q] \in Seq(Cell)
      BY DEF Streams
    <3>2. BytesIn(ItemsIn(sch, q)) \in Seq(Cell)
      BY <1>1, StringsAre DEF Accounts, SchedulerOK
    <3>3. BytesOf(item) \in Seq(Cell)
      BY <1>2, ItemIs, BytesAre
    <3>4. QED
      BY <3>1, <3>2, <3>3
  <2>4. BytesIn(ItemsIn(sch', q)) = Concat(b, c)
    <3>1. BytesIn(Append(ItemsIn(sch, q), item)) = BytesIn(ItemsIn(sch, q)) \o BytesOf(item)
      BY <1>1, <1>2, AppendedBytes DEF Accounts, SchedulerOK
    <3>2. QED
      BY <2>2, <2>3, <3>1, Zenon DEF Concat
  <2>5. submitted[q] = Concat(a, b)
    BY <2>3, Zenon DEF Streams, StreamExact, Concat
  <2>6. Concat(Concat(a, b), c) \in Seq(Cell) /\ Concat(Concat(a, b), c) = Concat(a, Concat(b, c))
    <3>1. Concat(a, b) \in Seq(Cell)
      BY ConcatProperties DEF Concat
    <3>2. Concat(Concat(a, b), c) \in Seq(Cell)
      BY <3>1, ConcatProperties DEF Concat
    <3>3. QED
      BY <3>2, ConcatGroups
  <2>7. submitted' = [ submitted EXCEPT ![q] = Concat(Concat(a, b), c) ]
    BY <2>1, <2>3, <2>5, Zenon DEF Concat
  <2>8. PICK U : U = Seq(Cell)
    OBVIOUS
  <2>9. /\ submitted' \in [ Queues -> U ] /\ submitted'[q] = Concat(Concat(a, b), c)
        /\ \A p \in Queues : p # q => submitted'[p] = submitted[p]
    <3>1. submitted \in [ Queues -> U ] /\ Concat(Concat(a, b), c) \in U
      BY <2>6, <2>8 DEF Streams
    <3>2. PICK x : x = Concat(Concat(a, b), c)
      OBVIOUS
    <3>3. submitted' = [ submitted EXCEPT ![q] = x ] /\ x \in U
      BY <2>7, <3>1, <3>2, Zenon
    <3>4. /\ submitted' \in [ Queues -> U ] /\ submitted'[q] = x
          /\ \A p \in Queues : p # q => submitted'[p] = submitted[p]
      BY <3>1, <3>3
    <3>5. QED
      BY <3>2, <3>4, Zenon
  <2>10. ASSUME NEW p \in Queues PROVE written'[p] \o BytesIn(ItemsIn(sch', p)) = submitted'[p]
    <3>1. CASE p = q
      <4>1. Concat(written'[q], BytesIn(ItemsIn(sch', q))) = Concat(a, Concat(b, c))
        BY <1>3, <2>3, <2>4, Zenon
      <4>2. Concat(written'[q], BytesIn(ItemsIn(sch', q))) = submitted'[q]
        BY <2>6, <2>9, <4>1, Zenon
      <4>3. QED
        BY <3>1, <4>2, Zenon DEF Concat
    <3>2. CASE p # q
      <4>1. written[p] \o BytesIn(ItemsIn(sch, p)) = submitted[p]
        BY Zenon DEF Streams, StreamExact
      <4>2. QED
        BY <1>3, <2>2, <2>9, <3>2, <4>1, Zenon
    <3>3. QED
      BY <3>1, <3>2
  <2>11. StreamExact'
    BY <2>10, Zenon DEF StreamExact
  <2>12. written' \in [ Queues -> Seq(Cell) ] /\ submitted' \in [ Queues -> Seq(Cell) ]
    BY <1>3, <2>8, <2>9, Zenon DEF Streams
  <2>13. QED
    BY <1>1, <2>11, <2>12, Zenon DEF Streams
<1>5. CASE EnqueueError(sch, item) # "none"
  <2>1. sch' = sch /\ submitted' = submitted
    BY <1>5 DEF Offer
  <2>2. QED
    BY <1>1, <1>3, <2>1 DEF Streams, StreamExact
<1>6. QED
  BY <1>4, <1>5

LEMMA WriteStreams ==
  ASSUME Streams, NEW writable \in 1 .. MaxWrite, Write(writable)
  PROVE  Streams'
<1> DEFINE order == ServiceOrder(sch)
           taken == Taken(order, writable)
           more(q) == WrittenBy(order, taken, q)
<1>1. Accounts /\ Accounts' /\ SchedulerOK(sch)
  BY WriteAccounts DEF Streams, Accounts
<1>2. writable \in Nat
  BY OutboundSchedulerAssumption
<1>3. Taking(order, taken)
  BY <1>1, <1>2, WriteTakes
<1>4. /\ sch' = Drained(sch, order, taken) /\ submitted' = submitted
      /\ written' = [ q \in Queues |-> written[q] \o more(q) ]
  BY DEF Write
<1> HIDE DEF taken
<1>5. ASSUME NEW q \in Queues
      PROVE  /\ more(q) \in Seq(Cell)
             /\ BytesIn(ItemsIn(sch', q)) \in Seq(Cell) /\ BytesIn(ItemsIn(sch, q)) \in Seq(Cell)
             /\ Concat(more(q), BytesIn(ItemsIn(sch', q))) = BytesIn(ItemsIn(sch, q))
  BY <1>1, <1>3, <1>4, DrainStreams
<1> HIDE DEF more
<1>6. ASSUME NEW q \in Queues
      PROVE  written'[q] \in Seq(Cell) /\ written'[q] \o BytesIn(ItemsIn(sch', q)) = submitted'[q]
  <2>1. PICK a \in Seq(Cell), b \in Seq(Cell), c \in Seq(Cell) :
          a = written[q] /\ b = more(q) /\ c = BytesIn(ItemsIn(sch', q))
    BY <1>5 DEF Streams
  <2>2. written'[q] = Concat(a, b)
    BY <1>4, <2>1 DEF Concat
  <2>3. Concat(a, b) \in Seq(Cell)
    BY ConcatProperties DEF Concat
  <2>4. Concat(a, Concat(b, c)) = submitted[q]
    <3>1. Concat(b, c) = BytesIn(ItemsIn(sch, q))
      BY <1>5, <2>1, Zenon
    <3>2. Concat(written[q], BytesIn(ItemsIn(sch, q))) = submitted[q]
      BY Zenon DEF Streams, StreamExact, Concat
    <3>3. QED
      BY <2>1, <3>1, <3>2, Zenon
  <2>5. Concat(Concat(a, b), c) = Concat(a, Concat(b, c))
    BY ConcatGroups
  <2>6. Concat(written'[q], BytesIn(ItemsIn(sch', q))) = submitted'[q]
    BY <1>4, <2>1, <2>2, <2>4, <2>5, Zenon
  <2>7. QED
    BY <2>2, <2>3, <2>6, Zenon DEF Concat
<1>7. written' \in [ Queues -> Seq(Cell) ] /\ submitted' \in [ Queues -> Seq(Cell) ]
  <2>1. PICK U : U = Seq(Cell)
    OBVIOUS
  <2>2. \A q \in Queues : written[q] \o more(q) \in U
    <3>1. ASSUME NEW q \in Queues PROVE written[q] \o more(q) \in U
      <4>1. written'[q] = written[q] \o more(q)
        BY <1>4
      <4>2. QED
        BY <1>6, <2>1, <4>1
    <3>2. QED
      BY <3>1
  <2>3. written' \in [ Queues -> U ]
    BY <1>4, <2>2, Zenon
  <2>4. QED
    BY <1>4, <2>1, <2>3 DEF Streams
<1>8. StreamExact'
  BY <1>6, Zenon DEF StreamExact
<1>9. QED
  BY <1>1, <1>7, <1>8, Zenon DEF Streams

LEMMA StepStreams == Streams /\ [Next]_vars => Streams'
<1> SUFFICES ASSUME Streams, [Next]_vars PROVE Streams'
  OBVIOUS
<1>1. ASSUME NEW q \in Queues, NEW size \in ItemSizes, Offer(q, size) PROVE Streams'
  BY <1>1, OfferStreams
<1>2. ASSUME NEW c \in DataChannels, NEW size \in ItemSizes, OfferRegressed(c, size) PROVE Streams'
  <2>1. UNCHANGED vars
    BY <1>2, RegressedRefused DEF Streams, Accounts
  <2>2. QED
    BY <2>1 DEF vars, Streams, Accounts, StreamExact
<1>3. ASSUME NEW writable \in 1 .. MaxWrite, Write(writable) PROVE Streams'
  BY <1>3, WriteStreams
<1>4. CASE UNCHANGED vars
  BY <1>4 DEF vars, Streams, Accounts, StreamExact
<1>5. QED
  BY <1>1, <1>2, <1>3, <1>4 DEF Next

(* However the transport cuts what it takes, the bytes that drain has put  *)
(* on the wire of a queue and then those it has left there are the bytes   *)
(* enqueue accepted, in order: none lost, repeated or changed places.      *)
THEOREM StreamAlwaysExact == Spec => []StreamExact
<1>1. Init => Streams
  BY InitStreams
<1>2. Streams /\ [Next]_vars => Streams'
  BY StepStreams
<1>3. Streams => StreamExact
  BY DEF Streams
<1>4. QED
  BY <1>1, <1>2, <1>3, PTL DEF Spec
=============================================================================
