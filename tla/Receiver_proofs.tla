--------------------------- MODULE Receiver_proofs ---------------------------
(***************************************************************************)
(* The decoder finds in a stream of bytes what it finds in all of them at  *)
(* once, however they are cut into reads, for every stream, frames or not, *)
(* and all limits.  The argument:                                          *)
(*  - what DecodeOne finds, a frame or an error, depends on the bytes      *)
(*    already there and not on what follows them (DecodeOneStable), since  *)
(*    a number that can be read is read the same with more bytes           *)
(*    (NumberStable); a frame found is made of bytes that are there        *)
(*    (DecodeOneIs);                                                       *)
(*  - what FoundFrom finds from a position on is what it finds in those    *)
(*    bytes alone (FoundFromShifts);                                       *)
(*  - so two calls find what one call finds in the bytes of both, and      *)
(*    nothing else after an error (FoundInTwo), by induction on the length *)
(*    of the bytes;                                                        *)
(*  - and the receiver holds, after every read, what one call makes of all *)
(*    the bytes received (IInv).                                           *)
(***************************************************************************)
EXTENDS FrameStream, SequenceTheorems, WellFoundedInduction, TLAPS

-----------------------------------------------------------------------------
(* Sequences *)

(* s without its first n elements. *)
Drop(s, n) == SubSeq(s, n + 1, Len(s))

(* w begins with v. *)
Prolongs(w, v) ==
  /\ Len(v) \in Nat /\ Len(w) \in Nat /\ Len(v) <= Len(w)
  /\ \A i \in 1 .. Len(v) : w[i] = v[i]

LEMMA DropIs ==
  ASSUME NEW S, NEW s \in Seq(S), NEW n \in 0 .. Len(s)
  PROVE  /\ Drop(s, n) \in Seq(S) /\ Len(Drop(s, n)) = Len(s) - n
         /\ \A i \in 1 .. Len(s) - n : Drop(s, n)[i] = s[n + i]
<1>1. PICK l \in Nat : l = Len(s)
  BY LenProperties
<1>2. \A i \in n + 1 .. l : s[i] \in S
  BY <1>1, ElementOfSeq
<1>3. n + 1 \in Int /\ l \in Int
  BY <1>1
<1>4. /\ SubSeq(s, n + 1, l) \in Seq(S)
      /\ Len(SubSeq(s, n + 1, l)) = IF n + 1 <= l THEN l - (n + 1) + 1 ELSE 0
      /\ \A i \in 1 .. l - (n + 1) + 1 : SubSeq(s, n + 1, l)[i] = s[(n + 1) + i - 1]
  BY <1>2, <1>3, SubSeqProperties
<1>5. PICK t : t = SubSeq(s, n + 1, l)
  OBVIOUS
<1>6. Len(t) = l - n
  BY <1>1, <1>4, <1>5
<1>7. \A i \in 1 .. l - n : t[i] = s[n + i]
  <2>1. ASSUME NEW i \in 1 .. l - n PROVE t[i] = s[n + i]
    <3>1. i \in 1 .. l - (n + 1) + 1 /\ (n + 1) + i - 1 = n + i
      BY <1>1
    <3>2. QED
      BY <1>4, <1>5, <3>1
  <2>2. QED
    BY <2>1
<1>8. QED
  BY <1>1, <1>4, <1>5, <1>6, <1>7 DEF Drop

LEMMA DropAll ==
  ASSUME NEW S, NEW s \in Seq(S)
  PROVE  Drop(s, 0) = s /\ Drop(s, Len(s)) = << >> /\ 0 \in 0 .. Len(s) /\ Len(s) \in 0 .. Len(s)
<1>1. PICK l \in Nat : l = Len(s)
  BY LenProperties
<1>2. Len(Drop(s, l)) = 0 /\ Drop(s, l) \in Seq(S)
  BY <1>1, DropIs
<1>3. Drop(s, 0) = s
  BY SubSeqFull DEF Drop
<1>4. QED
  BY <1>1, <1>2, <1>3, EmptySeq

LEMMA DropDrop ==
  ASSUME NEW S, NEW s \in Seq(S), NEW n \in 0 .. Len(s), NEW m \in 0 .. Len(s) - n
  PROVE  Drop(Drop(s, n), m) = Drop(s, n + m)
<1>1. PICK l \in Nat : l = Len(s)
  BY LenProperties
<1>2. PICK t \in Seq(S) : t = Drop(s, n) /\ Len(t) = l - n /\ \A i \in 1 .. l - n : t[i] = s[n + i]
  <2>1. Drop(s, n) \in Seq(S) /\ Len(Drop(s, n)) = Len(s) - n
        /\ \A i \in 1 .. Len(s) - n : Drop(s, n)[i] = s[n + i]
    BY DropIs
  <2>2. QED
    BY <1>1, <2>1, Zenon
<1>3. PICK u \in Seq(S) : u = Drop(t, m) /\ Len(u) = (l - n) - m /\ \A i \in 1 .. (l - n) - m : u[i] = t[m + i]
  <2>1. m \in 0 .. Len(t)
    BY <1>1, <1>2
  <2>2. Drop(t, m) \in Seq(S) /\ Len(Drop(t, m)) = Len(t) - m
        /\ \A i \in 1 .. Len(t) - m : Drop(t, m)[i] = t[m + i]
    <3>1. t \in Seq(S)
      BY <1>2
    <3>2. QED
      BY <2>1, <3>1, DropIs
  <2>3. QED
    BY <1>2, <2>2, Zenon
<1>4. PICK v \in Seq(S) : v = Drop(s, n + m) /\ Len(v) = l - (n + m) /\ \A i \in 1 .. l - (n + m) : v[i] = s[n + m + i]
  <2>1. n + m \in 0 .. Len(s)
    BY <1>1
  <2>2. Drop(s, n + m) \in Seq(S) /\ Len(Drop(s, n + m)) = Len(s) - (n + m)
        /\ \A i \in 1 .. Len(s) - (n + m) : Drop(s, n + m)[i] = s[n + m + i]
    BY <2>1, DropIs
  <2>3. QED
    BY <1>1, <2>2, Zenon
<1>5. (l - n) - m = l - (n + m) /\ l - (n + m) \in Nat
  BY <1>1
<1>6. ASSUME NEW i \in 1 .. l - (n + m) PROVE u[i] = v[i]
  <2>1. m + i \in 1 .. l - n /\ n + (m + i) = n + m + i
    BY <1>1
  <2>2. t[m + i] = s[n + m + i]
    BY <1>2, <2>1
  <2>3. QED
    BY <1>3, <1>4, <1>5, <2>2
<1>7. u = v
  BY <1>3, <1>4, <1>5, <1>6, SeqEqual
<1>8. QED
  BY <1>2, <1>3, <1>4, <1>7

LEMMA DropConcat ==
  ASSUME NEW S, NEW s \in Seq(S), NEW t \in Seq(S), NEW n \in 0 .. Len(s)
  PROVE  /\ Drop(s \o t, n) = Drop(s, n) \o t /\ s \o t \in Seq(S)
         /\ n \in 0 .. Len(s \o t) /\ Prolongs(s \o t, s)
<1>1. PICK l \in Nat, k \in Nat : l = Len(s) /\ k = Len(t)
  BY LenProperties
<1>2. PICK u \in Seq(S) :
        /\ u = s \o t /\ Len(u) = l + k
        /\ \A i \in 1 .. l + k : u[i] = IF i <= l THEN s[i] ELSE t[i - l]
  <2>1. s \o t \in Seq(S) /\ Len(s \o t) = Len(s) + Len(t)
        /\ \A i \in 1 .. Len(s) + Len(t) : (s \o t)[i] = IF i <= Len(s) THEN s[i] ELSE t[i - Len(s)]
    BY ConcatProperties
  <2>2. QED
    BY <1>1, <2>1, Zenon
<1>3. PICK d \in Seq(S) : d = Drop(s, n) /\ Len(d) = l - n /\ \A i \in 1 .. l - n : d[i] = s[n + i]
  <2>1. Drop(s, n) \in Seq(S) /\ Len(Drop(s, n)) = Len(s) - n
        /\ \A i \in 1 .. Len(s) - n : Drop(s, n)[i] = s[n + i]
    BY DropIs
  <2>2. QED
    BY <1>1, <2>1, Zenon
<1>4. n \in 0 .. l + k
  BY <1>1
<1>5. PICK v \in Seq(S) : v = Drop(u, n) /\ Len(v) = (l + k) - n /\ \A i \in 1 .. (l + k) - n : v[i] = u[n + i]
  <2>1. n \in 0 .. Len(u)
    BY <1>2, <1>4
  <2>2. Drop(u, n) \in Seq(S) /\ Len(Drop(u, n)) = Len(u) - n
        /\ \A i \in 1 .. Len(u) - n : Drop(u, n)[i] = u[n + i]
    BY <2>1, DropIs
  <2>3. QED
    BY <1>2, <2>2, Zenon
<1>6. PICK w \in Seq(S) :
        /\ w = d \o t /\ Len(w) = (l - n) + k
        /\ \A i \in 1 .. (l - n) + k : w[i] = IF i <= l - n THEN d[i] ELSE t[i - (l - n)]
  <2>1. d \o t \in Seq(S) /\ Len(d \o t) = Len(d) + Len(t)
        /\ \A i \in 1 .. Len(d) + Len(t) : (d \o t)[i] = IF i <= Len(d) THEN d[i] ELSE t[i - Len(d)]
    BY ConcatProperties
  <2>2. Len(d) = l - n /\ Len(t) = k
    BY <1>1, <1>3
  <2>3. PICK w : w = d \o t
    OBVIOUS
  <2>4. w \in Seq(S) /\ Len(w) = (l - n) + k
    BY <2>1, <2>2, <2>3
  <2>5. \A i \in 1 .. (l - n) + k : w[i] = IF i <= l - n THEN d[i] ELSE t[i - (l - n)]
    BY <2>1, <2>2, <2>3, Zenon
  <2>6. QED
    BY <2>3, <2>4, <2>5, Zenon
<1>7. (l - n) + k = (l + k) - n /\ (l + k) - n \in Nat
  BY <1>1
<1>8. ASSUME NEW i \in 1 .. (l + k) - n PROVE v[i] = w[i]
  <2>1. n + i \in 1 .. l + k /\ i \in 1 .. (l - n) + k /\ (i <= l - n <=> n + i <= l)
        /\ i - (l - n) = (n + i) - l
    BY <1>1
  <2>2. v[i] = IF n + i <= l THEN s[n + i] ELSE t[(n + i) - l]
    BY <1>2, <1>5, <2>1
  <2>3. CASE i <= l - n
    BY <1>3, <1>6, <2>1, <2>2, <2>3
  <2>4. CASE ~ (i <= l - n)
    BY <1>6, <2>1, <2>2, <2>4
  <2>5. QED
    BY <2>3, <2>4
<1>9. v = w
  BY <1>5, <1>6, <1>7, <1>8, SeqEqual
<1>10. Prolongs(u, s)
  BY <1>1, <1>2 DEF Prolongs
<1>11. QED
  BY <1>2, <1>3, <1>4, <1>5, <1>6, <1>9, <1>10

LEMMA DropOfConcat ==
  ASSUME NEW S, NEW s \in Seq(S), NEW t \in Seq(S), NEW u, u = s \o t, NEW n \in 0 .. Len(s)
  PROVE  Drop(u, n) = Drop(s, n) \o t
BY DropConcat, Zenon

LEMMA PartIs ==
  ASSUME NEW S, NEW s, NEW a \in Nat, NEW b \in Int, \A i \in a + 1 .. b : s[i] \in S
  PROVE  /\ SubSeq(s, a + 1, b) \in Seq(S)
         /\ Len(SubSeq(s, a + 1, b)) = IF a + 1 <= b THEN b - (a + 1) + 1 ELSE 0
         /\ \A i \in 1 .. b - (a + 1) + 1 : SubSeq(s, a + 1, b)[i] = s[(a + 1) + i - 1]
<1>1. a + 1 \in Int
  OBVIOUS
<1>2. QED
  BY <1>1, SubSeqProperties

(* A part of v is the same part of what begins with v. *)
LEMMA PartOfProlonged ==
  ASSUME NEW S, NEW v \in Seq(S), NEW w \in Seq(S), Prolongs(w, v),
         NEW a \in Nat, NEW b \in 0 .. Len(v)
  PROVE  SubSeq(w, a + 1, b) = SubSeq(v, a + 1, b)
<1>1. PICK l \in Nat : l = Len(v) /\ \A i \in 1 .. l : w[i] = v[i]
  BY DEF Prolongs
<1>2. \A i \in a + 1 .. b : v[i] \in S /\ w[i] = v[i]
  <2>1. \A i \in a + 1 .. b : i \in 1 .. l
    BY <1>1
  <2>2. QED
    BY <1>1, <2>1, ElementOfSeq
<1>3. a + 1 \in Int /\ b \in Int
  BY <1>1
<1>4. /\ SubSeq(v, a + 1, b) \in Seq(S)
      /\ Len(SubSeq(v, a + 1, b)) = IF a + 1 <= b THEN b - (a + 1) + 1 ELSE 0
      /\ \A i \in 1 .. b - (a + 1) + 1 : SubSeq(v, a + 1, b)[i] = v[(a + 1) + i - 1]
  BY <1>2, <1>3, PartIs
<1>5. /\ SubSeq(w, a + 1, b) \in Seq(S)
      /\ Len(SubSeq(w, a + 1, b)) = IF a + 1 <= b THEN b - (a + 1) + 1 ELSE 0
      /\ \A i \in 1 .. b - (a + 1) + 1 : SubSeq(w, a + 1, b)[i] = w[(a + 1) + i - 1]
  <2>1. \A i \in a + 1 .. b : w[i] \in S
    BY <1>2
  <2>2. QED
    BY <2>1, <1>3, PartIs
<1>6. PICK x \in Seq(S), y \in Seq(S) : x = SubSeq(v, a + 1, b) /\ y = SubSeq(w, a + 1, b)
  BY <1>4, <1>5, Zenon
<1>7. Len(x) = Len(y)
  BY <1>4, <1>5, <1>6
<1>8. ASSUME NEW i \in 1 .. Len(x) PROVE x[i] = y[i]
  <2>1. i \in 1 .. b - (a + 1) + 1 /\ (a + 1) + i - 1 \in a + 1 .. b
    BY <1>1, <1>4, <1>6
  <2>2. QED
    BY <1>2, <1>4, <1>5, <1>6, <2>1
<1>9. x = y
  BY <1>7, <1>8, SeqEqual
<1>10. QED
  BY <1>6, <1>9

-----------------------------------------------------------------------------
(* Numbers *)

(* The bytes, counted from at, that may be the last of the number there. *)
Ends(cells, at) == { i \in 1 .. MaxVarint : at + i - 1 > Len(cells) \/ ~ More(cells[at + i - 1]) }

Digits(cells, at, size) == [ i \in 1 .. size |-> Digit(cells[at + i - 1]) ]

(* What is made of size bytes with this value. *)
Judged(size, value) ==
  IF (size > 1 /\ value < Radix ^ (size - 1)) \/ value \notin 0 .. MaxLength
    THEN [ error |-> "varint_non_canonical" ]
  ELSE [ error |-> "none", value |-> value, size |-> size ]

LEMMA MinIs ==
  ASSUME NEW T, T \subseteq Int, NEW m \in T, \A x \in T : m <= x
  PROVE  Min(T) = m
<1>1. \A y \in T : (\A x \in T : y <= x) => y = m
  OBVIOUS
<1>2. QED
  BY <1>1 DEF Min

LEMMA LeastIs ==
  ASSUME NEW T, T \subseteq Nat, T # {}
  PROVE  Min(T) \in T /\ \A x \in T : Min(T) <= x
<1> DEFINE R == OpToRel(<, Nat)
<1>1. IsWellFoundedOn(R, Nat)
  BY NatLessThanWellFounded
<1>2. \A x, y \in Nat : << x, y >> \in R <=> x < y
  BY DEF OpToRel
<1> HIDE DEF R
<1>3. PICK m \in T : \A y \in T : ~ (<< y, m >> \in R)
  BY <1>1, WFMin
<1>4. ASSUME NEW x \in T PROVE m <= x
  <2>1. m \in Nat /\ x \in Nat /\ ~ (x < m)
    BY <1>2, <1>3
  <2>2. QED
    BY <2>1
<1>5. Min(T) = m
  <2>1. T \subseteq Int /\ m \in T /\ \A x \in T : m <= x
    BY <1>3, <1>4
  <2>2. QED
    BY <2>1, MinIs
<1>6. QED
  BY <1>4, <1>5

LEMMA LeastEnd ==
  ASSUME NEW cells, NEW at, Ends(cells, at) # {}
  PROVE  /\ Min(Ends(cells, at)) \in Ends(cells, at)
         /\ \A x \in Ends(cells, at) : Min(Ends(cells, at)) <= x
<1>1. Ends(cells, at) \subseteq Nat
  BY DEF Ends
<1>2. QED
  BY <1>1, LeastIs

LEMMA DecodeNumberIs ==
  ASSUME NEW cells, NEW at
  PROVE  DecodeNumber(cells, at) =
           IF Ends(cells, at) = {} THEN [ error |-> "varint_too_long" ]
           ELSE IF at + Min(Ends(cells, at)) - 1 > Len(cells) THEN [ error |-> "need_more_data" ]
           ELSE Judged(Min(Ends(cells, at)), NumberFrom(Digits(cells, at, Min(Ends(cells, at)))))
BY Zenon DEF DecodeNumber, Ends, Digits, Judged

(* What a number is, once it can be read, does not depend on what follows. *)
LEMMA NumberStable ==
  ASSUME NEW v, NEW w, Prolongs(w, v), NEW at \in Nat \ {0},
         DecodeNumber(v, at).error # "need_more_data"
  PROVE  DecodeNumber(w, at) = DecodeNumber(v, at)
<1>1. PICK l \in Nat : l = Len(v) /\ Len(w) >= l /\ \A i \in 1 .. l : w[i] = v[i]
  BY DEF Prolongs
<1>2. ASSUME NEW i \in 1 .. MaxVarint, at + i - 1 <= l
      PROVE  w[at + i - 1] = v[at + i - 1] /\ ~ (at + i - 1 > Len(v)) /\ ~ (at + i - 1 > Len(w))
  <2>1. at + i - 1 \in 1 .. l
    BY <1>1, <1>2
  <2>2. w[at + i - 1] = v[at + i - 1]
    BY <1>1, <2>1
  <2>3. QED
    BY <1>1, <1>2, <2>1, <2>2 DEF Prolongs
<1>3. ASSUME NEW i \in 1 .. MaxVarint, at + i - 1 <= l
      PROVE  i \in Ends(w, at) <=> i \in Ends(v, at)
  BY <1>2, <1>3, Zenon DEF Ends
<1>4. ASSUME NEW i \in 1 .. MaxVarint, ~ (at + i - 1 <= l)
      PROVE  i \in Ends(v, at)
  <2>1. at + i - 1 > Len(v)
    BY <1>1, <1>4
  <2>2. QED
    BY <2>1 DEF Ends
<1>5. CASE Ends(v, at) = {}
  <2>1. Ends(w, at) = {}
    <3>1. Ends(w, at) \subseteq 1 .. MaxVarint
      BY DEF Ends
    <3>2. QED
      BY <1>3, <1>4, <1>5, <3>1, Zenon
  <2>2. QED
    BY <1>5, <2>1, DecodeNumberIs
<1>6. CASE Ends(v, at) # {}
  <2>1. PICK m : m = Min(Ends(v, at))
    OBVIOUS
  <2>2. m \in Ends(v, at) /\ \A x \in Ends(v, at) : m <= x
    BY <1>6, <2>1, LeastEnd
  <2>3. m \in 1 .. MaxVarint
    BY <2>2 DEF Ends
  <2>4. at + m - 1 <= l
    <3>1. ~ (at + m - 1 > Len(v))
      <4>1. SUFFICES ASSUME at + m - 1 > Len(v) PROVE FALSE
        OBVIOUS
      <4>2. DecodeNumber(v, at) = [ error |-> "need_more_data" ]
        BY <1>6, <2>1, <4>1, DecodeNumberIs, Zenon
      <4>3. QED
        BY <4>2
    <3>2. QED
      BY <1>1, <2>3, <3>1
  <2>5. m \in Ends(w, at)
    BY <1>3, <2>2, <2>3, <2>4
  <2>6. ASSUME NEW x \in Ends(w, at) PROVE m <= x
    <3>1. x \in 1 .. MaxVarint
      BY DEF Ends
    <3>2. CASE at + x - 1 <= l
      BY <1>3, <2>2, <3>1, <3>2
    <3>3. CASE ~ (at + x - 1 <= l)
      BY <1>1, <2>3, <2>4, <3>1, <3>3
    <3>4. QED
      BY <3>2, <3>3
  <2>7. Min(Ends(w, at)) = m
    <3>1. Ends(w, at) \subseteq Int
      BY DEF Ends
    <3>2. QED
      BY <2>5, <2>6, <3>1, MinIs
  <2>8. Digits(w, at, m) = Digits(v, at, m)
    <3>1. ASSUME NEW i \in 1 .. m PROVE w[at + i - 1] = v[at + i - 1]
      <4>1. i \in 1 .. MaxVarint /\ at + i - 1 <= l
        BY <1>1, <2>3, <2>4, FrameCodecAssumption
      <4>2. QED
        BY <1>2, <4>1
    <3>2. QED
      BY <3>1, Zenon DEF Digits
  <2>9. at + m - 1 <= Len(v) /\ at + m - 1 <= Len(w)
    BY <1>2, <2>3, <2>4
  <2>10. PICK t : t = Digits(v, at, m)
    OBVIOUS
  <2>11. DecodeNumber(v, at) = Judged(m, NumberFrom(t))
    <3>1. ~ (at + m - 1 > Len(v))
      BY <1>1, <2>3, <2>9
    <3>2. QED
      BY <1>6, <2>1, <2>10, <3>1, DecodeNumberIs, Zenon
  <2>12. DecodeNumber(w, at) = Judged(m, NumberFrom(t))
    <3>1. ~ (at + m - 1 > Len(w))
      BY <1>2, <2>3, <2>4, Zenon
    <3>2. Ends(w, at) # {}
      BY <2>5
    <3>3. QED
      BY <2>7, <2>8, <2>10, <3>1, <3>2, DecodeNumberIs, Zenon
  <2>13. QED
    BY <2>11, <2>12, Zenon
<1>7. QED
  BY <1>5, <1>6

(* A number takes up to MaxVarint bytes, all there. *)
LEMMA NumberIs ==
  ASSUME NEW v, Len(v) \in Nat, NEW at \in Nat \ {0}
  PROVE  /\ DecodeNumber(v, at).error = "need_more_data" => Len(v) < at + MaxVarint - 1
         /\ DecodeNumber(v, at).error = "none" =>
              /\ DecodeNumber(v, at).value \in 0 .. MaxLength
              /\ DecodeNumber(v, at).size \in 1 .. MaxVarint
              /\ at + DecodeNumber(v, at).size - 1 <= Len(v)
<1>1. PICK l \in Nat : l = Len(v)
  OBVIOUS
<1>2. CASE Ends(v, at) = {}
  <2>1. DecodeNumber(v, at) = [ error |-> "varint_too_long" ]
    BY <1>2, DecodeNumberIs, Zenon
  <2>2. QED
    BY <2>1
<1>3. CASE Ends(v, at) # {}
  <2>1. PICK m : m = Min(Ends(v, at))
    OBVIOUS
  <2>2. m \in Ends(v, at)
    BY <1>3, <2>1, LeastEnd
  <2>3. m \in 1 .. MaxVarint /\ MaxVarint \in Nat
    BY <2>2, FrameCodecAssumption DEF Ends
  <2>4. CASE at + m - 1 > l
    <3>1. DecodeNumber(v, at) = [ error |-> "need_more_data" ]
      BY <1>1, <1>3, <2>1, <2>4, DecodeNumberIs, Zenon
    <3>2. l < at + MaxVarint - 1
      BY <1>1, <2>3, <2>4
    <3>3. QED
      BY <1>1, <3>1, <3>2
  <2>5. CASE ~ (at + m - 1 > l)
    <3>1. PICK value : value = NumberFrom(Digits(v, at, m))
      OBVIOUS
    <3>2. DecodeNumber(v, at) = Judged(m, value)
      BY <1>1, <1>3, <2>1, <2>5, <3>1, DecodeNumberIs, Zenon
    <3>3. at + m - 1 <= l
      BY <1>1, <2>3, <2>5
    <3>4. CASE (m > 1 /\ value < Radix ^ (m - 1)) \/ value \notin 0 .. MaxLength
      <4>1. Judged(m, value) = [ error |-> "varint_non_canonical" ]
        BY <3>4, Zenon DEF Judged
      <4>2. QED
        BY <3>2, <4>1
    <3>5. CASE ~ ((m > 1 /\ value < Radix ^ (m - 1)) \/ value \notin 0 .. MaxLength)
      <4>1. Judged(m, value) = [ error |-> "none", value |-> value, size |-> m ]
        BY <3>5, Zenon DEF Judged
      <4>2. value \in 0 .. MaxLength
        BY <3>5, Zenon
      <4>3. QED
        BY <1>1, <2>3, <3>2, <3>3, <4>1, <4>2
    <3>6. QED
      BY <3>4, <3>5
  <2>6. QED
    BY <2>4, <2>5
<1>4. QED
  BY <1>2, <1>3

-----------------------------------------------------------------------------
(* One frame *)

(* The rest of a frame whose parts end at these places. *)
Checked(view, eof, start, header, size) ==
  IF size + 1 > MaxFrame THEN Refused("frame_too_large")
  ELSE IF Len(view) < size + 1 THEN Short(view, eof)
  ELSE IF ~ ChecksumMatches(view, size) THEN Refused("crc_mismatch")
  ELSE FrameOf(view, header, size, ParseExtensions(SubSeq(view, start + 1, header)))

(* What a decoder may answer about a view. *)
Answer(d, view) ==
  /\ d.status \in { "need_more", "error", "frame" }
  /\ d.status = "frame" => d.size \in 1 .. Len(view)
  /\ d.status = "need_more" => d = Needed /\ Len(view) < MaxFrame

LEMMA DecodeRestIs ==
  ASSUME NEW view, NEW eof, NEW length, NEW start, NEW header, NEW size,
         length.error = "none", start = Prefix + length.size,
         header = start + view[2][2].extensions, size = header + length.value
  PROVE  DecodeRest(view, eof, length) = Checked(view, eof, start, header, size)
BY Zenon DEF DecodeRest, Checked

LEMMA AnswerOfShort ==
  ASSUME NEW view, NEW eof, Len(view) < MaxFrame
  PROVE  Answer(Short(view, eof), view) /\ Short(view, FALSE) = Needed
BY DEF Answer, Short, Needed, Refused

LEMMA AnswerOfRefused ==
  ASSUME NEW view, NEW error
  PROVE  Answer(Refused(error), view) /\ Refused(error).status # "need_more"
BY DEF Answer, Refused

LEMMA AnswerOfFrame ==
  ASSUME NEW view, NEW header, NEW size, NEW parsed, size + 1 \in 1 .. Len(view)
  PROVE  Answer(FrameOf(view, header, size, parsed), view)
<1>1. CASE parsed.error # "none"
  <2>1. FrameOf(view, header, size, parsed) = Refused(parsed.error)
    BY <1>1, Zenon DEF FrameOf
  <2>2. QED
    BY <2>1, AnswerOfRefused
<1>2. CASE parsed.error = "none"
  <2>1. PICK d : d = FrameOf(view, header, size, parsed)
    OBVIOUS
  <2>2. d.status = "frame" /\ d.size = size + 1
    BY <1>2, <2>1 DEF FrameOf
  <2>3. QED
    BY <2>1, <2>2 DEF Answer
<1>3. QED
  BY <1>1, <1>2

(* The places in a frame whose length could be read. *)
LEMMA PlacesAre ==
  ASSUME NEW S, NEW v \in Seq(S), v[2][2].extensions \in 0 .. MaxHeader,
         NEW length, length = DecodeNumber(v, Prefix + 1), length.error = "none"
  PROVE  \E start \in Nat, header \in Nat, size \in Nat :
           /\ start = Prefix + length.size /\ header = start + v[2][2].extensions
           /\ size = header + length.value
           /\ start <= header /\ header <= size
<1>1. PICK l \in Nat : l = Len(v)
  BY LenProperties
<1>2. Prefix + 1 \in Nat \ {0}
  BY DEF Prefix
<1>3. length.value \in 0 .. MaxLength /\ length.size \in 1 .. MaxVarint
  BY <1>1, <1>2, NumberIs
<1>4. PICK n \in Nat, k \in Nat, x \in Nat : n = length.size /\ k = length.value /\ x = v[2][2].extensions
  BY <1>3, FrameCodecAssumption
<1>5. QED
  <2>1. PICK start \in Nat : start = 2 + n
    BY <1>4
  <2>2. start \in Nat /\ n \in Nat /\ k \in Nat /\ x \in Nat
    BY <1>4, <2>1
  <2>3. PICK header : header = start + x
    OBVIOUS
  <2>4. header \in Nat /\ start <= header
    BY <2>2, <2>3
  <2>5. PICK size : size = header + k
    OBVIOUS
  <2>6. size \in Nat /\ header <= size
    BY <2>2, <2>4, <2>5
  <2>7. QED
    BY <1>4, <2>1, <2>3, <2>4, <2>5, <2>6, Zenon DEF Prefix

LEMMA RestIs ==
  ASSUME NEW S, NEW v \in Seq(S), NEW eof, v[2][2].extensions \in 0 .. MaxHeader
  PROVE  Answer(DecodeRest(v, eof, DecodeNumber(v, Prefix + 1)), v)
<1>1. PICK l \in Nat : l = Len(v)
  BY LenProperties
<1>2. PICK length : length = DecodeNumber(v, Prefix + 1)
  OBVIOUS
<1>3. PICK d : d = DecodeRest(v, eof, length)
  OBVIOUS
<1>4. CASE length.error # "none"
  <2>1. d = LengthOutcome(length.error, eof)
    BY <1>3, <1>4, Zenon DEF DecodeRest
  <2>2. CASE length.error = "need_more_data"
    <3>1. Prefix + 1 \in Nat \ {0} /\ Prefix + 1 + MaxVarint - 1 = Prefix + MaxVarint
      BY FrameCodecAssumption DEF Prefix
    <3>2. l < Prefix + 1 + MaxVarint - 1
      BY <1>1, <1>2, <2>2, <3>1, NumberIs
    <3>3. l < MaxFrame
      BY <3>1, <3>2, FrameCodecAssumption, ReceiverAssumption DEF Prefix
    <3>4. d = Needed \/ d = Refused("truncated_frame")
      BY <2>1, <2>2 DEF LengthOutcome
    <3>5. Answer(Needed, v)
      BY <1>1, <3>3 DEF Answer, Needed
    <3>6. QED
      BY <1>2, <1>3, <3>4, <3>5, AnswerOfRefused
  <2>3. CASE length.error # "need_more_data"
    <3>1. d = Refused(length.error)
      BY <2>1, <2>3 DEF LengthOutcome
    <3>2. QED
      BY <1>2, <1>3, <3>1, AnswerOfRefused
  <2>4. QED
    BY <2>2, <2>3
<1>5. CASE length.error = "none"
  <2>1. PICK start \in Nat, header \in Nat, size \in Nat :
           /\ start = Prefix + length.size /\ header = start + v[2][2].extensions
           /\ size = header + length.value
           /\ start <= header /\ header <= size
    BY <1>2, <1>5, PlacesAre
  <2>2. d = Checked(v, eof, start, header, size)
    BY <1>3, <1>5, <2>1, DecodeRestIs
  <2>3. PICK parsed : parsed = ParseExtensions(SubSeq(v, start + 1, header))
    OBVIOUS
  <2>4. CASE size + 1 > MaxFrame
    BY <1>2, <1>3, <2>2, <2>4, AnswerOfRefused DEF Checked
  <2>5. CASE ~ (size + 1 > MaxFrame) /\ l < size + 1
    <3>1. d = Short(v, eof)
      BY <1>1, <2>2, <2>5, Zenon DEF Checked
    <3>2. l < MaxFrame
      BY <1>1, <2>1, <2>5, FrameCodecAssumption
    <3>3. QED
      BY <1>1, <1>2, <1>3, <3>1, <3>2, AnswerOfShort
  <2>6. CASE ~ (size + 1 > MaxFrame) /\ ~ (l < size + 1)
    <3>1. d = Refused("crc_mismatch") \/ d = FrameOf(v, header, size, parsed)
      BY <1>1, <2>2, <2>3, <2>6, Zenon DEF Checked
    <3>2. size + 1 \in 1 .. Len(v)
      BY <1>1, <2>1, <2>6
    <3>3. QED
      BY <1>2, <1>3, <3>1, <3>2, AnswerOfRefused, AnswerOfFrame
  <2>7. QED
    BY <2>4, <2>5, <2>6
<1>6. QED
  BY <1>4, <1>5

LEMMA DecodeOneIs ==
  ASSUME NEW S, NEW v \in Seq(S), NEW eof
  PROVE  Answer(DecodeOne(v, eof), v)
<1>1. PICK l \in Nat : l = Len(v)
  BY LenProperties
<1>2. CASE l < Prefix
  <2>1. DecodeOne(v, eof) = Short(v, eof)
    BY <1>1, <1>2, Zenon DEF DecodeOne
  <2>2. l < MaxFrame
    BY <1>1, <1>2, FrameCodecAssumption, ReceiverAssumption DEF Prefix
  <2>3. QED
    BY <1>1, <2>1, <2>2, AnswerOfShort
<1>3. CASE ~ (l < Prefix)
  <2>1. \/ \E error : DecodeOne(v, eof) = Refused(error)
        \/ /\ v[2][2].extensions \in 0 .. MaxHeader
           /\ DecodeOne(v, eof) = DecodeRest(v, eof, DecodeNumber(v, Prefix + 1))
    BY <1>1, <1>3, Zenon DEF DecodeOne
  <2>2. QED
    BY <2>1, AnswerOfRefused, RestIs
<1>4. QED
  BY <1>2, <1>3

LEMMA DecodeOneOfNothing ==
  ASSUME NEW eof
  PROVE  DecodeOne(<< >>, eof) = Needed
BY DEF DecodeOne, Prefix, Short

LEMMA RestStable ==
  ASSUME NEW S, NEW v \in Seq(S), NEW w \in Seq(S), Prolongs(w, v), NEW eof,
         v[2][2].extensions \in 0 .. MaxHeader, w[2] = v[2],
         DecodeRest(v, FALSE, DecodeNumber(v, Prefix + 1)).status # "need_more"
  PROVE  DecodeRest(w, eof, DecodeNumber(w, Prefix + 1))
           = DecodeRest(v, FALSE, DecodeNumber(v, Prefix + 1))
<1>1. PICK l \in Nat, k \in Nat : l = Len(v) /\ k = Len(w) /\ l <= k
  BY DEF Prolongs
<1> DEFINE Part(s, a, b) == SubSeq(s, a + 1, b)
<1>0. \A a \in Nat : \A b \in 0 .. Len(v) : Part(w, a, b) = Part(v, a, b)
  BY PartOfProlonged
<1> HIDE DEF Part
<1>2. PICK length : length = DecodeNumber(v, Prefix + 1)
  OBVIOUS
<1>3. PICK d : d = DecodeRest(v, FALSE, length)
  OBVIOUS
<1>4. d.status # "need_more"
  BY <1>2, <1>3
<1>5. length.error # "need_more_data"
  <2>1. SUFFICES ASSUME length.error = "need_more_data" PROVE FALSE
    OBVIOUS
  <2>2. d = Needed
    BY <1>3, <2>1 DEF DecodeRest, LengthOutcome
  <2>3. QED
    BY <1>4, <2>2 DEF Needed
<1>6. DecodeNumber(w, Prefix + 1) = length
  <2>1. Prefix + 1 \in Nat \ {0}
    BY DEF Prefix
  <2>2. QED
    BY <1>2, <1>5, <2>1, NumberStable
<1>7. CASE length.error # "none"
  <2>1. d = Refused(length.error)
    BY <1>3, <1>5, <1>7, Zenon DEF DecodeRest, LengthOutcome
  <2>2. DecodeRest(w, eof, length) = Refused(length.error)
    BY <1>5, <1>7, Zenon DEF DecodeRest, LengthOutcome
  <2>3. QED
    BY <1>2, <1>3, <1>6, <2>1, <2>2
<1>8. CASE length.error = "none"
  <2>1. PICK start \in Nat, header \in Nat, size \in Nat :
           /\ start = Prefix + length.size /\ header = start + v[2][2].extensions
           /\ size = header + length.value
           /\ start <= header /\ header <= size
    BY <1>2, <1>8, PlacesAre
  <2>2. d = Checked(v, FALSE, start, header, size)
    BY <1>3, <1>8, <2>1, DecodeRestIs
  <2>3. DecodeRest(w, eof, length) = Checked(w, eof, start, header, size)
    BY <1>8, <2>1, DecodeRestIs
  <2>4. CASE size + 1 > MaxFrame
    BY <1>2, <1>3, <1>6, <2>2, <2>3, <2>4, Zenon DEF Checked
  <2>5. CASE ~ (size + 1 > MaxFrame)
    <3>1. ~ (l < size + 1)
      <4>1. SUFFICES ASSUME l < size + 1 PROVE FALSE
        OBVIOUS
      <4>2. d = Short(v, FALSE)
        BY <1>1, <2>2, <2>5, <4>1, Zenon DEF Checked
      <4>3. d = Needed
        BY <4>2 DEF Short
      <4>4. QED
        BY <1>4, <4>3 DEF Needed
    <3>2. size + 1 \in 1 .. l /\ size \in 0 .. l /\ header \in 0 .. l /\ ~ (k < size + 1)
      BY <1>1, <2>1, <3>1
    <3>3. /\ SubSeq(w, start + 1, header) = SubSeq(v, start + 1, header)
          /\ SubSeq(w, header + 1, size) = SubSeq(v, header + 1, size)
      <4>1. header \in 0 .. Len(v) /\ size \in 0 .. Len(v)
        BY <1>1, <3>2
      <4>2. Part(w, start, header) = Part(v, start, header) /\ Part(w, header, size) = Part(v, header, size)
        BY <1>0, <2>1, <4>1
      <4>3. QED
        BY <4>2 DEF Part
    <3>4. SubSeq(w, 1, size) = SubSeq(v, 1, size)
      <4>1. SubSeq(w, 0 + 1, size) = SubSeq(v, 0 + 1, size)
        <5>1. 0 \in Nat /\ size \in 0 .. Len(v)
          BY <1>1, <3>2
        <5>2. Part(w, 0, size) = Part(v, 0, size)
          BY <1>0, <5>1
        <5>3. QED
          BY <5>2 DEF Part
      <4>2. QED
        BY <4>1
    <3>5. w[size + 1] = v[size + 1]
      BY <1>1, <3>2 DEF Prolongs
    <3>6. ChecksumMatches(w, size) <=> ChecksumMatches(v, size)
      BY <3>4, <3>5, Zenon DEF ChecksumMatches
    <3>7. PICK parsed : parsed = ParseExtensions(SubSeq(v, start + 1, header))
      OBVIOUS
    <3>8. FrameOf(w, header, size, parsed) = FrameOf(v, header, size, parsed)
      BY <3>3, Zenon DEF FrameOf
    <3>9. d = IF ~ ChecksumMatches(v, size) THEN Refused("crc_mismatch")
              ELSE FrameOf(v, header, size, parsed)
      BY <1>1, <2>2, <2>5, <3>1, <3>7, Zenon DEF Checked
    <3>10. Checked(w, eof, start, header, size)
             = IF ~ ChecksumMatches(w, size) THEN Refused("crc_mismatch")
               ELSE FrameOf(w, header, size, parsed)
      BY <1>1, <2>5, <3>2, <3>3, <3>7, Zenon DEF Checked
    <3>11. Checked(w, eof, start, header, size) = d
      BY <3>6, <3>8, <3>9, <3>10, Zenon
    <3>12. QED
      BY <1>2, <1>3, <1>6, <2>3, <3>11
  <2>6. QED
    BY <2>4, <2>5
<1>9. QED
  BY <1>7, <1>8

(* What is found in bytes, a frame or an error, does not depend on what    *)
(* follows them.                                                           *)
LEMMA DecodeOneStable ==
  ASSUME NEW S, NEW v \in Seq(S), NEW w \in Seq(S), Prolongs(w, v), NEW eof,
         DecodeOne(v, FALSE).status # "need_more"
  PROVE  DecodeOne(w, eof) = DecodeOne(v, FALSE)
<1>1. PICK l \in Nat, k \in Nat : l = Len(v) /\ k = Len(w) /\ l <= k
  BY DEF Prolongs
<1>2. ~ (l < Prefix)
  <2>1. SUFFICES ASSUME l < Prefix PROVE FALSE
    OBVIOUS
  <2>2. DecodeOne(v, FALSE) = Needed
    BY <1>1, <2>1, Zenon DEF DecodeOne, Short
  <2>3. Needed.status = "need_more"
    BY DEF Needed
  <2>4. QED
    BY <2>2, <2>3, Zenon
<1>3. ~ (k < Prefix) /\ 1 \in 1 .. l /\ 2 \in 1 .. l
  BY <1>1, <1>2 DEF Prefix
<1>4. w[1] = v[1] /\ w[2] = v[2]
  BY <1>1, <1>3 DEF Prolongs
<1>5. PICK head : head = v[2][2]
  OBVIOUS
<1> DEFINE Known == /\ v[1] = Magic /\ v[2][1] = "head" /\ head.type \in FrameTypes
                    /\ head.flags = 0 /\ head.extensions \in 0 .. MaxHeader
<1>6. CASE Known
  <2>1. DecodeOne(v, FALSE) = DecodeRest(v, FALSE, DecodeNumber(v, Prefix + 1))
    BY <1>1, <1>2, <1>5, <1>6, Zenon DEF DecodeOne
  <2>2. DecodeOne(w, eof) = DecodeRest(w, eof, DecodeNumber(w, Prefix + 1))
    BY <1>1, <1>3, <1>4, <1>5, <1>6, Zenon DEF DecodeOne
  <2>3. v[2][2].extensions \in 0 .. MaxHeader
    BY <1>5, <1>6
  <2>4. QED
    BY <1>4, <2>1, <2>2, <2>3, RestStable
<1>7. CASE ~ Known
  <2>1. \A view, e : /\ view[1] = v[1] /\ view[2] = v[2] /\ ~ (Len(view) < Prefix)
                     => DecodeOne(view, e) =
                          IF v[1] # Magic THEN Refused("bad_magic")
                          ELSE IF v[2][1] # "head" \/ head.type \notin FrameTypes
                            THEN Refused("unsupported_frame_type")
                          ELSE IF head.flags # 0 THEN Refused("reserved_flags")
                          ELSE Refused("header_too_large")
    BY <1>5, <1>7, Zenon DEF DecodeOne
  <2>2. QED
    BY <1>1, <1>2, <1>3, <1>4, <2>1, Zenon
<1>8. QED
  BY <1>6, <1>7

-----------------------------------------------------------------------------
(* Every frame *)

(* What is found from one position on, given what is found further on. *)
At(all, eof, from, run) == FrameThen(all, from, DecodeOne(Drop(all, from), eof), run)

Runs(run, all, eof) == run = [ from \in 0 .. Len(all) |-> At(all, eof, from, run) ]

LEMMA Induction ==
  ASSUME NEW n \in Nat, NEW G, 0 \in G, \A i \in 1 .. n : i - 1 \in G => i \in G
  PROVE  \A i \in 0 .. n : i \in G
<1> DEFINE R == OpToRel(<, Nat)
           T == { i \in 0 .. n : i \notin G }
<1>1. IsWellFoundedOn(R, Nat)
  BY NatLessThanWellFounded
<1>2. \A x, y \in Nat : << x, y >> \in R <=> x < y
  BY DEF OpToRel
<1> HIDE DEF R
<1>3. SUFFICES ASSUME T # {} PROVE FALSE
  OBVIOUS
<1>4. T \subseteq Nat
  OBVIOUS
<1> HIDE DEF T
<1>5. PICK x \in T : \A y \in T : ~ (<< y, x >> \in R)
  BY <1>1, <1>3, <1>4, WFMin
<1>6. x \in 0 .. n /\ x \notin G
  BY DEF T
<1>7. x \in 1 .. n /\ x - 1 \in 0 .. n
  BY <1>6
<1>8. x - 1 \notin G
  BY <1>6, <1>7
<1>9. x - 1 \in T
  BY <1>7, <1>8 DEF T
<1>10. << x - 1, x >> \in R
  BY <1>2, <1>4, <1>7, <1>9
<1>11. QED
  BY <1>5, <1>9, <1>10

(* Only what is found further on matters. *)
LEMMA AtLooksAhead ==
  ASSUME NEW S, NEW all \in Seq(S), NEW eof, NEW from \in 0 .. Len(all), NEW f, NEW g,
         \A i \in from + 1 .. Len(all) : f[i] = g[i]
  PROVE  At(all, eof, from, f) = At(all, eof, from, g)
<1>1. PICK l \in Nat : l = Len(all)
  BY LenProperties
<1>2. PICK d : d = DecodeOne(Drop(all, from), eof)
  OBVIOUS
<1>3. Answer(d, Drop(all, from)) /\ Len(Drop(all, from)) = l - from
  BY <1>1, <1>2, DropIs, DecodeOneIs
<1>4. At(all, eof, from, f) = FrameThen(all, from, d, f) /\ At(all, eof, from, g) = FrameThen(all, from, d, g)
  BY <1>2 DEF At
<1>5. CASE d.status = "need_more" \/ d.status = "error"
  <2>1. FrameThen(all, from, d, f) = FrameThen(all, from, d, g)
    <3>1. CASE d.status = "need_more"
      BY <3>1, Zenon DEF FrameThen
    <3>2. CASE d.status # "need_more" /\ d.status = "error"
      BY <3>2, Zenon DEF FrameThen
    <3>3. QED
      BY <1>5, <3>1, <3>2
  <2>2. QED
    BY <1>4, <2>1
<1>6. CASE d.status = "frame" /\ from + d.size = Len(all)
  <2>1. d.status # "need_more" /\ d.status # "error"
    BY <1>6
  <2>2. QED
    BY <1>4, <1>6, <2>1, Zenon DEF FrameThen
<1>7. CASE d.status = "frame" /\ from + d.size # Len(all)
  <2>1. d.status # "need_more" /\ d.status # "error"
    BY <1>7
  <2>2. PICK n \in Nat : n = d.size /\ n \in 1 .. l - from
    <3>1. d.size \in 1 .. l - from
      BY <1>3, <1>7 DEF Answer
    <3>2. QED
      BY <3>1
  <2>3. from + n \in from + 1 .. l
    BY <1>1, <2>2
  <2>4. f[from + d.size] = g[from + d.size]
    BY <1>1, <2>2, <2>3
  <2>5. QED
    BY <1>4, <1>7, <2>1, <2>4, Zenon DEF FrameThen
<1>8. QED
  BY <1>3, <1>5, <1>6, <1>7 DEF Answer

LEMMA RunExists ==
  ASSUME NEW S, NEW all \in Seq(S), NEW eof
  PROVE  \E run : Runs(run, all, eof)
<1>1. PICK n \in Nat : n = Len(all)
  BY LenProperties
<1> DEFINE From(k, f) == /\ f = [ i \in 0 .. n |-> f[i] ]
                         /\ \A i \in k .. n : f[i] = At(all, eof, i, f)
           Some(k) == \E f : From(k, f)
           G == { m \in 0 .. n + 1 : Some((n + 1) - m) }
<1>2. 0 \in G
  <2>1. PICK f : f = [ i \in 0 .. n |-> 0 ]
    OBVIOUS
  <2>2. From((n + 1) - 0, f)
    BY <2>1
  <2>3. QED
    BY <2>2
<1>3. ASSUME NEW m \in 1 .. n + 1, m - 1 \in G PROVE m \in G
  <2>1. PICK k \in 0 .. n : k = (n + 1) - m /\ k + 1 = (n + 1) - (m - 1)
    BY <1>1
  <2>2. PICK f : From(k + 1, f)
    BY <1>3, <2>1
  <2>3. PICK last : last = At(all, eof, k, f)
    OBVIOUS
  <2>4. PICK g : g = [ i \in 0 .. n |-> IF i = k THEN last ELSE f[i] ]
    OBVIOUS
  <2>5. /\ g = [ i \in 0 .. n |-> g[i] ] /\ g[k] = last
        /\ \A i \in k + 1 .. n : g[i] = f[i]
    BY <2>4
  <2> HIDE DEF Some, G
  <2>6. \A j \in k .. n : At(all, eof, j, g) = At(all, eof, j, f)
    <3>1. ASSUME NEW j \in k .. n PROVE At(all, eof, j, g) = At(all, eof, j, f)
      <4>1. j \in 0 .. Len(all) /\ \A i \in j + 1 .. Len(all) : g[i] = f[i]
        <5>1. j \in 0 .. n /\ \A i \in j + 1 .. n : i \in k + 1 .. n
          BY <1>1, <2>1
        <5>2. QED
          BY <1>1, <2>5, <5>1
      <4>2. QED
        BY <4>1, AtLooksAhead
    <3>2. QED
      BY <3>1
  <2>7. ASSUME NEW i \in k .. n PROVE g[i] = At(all, eof, i, g)
    <3>1. CASE i = k
      <4>1. At(all, eof, i, g) = At(all, eof, i, f)
        BY <2>6
      <4>2. QED
        BY <2>3, <2>5, <3>1, <4>1
    <3>2. CASE i # k
      <4>1. i \in k + 1 .. n
        BY <3>2
      <4>2. f[i] = At(all, eof, i, f) /\ g[i] = f[i] /\ At(all, eof, i, g) = At(all, eof, i, f)
        BY <2>2, <2>5, <2>6, <4>1
      <4>3. QED
        BY <4>2
    <3>3. QED
      BY <3>1, <3>2
  <2>8. From(k, g)
    BY <2>5, <2>7
  <2>9. Some((n + 1) - m)
    BY <2>1, <2>8 DEF Some
  <2>10. QED
    BY <2>9 DEF G
<1>4. Some(0)
  <2> HIDE DEF Some, G
  <2>1. n + 1 \in Nat
    BY <1>1
  <2>2. \A i \in 0 .. n + 1 : i \in G
    BY <1>2, <1>3, <2>1, Induction
  <2>3. n + 1 \in G
    BY <1>1, <2>2
  <2>4. (n + 1) - (n + 1) = 0
    BY <1>1
  <2>5. QED
    BY <2>3, <2>4 DEF G
<1>5. PICK f : f = [ i \in 0 .. n |-> f[i] ] /\ \A i \in 0 .. n : f[i] = At(all, eof, i, f)
  BY <1>4
<1>6. f = [ from \in 0 .. Len(all) |-> At(all, eof, from, f) ]
  BY <1>1, <1>5, Zenon
<1>7. QED
  BY <1>6 DEF Runs

LEMMA FoundFromRuns ==
  ASSUME NEW S, NEW all \in Seq(S), NEW eof
  PROVE  /\ Runs(FoundFrom(all, eof), all, eof)
         /\ \A from \in 0 .. Len(all) :
              FoundFrom(all, eof)[from] = At(all, eof, from, FoundFrom(all, eof))
<1>1. FoundFrom(all, eof) = CHOOSE run : Runs(run, all, eof)
  BY Zenon DEF FoundFrom, Runs, At, Drop
<1>2. PICK f : f = FoundFrom(all, eof)
  OBVIOUS
<1>3. Runs(f, all, eof)
  BY <1>1, <1>2, RunExists
<1>4. \A from \in 0 .. Len(all) : f[from] = At(all, eof, from, f)
  BY <1>3, Zenon DEF Runs
<1>5. QED
  BY <1>2, <1>3, <1>4

-----------------------------------------------------------------------------
(* f from k + i on is g from i on. *)
Agree(f, g, k, i, n) == \A x \in i + 1 .. n : f[k + x] = g[x]

(* What is found further on is what is found in those bytes alone. *)
LEMMA AtShifts ==
  ASSUME NEW S, NEW all \in Seq(S), NEW k \in 0 .. Len(all), NEW i \in 0 .. Len(all) - k
  PROVE  \A eof, f, g : Agree(f, g, k, i, Len(all) - k)
                          => At(all, eof, k + i, f) = At(Drop(all, k), eof, i, g)
<1> SUFFICES ASSUME NEW eof, NEW f, NEW g, Agree(f, g, k, i, Len(all) - k)
             PROVE  At(all, eof, k + i, f) = At(Drop(all, k), eof, i, g)
  OBVIOUS
<1>1. PICK l \in Nat, n \in Nat : l = Len(all) /\ n = l - k /\ k \in Nat /\ k + n = l
  <2>1. PICK l \in Nat : l = Len(all)
    BY LenProperties
  <2>2. l - k \in Nat /\ k \in Nat /\ k + (l - k) = l
    BY <2>1
  <2>3. QED
    BY <2>1, <2>2
<1>2. PICK rest : rest = Drop(all, k) /\ rest \in Seq(S) /\ Len(rest) = n
  BY <1>1, DropIs
<1>3. PICK b : b = Drop(rest, i) /\ b = Drop(all, k + i) /\ Len(b) = n - i /\ b \in Seq(S)
  <2>1. Drop(Drop(all, k), i) = Drop(all, k + i)
    BY DropDrop
  <2>2. i \in 0 .. Len(rest)
    BY <1>1, <1>2
  <2>3. Drop(rest, i) \in Seq(S) /\ Len(Drop(rest, i)) = Len(rest) - i
    BY <1>2, <2>2, DropIs
  <2>4. QED
    BY <1>2, <2>1, <2>3, Zenon
<1>4. PICK d : d = DecodeOne(b, eof)
  OBVIOUS
<1>5. Answer(d, b)
  BY <1>3, <1>4, DecodeOneIs
<1>6. /\ At(all, eof, k + i, f) = FrameThen(all, k + i, d, f)
      /\ At(rest, eof, i, g) = FrameThen(rest, i, d, g)
      /\ Remainder(all, k + i) = b /\ Remainder(rest, i) = b
  BY <1>3, <1>4, Zenon DEF At, Remainder, Drop
<1>7. CASE d.status = "need_more"
  <2>1. FrameThen(all, k + i, d, f) = FrameThen(rest, i, d, g)
    BY <1>6, <1>7, Zenon DEF FrameThen
  <2>2. QED
    BY <1>2, <1>6, <2>1, Zenon
<1>8. CASE d.status = "error"
  <2>1. d.status # "need_more"
    BY <1>8
  <2>2. FrameThen(all, k + i, d, f) = FrameThen(rest, i, d, g)
    BY <1>8, <2>1, Zenon DEF FrameThen
  <2>3. QED
    BY <1>2, <1>6, <2>2, Zenon
<1>9. CASE d.status = "frame"
  <2>1. d.status # "need_more" /\ d.status # "error"
    BY <1>9
  <2>2. PICK m \in Nat : m = d.size /\ m \in 1 .. n - i
    <3>1. d.size \in 1 .. n - i
      BY <1>3, <1>5, <1>9 DEF Answer
    <3>2. QED
      BY <3>1
  <2>3. CASE m = n - i
    <3>1. (k + i) + m = l /\ i + m = n
      BY <1>1, <2>2, <2>3
    <3>2. (k + i) + d.size = Len(all) /\ i + d.size = Len(rest)
      BY <1>1, <1>2, <2>2, <3>1
    <3>3. FrameThen(all, k + i, d, f) = FrameThen(rest, i, d, g)
      BY <2>1, <3>2, Zenon DEF FrameThen
    <3>4. QED
      BY <1>2, <1>6, <3>3, Zenon
  <2>4. CASE m # n - i
    <3>1. (k + i) + m # l /\ i + m # n /\ i + m \in i + 1 .. n /\ (k + i) + m = k + (i + m)
      <4>1. i \in Nat /\ k \in Nat /\ n \in Nat /\ l = k + n /\ i <= n
        BY <1>1
      <4>2. m \in Nat /\ m >= 1 /\ m <= n - i
        BY <2>2, <4>1
      <4>3. i + m # n /\ i + m \in i + 1 .. n
        BY <2>4, <4>1, <4>2
      <4>4. (k + i) + m = k + (i + m)
        BY <4>1, <4>2
      <4>5. (k + i) + m # l
        BY <4>1, <4>2, <4>3
      <4>6. QED
        BY <4>3, <4>4, <4>5
    <3>2. f[(k + i) + m] = g[i + m]
      BY <1>1, <3>1 DEF Agree
    <3>3. /\ (k + i) + d.size # Len(all) /\ i + d.size # Len(rest)
          /\ f[(k + i) + d.size] = g[i + d.size]
      BY <1>1, <1>2, <2>2, <3>1, <3>2
    <3>4. FrameThen(all, k + i, d, f) = FrameThen(rest, i, d, g)
      BY <2>1, <3>3, Zenon DEF FrameThen
    <3>5. QED
      BY <1>2, <1>6, <3>4, Zenon
  <2>5. QED
    BY <2>3, <2>4
<1>10. QED
  BY <1>5, <1>7, <1>8, <1>9 DEF Answer

(* What is found in all of these bytes. *)
Found(view, eof) == FoundFrom(view, eof)[0]

LEMMA FoundFromShifts ==
  ASSUME NEW S, NEW all \in Seq(S), NEW eof, NEW k \in 0 .. Len(all)
  PROVE  FoundFrom(all, eof)[k] = Found(Drop(all, k), eof)
<1>1. PICK l \in Nat, n \in Nat : l = Len(all) /\ n = l - k /\ k \in Nat /\ k + n = l
  <2>1. PICK l \in Nat : l = Len(all)
    BY LenProperties
  <2>2. l - k \in Nat /\ k \in Nat /\ k + (l - k) = l
    BY <2>1
  <2>3. QED
    BY <2>1, <2>2
<1>2. PICK rest : rest = Drop(all, k) /\ rest \in Seq(S) /\ Len(rest) = n
  BY <1>1, DropIs
<1>3. PICK f : f = FoundFrom(all, eof) /\ \A from \in 0 .. l : f[from] = At(all, eof, from, f)
  BY <1>1, FoundFromRuns
<1>4. PICK g : g = FoundFrom(rest, eof) /\ \A from \in 0 .. n : g[from] = At(rest, eof, from, g)
  BY <1>2, FoundFromRuns
<1> DEFINE Same(x) == f[k + x] = g[x]
           G == { m \in 0 .. n + 1 : \A x \in (n + 1) - m .. n : Same(x) }
<1>5. ASSUME NEW i \in 0 .. n, \A x \in i + 1 .. n : Same(x) PROVE Same(i)
  <2>1. At(all, eof, k + i, f) = At(rest, eof, i, g)
    <3>1. i \in 0 .. Len(all) - k
      BY <1>1
    <3>2. Agree(f, g, k, i, Len(all) - k)
      BY <1>1, <1>5 DEF Agree
    <3>3. At(all, eof, k + i, f) = At(Drop(all, k), eof, i, g)
      <4>1. \A e, p, q : Agree(p, q, k, i, Len(all) - k)
                             => At(all, e, k + i, p) = At(Drop(all, k), e, i, q)
        BY <3>1, AtShifts
      <4>2. QED
        BY <3>2, <4>1
    <3>4. QED
      BY <1>2, <3>3
  <2>2. k + i \in 0 .. l
    BY <1>1
  <2>3. QED
    BY <1>3, <1>4, <2>1, <2>2
<1> HIDE DEF Same
<1>6. 0 \in G
  BY <1>1
<1>7. ASSUME NEW m \in 1 .. n + 1, m - 1 \in G PROVE m \in G
  <2>1. PICK i \in 0 .. n : i = (n + 1) - m /\ i + 1 = (n + 1) - (m - 1)
    <3>1. n \in Nat
      BY <1>1
    <3>2. (n + 1) - m \in 0 .. n /\ ((n + 1) - m) + 1 = (n + 1) - (m - 1)
      BY <3>1
    <3>3. QED
      BY <3>2, Zenon
  <2>2. \A x \in i + 1 .. n : Same(x)
    BY <1>7, <2>1
  <2>3. Same(i)
    BY <1>5, <2>1, <2>2
  <2>4. ASSUME NEW x \in i .. n PROVE Same(x)
    <3>1. x = i \/ x \in i + 1 .. n
      BY <2>1
    <3>2. QED
      BY <2>2, <2>3, <3>1
  <2>5. m \in 0 .. n + 1
    BY <1>1
  <2>6. QED
    BY <2>1, <2>4, <2>5
<1>8. n + 1 \in G
  <2> HIDE DEF G
  <2>1. n + 1 \in Nat /\ n + 1 \in 0 .. n + 1
    BY <1>1
  <2>2. \A i \in 0 .. n + 1 : i \in G
    BY <1>6, <1>7, <2>1, Induction
  <2>3. QED
    BY <2>1, <2>2
<1>9. Same(0)
  <2>1. 0 \in (n + 1) - (n + 1) .. n
    BY <1>1
  <2>2. QED
    BY <1>8, <2>1
<1>10. k + 0 = k
  BY <1>1
<1>11. QED
  BY <1>2, <1>3, <1>4, <1>9, <1>10 DEF Same, Found

(* What is found when d comes first. *)
After(d, view, eof) ==
  /\ Answer(d, view)
  /\ d.status = "need_more" => Found(view, eof) = [ events |-> << >>, buffer |-> view ]
  /\ d.status = "error" => Found(view, eof) = [ events |-> << d >>, buffer |-> << >> ]
  /\ d.status = "frame" =>
       Found(view, eof) = [ events |-> << d >> \o Found(Drop(view, d.size), eof).events,
                            buffer |-> Found(Drop(view, d.size), eof).buffer ]

LEMMA FoundIs ==
  ASSUME NEW S, NEW view \in Seq(S), NEW eof
  PROVE  After(DecodeOne(view, eof), view, eof)
<1>1. PICK l \in Nat : l = Len(view)
  BY LenProperties
<1>0. PICK d : d = DecodeOne(view, eof)
  OBVIOUS
<1>2. Drop(view, 0) = view /\ Drop(view, l) = << >> /\ 0 \in 0 .. l /\ l \in 0 .. l
  BY <1>1, DropAll
<1>3. PICK f : f = FoundFrom(view, eof) /\ f[0] = At(view, eof, 0, f)
  BY <1>1, <1>2, FoundFromRuns
<1>4. Found(view, eof) = FrameThen(view, 0, d, f)
  BY <1>2, <1>3, <1>0, Zenon DEF Found, At
<1>5. Answer(d, view)
  BY <1>0, DecodeOneIs
<1>6. Remainder(view, 0) = view
  BY <1>2 DEF Remainder, Drop
<1>7. ASSUME d.status = "need_more"
      PROVE  Found(view, eof) = [ events |-> << >>, buffer |-> view ]
  BY <1>4, <1>6, <1>7, Zenon DEF FrameThen
<1>8. ASSUME d.status = "error"
      PROVE  Found(view, eof) = [ events |-> << d >>, buffer |-> << >> ]
  <2>1. d.status # "need_more"
    BY <1>8
  <2>2. QED
    BY <1>4, <1>8, <2>1, Zenon DEF FrameThen
<1>9. ASSUME d.status = "frame"
      PROVE  Found(view, eof) = [ events |-> << d >> \o Found(Drop(view, d.size), eof).events,
                                  buffer |-> Found(Drop(view, d.size), eof).buffer ]
  <2>1. d.status # "need_more" /\ d.status # "error"
    BY <1>9
  <2>2. PICK m \in Nat : m = d.size /\ m \in 1 .. l
    <3>1. d.size \in 1 .. l
      BY <1>1, <1>5, <1>9 DEF Answer
    <3>2. QED
      BY <3>1
  <2>3. 0 + m = m /\ m \in 0 .. l
    BY <1>1, <2>2
  <2>4. PICK rest : rest = Drop(view, m)
    OBVIOUS
  <2>5. CASE m = l
    <3>1. Found(view, eof) = [ events |-> << d >>, buffer |-> << >> ]
      <4>1. 0 + d.size = Len(view)
        BY <1>1, <2>2, <2>3, <2>5
      <4>2. QED
        BY <1>4, <2>1, <4>1, Zenon DEF FrameThen
    <3>2. rest = << >>
      BY <1>2, <2>4, <2>5
    <3>3. Found(rest, eof) = [ events |-> << >>, buffer |-> << >> ]
      <4>1. << >> \in Seq(S)
        BY EmptySeq
      <4>2. PICK z \in Seq(S) : z = << >> /\ Len(z) = 0 /\ Drop(z, 0) = z /\ 0 \in 0 .. Len(z)
        BY <4>1, EmptySeq, DropAll
      <4>3. PICK h : h = FoundFrom(z, eof) /\ h[0] = At(z, eof, 0, h)
        <5>1. \A from \in 0 .. Len(z) : FoundFrom(z, eof)[from] = At(z, eof, from, FoundFrom(z, eof))
          BY <4>2, FoundFromRuns
        <5>2. QED
          BY <4>2, <5>1, Zenon
      <4>4. Found(z, eof) = FrameThen(z, 0, Needed, h)
        BY <4>2, <4>3, DecodeOneOfNothing, Zenon DEF Found, At
      <4>5. Remainder(z, 0) = z /\ Needed.status = "need_more"
        BY <4>2 DEF Remainder, Drop, Needed
      <4>6. Found(z, eof) = [ events |-> << >>, buffer |-> z ]
        BY <4>4, <4>5, Zenon DEF FrameThen
      <4>7. QED
        BY <3>2, <4>2, <4>6
    <3>4. << d >> \o << >> = << d >>
      <4>1. << d >> \in Seq({ d })
        OBVIOUS
      <4>2. QED
        BY <4>1, ConcatEmptySeq
    <3>5. Found(rest, eof).events = << >> /\ Found(rest, eof).buffer = << >>
      BY <3>3
    <3>6. QED
      BY <1>1, <2>2, <2>4, <3>1, <3>4, <3>5, Zenon
  <2>6. CASE m # l
    <3>1. f[m] = Found(rest, eof)
      BY <1>1, <1>3, <2>3, <2>4, FoundFromShifts
    <3>2. 0 + d.size # Len(view) /\ f[0 + d.size] = Found(rest, eof)
      BY <1>1, <2>2, <2>3, <2>6, <3>1
    <3>3. Found(view, eof) = [ events |-> << d >> \o Found(rest, eof).events,
                               buffer |-> Found(rest, eof).buffer ]
      BY <1>4, <2>1, <3>2, Zenon DEF FrameThen
    <3>4. QED
      BY <1>1, <2>2, <2>4, <3>3, Zenon
  <2>7. QED
    BY <2>5, <2>6
<1>10. QED
  BY <1>5, <1>7, <1>8, <1>9, <1>0 DEF After

-----------------------------------------------------------------------------
(* The events of a call *)

Event == { DecodeOne(view, eof) : view \in Seq(Cells), eof \in BOOLEAN }

LEMMA EventIs ==
  ASSUME NEW view \in Seq(Cells), NEW eof \in BOOLEAN
  PROVE  DecodeOne(view, eof) \in Event
BY DEF Event

Events(found) ==
  /\ found \in Seq(Event)
  /\ \A i \in 1 .. Len(found) : found[i].status \in { "frame", "error" }

(* An error is the last event of a call. *)
OneCall(found) ==
  /\ Events(found)
  /\ \A i \in 1 .. Len(found) : found[i].status = "error" => i = Len(found)

Whole(r) ==
  /\ r = [ events |-> r.events, buffer |-> r.buffer ]
  /\ OneCall(r.events)
  /\ r.buffer \in Seq(Cells) /\ Len(r.buffer) < MaxFrame

LEMMA FailedIs ==
  ASSUME NEW found \in Seq(Event)
  PROVE  Failed(found) <=> \E i \in 1 .. Len(found) : found[i].status = "error"
<1>1. DOMAIN found = 1 .. Len(found)
  OBVIOUS
<1>2. QED
  BY <1>1, Zenon DEF Failed

LEMMA OneEvent ==
  ASSUME NEW d \in Event
  PROVE  /\ << d >> \in Seq(Event) /\ Len(<< d >>) = 1 /\ << d >>[1] = d
OBVIOUS

(* A frame before what is found further on. *)
LEMMA FirstEvent ==
  ASSUME NEW d \in Event, NEW t \in Seq(Event)
  PROVE  /\ << d >> \o t \in Seq(Event) /\ Len(<< d >> \o t) = Len(t) + 1
         /\ (<< d >> \o t)[1] = d
         /\ \A i \in 1 .. Len(t) : (<< d >> \o t)[i + 1] = t[i]
         /\ \A i \in 1 .. Len(t) + 1 : i = 1 \/ (i - 1 \in 1 .. Len(t) /\ (<< d >> \o t)[i] = t[i - 1])
<1>1. PICK l \in Nat : l = Len(t)
  BY LenProperties
<1>2. PICK o \in Seq(Event) : o = << d >> /\ Len(o) = 1 /\ o[1] = d
  BY OneEvent
<1>3. PICK s : s = o \o t
  OBVIOUS
<1>4. /\ s \in Seq(Event) /\ Len(s) = 1 + l
      /\ \A i \in 1 .. 1 + l : s[i] = IF i <= 1 THEN o[i] ELSE t[i - 1]
  <2>1. /\ o \o t \in Seq(Event) /\ Len(o \o t) = Len(o) + Len(t)
        /\ \A i \in 1 .. Len(o) + Len(t) : (o \o t)[i] = IF i <= Len(o) THEN o[i] ELSE t[i - Len(o)]
    BY ConcatProperties
  <2>2. QED
    BY <1>1, <1>2, <1>3, <2>1, Zenon
<1>5. s[1] = d
  <2>1. 1 \in 1 .. 1 + l
    BY <1>1
  <2>2. QED
    BY <1>2, <1>4, <2>1
<1>6. ASSUME NEW i \in 1 .. l PROVE s[i + 1] = t[i]
  <2>1. i + 1 \in 1 .. 1 + l /\ ~ (i + 1 <= 1) /\ (i + 1) - 1 = i
    BY <1>1
  <2>2. QED
    BY <1>4, <2>1
<1>7. ASSUME NEW i \in 1 .. l + 1, i # 1 PROVE i - 1 \in 1 .. l /\ s[i] = t[i - 1]
  <2>1. i \in 1 .. 1 + l /\ ~ (i <= 1) /\ i - 1 \in 1 .. l
    BY <1>1, <1>7
  <2>2. QED
    BY <1>4, <2>1
<1>8. 1 + l = l + 1
  BY <1>1
<1>9. << d >> \o t = s
  BY <1>2, <1>3
<1>10. QED
  BY <1>1, <1>4, <1>5, <1>6, <1>7, <1>8, <1>9

LEMMA FirstOfCall ==
  ASSUME NEW d \in Event, d.status = "frame", NEW t, OneCall(t)
  PROVE  OneCall(<< d >> \o t) /\ (Failed(<< d >> \o t) <=> Failed(t))
<1>1. t \in Seq(Event)
  BY DEF OneCall, Events
<1>2. PICK l \in Nat : l = Len(t)
  BY <1>1, LenProperties
<1>3. PICK s : s = << d >> \o t
  OBVIOUS
<1>4. /\ s \in Seq(Event) /\ Len(s) = l + 1 /\ s[1] = d
      /\ \A i \in 1 .. l : s[i + 1] = t[i]
      /\ \A i \in 1 .. l + 1 : i = 1 \/ (i - 1 \in 1 .. l /\ s[i] = t[i - 1])
  BY <1>1, <1>2, <1>3, FirstEvent
<1>5. ASSUME NEW i \in 1 .. l + 1
      PROVE  /\ s[i].status \in { "frame", "error" }
             /\ s[i].status = "error" => i = l + 1
  <2>1. CASE i = 1
    <3>1. s[i] = d
      BY <1>4, <2>1
    <3>2. QED
      BY <3>1
  <2>2. CASE i # 1
    <3>1. i - 1 \in 1 .. l /\ s[i] = t[i - 1]
      BY <1>4, <2>2
    <3>2. t[i - 1].status \in { "frame", "error" } /\ (t[i - 1].status = "error" => i - 1 = l)
      BY <1>2, <3>1 DEF OneCall, Events
    <3>3. i - 1 = l => i = l + 1
      BY <1>2
    <3>4. QED
      BY <3>1, <3>2, <3>3
  <2>3. QED
    BY <2>1, <2>2
<1>6. OneCall(s)
  BY <1>4, <1>5 DEF OneCall, Events
<1>7. (\E i \in 1 .. l + 1 : s[i].status = "error") <=> (\E i \in 1 .. l : t[i].status = "error")
  <2>1. ASSUME NEW i \in 1 .. l + 1, s[i].status = "error" PROVE \E j \in 1 .. l : t[j].status = "error"
    <3>1. s[1].status # "error"
      BY <1>4
    <3>2. i - 1 \in 1 .. l /\ s[i] = t[i - 1]
      BY <1>4, <2>1, <3>1
    <3>3. QED
      BY <2>1, <3>2
  <2>2. ASSUME NEW i \in 1 .. l, t[i].status = "error" PROVE \E j \in 1 .. l + 1 : s[j].status = "error"
    <3>1. i + 1 \in 1 .. l + 1 /\ s[i + 1] = t[i]
      BY <1>2, <1>4
    <3>2. QED
      BY <2>2, <3>1
  <2>3. QED
    BY <2>1, <2>2
<1>8. Failed(s) <=> Failed(t)
  BY <1>1, <1>2, <1>4, <1>7, FailedIs
<1>9. QED
  BY <1>3, <1>6, <1>8

LEMMA NoEvent == << >> \in Seq(Event) /\ OneCall(<< >>) /\ ~ Failed(<< >>)
<1>1. << >> \in Seq(Event) /\ Len(<< >>) = 0
  OBVIOUS
<1>2. QED
  BY <1>1 DEF OneCall, Events, Failed

LEMMA OneError ==
  ASSUME NEW d \in Event, d.status = "error"
  PROVE  OneCall(<< d >>) /\ Failed(<< d >>)
<1>1. PICK o \in Seq(Event) : o = << d >> /\ Len(o) = 1 /\ o[1] = d
  BY OneEvent
<1>2. \A i \in 1 .. 1 : i = 1
  OBVIOUS
<1>3. OneCall(o)
  BY <1>1, <1>2 DEF OneCall, Events
<1>4. Failed(o)
  <2>1. 1 \in 1 .. Len(o) /\ o[1].status = "error"
    BY <1>1
  <2>2. QED
    BY <1>1, <2>1, FailedIs
<1>5. QED
  BY <1>1, <1>3, <1>4

(* What a call finds in its bytes. *)
LEMMA FoundIsWhole ==
  ASSUME NEW view \in Seq(Cells), NEW eof \in BOOLEAN
  PROVE  Whole(Found(view, eof))
<1>1. PICK n \in Nat : n = Len(view)
  BY LenProperties
<1> DEFINE Good(v) == Whole(Found(v, eof))
           Upto(m) == \A v \in Seq(Cells) : Len(v) <= m => Good(v)
           G == { m \in 0 .. n : Upto(m) }
<1>2. ASSUME NEW v \in Seq(Cells), NEW m \in Nat, Len(v) <= m, m # 0 => Upto(m - 1)
      PROVE  Good(v)
  <2>1. PICK d : d = DecodeOne(v, eof)
    OBVIOUS
  <2>2. d \in Event
    BY <2>1 DEF Event
  <2>3. PICK l \in Nat : l = Len(v)
    BY LenProperties
  <2>4. Answer(d, v)
    BY <2>1, DecodeOneIs
  <2>first. After(d, v, eof)
    BY <2>1, FoundIs
  <2>5. CASE d.status = "need_more"
    <3>1. Found(v, eof) = [ events |-> << >>, buffer |-> v ]
      BY <2>5, <2>first DEF After
    <3>2. Len(v) < MaxFrame
      BY <2>4, <2>5 DEF Answer
    <3>3. QED
      BY <3>1, <3>2, NoEvent DEF Whole
  <2>6. CASE d.status = "error"
    <3>1. Found(v, eof) = [ events |-> << d >>, buffer |-> << >> ]
      BY <2>6, <2>first DEF After
    <3>2. << >> \in Seq(Cells) /\ Len(<< >>) < MaxFrame
      BY FrameCodecAssumption, ReceiverAssumption DEF Prefix
    <3>3. OneCall(<< d >>)
      BY <2>2, <2>6, OneError
    <3>4. QED
      BY <3>1, <3>2, <3>3 DEF Whole
  <2>7. CASE d.status = "frame"
    <3>1. PICK k \in Nat : k = d.size /\ k \in 1 .. l
      <4>1. d.size \in 1 .. l
        BY <2>3, <2>4, <2>7 DEF Answer
      <4>2. QED
        BY <4>1
    <3>2. PICK rest \in Seq(Cells) : rest = Drop(v, k) /\ Len(rest) = l - k
      <4>1. k \in 0 .. Len(v)
        BY <2>3, <3>1
      <4>2. Drop(v, k) \in Seq(Cells) /\ Len(Drop(v, k)) = Len(v) - k
        BY <4>1, DropIs
      <4>3. QED
        BY <2>3, <4>2, Zenon
    <3>3. m # 0 /\ Len(rest) <= m - 1
      BY <1>2, <2>3, <3>1, <3>2
    <3>4. PICK r : r = Found(rest, eof) /\ Whole(r)
      BY <1>2, <3>2, <3>3
    <3>5. Found(v, eof) = [ events |-> << d >> \o r.events, buffer |-> r.buffer ]
      <4>1. Found(v, eof) = [ events |-> << d >> \o Found(Drop(v, d.size), eof).events,
                              buffer |-> Found(Drop(v, d.size), eof).buffer ]
        BY <2>7, <2>first DEF After
      <4>2. QED
        BY <3>1, <3>2, <3>4, <4>1, Zenon
    <3>6. OneCall(<< d >> \o r.events)
      BY <2>2, <2>7, <3>4, FirstOfCall DEF Whole
    <3>7. QED
      BY <3>4, <3>5, <3>6 DEF Whole
  <2>8. QED
    BY <2>4, <2>5, <2>6, <2>7 DEF Answer
<1> HIDE DEF Good
<1>3. 0 \in G
  <2>1. ASSUME NEW v \in Seq(Cells), Len(v) <= 0 PROVE Good(v)
    BY <1>2, <2>1
  <2>2. Upto(0)
    BY <2>1
  <2>3. QED
    BY <1>1, <2>2
<1>4. ASSUME NEW m \in 1 .. n, m - 1 \in G PROVE m \in G
  <2>1. Upto(m - 1) /\ m \in Nat
    BY <1>4
  <2>2. ASSUME NEW v \in Seq(Cells), Len(v) <= m PROVE Good(v)
    BY <1>2, <2>1, <2>2
  <2>3. Upto(m)
    BY <2>2
  <2>4. m \in 0 .. n
    BY <1>1
  <2>5. QED
    BY <2>3, <2>4
<1>5. n \in G
  <2> HIDE DEF G
  <2>1. \A i \in 0 .. n : i \in G
    BY <1>3, <1>4, Induction
  <2>2. QED
    BY <1>1, <2>1
<1>6. Good(view)
  BY <1>1, <1>5
<1>7. QED
  BY <1>6 DEF Good

-----------------------------------------------------------------------------
(* Two calls are one *)

(* A call that has found r, and the next one with the bytes of b, find     *)
(* what one call finds in all of them, whole.                              *)
Joined(whole, r, b, eof) ==
  IF Failed(r.events) THEN whole.events = r.events
  ELSE /\ whole.events = r.events \o Found(r.buffer \o b, eof).events
       /\ whole.buffer = Found(r.buffer \o b, eof).buffer

LEMMA FrameBefore ==
  ASSUME NEW d \in Event, d.status = "frame", NEW r, Whole(r), NEW whole, NEW b \in Seq(Cells),
         NEW eof \in BOOLEAN, Joined(whole, r, b, eof)
  PROVE  Joined([ events |-> << d >> \o whole.events, buffer |-> whole.buffer ],
                [ events |-> << d >> \o r.events, buffer |-> r.buffer ], b, eof)
<1>1. OneCall(r.events) /\ r.events \in Seq(Event) /\ r.buffer \in Seq(Cells)
  BY DEF Whole, OneCall, Events
<1>2. Failed(<< d >> \o r.events) <=> Failed(r.events)
  BY <1>1, FirstOfCall
<1>3. PICK x : x = Found(r.buffer \o b, eof) /\ x.events \in Seq(Event)
  <2>1. r.buffer \o b \in Seq(Cells)
    BY <1>1, ConcatProperties
  <2>2. Whole(Found(r.buffer \o b, eof))
    BY <2>1, FoundIsWhole
  <2>3. QED
    BY <2>2 DEF Whole, OneCall, Events
<1>4. (<< d >> \o r.events) \o x.events = << d >> \o (r.events \o x.events)
  <2>1. PICK o \in Seq(Event), p \in Seq(Event), q \in Seq(Event) : o = << d >> /\ p = r.events /\ q = x.events
    BY <1>1, <1>3, OneEvent, Zenon
  <2>2. (o \o p) \o q = o \o (p \o q)
    BY ConcatAssociative
  <2>3. QED
    BY <2>1, <2>2, Zenon
<1>5. CASE Failed(r.events)
  <2>1. whole.events = r.events
    BY <1>5 DEF Joined
  <2>2. QED
    BY <1>2, <1>5, <2>1 DEF Joined
<1>6. CASE ~ Failed(r.events)
  <2>1. whole.events = r.events \o x.events /\ whole.buffer = x.buffer
    BY <1>3, <1>6 DEF Joined
  <2>2. PICK left : left = << d >> \o r.events
    OBVIOUS
  <2>3. ~ Failed(left) /\ << d >> \o whole.events = left \o x.events
    BY <1>2, <1>4, <1>6, <2>1, <2>2
  <2>4. QED
    BY <1>3, <2>1, <2>2, <2>3 DEF Joined
<1>7. QED
  BY <1>5, <1>6

LEMMA FoundInTwo ==
  ASSUME NEW a \in Seq(Cells), NEW b \in Seq(Cells), NEW eof \in BOOLEAN
  PROVE  Joined(Found(a \o b, eof), Found(a, FALSE), b, eof)
<1>1. PICK n \in Nat : n = Len(a)
  BY LenProperties
<1> DEFINE Good(v) == Joined(Found(v \o b, eof), Found(v, FALSE), b, eof)
           Upto(m) == \A v \in Seq(Cells) : Len(v) <= m => Good(v)
           G == { m \in 0 .. n : Upto(m) }
<1>2. ASSUME NEW v \in Seq(Cells), NEW m \in Nat, Len(v) <= m, m # 0 => Upto(m - 1)
      PROVE  Good(v)
  <2>1. PICK d : d = DecodeOne(v, FALSE)
    OBVIOUS
  <2>2. d \in Event
    <3>1. FALSE \in BOOLEAN
      OBVIOUS
    <3>2. QED
      BY <2>1, <3>1, EventIs
  <2>3. PICK l \in Nat : l = Len(v)
    BY LenProperties
  <2>4. After(d, v, FALSE) /\ Answer(d, v)
    <3>1. After(DecodeOne(v, FALSE), v, FALSE)
      BY FoundIs
    <3>2. After(d, v, FALSE)
      BY <2>1, <3>1
    <3>3. QED
      BY <3>2 DEF After
  <2>5. PICK w \in Seq(Cells) : w = v \o b
    BY ConcatProperties
  <2>6. d.status # "need_more" => After(d, w, eof)
    <3>1. SUFFICES ASSUME d.status # "need_more" PROVE After(d, w, eof)
      OBVIOUS
    <3>2. 0 \in 0 .. Len(v)
      BY <2>3
    <3>3. Prolongs(w, v)
      BY <2>5, <3>2, DropConcat
    <3>4. DecodeOne(w, eof) = d
      BY <2>1, <3>1, <3>3, DecodeOneStable
    <3>5. QED
      BY <3>4, FoundIs
  <2>7. CASE d.status = "need_more"
    <3>1. Found(v, FALSE) = [ events |-> << >>, buffer |-> v ]
      BY <2>4, <2>7 DEF After
    <3>2. PICK x : x = Found(w, eof) /\ x.events \in Seq(Event)
      <4>1. Whole(Found(w, eof))
        BY FoundIsWhole
      <4>2. QED
        BY <4>1 DEF Whole, OneCall, Events
    <3>3. << >> \o x.events = x.events
      BY <3>2, ConcatEmptySeq
    <3>4. PICK r : r = Found(v, FALSE) /\ r.events = << >> /\ r.buffer = v
      <4>1. [ events |-> << >>, buffer |-> v ].events = << >> /\ [ events |-> << >>, buffer |-> v ].buffer = v
        OBVIOUS
      <4>2. QED
        BY <3>1, <4>1, Zenon
    <3>5. Joined(x, r, b, eof)
      <4>1. ~ Failed(r.events)
        BY <3>4, NoEvent, Zenon
      <4>2. Found(r.buffer \o b, eof) = x
        BY <2>5, <3>2, <3>4
      <4>3. r.events \o x.events = x.events
        BY <3>3, <3>4
      <4>4. QED
        BY <4>1, <4>2, <4>3, Zenon DEF Joined
    <3>6. QED
      BY <2>5, <3>2, <3>4, <3>5
  <2>8. CASE d.status = "error"
    <3>1. /\ Found(v, FALSE) = [ events |-> << d >>, buffer |-> << >> ]
          /\ Found(w, eof) = [ events |-> << d >>, buffer |-> << >> ]
      BY <2>4, <2>6, <2>8 DEF After
    <3>2. Failed(<< d >>)
      BY <2>2, <2>8, OneError
    <3>3. PICK r, x : r = Found(v, FALSE) /\ x = Found(w, eof) /\ r.events = << d >> /\ x.events = << d >>
      <4>1. [ events |-> << d >>, buffer |-> << >> ].events = << d >>
        OBVIOUS
      <4>2. QED
        BY <3>1, <4>1, Zenon
    <3>4. Joined(x, r, b, eof)
      BY <3>2, <3>3, Zenon DEF Joined
    <3>5. QED
      BY <2>5, <3>3, <3>4
  <2>9. CASE d.status = "frame"
    <3>1. PICK k \in Nat : k = d.size /\ k \in 1 .. l
      <4>1. d.size \in 1 .. l
        BY <2>3, <2>4, <2>9 DEF Answer
      <4>2. QED
        BY <4>1
    <3>2. k \in 0 .. Len(v)
      BY <2>3, <3>1
    <3>3. PICK rest \in Seq(Cells) : rest = Drop(v, k) /\ Len(rest) = l - k
      <4>1. Drop(v, k) \in Seq(Cells) /\ Len(Drop(v, k)) = Len(v) - k
        BY <3>2, DropIs
      <4>2. QED
        BY <2>3, <4>1, Zenon
    <3>4. Drop(w, k) = rest \o b
      <4>1. Drop(w, k) = Drop(v, k) \o b
        BY <2>5, <3>2, DropOfConcat
      <4>2. QED
        BY <3>3, <4>1
    <3>5. m # 0 /\ Len(rest) <= m - 1
      BY <1>2, <2>3, <3>1, <3>3
    <3>6. PICK r, whole : /\ r = Found(rest, FALSE) /\ whole = Found(rest \o b, eof)
                          /\ Joined(whole, r, b, eof) /\ Whole(r)
      <4>1. Good(rest)
        BY <1>2, <3>3, <3>5
      <4>2. Whole(Found(rest, FALSE))
        BY <3>3, FoundIsWhole
      <4>3. QED
        BY <4>1, <4>2
    <3>7. Found(v, FALSE) = [ events |-> << d >> \o r.events, buffer |-> r.buffer ]
      <4>1. Found(v, FALSE) = [ events |-> << d >> \o Found(Drop(v, d.size), FALSE).events,
                                buffer |-> Found(Drop(v, d.size), FALSE).buffer ]
        BY <2>4, <2>9 DEF After
      <4>2. QED
        BY <3>1, <3>3, <3>6, <4>1, Zenon
    <3>8. Found(w, eof) = [ events |-> << d >> \o whole.events, buffer |-> whole.buffer ]
      <4>1. Found(w, eof) = [ events |-> << d >> \o Found(Drop(w, d.size), eof).events,
                              buffer |-> Found(Drop(w, d.size), eof).buffer ]
        BY <2>6, <2>9 DEF After
      <4>2. QED
        BY <3>1, <3>4, <3>6, <4>1, Zenon
    <3>9. Joined([ events |-> << d >> \o whole.events, buffer |-> whole.buffer ],
                 [ events |-> << d >> \o r.events, buffer |-> r.buffer ], b, eof)
      BY <2>2, <2>9, <3>6, FrameBefore
    <3>10. QED
      BY <2>5, <3>7, <3>8, <3>9
  <2>10. QED
    BY <2>4, <2>7, <2>8, <2>9 DEF Answer
<1> HIDE DEF Good
<1>3. 0 \in G
  <2>1. ASSUME NEW v \in Seq(Cells), Len(v) <= 0 PROVE Good(v)
    BY <1>2, <2>1
  <2>2. Upto(0)
    BY <2>1
  <2>3. QED
    BY <1>1, <2>2
<1>4. ASSUME NEW m \in 1 .. n, m - 1 \in G PROVE m \in G
  <2>1. Upto(m - 1) /\ m \in Nat
    BY <1>4
  <2>2. ASSUME NEW v \in Seq(Cells), Len(v) <= m PROVE Good(v)
    BY <1>2, <2>1, <2>2
  <2>3. Upto(m)
    BY <2>2
  <2>4. m \in 0 .. n
    BY <1>1
  <2>5. QED
    BY <2>3, <2>4
<1>5. n \in G
  <2> HIDE DEF G
  <2>1. \A i \in 0 .. n : i \in G
    BY <1>3, <1>4, Induction
  <2>2. QED
    BY <1>1, <2>1
<1>6. Good(a)
  BY <1>1, <1>5
<1>7. QED
  BY <1>6 DEF Good

-----------------------------------------------------------------------------
(* Up to the first error *)

LEMMA UpToFirst ==
  ASSUME NEW found \in Seq(Event), NEW m \in 1 .. Len(found), found[m].status = "error",
         \A i \in 1 .. Len(found) : found[i].status = "error" => m <= i
  PROVE  UpToError(found) = SubSeq(found, 1, m)
<1>1. DOMAIN found = 1 .. Len(found)
  OBVIOUS
<1>2. PICK T : T = { i \in DOMAIN found : found[i].status = "error" }
  OBVIOUS
<1>3. T \subseteq Int /\ m \in T /\ \A x \in T : m <= x
  BY <1>1, <1>2
<1>4. Min(T) = m /\ T # {}
  BY <1>3, MinIs
<1>5. UpToError(found) = IF T = {} THEN found ELSE SubSeq(found, 1, Min(T))
  BY <1>2, Zenon DEF UpToError
<1>6. QED
  BY <1>4, <1>5

LEMMA UpToNone ==
  ASSUME NEW found, ~ Failed(found)
  PROVE  UpToError(found) = found
BY DEF Failed, UpToError

LEMMA UpToOneCall ==
  ASSUME NEW found, OneCall(found)
  PROVE  UpToError(found) = found
<1>1. found \in Seq(Event)
  BY DEF OneCall, Events
<1>2. CASE ~ Failed(found)
  BY <1>2, UpToNone
<1>3. CASE Failed(found)
  <2>1. PICK m \in 1 .. Len(found) : found[m].status = "error"
    BY <1>1, <1>3, FailedIs
  <2>2. \A i \in 1 .. Len(found) : found[i].status = "error" => i = Len(found)
    BY DEF OneCall
  <2>3. m = Len(found)
    BY <2>1, <2>2
  <2>4. \A i \in 1 .. Len(found) : found[i].status = "error" => m <= i
    BY <2>2, <2>3
  <2>5. UpToError(found) = SubSeq(found, 1, m)
    BY <1>1, <2>1, <2>4, UpToFirst
  <2>6. QED
    BY <1>1, <2>3, <2>5, SubSeqFull
<1>4. QED
  BY <1>2, <1>3

(* What comes after an error changes nothing up to it. *)
LEMMA UpToMore ==
  ASSUME NEW f \in Seq(Event), NEW g \in Seq(Event), Failed(f)
  PROVE  UpToError(f \o g) = UpToError(f) /\ Failed(f \o g)
<1>1. PICK l \in Nat, k \in Nat : l = Len(f) /\ k = Len(g)
  BY LenProperties
<1>2. PICK s \in Seq(Event) : s = f \o g /\ Len(s) = l + k /\ \A i \in 1 .. l : s[i] = f[i]
  <2>1. /\ f \o g \in Seq(Event) /\ Len(f \o g) = Len(f) + Len(g)
        /\ \A i \in 1 .. Len(f) + Len(g) : (f \o g)[i] = IF i <= Len(f) THEN f[i] ELSE g[i - Len(f)]
    BY ConcatProperties
  <2>2. PICK s : s = f \o g
    OBVIOUS
  <2>3. /\ s \in Seq(Event) /\ Len(s) = l + k
        /\ \A i \in 1 .. l + k : s[i] = IF i <= l THEN f[i] ELSE g[i - l]
    BY <1>1, <2>1, <2>2, Zenon
  <2>4. \A i \in 1 .. l : i \in 1 .. l + k /\ i <= l
    BY <1>1
  <2>5. \A i \in 1 .. l : s[i] = f[i]
    BY <2>3, <2>4
  <2>6. QED
    BY <2>2, <2>3, <2>5, Zenon
<1>3. PICK T : T = { i \in 1 .. l : f[i].status = "error" }
  OBVIOUS
<1>4. T \subseteq Nat /\ T # {}
  BY <1>1, <1>3, FailedIs
<1>5. PICK m \in T : \A x \in T : m <= x
  BY <1>4, LeastIs
<1>6. m \in 1 .. l /\ f[m].status = "error" /\ \A i \in 1 .. l : f[i].status = "error" => m <= i
  BY <1>3, <1>5
<1>7. UpToError(f) = SubSeq(f, 1, m)
  BY <1>1, <1>6, UpToFirst
<1>8. m \in 1 .. l + k /\ s[m].status = "error"
  BY <1>1, <1>2, <1>6
<1>9. ASSUME NEW i \in 1 .. l + k, s[i].status = "error" PROVE m <= i
  <2>1. CASE i <= l
    <3>1. i \in 1 .. l
      BY <1>1, <2>1
    <3>2. QED
      BY <1>2, <1>6, <1>9, <3>1
  <2>2. CASE ~ (i <= l)
    BY <1>1, <1>6, <2>2
  <2>3. QED
    BY <2>1, <2>2
<1>10. UpToError(s) = SubSeq(s, 1, m)
  <2>1. m \in 1 .. Len(s) /\ \A i \in 1 .. Len(s) : s[i].status = "error" => m <= i
    BY <1>2, <1>8, <1>9
  <2>2. QED
    BY <1>2, <1>8, <2>1, UpToFirst
<1>11. SubSeq(s, 1, m) = SubSeq(f, 1, m)
  <2>1. Prolongs(s, f)
    BY <1>1, <1>2 DEF Prolongs
  <2>2. 0 \in Nat /\ m \in 0 .. Len(f)
    BY <1>1, <1>6
  <2>3. SubSeq(s, 0 + 1, m) = SubSeq(f, 0 + 1, m)
    BY <1>2, <2>1, <2>2, PartOfProlonged
  <2>4. 0 + 1 = 1
    OBVIOUS
  <2>5. QED
    BY <2>3, <2>4, Zenon
<1>12. Failed(s)
  BY <1>2, <1>8, FailedIs
<1>13. QED
  BY <1>2, <1>7, <1>10, <1>11, <1>12

LEMMA UpToFails ==
  ASSUME NEW f \in Seq(Event), Failed(f)
  PROVE  Failed(UpToError(f))
<1>1. PICK l \in Nat : l = Len(f)
  BY LenProperties
<1>2. PICK T : T = { i \in 1 .. l : f[i].status = "error" }
  OBVIOUS
<1>3. T \subseteq Nat /\ T # {}
  BY <1>1, <1>2, FailedIs
<1>4. PICK m \in T : \A x \in T : m <= x
  BY <1>3, LeastIs
<1>5. m \in 1 .. l /\ f[m].status = "error" /\ \A i \in 1 .. l : f[i].status = "error" => m <= i
  BY <1>2, <1>4
<1>6. UpToError(f) = SubSeq(f, 1, m)
  BY <1>1, <1>5, UpToFirst
<1>7. /\ SubSeq(f, 1, m) \in Seq(Event) /\ Len(SubSeq(f, 1, m)) = m
      /\ \A i \in 1 .. m : SubSeq(f, 1, m)[i] = f[i]
  <2>1. \A i \in 1 .. m : f[i] \in Event
    <3>1. \A i \in 1 .. m : i \in 1 .. l
      BY <1>1, <1>5
    <3>2. QED
      BY <1>1, <3>1, ElementOfSeq
  <2>2. 1 \in Int /\ m \in Int
    BY <1>5
  <2>3. /\ SubSeq(f, 1, m) \in Seq(Event)
        /\ Len(SubSeq(f, 1, m)) = IF 1 <= m THEN m - 1 + 1 ELSE 0
        /\ \A i \in 1 .. m - 1 + 1 : SubSeq(f, 1, m)[i] = f[1 + i - 1]
    BY <2>1, <2>2, SubSeqProperties
  <2>4. PICK s : s = SubSeq(f, 1, m)
    OBVIOUS
  <2>5. s \in Seq(Event) /\ Len(s) = m
    BY <1>5, <2>3, <2>4
  <2>6. ASSUME NEW i \in 1 .. m PROVE s[i] = f[i]
    <3>1. i \in 1 .. m - 1 + 1 /\ 1 + i - 1 = i
      BY <1>5
    <3>2. QED
      BY <2>3, <2>4, <3>1
  <2>7. QED
    BY <2>4, <2>5, <2>6
<1>8. PICK s \in Seq(Event) : s = SubSeq(f, 1, m) /\ Len(s) = m /\ s[m] = f[m]
  <2>1. m \in 1 .. m
    BY <1>5
  <2>2. QED
    BY <1>7, <2>1, Zenon
<1>9. Failed(s)
  <2>1. m \in 1 .. Len(s)
    BY <1>5, <1>8
  <2>2. QED
    BY <1>5, <1>8, <2>1, FailedIs
<1>10. QED
  BY <1>6, <1>8, <1>9

-----------------------------------------------------------------------------
(* The receiver *)

(* What a decoder has after the bytes received, whatever their cuts.       *)
Holds(found, held, bytes, eof) ==
  /\ bytes \in Seq(Cells) /\ eof \in BOOLEAN
  /\ Events(found)
  /\ held \in Seq(Cells) /\ Len(held) < MaxFrame
  /\ UpToError(found) = Found(bytes, eof).events
  /\ ~ Failed(found) => held = Found(bytes, eof).buffer

IInv == Holds(events, buffer, received, ended) /\ wire \in Seq(Cells)

LEMMA TypedConcat ==
  ASSUME NEW f, NEW g, Events(f), Events(g)
  PROVE  Events(f \o g)
<1>1. f \in Seq(Event) /\ g \in Seq(Event)
  BY DEF Events
<1>2. PICK l \in Nat, k \in Nat : l = Len(f) /\ k = Len(g)
  BY <1>1, LenProperties
<1>3. PICK s \in Seq(Event) : s = f \o g /\ Len(s) = l + k /\ \A i \in 1 .. l + k : s[i] = IF i <= l THEN f[i] ELSE g[i - l]
  <2>1. /\ f \o g \in Seq(Event) /\ Len(f \o g) = Len(f) + Len(g)
        /\ \A i \in 1 .. Len(f) + Len(g) : (f \o g)[i] = IF i <= Len(f) THEN f[i] ELSE g[i - Len(f)]
    BY <1>1, ConcatProperties
  <2>2. PICK s : s = f \o g
    OBVIOUS
  <2>3. /\ s \in Seq(Event) /\ Len(s) = l + k
        /\ \A i \in 1 .. l + k : s[i] = IF i <= l THEN f[i] ELSE g[i - l]
    BY <1>2, <2>1, <2>2, Zenon
  <2>4. QED
    BY <2>2, <2>3, Zenon
<1>4. ASSUME NEW i \in 1 .. l + k PROVE s[i].status \in { "frame", "error" }
  <2>1. CASE i <= l
    <3>1. i \in 1 .. l /\ s[i] = f[i]
      BY <1>2, <1>3, <2>1
    <3>2. QED
      BY <1>2, <3>1 DEF Events
  <2>2. CASE ~ (i <= l)
    <3>1. i - l \in 1 .. k /\ s[i] = g[i - l]
      BY <1>2, <1>3, <2>2
    <3>2. QED
      BY <1>2, <3>1 DEF Events
  <2>3. QED
    BY <2>1, <2>2
<1>5. QED
  BY <1>3, <1>4 DEF Events

LEMMA NothingFound ==
  ASSUME NEW eof \in BOOLEAN
  PROVE  Found(<< >>, eof).events = << >> /\ Found(<< >>, eof).buffer = << >>
<1>1. PICK z \in Seq(Cells) : z = << >>
  BY EmptySeq
<1>2. After(DecodeOne(z, eof), z, eof)
  BY FoundIs
<1>3. DecodeOne(z, eof) = Needed /\ Needed.status = "need_more"
  BY <1>1, DecodeOneOfNothing DEF Needed
<1>4. Found(z, eof) = [ events |-> << >>, buffer |-> z ]
  BY <1>2, <1>3, Zenon DEF After
<1>5. QED
  BY <1>1, <1>4

(* The answer of feed, need_more passed over. *)
LEMMA FeedIs ==
  ASSUME NEW held \in Seq(Cells), NEW bytes \in Seq(Cells), NEW eof \in BOOLEAN
  PROVE  /\ held \o bytes \in Seq(Cells) /\ Whole(Found(held \o bytes, eof))
         /\ Told(Feed(held, bytes, eof).events) = Found(held \o bytes, eof).events
         /\ Feed(held, bytes, eof).buffer = Found(held \o bytes, eof).buffer
<1>1. PICK v \in Seq(Cells) : v = held \o bytes
  BY ConcatProperties
<1>2. PICK r : r = Found(v, eof) /\ Whole(r)
  BY <1>1, FoundIsWhole
<1>3. Feed(held, bytes, eof) = Answered(r)
  BY <1>1, <1>2 DEF Feed, Found
<1>4. PICK e, b : e = r.events /\ b = r.buffer /\ r = [ events |-> e, buffer |-> b ]
  BY <1>2 DEF Whole
<1>5. CASE e = << >>
  <2>1. Answered(r) = [ events |-> << Needed >>, buffer |-> b ]
    BY <1>4, <1>5 DEF Answered
  <2>2. Told(<< Needed >>) = << >>
    BY DEF Told
  <2>3. PICK x : x = Answered(r) /\ x.events = << Needed >> /\ x.buffer = b
    BY <2>1
  <2>4. Told(x.events) = e
    BY <1>5, <2>2, <2>3
  <2>5. QED
    BY <1>1, <1>2, <1>3, <1>4, <2>3, <2>4
<1>6. CASE e # << >>
  <2>1. Answered(r) = r
    BY <1>4, <1>6, Zenon DEF Answered
  <2>2. e # << Needed >>
    <3>1. Events(e)
      BY <1>2, <1>4 DEF Whole, OneCall
    <3>2. SUFFICES ASSUME e = << Needed >> PROVE FALSE
      OBVIOUS
    <3>3. 1 \in 1 .. Len(e) /\ e[1] = Needed
      BY <3>2
    <3>4. Needed.status \in { "frame", "error" }
      BY <3>1, <3>3 DEF Events
    <3>5. QED
      BY <3>4 DEF Needed
  <2>3. Told(e) = e
    BY <2>2 DEF Told
  <2>4. QED
    BY <1>1, <1>2, <1>3, <1>4, <2>1, <2>3
<1>7. QED
  BY <1>5, <1>6

(* One more call. *)
LEMMA HoldsAfter ==
  ASSUME NEW found, NEW held, NEW past, Holds(found, held, past, FALSE),
         NEW bytes \in Seq(Cells), NEW eof \in BOOLEAN,
         NEW r, r = Found(held \o bytes, eof)
  PROVE  Holds(found \o r.events, r.buffer, past \o bytes, eof)
<1>1. /\ past \in Seq(Cells) /\ held \in Seq(Cells) /\ found \in Seq(Event) /\ Events(found)
      /\ UpToError(found) = Found(past, FALSE).events
      /\ ~ Failed(found) => held = Found(past, FALSE).buffer
  BY DEF Holds, Events
<1>2. held \o bytes \in Seq(Cells) /\ past \o bytes \in Seq(Cells)
  BY <1>1, ConcatProperties
<1>3. Whole(r)
  BY <1>2, FoundIsWhole
<1>4. PICK g \in Seq(Event) : g = r.events /\ Events(g)
  BY <1>3 DEF Whole, OneCall, Events
<1>5. PICK p : p = Found(past, FALSE) /\ Whole(p)
  BY <1>1, FoundIsWhole
<1>6. PICK w : w = Found(past \o bytes, eof) /\ Whole(w)
  BY <1>2, FoundIsWhole
<1>7. Joined(w, p, bytes, eof)
  BY <1>1, <1>5, <1>6, FoundInTwo
<1>8. Events(found \o g)
  BY <1>1, <1>4, TypedConcat
<1>9. CASE Failed(found)
  <2>1. UpToError(found \o g) = UpToError(found) /\ Failed(found \o g)
    BY <1>1, <1>4, <1>9, UpToMore
  <2>2. Failed(p.events)
    <3>1. PICK l \in Nat : l = Len(found)
      BY <1>1, LenProperties
    <3>2. UpToError(found) = p.events
      BY <1>1, <1>5
    <3>3. QED
      BY <1>1, <1>9, <3>2, UpToFails
  <2>3. w.events = p.events
    BY <1>7, <2>2 DEF Joined
  <2>4. UpToError(found \o g) = w.events
    BY <1>1, <1>5, <2>1, <2>3
  <2>5. QED
    BY <1>2, <1>3, <1>4, <1>6, <1>8, <2>1, <2>4 DEF Holds, Whole
<1>10. CASE ~ Failed(found)
  <2>1. p.events = found /\ p.buffer = held
    BY <1>1, <1>5, <1>10, UpToNone
  <2>2. w.events = found \o g /\ w.buffer = r.buffer
    <3>1. ~ Failed(p.events)
      BY <1>10, <2>1
    <3>2. w.events = p.events \o Found(p.buffer \o bytes, eof).events /\ w.buffer = Found(p.buffer \o bytes, eof).buffer
      BY <1>7, <3>1, Zenon DEF Joined
    <3>3. QED
      BY <1>4, <2>1, <3>2
  <2>3. UpToError(w.events) = w.events
    BY <1>6, UpToOneCall DEF Whole
  <2>4. UpToError(found \o g) = w.events
    BY <2>2, <2>3
  <2>5. QED
    BY <1>2, <1>3, <1>4, <1>6, <1>8, <2>2, <2>4 DEF Holds, Whole
<1>11. QED
  BY <1>9, <1>10

LEMMA FedHolds ==
  ASSUME NEW bytes \in Seq(Cells), NEW eof \in BOOLEAN, IInv, ended = FALSE, Fed(bytes, eof), ended' = eof
  PROVE  Holds(events, buffer, received, ended)'
<1>1. PICK r : r = Found(buffer \o bytes, eof)
  OBVIOUS
<1>2. buffer \in Seq(Cells) /\ Holds(events, buffer, received, FALSE)
  BY DEF IInv, Holds
<1>3. Told(Feed(buffer, bytes, eof).events) = r.events /\ Feed(buffer, bytes, eof).buffer = r.buffer
  BY <1>1, <1>2, FeedIs
<1>4. buffer' = r.buffer /\ events' = events \o r.events /\ received' = received \o bytes
  BY <1>3, Zenon DEF Fed
<1>5. Holds(events \o r.events, r.buffer, received \o bytes, eof)
  BY <1>1, <1>2, HoldsAfter
<1>6. QED
  BY <1>4, <1>5 DEF Holds

LEMMA InitHolds == ReceiverInit => IInv
<1>1. SUFFICES ASSUME ReceiverInit PROVE IInv
  OBVIOUS
<1>2. buffer = << >> /\ events = << >> /\ received = << >> /\ ended = FALSE /\ wire = << >>
  BY <1>1 DEF ReceiverInit
<1>3. Found(<< >>, FALSE).events = << >> /\ Found(<< >>, FALSE).buffer = << >>
  BY NothingFound
<1>4. << >> \in Seq(Cells) /\ Len(<< >>) < MaxFrame
  BY FrameCodecAssumption, ReceiverAssumption DEF Prefix
<1>5. Events(<< >>) /\ UpToError(<< >>) = << >>
  BY NoEvent, UpToNone DEF OneCall
<1>6. Holds(<< >>, << >>, << >>, FALSE)
  BY <1>3, <1>4, <1>5, Zenon DEF Holds
<1>7. QED
  BY <1>2, <1>4, <1>6 DEF IInv

LEMMA ReceiveHolds ==
  ASSUME IInv, NEW size \in 0 .. Len(wire), Receive(size)
  PROVE  IInv'
<1>1. PICK n \in Nat : n = Len(wire)
  BY LenProperties DEF IInv
<1>2. SubSeq(wire, 1, size) \in Seq(Cells)
  <2>1. \A i \in 1 .. size : wire[i] \in Cells
    <3>1. \A i \in 1 .. size : i \in 1 .. Len(wire)
      BY <1>1
    <3>2. QED
      BY <3>1, ElementOfSeq DEF IInv
  <2>2. 1 \in Int /\ size \in Int
    BY <1>1
  <2>3. QED
    BY <2>1, <2>2, SubSeqProperties
<1>3. Drop(wire, size) \in Seq(Cells)
  BY DropIs DEF IInv
<1>4. Fed(SubSeq(wire, 1, size), FALSE) /\ ended = FALSE /\ ended' = FALSE
  BY DEF Receive, IInv, Holds
<1>5. wire' = Drop(wire, size)
  BY DEF Receive, Drop
<1>6. QED
  BY <1>2, <1>3, <1>4, <1>5, FedHolds DEF IInv

LEMMA EndHolds ==
  ASSUME IInv, EndOfStream
  PROVE  IInv'
<1>1. PICK bytes \in { wire, << >> } : Fed(bytes, TRUE)
  BY DEF EndOfStream
<1>2. bytes \in Seq(Cells)
  BY <1>1, EmptySeq DEF IInv
<1>3. ended = FALSE /\ ended' = TRUE /\ wire' = << >>
  BY DEF EndOfStream, IInv, Holds
<1>4. << >> \in Seq(Cells)
  BY EmptySeq
<1>5. Holds(events, buffer, received, ended)'
  BY <1>1, <1>2, <1>3, FedHolds
<1>6. QED
  BY <1>3, <1>4, <1>5 DEF IInv

LEMMA HoldsAreTheSame == IInv => CutsDoNotMatter
<1>1. SUFFICES ASSUME IInv PROVE CutsDoNotMatter
  OBVIOUS
<1>2. /\ received \in Seq(Cells) /\ ended \in BOOLEAN
      /\ Events(events) /\ buffer \in Seq(Cells) /\ Len(buffer) < MaxFrame
      /\ UpToError(events) = Found(received, ended).events
      /\ ~ Failed(events) => buffer = Found(received, ended).buffer
  BY <1>1, Zenon DEF IInv, Holds
<1>4. PICK whole : whole = Feed(<< >>, received, ended)
  OBVIOUS
<1>5. << >> \in Seq(Cells) /\ << >> \o received = received
  BY <1>2, EmptySeq, ConcatEmptySeq
<1>6. Told(whole.events) = Found(received, ended).events /\ whole.buffer = Found(received, ended).buffer
  <2>1. PICK z \in Seq(Cells) : z = << >>
    BY <1>5
  <2>2. /\ Told(Feed(z, received, ended).events) = Found(z \o received, ended).events
        /\ Feed(z, received, ended).buffer = Found(z \o received, ended).buffer
    BY <1>2, FeedIs
  <2>3. QED
    BY <1>4, <1>5, <2>1, <2>2, Zenon
<1>7. SameAs(whole)
  BY <1>2, <1>6, Zenon DEF SameAs
<1>8. QED
  BY <1>2, <1>4, <1>7 DEF CutsDoNotMatter

(* FrameCodec::feed, called by ConnectionEngine::receive and the bridge's   *)
(* read loop with whatever a read brings: for every stream and every way to *)
(* cut it, up to the first error the events are those of one call with all  *)
(* the bytes, the bytes kept are the same, and they are less than a frame.  *)
THEOREM CutsNeverMatter == Receiving => []CutsDoNotMatter
<1>1. ReceiverInit => IInv
  BY InitHolds
<1>2. IInv /\ [Come \/ (\E size \in 0 .. Len(wire) : Receive(size)) \/ EndOfStream]_receiver => IInv'
  <2>1. IInv /\ Come => IInv'
    BY DEF Come, IInv, Holds
  <2>2. ASSUME IInv, NEW size \in 0 .. Len(wire), Receive(size) PROVE IInv'
    BY <2>2, ReceiveHolds
  <2>3. IInv /\ EndOfStream => IInv'
    BY EndHolds
  <2>4. IInv /\ UNCHANGED receiver => IInv'
    BY DEF receiver, IInv, Holds
  <2>5. QED
    BY <2>1, <2>2, <2>3, <2>4
<1>3. IInv => CutsDoNotMatter
  BY HoldsAreTheSame
<1>4. QED
  BY <1>1, <1>2, <1>3, PTL DEF Receiving

(* The receiver of FrameStream is one: whatever the sender's scheduler      *)
(* writes and whatever is damaged under way, all that its decoder sees is   *)
(* bytes that come.  So reads of a stream of frames may be cut anywhere.    *)
THEOREM FrameStreamReceives == Spec /\ [](wire \in Seq(Cells)) => Receiving /\ []CutsDoNotMatter
<1>1. Init => ReceiverInit
  BY DEF Init
<1>2. wire \in Seq(Cells) /\ (wire \in Seq(Cells))' /\ [Next]_vars
        => [Come \/ (\E size \in 0 .. Len(wire) : Receive(size)) \/ EndOfStream]_receiver
  <2>1. Emit => UNCHANGED receiver
    BY DEF Emit
  <2>2. ASSUME NEW room, Write(room), (wire \in Seq(Cells))' PROVE Come
    BY <2>2 DEF Write, Come
  <2>3. (wire \in Seq(Cells))' /\ DamageByte => Come
    BY DEF DamageByte, Come
  <2>4. ASSUME wire \in Seq(Cells), NEW size \in Chunks \cup { Len(wire) }, Read(size)
        PROVE  \E n \in 0 .. Len(wire) : Receive(n)
    <3>1. Receive(size) /\ size <= Len(wire)
      BY <2>4 DEF Read, Receive
    <3>2. size \in 0 .. Len(wire)
      BY <2>4, <3>1, LenProperties, FrameStreamAssumption
    <3>3. QED
      BY <3>1, <3>2
  <2>5. End => EndOfStream
    BY DEF End
  <2>6. UNCHANGED vars => UNCHANGED receiver
    BY DEF vars
  <2>7. QED
    BY <2>1, <2>2, <2>3, <2>4, <2>5, <2>6 DEF Next
<1>3. QED
  BY <1>1, <1>2, CutsNeverMatter, PTL DEF Spec, Receiving
=============================================================================
