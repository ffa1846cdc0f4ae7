---------------------------- MODULE Plugins_proofs ----------------------------
(***************************************************************************)
(* Proofs about plugin leases, for any number of engines, holders, lease   *)
(* states and any capacity of the executor.                                *)
(***************************************************************************)
EXTENDS Plugins, FiniteSetTheorems, FunctionTheorems, SequenceTheorems, TLAPS

LeaseState == [ active : Nat, draining : BOOLEAN ]
Task       == [ engine : Owners, state : Nat ]

(* The holders of a lease on s, and the queued tasks that have one. *)
HeldOn(f, s)   == { h \in Holders : f[h] = s }
QueuedOn(q, s) == { i \in DOMAIN q : q[i].state = s }

One(r, s) == IF r = s THEN 1 ELSE 0

(* Only h changes from one assignment of the holders to another. *)
OnlyHolder(f, g, h) == \A k \in Holders \ {h} : g[k] = f[k]

-----------------------------------------------------------------------------
(* The inductive invariant *)

WellTyped ==
  /\ states \in Seq(LeaseState) /\ Len(states) <= MaxStates
  /\ held \in [ Holders -> { NoLease } \cup DOMAIN states ]
  /\ DOMAIN entry = Owners
  /\ \A r \in Owners : entry[r] = NoEntry \/ entry[r].state \in DOMAIN states
  /\ queue \in Seq(Task) /\ Len(queue) <= Capacity
  /\ \A i \in DOMAIN queue : queue[i].state \in { NoLease } \cup DOMAIN states
  /\ unloaded \subseteq DOMAIN states

Counted == \A s \in DOMAIN states : states[s].active = Leases(s)

(* What has been unloaded is not leased, and goes on draining: the copies  *)
(* of its entry that engines have kept give no lease.                      *)
UnloadedRest == \A s \in unloaded : states[s].draining /\ states[s].active = 0

IInv == WellTyped /\ Counted /\ UnloadedRest

-----------------------------------------------------------------------------
(* Counting the leases of holders *)

(* The holders of a lease on s are finitely many. *)
LEMMA HeldOnFinite ==
  ASSUME NEW f, NEW s
  PROVE  /\ IsFiniteSet(HeldOn(f, s)) /\ Cardinality(HeldOn(f, s)) \in Nat
         /\ \A h \in Holders : f[h] = s => Cardinality(HeldOn(f, s)) > 0
<1>1. IsFiniteSet(HeldOn(f, s))
  BY PluginsAssumption, FS_Subset DEF HeldOn
<1>2. Cardinality(HeldOn(f, s)) \in Nat
  BY <1>1, FS_CardinalityType
<1>3. HeldOn(f, s) # {} => Cardinality(HeldOn(f, s)) > 0
  BY <1>1, <1>2, FS_EmptySet
<1>4. QED
  BY <1>1, <1>2, <1>3 DEF HeldOn

(* A holder gives up what it held and takes another lease. *)
LEMMA HolderTakes ==
  ASSUME NEW f, NEW g, NEW h \in Holders, OnlyHolder(f, g, h), NEW s
  PROVE  Cardinality(HeldOn(g, s)) + One(f[h], s) = Cardinality(HeldOn(f, s)) + One(g[h], s)
<1> DEFINE A == HeldOn(f, s)
           B == HeldOn(g, s)
<1>1. A \ {h} = B \ {h}
  BY DEF HeldOn, OnlyHolder
<1>2. (h \in A <=> f[h] = s) /\ (h \in B <=> g[h] = s)
  BY DEF HeldOn
<1>3. IsFiniteSet(A) /\ IsFiniteSet(B) /\ Cardinality(A) \in Nat /\ Cardinality(B) \in Nat
  BY HeldOnFinite
<1> HIDE DEF A, B
<1>4. Cardinality(A \ {h}) = IF h \in A THEN Cardinality(A) - 1 ELSE Cardinality(A)
  BY <1>3, FS_RemoveElement
<1>5. Cardinality(B \ {h}) = IF h \in B THEN Cardinality(B) - 1 ELSE Cardinality(B)
  BY <1>3, FS_RemoveElement
<1>6. Cardinality(A) - One(f[h], s) = Cardinality(B) - One(g[h], s)
  <2>1. Cardinality(A \ {h}) = Cardinality(A) - One(f[h], s)
    BY <1>2, <1>3, <1>4 DEF One
  <2>2. Cardinality(B \ {h}) = Cardinality(B) - One(g[h], s)
    BY <1>2, <1>3, <1>5 DEF One
  <2>3. QED
    BY <1>1, <2>1, <2>2
<1>7. One(f[h], s) \in Nat /\ One(g[h], s) \in Nat
  BY DEF One
<1>8. Cardinality(B) + One(f[h], s) = Cardinality(A) + One(g[h], s)
  BY <1>3, <1>6, <1>7
<1>9. QED
  BY <1>8 DEF A, B

-----------------------------------------------------------------------------
(* Counting the leases of queued tasks *)

LEMMA QueuedOnFinite ==
  ASSUME NEW q \in Seq(Task), NEW s
  PROVE  /\ IsFiniteSet(QueuedOn(q, s)) /\ Cardinality(QueuedOn(q, s)) \in Nat
         /\ \A i \in DOMAIN q : q[i].state = s => Cardinality(QueuedOn(q, s)) > 0
<1>1. Len(q) \in Nat /\ DOMAIN q = 1 .. Len(q)
  BY LenProperties
<1>2. IsFiniteSet(1 .. Len(q))
  BY <1>1, FS_Interval
<1>3. IsFiniteSet(QueuedOn(q, s))
  BY <1>1, <1>2, FS_Subset DEF QueuedOn
<1>4. Cardinality(QueuedOn(q, s)) \in Nat
  BY <1>3, FS_CardinalityType
<1>5. QueuedOn(q, s) # {} => Cardinality(QueuedOn(q, s)) > 0
  BY <1>3, <1>4, FS_EmptySet
<1>6. QED
  BY <1>3, <1>4, <1>5 DEF QueuedOn

LEMMA TaskJoins ==
  ASSUME NEW q \in Seq(Task), NEW task \in Task, NEW s
  PROVE  Cardinality(QueuedOn(Append(q, task), s)) = Cardinality(QueuedOn(q, s)) + One(task.state, s)
<1> DEFINE n == Len(q) + 1
           A == QueuedOn(q, s)
           B == QueuedOn(Append(q, task), s)
<1>1. Len(q) \in Nat /\ DOMAIN q = 1 .. Len(q) /\ DOMAIN Append(q, task) = 1 .. n
  BY LenProperties
<1>2. n \notin A
  BY <1>1 DEF QueuedOn
<1>3. \A i \in 1 .. Len(q) : Append(q, task)[i] = q[i]
  BY <1>1
<1>4. Append(q, task)[n] = task
  BY <1>1
<1>5. B = IF task.state = s THEN A \cup {n} ELSE A
  BY <1>1, <1>3, <1>4 DEF QueuedOn
<1>6. IsFiniteSet(A) /\ Cardinality(A) \in Nat
  BY QueuedOnFinite
<1> HIDE DEF A, B, n
<1>7. Cardinality(A \cup {n}) = Cardinality(A) + 1
  BY <1>2, <1>6, FS_AddElement
<1>8. Cardinality(B) = Cardinality(A) + One(task.state, s)
  BY <1>5, <1>6, <1>7 DEF One
<1>9. QED
  BY <1>8 DEF A, B

(* A renumbering of positions keeps their number. *)
LEMMA Renumbered ==
  ASSUME NEW A, NEW B, IsFiniteSet(A), NEW f \in Bijection(A, B)
  PROVE  IsFiniteSet(B) /\ Cardinality(B) = Cardinality(A)
<1>1. ExistsBijection(A, B)
  BY DEF ExistsBijection
<1>2. QED
  BY <1>1, FS_Bijection

LEMMA TaskLeaves ==
  ASSUME NEW q \in Seq(Task), NEW i \in DOMAIN q, NEW s
  PROVE  /\ RemoveAt(q, i) \in Seq(Task)
         /\ Len(RemoveAt(q, i)) = Len(q) - 1
         /\ \A k \in DOMAIN RemoveAt(q, i) : \E j \in DOMAIN q : RemoveAt(q, i)[k] = q[j]
         /\ Cardinality(QueuedOn(q, s)) = Cardinality(QueuedOn(RemoveAt(q, i), s)) + One(q[i].state, s)
<1> DEFINE r == RemoveAt(q, i)
           A == QueuedOn(q, s)
           B == QueuedOn(r, s)
           f == [ j \in A \ {i} |-> IF j < i THEN j ELSE j - 1 ]
<1>1. Len(q) \in Nat /\ DOMAIN q = 1 .. Len(q) /\ i \in 1 .. Len(q)
  BY LenProperties
<1>2. SubSeq(q, 1, i - 1) \in Seq(Task) /\ Len(SubSeq(q, 1, i - 1)) = i - 1
  BY <1>1, SubSeqProperties
<1>3. SubSeq(q, i + 1, Len(q)) \in Seq(Task) /\ Len(SubSeq(q, i + 1, Len(q))) = Len(q) - i
  BY <1>1, SubSeqProperties
<1>4. \A k \in 1 .. i - 1 : SubSeq(q, 1, i - 1)[k] = q[k]
  BY <1>1
<1>5. \A k \in 1 .. Len(q) - i : SubSeq(q, i + 1, Len(q))[k] = q[i + k]
  BY <1>1
<1>6. r \in Seq(Task) /\ Len(r) = Len(q) - 1 /\ DOMAIN r = 1 .. Len(q) - 1
  <2>1. r \in Seq(Task) /\ Len(r) = (i - 1) + (Len(q) - i)
    BY <1>2, <1>3, ConcatProperties DEF RemoveAt
  <2>2. (i - 1) + (Len(q) - i) = Len(q) - 1
    BY <1>1
  <2>3. QED
    BY <2>1, <2>2, LenProperties
<1>7. \A k \in 1 .. Len(q) - 1 : r[k] = IF k < i THEN q[k] ELSE q[k + 1]
  <2> SUFFICES ASSUME NEW k \in 1 .. Len(q) - 1
               PROVE  r[k] = IF k < i THEN q[k] ELSE q[k + 1]
    OBVIOUS
  <2>1. CASE k < i
    <3>1. r[k] = SubSeq(q, 1, i - 1)[k]
      BY <1>1, <1>2, <1>3, <2>1, ConcatProperties DEF RemoveAt
    <3>2. QED
      BY <1>1, <1>4, <2>1, <3>1
  <2>2. CASE ~ (k < i)
    <3>1. PICK a, b \in Seq(Task) : a = SubSeq(q, 1, i - 1) /\ b = SubSeq(q, i + 1, Len(q))
      BY <1>2, <1>3
    <3>2. k - (i - 1) \in 1 .. Len(q) - i /\ i + (k - (i - 1)) = k + 1
      BY <1>1, <2>2
    <3>3. Len(a) = i - 1 /\ Len(b) = Len(q) - i
      BY <1>2, <1>3, <3>1
    <3>4. k \in 1 .. Len(a) + Len(b) /\ ~ (k <= Len(a))
      BY <1>1, <2>2, <3>3
    <3>5. (a \o b)[k] = b[k - Len(a)]
      BY <3>1, <3>4, ConcatProperties
    <3>6. r[k] = SubSeq(q, i + 1, Len(q))[k - (i - 1)]
      BY <3>1, <3>3, <3>5 DEF RemoveAt
    <3>7. SubSeq(q, i + 1, Len(q))[k - (i - 1)] = q[k + 1]
      BY <1>5, <3>2
    <3>8. QED
      BY <2>2, <3>6, <3>7
  <2>3. QED
    BY <2>1, <2>2
<1>8. IsFiniteSet(A) /\ Cardinality(A) \in Nat
  BY QueuedOnFinite
<1> HIDE DEF r
<1>9. A \subseteq 1 .. Len(q) /\ B = { k \in 1 .. Len(q) - 1 : r[k].state = s }
  BY <1>1, <1>6 DEF QueuedOn
<1>10. ASSUME NEW j \in A \ {i} PROVE (IF j < i THEN j ELSE j - 1) \in B
  <2>1. j \in 1 .. Len(q) /\ j # i /\ q[j].state = s
    BY <1>9 DEF QueuedOn
  <2>2. PICK k \in Int : k = IF j < i THEN j ELSE j - 1
    BY <2>1
  <2>3. k \in 1 .. Len(q) - 1 /\ j = IF k < i THEN k ELSE k + 1
    BY <1>1, <2>1, <2>2
  <2>4. r[k] = q[j]
    BY <1>7, <2>3
  <2>5. QED
    BY <1>9, <2>1, <2>2, <2>3, <2>4
<1>11. ASSUME NEW k \in B PROVE (IF k < i THEN k ELSE k + 1) \in A \ {i}
  <2>1. PICK j \in Int : j = IF k < i THEN k ELSE k + 1
    BY <1>1, <1>9
  <2>2. k \in 1 .. Len(q) - 1 /\ r[k].state = s /\ r[k] = q[j]
    BY <1>7, <1>9, <2>1
  <2>3. j \in DOMAIN q /\ j # i
    BY <1>1, <2>1, <2>2
  <2>4. QED
    BY <2>1, <2>2, <2>3 DEF QueuedOn
<1>12. f \in [ A \ {i} -> B ]
  BY <1>10
<1>13. \A j, l \in A \ {i} : f[j] = f[l] => j = l
  BY <1>1, <1>9
<1>14. \A k \in B : \E j \in A \ {i} : f[j] = k
  BY <1>1, <1>9, <1>11
<1>15. i \in A <=> q[i].state = s
  BY DEF QueuedOn
<1> HIDE DEF A, B, f
<1>16. IsFiniteSet(A \ {i}) /\ Cardinality(A \ {i}) = IF i \in A THEN Cardinality(A) - 1 ELSE Cardinality(A)
  BY <1>8, FS_RemoveElement
<1>17. Cardinality(B) = Cardinality(A \ {i})
  <2>1. IsFiniteSet(A \ {i})
    BY <1>16
  <2>2. QED
    <3>1. f \in Bijection(A \ {i}, B)
      BY <1>12, <1>13, <1>14 DEF Bijection, Injection, Surjection, IsInjective
    <3>2. QED
      BY <2>1, <3>1, Renumbered
<1>18. Cardinality(A) = Cardinality(B) + One(q[i].state, s)
  BY <1>8, <1>15, <1>16, <1>17 DEF One
<1>19. \A k \in DOMAIN r : \E j \in DOMAIN q : r[k] = q[j]
  <2> SUFFICES ASSUME NEW k \in 1 .. Len(q) - 1
               PROVE  \E j \in 1 .. Len(q) : r[k] = q[j]
    BY <1>1, <1>6
  <2>1. k \in 1 .. Len(q) /\ k + 1 \in 1 .. Len(q)
    BY <1>1
  <2>2. QED
    BY <1>7, <2>1
<1>20. QED
  BY <1>6, <1>18, <1>19 DEF A, B, r

(* The first tasks of a queue, those of them that have a lease on s, and   *)
(* the queue without them.                                                 *)
FirstOn(q, n, s) == { i \in 1 .. n : q[i].state = s }
After(q, n)      == SubSeq(q, n + 1, Len(q))

LEMMA FrontLeaves ==
  ASSUME NEW q \in Seq(Task), NEW n \in 1 .. Len(q), NEW s
  PROVE  /\ After(q, n) \in Seq(Task) /\ Len(After(q, n)) = Len(q) - n
         /\ \A k \in 1 .. Len(q) - n : After(q, n)[k] = q[n + k]
         /\ Cardinality(FirstOn(q, n, s)) \in Nat
         /\ Cardinality(QueuedOn(q, s)) = Cardinality(FirstOn(q, n, s))
                                           + Cardinality(QueuedOn(After(q, n), s))
<1> DEFINE r == SubSeq(q, n + 1, Len(q))
           A == QueuedOn(q, s)
           F == { i \in 1 .. n : q[i].state = s }
           B == QueuedOn(r, s)
           f == [ j \in A \ F |-> j - n ]
<1>1. Len(q) \in Nat /\ DOMAIN q = 1 .. Len(q) /\ n \in 1 .. Len(q)
  BY LenProperties
<1>2. r \in Seq(Task) /\ Len(r) = Len(q) - n /\ DOMAIN r = 1 .. Len(q) - n
  <2>1. r \in Seq(Task) /\ Len(r) = Len(q) - n
    <3>1. \A i \in n + 1 .. Len(q) : q[i] \in Task
      BY <1>1, ElementOfSeq
    <3>2. PICK m \in Nat, l \in Nat : m = n + 1 /\ l = Len(q) /\ m <= l + 1
      <4>1. n + 1 \in Nat /\ n + 1 <= Len(q) + 1
        BY <1>1
      <4>2. QED
        BY <1>1, <4>1
    <3>3. SubSeq(q, m, l) \in Seq(Task) /\ Len(SubSeq(q, m, l)) = IF m <= l THEN l - m + 1 ELSE 0
      BY <3>1, <3>2, SubSeqProperties
    <3>4. Len(SubSeq(q, m, l)) = l - m + 1
      BY <3>2, <3>3
    <3>5. l - m + 1 = Len(q) - n
      BY <1>1, <3>2
    <3>6. QED
      BY <3>2, <3>3, <3>4, <3>5
  <2>2. QED
    BY <2>1, LenProperties
<1>3. \A k \in 1 .. Len(q) - n : r[k] = q[n + k]
  BY <1>1
<1>4. IsFiniteSet(A) /\ Cardinality(A) \in Nat
  BY QueuedOnFinite
<1>5. F \subseteq A
  BY <1>1 DEF QueuedOn
<1> HIDE DEF r
<1>6. A \subseteq 1 .. Len(q) /\ B = { k \in 1 .. Len(q) - n : r[k].state = s }
  BY <1>1, <1>2 DEF QueuedOn
<1>7. \A j \in A \ F : j - n \in B
  BY <1>1, <1>3, <1>6 DEF QueuedOn
<1>8. \A k \in B : n + k \in A \ F
  BY <1>1, <1>3, <1>6 DEF QueuedOn
<1>9. f \in [ A \ F -> B ]
  BY <1>7
<1>10. \A j, l \in A \ F : f[j] = f[l] => j = l
  BY <1>1, <1>6
<1>11. \A k \in B : \E j \in A \ F : f[j] = k
  BY <1>1, <1>6, <1>8
<1> HIDE DEF A, B, F, f
<1>12. IsFiniteSet(F) /\ Cardinality(F) \in Nat
  BY <1>4, <1>5, FS_Subset, FS_CardinalityType
<1>13. IsFiniteSet(A \ F) /\ Cardinality(A \ F) = Cardinality(A) - Cardinality(A \cap F)
  BY <1>4, FS_Difference
<1>14. A \cap F = F
  BY <1>5
<1>15. Cardinality(B) = Cardinality(A \ F)
  <2>1. f \in Bijection(A \ F, B)
    BY <1>9, <1>10, <1>11 DEF Bijection, Injection, Surjection, IsInjective
  <2>2. QED
    BY <1>13, <2>1, Renumbered
<1>16. Cardinality(A) = Cardinality(F) + Cardinality(B)
  <2>1. Cardinality(B) = Cardinality(A) - Cardinality(F)
    BY <1>13, <1>14, <1>15
  <2>2. QED
    BY <1>4, <1>12, <2>1
<1>17. QED
  BY <1>2, <1>3, <1>12, <1>16, Zenon DEF A, B, F, r, FirstOn, After

-----------------------------------------------------------------------------
(* PluginLease *)

LEMMA AcquiredIs ==
  ASSUME NEW all \in Seq(LeaseState), NEW s \in DOMAIN all
  PROVE  /\ Acquired(all, s) \in Seq(LeaseState)
         /\ Len(Acquired(all, s)) = Len(all) /\ DOMAIN Acquired(all, s) = DOMAIN all
         /\ \A t \in DOMAIN all : /\ Acquired(all, s)[t].draining = all[t].draining
                                 /\ Acquired(all, s)[t].active = all[t].active + One(s, t)
<1>1. all[s] \in LeaseState
  BY ElementOfSeq, LenProperties
<1>2. [ all[s] EXCEPT !.active = @ + 1 ] \in LeaseState
  BY <1>1, SMTT(20) DEF LeaseState
<1>3. Acquired(all, s) = [ all EXCEPT ![s] = [ all[s] EXCEPT !.active = @ + 1 ] ]
  BY DEF Acquired
<1>4. /\ Acquired(all, s) \in Seq(LeaseState)
      /\ Len(Acquired(all, s)) = Len(all) /\ DOMAIN Acquired(all, s) = DOMAIN all
  BY <1>2, <1>3, ExceptSeq, LenProperties
<1>5. ASSUME NEW t \in DOMAIN all
      PROVE  /\ Acquired(all, s)[t].draining = all[t].draining
             /\ Acquired(all, s)[t].active = all[t].active + One(s, t)
  <2>1. all[t] \in LeaseState
    BY ElementOfSeq, LenProperties
  <2>2. QED
    BY <1>1, <1>3, <2>1 DEF LeaseState, One
<1>6. QED
  BY <1>4, <1>5

(* A lease that is counted is taken off the count, once. *)
LEMMA ReleasedIs ==
  ASSUME NEW all \in Seq(LeaseState), NEW s \in { NoLease } \cup DOMAIN all,
         s # NoLease => all[s].active > 0
  PROVE  /\ Released(all, s) \in Seq(LeaseState)
         /\ Len(Released(all, s)) = Len(all) /\ DOMAIN Released(all, s) = DOMAIN all
         /\ \A t \in DOMAIN all : /\ Released(all, s)[t].draining = all[t].draining
                                 /\ Released(all, s)[t].active = all[t].active - One(s, t)
<1>1. \A t \in DOMAIN all : all[t] \in LeaseState /\ t # NoLease
  BY ElementOfSeq, LenProperties DEF NoLease
<1>2. CASE s = NoLease
  <2>1. Released(all, s) = all
    BY <1>2 DEF Released
  <2>2. \A t \in DOMAIN all : all[t].active = all[t].active - One(s, t)
    BY <1>1, <1>2 DEF One, LeaseState
  <2>3. QED
    BY <2>1, <2>2
<1>3. CASE s # NoLease
  <2>1. s \in DOMAIN all /\ all[s] \in LeaseState /\ all[s].active > 0
    BY <1>1, <1>3
  <2>2. [ all[s] EXCEPT !.active = @ - 1 ] \in LeaseState
    BY <2>1 DEF LeaseState
  <2>3. Released(all, s) = [ all EXCEPT ![s] = [ all[s] EXCEPT !.active = @ - 1 ] ]
    BY <1>3, <2>1 DEF Released
  <2>4. /\ Released(all, s) \in Seq(LeaseState)
        /\ Len(Released(all, s)) = Len(all) /\ DOMAIN Released(all, s) = DOMAIN all
    BY <2>1, <2>2, <2>3, ExceptSeq, LenProperties
  <2>5. ASSUME NEW t \in DOMAIN all
        PROVE  /\ Released(all, s)[t].draining = all[t].draining
               /\ Released(all, s)[t].active = all[t].active - One(s, t)
    <3>1. all[t] \in LeaseState
      BY <1>1
    <3>2. QED
      BY <2>1, <2>3, <3>1 DEF LeaseState, One
  <2>6. QED
    BY <2>4, <2>5
<1>4. QED
  BY <1>2, <1>3

-----------------------------------------------------------------------------
(* The steps *)

LEMMA LeasesIs ==
  ASSUME NEW s
  PROVE  /\ Leases(s) = Cardinality(HeldOn(held, s)) + Cardinality(QueuedOn(queue, s))
         /\ Leases(s)' = Cardinality(HeldOn(held', s)) + Cardinality(QueuedOn(queue', s))
BY DEF Leases, HeldOn, QueuedOn

LEMMA StateIs ==
  ASSUME IInv
  PROVE  \A t \in DOMAIN states : states[t].active \in Nat /\ states[t].draining \in BOOLEAN
<1> SUFFICES ASSUME NEW t \in DOMAIN states
             PROVE  states[t].active \in Nat /\ states[t].draining \in BOOLEAN
  OBVIOUS
<1>1. states[t] \in LeaseState
  BY ElementOfSeq, LenProperties DEF IInv, WellTyped
<1>2. QED
  BY <1>1 DEF LeaseState

(* A lease that lives is counted. *)
LEMMA LiveIsCounted ==
  ASSUME IInv
  PROVE  /\ \A h \in Holders : held[h] # NoLease => states[held[h]].active > 0
         /\ \A i \in DOMAIN queue : queue[i].state # NoLease => states[queue[i].state].active > 0
<1>1. ASSUME NEW h \in Holders, held[h] # NoLease PROVE states[held[h]].active > 0
  <2>1. held[h] \in DOMAIN states
    BY <1>1 DEF IInv, WellTyped
  <2>2. states[held[h]].active = Leases(held[h])
    BY <2>1 DEF IInv, Counted
  <2>3. Cardinality(HeldOn(held, held[h])) > 0 /\ Cardinality(HeldOn(held, held[h])) \in Nat
    BY HeldOnFinite
  <2>4. Cardinality(QueuedOn(queue, held[h])) \in Nat
    BY QueuedOnFinite DEF IInv, WellTyped
  <2>5. QED
    BY <2>2, <2>3, <2>4, LeasesIs
<1>2. ASSUME NEW i \in DOMAIN queue, queue[i].state # NoLease
      PROVE  states[queue[i].state].active > 0
  <2>1. queue[i].state \in DOMAIN states
    BY <1>2 DEF IInv, WellTyped
  <2>2. states[queue[i].state].active = Leases(queue[i].state)
    BY <2>1 DEF IInv, Counted
  <2>3. Cardinality(HeldOn(held, queue[i].state)) \in Nat
    BY HeldOnFinite
  <2>4. /\ Cardinality(QueuedOn(queue, queue[i].state)) > 0
        /\ Cardinality(QueuedOn(queue, queue[i].state)) \in Nat
    BY QueuedOnFinite DEF IInv, WellTyped
  <2>5. QED
    BY <2>2, <2>3, <2>4, LeasesIs
<1>3. QED
  BY <1>1, <1>2

LEMMA InitInv == Init => IInv
<1> SUFFICES ASSUME Init PROVE IInv
  OBVIOUS
<1>1. DOMAIN states = {} /\ DOMAIN queue = {} /\ Len(states) = 0 /\ Len(queue) = 0
  BY DEF Init
<1>2. states \in Seq(LeaseState) /\ queue \in Seq(Task)
  BY DEF Init
<1>3. WellTyped
  BY <1>1, <1>2, PluginsAssumption DEF WellTyped, Init
<1>4. QED
  BY <1>1, <1>3 DEF IInv, Counted, UnloadedRest, Init

LEMMA DropStep == ASSUME IInv, NEW h \in Holders, Drop(h) PROVE IInv'
<1>1. held[h] \in DOMAIN states /\ states[held[h]].active > 0
  BY LiveIsCounted DEF Drop, IInv, WellTyped
<1>2. /\ states' \in Seq(LeaseState) /\ Len(states') = Len(states) /\ DOMAIN states' = DOMAIN states
      /\ \A t \in DOMAIN states : /\ states'[t].draining = states[t].draining
                                  /\ states'[t].active = states[t].active - One(held[h], t)
  BY <1>1, ReleasedIs DEF Drop, IInv, WellTyped
<1>3. WellTyped'
  BY <1>2 DEF Drop, IInv, WellTyped
<1>4. held'[h] = NoLease /\ OnlyHolder(held, held', h)
  BY DEF Drop, IInv, WellTyped, OnlyHolder
<1>5. Counted'
  <2> SUFFICES ASSUME NEW t \in DOMAIN states PROVE states'[t].active = Leases(t)'
    BY <1>2 DEF Counted
  <2>1. Cardinality(HeldOn(held', t)) + One(held[h], t) = Cardinality(HeldOn(held, t)) + One(NoLease, t)
    BY <1>4, HolderTakes
  <2>2. One(NoLease, t) = 0
    BY LenProperties DEF One, NoLease, IInv, WellTyped
  <2>3. /\ Cardinality(HeldOn(held, t)) \in Nat /\ Cardinality(HeldOn(held', t)) \in Nat
        /\ Cardinality(QueuedOn(queue, t)) \in Nat /\ One(held[h], t) \in Nat
    BY HeldOnFinite, QueuedOnFinite DEF One, IInv, WellTyped
  <2>4. states[t].active = Cardinality(HeldOn(held, t)) + Cardinality(QueuedOn(queue, t))
    BY LeasesIs DEF Counted, IInv
  <2>5. queue' = queue
    BY DEF Drop
  <2>6. Leases(t)' = Cardinality(HeldOn(held', t)) + Cardinality(QueuedOn(queue, t))
    BY <2>5, LeasesIs
  <2>7. QED
    BY <1>2, <2>1, <2>2, <2>3, <2>4, <2>6
<1>6. UnloadedRest'
  <2> SUFFICES ASSUME NEW t \in unloaded PROVE states'[t].draining /\ states'[t].active = 0
    BY DEF UnloadedRest, Drop
  <2>1. states[t].draining /\ states[t].active = 0 /\ t \in DOMAIN states
    BY DEF UnloadedRest, IInv, WellTyped
  <2>2. held[h] # t
    BY <1>1, <2>1
  <2>3. QED
    BY <1>2, <2>1, <2>2 DEF One
<1>7. QED
  BY <1>3, <1>5, <1>6 DEF IInv

(* A new lease in h, in place of what it held. *)
LEMMA CreateLeaseStep == ASSUME IInv, NEW h \in Holders, CreateLease(h) PROVE IInv'
<1> DEFINE e == entry[App].state
           all == Acquired(states, e)
<1>1. e \in DOMAIN states /\ ~ states[e].draining
  BY DEF CreateLease, CanLease, Available, IInv, WellTyped, Owners
<1>2. held[h] \in { NoLease } \cup DOMAIN states /\ (held[h] # NoLease => states[held[h]].active > 0)
  BY LiveIsCounted DEF IInv, WellTyped
<1>3. \A t \in DOMAIN states : states[t].active \in Nat /\ One(e, t) \in Nat
  BY StateIs DEF One
<1> HIDE DEF e
<1>4. /\ all \in Seq(LeaseState) /\ Len(all) = Len(states) /\ DOMAIN all = DOMAIN states
      /\ \A t \in DOMAIN states : /\ all[t].draining = states[t].draining
                                  /\ all[t].active = states[t].active + One(e, t)
  BY <1>1, AcquiredIs DEF IInv, WellTyped
<1> HIDE DEF all
<1>5. held[h] # NoLease => all[held[h]].active > 0
  BY <1>2, <1>3, <1>4
<1>6. states' = Released(all, held[h])
  BY DEF CreateLease, all, e
<1>7. /\ states' \in Seq(LeaseState) /\ Len(states') = Len(states) /\ DOMAIN states' = DOMAIN states
      /\ \A t \in DOMAIN states : /\ states'[t].draining = states[t].draining
                                  /\ states'[t].active = states[t].active + One(e, t) - One(held[h], t)
  <2>1. held[h] \in { NoLease } \cup DOMAIN all
    BY <1>2, <1>4
  <2>2. /\ states' \in Seq(LeaseState) /\ Len(states') = Len(all) /\ DOMAIN states' = DOMAIN all
        /\ \A t \in DOMAIN all : /\ states'[t].draining = all[t].draining
                                /\ states'[t].active = all[t].active - One(held[h], t)
    BY <1>4, <1>5, <1>6, <2>1, ReleasedIs
  <2>3. /\ states' \in Seq(LeaseState) /\ Len(states') = Len(states) /\ DOMAIN states' = DOMAIN states
        /\ \A t \in DOMAIN states : states'[t].draining = states[t].draining
    BY <1>4, <2>2
  <2>4. \A t \in DOMAIN states : states'[t].active = states[t].active + One(e, t) - One(held[h], t)
    <3> SUFFICES ASSUME NEW t \in DOMAIN states
                 PROVE  states'[t].active = states[t].active + One(e, t) - One(held[h], t)
      OBVIOUS
    <3>1. states'[t].active = all[t].active - One(held[h], t)
      BY <1>4, <2>2
    <3>2. all[t].active = states[t].active + One(e, t)
      BY <1>4
    <3>3. One(held[h], t) \in Nat
      BY DEF One
    <3>4. QED
      BY <1>3, <3>1, <3>2, <3>3
  <2>5. QED
    BY <2>3, <2>4
<1>8. held' = [ held EXCEPT ![h] = e ] /\ UNCHANGED << entry, queue, unloaded >>
  BY DEF CreateLease, e
<1>9. WellTyped'
  BY <1>1, <1>7, <1>8 DEF IInv, WellTyped
<1>10. held'[h] = e /\ OnlyHolder(held, held', h)
  BY <1>8 DEF IInv, WellTyped, OnlyHolder
<1>11. Counted'
  <2> SUFFICES ASSUME NEW t \in DOMAIN states PROVE states'[t].active = Leases(t)'
    BY <1>7 DEF Counted
  <2>1. Cardinality(HeldOn(held', t)) + One(held[h], t) = Cardinality(HeldOn(held, t)) + One(e, t)
    BY <1>10, HolderTakes
  <2>2. /\ Cardinality(HeldOn(held, t)) \in Nat /\ Cardinality(HeldOn(held', t)) \in Nat
        /\ Cardinality(QueuedOn(queue, t)) \in Nat /\ One(held[h], t) \in Nat /\ One(e, t) \in Nat
    BY HeldOnFinite, QueuedOnFinite DEF One, IInv, WellTyped
  <2>3. states[t].active = Cardinality(HeldOn(held, t)) + Cardinality(QueuedOn(queue, t))
    BY LeasesIs DEF Counted, IInv
  <2>4. Leases(t)' = Cardinality(HeldOn(held', t)) + Cardinality(QueuedOn(queue, t))
    BY <1>8, LeasesIs
  <2>5. QED
    BY <1>7, <2>1, <2>2, <2>3, <2>4
<1>12. UnloadedRest'
  <2> SUFFICES ASSUME NEW t \in unloaded PROVE states'[t].draining /\ states'[t].active = 0
    BY <1>8 DEF UnloadedRest
  <2>1. states[t].draining /\ states[t].active = 0 /\ t \in DOMAIN states
    BY DEF UnloadedRest, IInv, WellTyped
  <2>2. e # t /\ held[h] # t
    BY <1>1, <1>2, <2>1, LenProperties DEF NoLease, IInv, WellTyped
  <2>3. QED
    BY <1>7, <2>1, <2>2 DEF One
<1>13. QED
  BY <1>9, <1>11, <1>12 DEF IInv

LEMMA RegisterFactoryStep == ASSUME IInv, NEW d \in Descriptors, RegisterFactory(d) PROVE IInv'
<1> DEFINE new == [ active |-> 0, draining |-> FALSE ]
           n == Len(states) + 1
<1>1. states \in Seq(LeaseState) /\ Len(states) \in Nat /\ DOMAIN states = 1 .. Len(states)
  BY LenProperties DEF IInv, WellTyped
<1>2. new \in LeaseState
  BY DEF LeaseState
<1>3. states' = Append(states, new) /\ Len(states) < MaxStates /\ UNCHANGED << held, queue, unloaded >>
  BY DEF RegisterFactory
<1>4. /\ states' \in Seq(LeaseState) /\ Len(states') = n /\ DOMAIN states' = 1 .. n
      /\ states'[n] = new /\ \A t \in DOMAIN states : states'[t] = states[t]
  BY <1>1, <1>2, <1>3, AppendProperties, LenProperties
<1>5. /\ \A r \in Owners : entry'[r] = entry[r] \/ entry'[r].state = n
      /\ DOMAIN entry' = Owners
  BY DEF RegisterFactory, IInv, WellTyped
<1>6. DOMAIN states \subseteq DOMAIN states' /\ n \in DOMAIN states' /\ n \notin DOMAIN states
  BY <1>1, <1>4
<1>7. WellTyped'
  <2>1. /\ states' \in Seq(LeaseState) /\ Len(states') <= MaxStates
        /\ unloaded' \subseteq DOMAIN states'
    BY <1>1, <1>3, <1>4, <1>6, PluginsAssumption DEF IInv, WellTyped
  <2>2. held' \in [ Holders -> { NoLease } \cup DOMAIN states' ]
    BY <1>3, <1>6 DEF IInv, WellTyped
  <2>3. DOMAIN entry' = Owners /\ \A r \in Owners : entry'[r] = NoEntry \/ entry'[r].state \in DOMAIN states'
    BY <1>5, <1>6 DEF IInv, WellTyped
  <2>4. /\ queue' \in Seq(Task) /\ Len(queue') <= Capacity
        /\ \A i \in DOMAIN queue' : queue'[i].state \in { NoLease } \cup DOMAIN states'
    BY <1>3, <1>6 DEF IInv, WellTyped
  <2>5. QED
    BY <2>1, <2>2, <2>3, <2>4 DEF WellTyped
<1>8. Leases(n) = 0
  <2>1. HeldOn(held, n) = {} /\ QueuedOn(queue, n) = {}
    BY <1>1, <1>6 DEF HeldOn, QueuedOn, NoLease, IInv, WellTyped
  <2>2. QED
    BY <2>1, FS_EmptySet, LeasesIs
<1>9. \A t : Leases(t)' = Leases(t)
  BY <1>3, LeasesIs
<1>10. Counted'
  <2> SUFFICES ASSUME NEW t \in DOMAIN states' PROVE states'[t].active = Leases(t)'
    BY DEF Counted
  <2>1. CASE t = n
    BY <1>4, <1>8, <1>9, <2>1
  <2>2. CASE t # n
    <3>1. t \in DOMAIN states
      BY <1>1, <1>4, <2>2
    <3>2. QED
      BY <1>4, <1>9, <3>1 DEF Counted, IInv
  <2>3. QED
    BY <2>1, <2>2
<1>11. UnloadedRest'
  BY <1>3, <1>4 DEF UnloadedRest, IInv, WellTyped
<1>12. QED
  BY <1>7, <1>10, <1>11 DEF IInv

LEMMA UnregisterFamilyStep == ASSUME IInv, UnregisterFamily PROVE IInv'
<1> DEFINE s == entry[App].state
<1>1. s \in DOMAIN states
  BY DEF UnregisterFamily, IInv, WellTyped, Owners
<1>2. states \in Seq(LeaseState) /\ states[s] \in LeaseState
  BY <1>1, ElementOfSeq, LenProperties DEF IInv, WellTyped
<1>3. [ states[s] EXCEPT !.draining = TRUE ] \in LeaseState
  BY <1>2 DEF LeaseState
<1>4. states' = [ states EXCEPT ![s] = [ states[s] EXCEPT !.draining = TRUE ] ]
  BY DEF UnregisterFamily
<1>5. UNCHANGED << held, queue >>
  BY DEF UnregisterFamily
<1>6. \/ states[s].active > 0 /\ entry' = entry /\ unloaded' = unloaded
      \/ states[s].active = 0 /\ entry' = [ entry EXCEPT ![App] = NoEntry ] /\ unloaded' = unloaded \cup { s }
  BY <1>2 DEF UnregisterFamily, LeaseState
<1> HIDE DEF s
<1>7. states' \in Seq(LeaseState) /\ Len(states') = Len(states) /\ DOMAIN states' = DOMAIN states
  BY <1>1, <1>2, <1>3, <1>4, ExceptSeq, LenProperties
<1>8. \A t \in DOMAIN states : /\ states'[t].active = states[t].active
                              /\ states'[t].draining = IF t = s THEN TRUE ELSE states[t].draining
  BY <1>1, <1>2, <1>4 DEF LeaseState
<1>9. WellTyped'
  BY <1>1, <1>5, <1>6, <1>7 DEF IInv, WellTyped, Owners
<1>10. \A t : Leases(t)' = Leases(t)
  BY <1>5, LeasesIs
<1>11. Counted'
  BY <1>7, <1>8, <1>10 DEF IInv, Counted
<1>12. UnloadedRest'
  BY <1>1, <1>6, <1>8 DEF IInv, UnloadedRest, WellTyped
<1>13. QED
  BY <1>9, <1>11, <1>12 DEF IInv

LEMMA ConstructStep == ASSUME IInv, NEW x \in Engines, Construct(x) PROVE IInv'
<1>1. entry' = [ entry EXCEPT ![x] = entry[App] ] /\ UNCHANGED << states, held, queue, unloaded >>
  BY DEF Construct
<1>2. WellTyped'
  <2>1. DOMAIN entry' = Owners
    BY <1>1 DEF IInv, WellTyped
  <2>2. \A r \in Owners : entry'[r] = entry[r] \/ entry'[r] = entry[App]
    BY <1>1 DEF IInv, WellTyped
  <2>3. QED
    BY <1>1, <2>1, <2>2 DEF IInv, WellTyped, Owners
<1>3. \A t : Leases(t)' = Leases(t)
  BY <1>1, LeasesIs
<1>4. QED
  BY <1>1, <1>2, <1>3 DEF IInv, Counted, UnloadedRest

(* A task whose lease is counted joins the queue. *)
LEMMA JoinStep ==
  ASSUME IInv, NEW task \in Task, task.state \in { NoLease } \cup DOMAIN states,
         Len(queue) < Capacity, queue' = Append(queue, task),
         UNCHANGED << entry, held, unloaded >>,
         states' \in Seq(LeaseState), Len(states') = Len(states), DOMAIN states' = DOMAIN states,
         \A t \in DOMAIN states : /\ states'[t].draining = states[t].draining
                                 /\ states'[t].active = states[t].active + One(task.state, t),
         task.state \notin unloaded
  PROVE  IInv'
<1>1. queue \in Seq(Task) /\ Len(queue) \in Nat /\ DOMAIN queue = 1 .. Len(queue)
  BY LenProperties DEF IInv, WellTyped
<1>2. /\ queue' \in Seq(Task) /\ Len(queue') = Len(queue) + 1 /\ DOMAIN queue' = 1 .. Len(queue) + 1
      /\ queue'[Len(queue) + 1] = task /\ \A i \in DOMAIN queue : queue'[i] = queue[i]
  BY <1>1, AppendProperties, LenProperties
<1>3. \A i \in DOMAIN queue' : queue'[i].state \in { NoLease } \cup DOMAIN states
  <2> SUFFICES ASSUME NEW i \in DOMAIN queue' PROVE queue'[i].state \in { NoLease } \cup DOMAIN states
    OBVIOUS
  <2>1. i \in DOMAIN queue \/ queue'[i] = task
    BY <1>1, <1>2
  <2>2. QED
    BY <1>2, <2>1 DEF IInv, WellTyped
<1>4. Len(queue') <= Capacity
  BY <1>1, <1>2, PluginsAssumption
<1>5. WellTyped'
  BY <1>2, <1>3, <1>4 DEF IInv, WellTyped
<1>6. Counted'
  <2> SUFFICES ASSUME NEW t \in DOMAIN states PROVE states'[t].active = Leases(t)'
    BY DEF Counted
  <2>1. Cardinality(QueuedOn(queue', t)) = Cardinality(QueuedOn(queue, t)) + One(task.state, t)
    BY <1>1, TaskJoins
  <2>2. /\ Cardinality(HeldOn(held, t)) \in Nat /\ Cardinality(QueuedOn(queue, t)) \in Nat
        /\ One(task.state, t) \in Nat
    BY <1>1, HeldOnFinite, QueuedOnFinite DEF One
  <2>3. states[t].active = Cardinality(HeldOn(held, t)) + Cardinality(QueuedOn(queue, t))
    BY LeasesIs DEF Counted, IInv
  <2>4. Leases(t)' = Cardinality(HeldOn(held, t)) + Cardinality(QueuedOn(queue', t))
    BY LeasesIs
  <2>5. QED
    BY <2>1, <2>2, <2>3, <2>4
<1>7. UnloadedRest'
  <2> SUFFICES ASSUME NEW t \in unloaded PROVE states'[t].draining /\ states'[t].active = 0
    BY DEF UnloadedRest
  <2>1. states[t].draining /\ states[t].active = 0 /\ t \in DOMAIN states
    BY DEF UnloadedRest, IInv, WellTyped
  <2>2. One(task.state, t) = 0
    BY DEF One
  <2>3. QED
    BY <2>1, <2>2
<1>8. QED
  BY <1>5, <1>6, <1>7 DEF IInv

LEMMA DispatchStep == ASSUME IInv, NEW x \in Engines, Dispatch(x) PROVE IInv'
<1> DEFINE e == entry[x].state
           task == [ engine |-> x, state |-> e ]
<1>1. e \in DOMAIN states /\ ~ states[e].draining
  BY DEF Dispatch, CanLease, Available, IInv, WellTyped, Owners
<1>2. UNCHANGED << entry, held, unloaded >>
  BY DEF Dispatch
<1>3. CASE Len(queue) >= Capacity
  <2>1. UNCHANGED << queue, states >>
    BY <1>3 DEF Dispatch, Submit
  <2>2. \A t : Leases(t)' = Leases(t)
    BY <1>2, <2>1, LeasesIs
  <2>3. QED
    BY <1>2, <2>1, <2>2 DEF IInv, WellTyped, Counted, UnloadedRest
<1>4. CASE ~ (Len(queue) >= Capacity)
  <2>1. queue' = Append(queue, task) /\ states' = Acquired(states, e)
    BY <1>4 DEF Dispatch, Submit
  <2>2. Len(queue) < Capacity
    BY <1>4, PluginsAssumption, LenProperties DEF IInv, WellTyped
  <2>3. states \in Seq(LeaseState) /\ task \in Task /\ task.state = e /\ e \notin unloaded
    BY <1>1, LenProperties DEF Task, Owners, IInv, WellTyped, UnloadedRest
  <2> HIDE DEF e, task
  <2>4. /\ states' \in Seq(LeaseState) /\ Len(states') = Len(states) /\ DOMAIN states' = DOMAIN states
        /\ \A t \in DOMAIN states : /\ states'[t].draining = states[t].draining
                                    /\ states'[t].active = states[t].active + One(e, t)
    BY <1>1, <2>1, <2>3, AcquiredIs
  <2>5. QED
    BY <1>1, <1>2, <2>1, <2>2, <2>3, <2>4, JoinStep
<1>5. QED
  BY <1>3, <1>4

LEMMA SubmitTaskStep == ASSUME IInv, SubmitTask PROVE IInv'
<1> DEFINE task == [ engine |-> App, state |-> NoLease ]
<1>1. UNCHANGED << entry, held, unloaded, states >>
  BY DEF SubmitTask, Submit
<1>2. CASE Len(queue) >= Capacity
  <2>1. UNCHANGED queue
    BY <1>2 DEF SubmitTask, Submit
  <2>2. \A t : Leases(t)' = Leases(t)
    BY <1>1, <2>1, LeasesIs
  <2>3. QED
    BY <1>1, <2>1, <2>2 DEF IInv, WellTyped, Counted, UnloadedRest
<1>3. CASE ~ (Len(queue) >= Capacity)
  <2>1. queue' = Append(queue, task)
    BY <1>3 DEF SubmitTask, Submit
  <2>2. Len(queue) < Capacity
    BY <1>3, PluginsAssumption, LenProperties DEF IInv, WellTyped
  <2>3. task \in Task /\ task.state = NoLease
    BY DEF Task, Owners, NoLease
  <2>4. states \in Seq(LeaseState) /\ NoLease \notin DOMAIN states /\ NoLease \notin unloaded
    BY LenProperties DEF IInv, WellTyped, NoLease
  <2>5. \A t \in DOMAIN states : states[t].active = states[t].active + One(NoLease, t)
    BY <2>4, StateIs DEF One
  <2> HIDE DEF task
  <2>6. QED
    BY <1>1, <2>1, <2>2, <2>3, <2>4, <2>5, JoinStep
<1>4. QED
  BY <1>2, <1>3

-----------------------------------------------------------------------------
(* Tasks leave *)

LEMMA LeavesStep == ASSUME IInv, NEW i \in DOMAIN queue, Leaves(i) PROVE IInv'
<1> DEFINE e == queue[i].state
<1>1. queue \in Seq(Task) /\ Len(queue) \in Nat /\ DOMAIN queue = 1 .. Len(queue)
  BY LenProperties DEF IInv, WellTyped
<1>2. e \in { NoLease } \cup DOMAIN states /\ (e # NoLease => states[e].active > 0)
  BY LiveIsCounted DEF IInv, WellTyped
<1>3. UNCHANGED << entry, held, unloaded >> /\ queue' = RemoveAt(queue, i)
  BY DEF Leaves
<1>4. states' = Released(states, e)
  BY DEF Leaves
<1> HIDE DEF e
<1>5. /\ states' \in Seq(LeaseState) /\ Len(states') = Len(states) /\ DOMAIN states' = DOMAIN states
      /\ \A t \in DOMAIN states : /\ states'[t].draining = states[t].draining
                                  /\ states'[t].active = states[t].active - One(e, t)
  BY <1>2, <1>4, ReleasedIs DEF IInv, WellTyped
<1>6. /\ queue' \in Seq(Task) /\ Len(queue') = Len(queue) - 1
      /\ \A k \in DOMAIN queue' : \E j \in DOMAIN queue : queue'[k] = queue[j]
      /\ \A t : Cardinality(QueuedOn(queue, t)) = Cardinality(QueuedOn(queue', t)) + One(e, t)
  BY <1>1, <1>3, TaskLeaves DEF e
<1>7. Len(queue') <= Capacity
  BY <1>1, <1>6, PluginsAssumption DEF IInv, WellTyped
<1>8. WellTyped'
  BY <1>3, <1>5, <1>6, <1>7 DEF IInv, WellTyped
<1>9. Counted'
  <2> SUFFICES ASSUME NEW t \in DOMAIN states PROVE states'[t].active = Leases(t)'
    BY <1>5 DEF Counted
  <2>1. Cardinality(QueuedOn(queue, t)) = Cardinality(QueuedOn(queue', t)) + One(e, t)
    BY <1>6
  <2>2. /\ Cardinality(HeldOn(held, t)) \in Nat /\ Cardinality(QueuedOn(queue, t)) \in Nat
        /\ Cardinality(QueuedOn(queue', t)) \in Nat /\ One(e, t) \in Nat
    BY <1>1, <1>6, HeldOnFinite, QueuedOnFinite DEF One
  <2>3. states[t].active = Cardinality(HeldOn(held, t)) + Cardinality(QueuedOn(queue, t))
    BY LeasesIs DEF Counted, IInv
  <2>4. Leases(t)' = Cardinality(HeldOn(held, t)) + Cardinality(QueuedOn(queue', t))
    BY <1>3, LeasesIs
  <2>5. QED
    BY <1>5, <2>1, <2>2, <2>3, <2>4
<1>10. UnloadedRest'
  <2> SUFFICES ASSUME NEW t \in unloaded PROVE states'[t].draining /\ states'[t].active = 0
    BY <1>3 DEF UnloadedRest
  <2>1. states[t].draining /\ states[t].active = 0 /\ t \in DOMAIN states /\ t # NoLease
    BY LenProperties DEF UnloadedRest, IInv, WellTyped, NoLease
  <2>2. One(e, t) = 0
    BY <1>2, <2>1 DEF One
  <2>3. QED
    BY <1>5, <2>1, <2>2
<1>11. QED
  BY <1>8, <1>9, <1>10 DEF IInv

LEMMA DrainAllStep == ASSUME IInv, DrainAll PROVE IInv'
<1>1. queue \in Seq(Task) /\ Len(queue) \in Nat /\ DOMAIN queue = 1 .. Len(queue)
  BY LenProperties DEF IInv, WellTyped
<1>2. PICK n \in 1 .. Len(queue) :
        /\ states' = [ s \in DOMAIN states |->
                         [ states[s] EXCEPT !.active =
                             IF @ > LeasesAhead(s, n) THEN @ - LeasesAhead(s, n) ELSE 0 ] ]
        /\ queue' = SubSeq(queue, n + 1, Len(queue))
        /\ UNCHANGED << entry, held, unloaded >>
  BY DEF DrainAll
<1>3. /\ queue' \in Seq(Task) /\ Len(queue') = Len(queue) - n
      /\ \A k \in 1 .. Len(queue) - n : queue'[k] = queue[n + k]
  <2>1. queue' = After(queue, n)
    BY <1>2 DEF After
  <2>2. QED
    BY <1>1, <2>1, FrontLeaves, Zenon
<1>4. \A t : /\ LeasesAhead(t, n) \in Nat
             /\ Cardinality(QueuedOn(queue, t)) = LeasesAhead(t, n) + Cardinality(QueuedOn(queue', t))
  <2>1. \A t : LeasesAhead(t, n) = Cardinality(FirstOn(queue, n, t))
    BY DEF LeasesAhead, FirstOn
  <2>2. queue' = After(queue, n)
    BY <1>2 DEF After
  <2>3. ASSUME NEW t
        PROVE  /\ Cardinality(FirstOn(queue, n, t)) \in Nat
               /\ Cardinality(QueuedOn(queue, t)) = Cardinality(FirstOn(queue, n, t))
                                                     + Cardinality(QueuedOn(After(queue, n), t))
    BY <1>1, FrontLeaves
  <2>4. QED
    BY <2>1, <2>2, <2>3
<1>5. states \in Seq(LeaseState) /\ Len(states) \in Nat /\ DOMAIN states = 1 .. Len(states)
  BY LenProperties DEF IInv, WellTyped
<1>6. \A t \in DOMAIN states :
        states[t].active = Cardinality(HeldOn(held, t)) + LeasesAhead(t, n) + Cardinality(QueuedOn(queue', t))
  <2> SUFFICES ASSUME NEW t \in DOMAIN states
               PROVE  states[t].active = Cardinality(HeldOn(held, t)) + LeasesAhead(t, n)
                                         + Cardinality(QueuedOn(queue', t))
    OBVIOUS
  <2>1. states[t].active = Cardinality(HeldOn(held, t)) + Cardinality(QueuedOn(queue, t))
    BY LeasesIs DEF Counted, IInv
  <2>2. Cardinality(HeldOn(held, t)) \in Nat /\ Cardinality(QueuedOn(queue', t)) \in Nat
    BY <1>3, HeldOnFinite, QueuedOnFinite
  <2>3. QED
    BY <1>4, <2>1, <2>2
<1>7. \A t \in DOMAIN states :
        /\ states'[t] \in LeaseState
        /\ states'[t].draining = states[t].draining
        /\ states'[t].active = Cardinality(HeldOn(held, t)) + Cardinality(QueuedOn(queue', t))
        /\ states'[t].active <= states[t].active
  <2> SUFFICES ASSUME NEW t \in DOMAIN states
               PROVE  /\ states'[t] \in LeaseState
                      /\ states'[t].draining = states[t].draining
                      /\ states'[t].active = Cardinality(HeldOn(held, t)) + Cardinality(QueuedOn(queue', t))
                      /\ states'[t].active <= states[t].active
    OBVIOUS
  <2> DEFINE a == IF states[t].active > LeasesAhead(t, n) THEN states[t].active - LeasesAhead(t, n) ELSE 0
  <2>1. states'[t] = [ states[t] EXCEPT !.active = a ]
    BY <1>2
  <2>2. states[t] \in LeaseState
    BY <1>5, ElementOfSeq
  <2>3. /\ Cardinality(HeldOn(held, t)) \in Nat /\ Cardinality(QueuedOn(queue', t)) \in Nat
        /\ LeasesAhead(t, n) \in Nat
    BY <1>3, <1>4, HeldOnFinite, QueuedOnFinite
  <2>4. a = Cardinality(HeldOn(held, t)) + Cardinality(QueuedOn(queue', t)) /\ a \in Nat /\ a <= states[t].active
    BY <1>6, <2>3
  <2> HIDE DEF a
  <2>5. QED
    BY <2>1, <2>2, <2>4 DEF LeaseState
<1>8. states' \in Seq(LeaseState) /\ Len(states') = Len(states) /\ DOMAIN states' = DOMAIN states
  <2>1. states' \in [ 1 .. Len(states) -> LeaseState ]
    BY <1>2, <1>5, <1>7
  <2>2. states' \in Seq(LeaseState) /\ DOMAIN states' = 1 .. Len(states)
    BY <1>5, <2>1, SeqDef
  <2>3. QED
    BY <1>5, <2>2, LenProperties
<1>9. \A k \in DOMAIN queue' : queue'[k].state \in { NoLease } \cup DOMAIN states
  <2> SUFFICES ASSUME NEW k \in 1 .. Len(queue) - n PROVE queue'[k].state \in { NoLease } \cup DOMAIN states
    BY <1>3, LenProperties
  <2>1. n + k \in DOMAIN queue
    BY <1>1, <1>2
  <2>2. QED
    BY <1>3, <2>1 DEF IInv, WellTyped
<1>10. Len(queue') <= Capacity
  BY <1>1, <1>2, <1>3, PluginsAssumption DEF IInv, WellTyped
<1>11. WellTyped'
  BY <1>2, <1>3, <1>8, <1>9, <1>10 DEF IInv, WellTyped
<1>12. Counted'
  <2>1. \A t : Leases(t)' = Cardinality(HeldOn(held, t)) + Cardinality(QueuedOn(queue', t))
    BY <1>2, LeasesIs
  <2>2. QED
    BY <1>7, <1>8, <2>1 DEF Counted
<1>13. UnloadedRest'
  <2> SUFFICES ASSUME NEW t \in unloaded PROVE states'[t].draining /\ states'[t].active = 0
    BY <1>2 DEF UnloadedRest
  <2>1. states[t].draining /\ states[t].active = 0 /\ t \in DOMAIN states
    BY DEF UnloadedRest, IInv, WellTyped
  <2>2. states'[t] \in LeaseState /\ states'[t].active <= states[t].active /\ states'[t].draining
    BY <1>7, <2>1
  <2>3. states'[t].active \in Nat
    BY <2>2 DEF LeaseState
  <2>4. QED
    BY <2>1, <2>2, <2>3
<1>14. QED
  BY <1>11, <1>12, <1>13 DEF IInv

-----------------------------------------------------------------------------
LEMMA StepKeepsIInv == IInv /\ [Next]_vars => IInv'
<1> SUFFICES ASSUME IInv, [Next]_vars PROVE IInv'
  OBVIOUS
<1>1. ASSUME NEW d \in Descriptors, RegisterFactory(d) PROVE IInv'
  BY <1>1, RegisterFactoryStep
<1>2. CASE UnregisterFamily
  BY <1>2, UnregisterFamilyStep
<1>3. ASSUME NEW h \in Holders, CreateLease(h) \/ Drop(h) PROVE IInv'
  BY <1>3, CreateLeaseStep, DropStep
<1>4. ASSUME NEW x \in Engines, Construct(x) \/ Dispatch(x) PROVE IInv'
  BY <1>4, ConstructStep, DispatchStep
<1>5. CASE SubmitTask
  BY <1>5, SubmitTaskStep
<1>6. CASE DrainOne
  <2>1. queue # << >> /\ Leaves(1)
    BY <1>6 DEF DrainOne, NextTask
  <2>2. 1 \in DOMAIN queue
    BY <2>1, EmptySeq, LenProperties DEF IInv, WellTyped
  <2>3. QED
    BY <2>1, <2>2, LeavesStep
<1>7. CASE DrainAll
  BY <1>7, DrainAllStep
<1>8. CASE Cancel
  BY <1>8, LeavesStep DEF Cancel
<1>9. CASE UNCHANGED vars
  <2>1. \A t : Leases(t)' = Leases(t)
    BY <1>9, LeasesIs DEF vars
  <2>2. QED
    BY <1>9, <2>1 DEF vars, IInv, WellTyped, Counted, UnloadedRest
<1>10. QED
  BY <1>1, <1>2, <1>3, <1>4, <1>5, <1>6, <1>7, <1>8, <1>9 DEF Next

LEMMA AlwaysIInv == Spec => []IInv
<1>1. Init => IInv
  BY InitInv
<1>2. IInv /\ [Next]_vars => IInv'
  BY StepKeepsIInv
<1>3. QED
  BY <1>1, <1>2, PTL DEF Spec

(* The count of a lease state is the number of leases that live on it, and *)
(* the state that unregister_family has erased with its entry has none,    *)
(* for any number of engines, holders and tasks.  It is about one state: a *)
(* family registered again may have leases on an older one.                *)
THEOREM UnloadAlwaysWaits == Spec => []UnloadWaits
<1>1. IInv => UnloadWaits
  <2> SUFFICES ASSUME IInv PROVE UnloadWaits
    OBVIOUS
  <2>1. TypeOK
    BY DEF TypeOK, IInv, WellTyped, NoEntry
  <2>2. \A s \in unloaded : Leases(s) = 0
    BY DEF IInv, WellTyped, Counted, UnloadedRest
  <2>3. QED
    BY <2>1, <2>2 DEF UnloadWaits, IInv, Counted
<1>2. QED
  BY <1>1, AlwaysIInv, PTL
=============================================================================
