-------------------------- MODULE ChannelState_proofs --------------------------
(***************************************************************************)
(* Proofs about the two parts of src/channel/channel_state.cpp, each a     *)
(* specification of its own.                                               *)
(*                                                                         *)
(* The channel table, for any number of slots, any width of the generation *)
(* and sequence counters and any credit window.  Lemma StepShape reduces   *)
(* every operation to one of three effects on one slot: a channel begins,  *)
(* a channel moves on in its life or its credit, or it hands out a         *)
(* sequence.  The theorems follow from these effects and the inductive     *)
(* invariant IInv.                                                         *)
(*                                                                         *)
(* The reassembly buffer, for any message cap, any message sequences and   *)
(* any bytes, with the inductive invariant BufferIInv.                     *)
(***************************************************************************)
EXTENDS ChannelTable, Reassembler, FiniteSetTheorems, SequenceTheorems, TLAPS

SlotOK(s) == s \in Slot /\ Coherent(s) /\ Conserved(s.flow)

(* What a call that begins no channel may make of a slot's life. *)
LivesOn(s, t) ==
  \/ Phase(t) = Phase(s) /\ ShutDirections(t) = ShutDirections(s)
  \/ /\ Phase(s) = "live" /\ Phase(t) = "live"
     /\ \E d \in Direction : ShutDirections(t) = ShutDirections(s) \cup {d}
  \/ Phase(s) = "live" /\ Phase(t) = "dead" /\ ShutDirections(t) = ShutDirections(s)
  \/ Phase(s) = "dead" /\ Phase(t) = "free" /\ ShutDirections(t) = ShutDirections(s)

(* The slot still carries the channel it carried. *)
Kept(s, t) ==
  /\ SlotOK(t)
  /\ t.generation = s.generation
  /\ t.next_send_seq = s.next_send_seq
  /\ LivesOn(s, t)

Began(n) ==
  \E state \in { "opening", "open" } :
    LET generation == NextGeneration(slots[n].generation) IN
    /\ slots[n].state = "free"
    /\ slots' = [ slots EXCEPT ![n] = FreshSlot(generation, state) ]
    /\ lineage' = [ lineage EXCEPT ![n] = Append(@, generation) ]
    /\ issued' = [ issued EXCEPT ![n] = {} ]

Moved(n) ==
  \E t : /\ Kept(slots[n], t)
         /\ slots' = [ slots EXCEPT ![n] = t ]
         /\ UNCHANGED << lineage, issued >>

Numbered(n) ==
  /\ slots[n].next_send_seq < MaxSequence
  /\ slots' = [ slots EXCEPT ![n].next_send_seq = @ + 1 ]
  /\ issued' = [ issued EXCEPT ![n] = @ \cup { slots[n].next_send_seq } ]
  /\ UNCHANGED lineage

-----------------------------------------------------------------------------
(* The inductive invariant *)

IssuedBelow ==
  \A n \in Numbers : \A q \in issued[n] : q < slots[n].next_send_seq

(* Generations count up by one, modulo the range of their counter. *)
LineageCounts ==
  \A n \in Numbers : \A j, k \in 1 .. Len(lineage[n]) :
    j <= k /\ k - j <= MaxGeneration =>
      \/ lineage[n][k] = lineage[n][j] + (k - j)
      \/ lineage[n][k] = lineage[n][j] + (k - j) - (MaxGeneration + 1)

LastIsPresent ==
  \A n \in Numbers : lineage[n] # << >> => slots[n].generation = lineage[n][Len(lineage[n])]

IInv ==
  /\ TypeOK /\ HalfCloseCoherent /\ CreditConserved
  /\ IssuedBelow /\ LineageCounts /\ LastIsPresent

-----------------------------------------------------------------------------
(* The operators on one slot *)

(* The eight-bit successor of a generation: one more, or 0 at the largest. *)
LEMMA NextGenerationIs ==
  ASSUME NEW g \in Generations
  PROVE  /\ NextGeneration(g) \in Generations
         /\ NextGeneration(g) = IF g = MaxGeneration THEN 0 ELSE g + 1
BY ChannelsAssumption DEF NextGeneration, Generations

(* Counting on by one keeps two generations at their distance. *)
LEMMA SuccessorDistance ==
  ASSUME NEW M \in Nat, NEW x \in 0 .. M, NEW g \in 0 .. M, NEW d \in 0 .. M - 1,
         g = x + d \/ g = x + d - (M + 1)
  PROVE  (IF g = M THEN 0 ELSE g + 1) \in { x + (d + 1), x + (d + 1) - (M + 1) }
OBVIOUS

(* The slot that allocate and accept_remote write is well formed. *)
LEMMA FreshSlotOK ==
  ASSUME NEW g \in Generations, NEW state \in { "free", "opening", "open" }
  PROVE  SlotOK(FreshSlot(g, state))
BY ChannelsAssumption
DEF FreshSlot, FullAccount, SlotOK, Slot, ChannelState, Coherent, Conserved

(* Bytes that are reserved and released within one call, as send and       *)
(* handle_data do, leave the account as it was.                            *)
THEOREM ReserveReleaseRestores ==
  ASSUME NEW flow \in [ available : Nat, reserved : Nat ], Conserved(flow),
         NEW amount \in Nat, CanReserve(flow, amount)
  PROVE  /\ CanRelease(Reserve(flow, amount), amount)
         /\ Release(Reserve(flow, amount), amount) = flow
BY ChannelsAssumption DEF CanReserve, CanRelease, Reserve, Release, Conserved

(* An accepted reserve or release conserves the account; no grant is accepted. *)
LEMMA FlowKept ==
  ASSUME NEW flow \in [ available : 0 .. ChannelWindow, reserved : 0 .. ChannelWindow ],
         Conserved(flow), NEW amount \in Nat
  PROVE  LET Fine(f) == /\ f \in [ available : 0 .. ChannelWindow, reserved : 0 .. ChannelWindow ]
                        /\ Conserved(f)
         IN  /\ CanReserve(flow, amount) => Fine(Reserve(flow, amount))
             /\ CanRelease(flow, amount) => Fine(Release(flow, amount))
             /\ GrantError(flow, amount) # "none"
BY ChannelsAssumption
DEF CanReserve, CanRelease, GrantError, Reserve, Release, Conserved

(* half_close of one slot keeps it coherent and shuts one direction. *)
LEMMA HalfClosedKept ==
  ASSUME NEW s \in Slot, SlotOK(s), NEW d \in Direction,
         s.state \in { "open", "local_closed", "remote_closed" }
  PROVE  Kept(s, HalfClosed(s, d))
<1> DEFINE t == HalfClosed(s, d)
<1>1. SlotOK(t) /\ t.generation = s.generation /\ t.next_send_seq = s.next_send_seq
  BY DEF SlotOK, Slot, ChannelState, Coherent, Conserved, HalfClosed, Direction
<1>2. Phase(s) = "live" /\ Phase(t) = "live"
  BY DEF HalfClosed, Phase, Slot
<1>3. ShutDirections(t) = ShutDirections(s) \cup {d}
  BY DEF HalfClosed, ShutDirections, Slot, Direction
<1>4. QED
  BY <1>1, <1>2, <1>3 DEF Kept, LivesOn

(* activate, reset and retire_tombstone move one slot within its life and  *)
(* keep its generation, its sequence and an exact account.                 *)
LEMMA StateKept ==
  ASSUME NEW s \in Slot, SlotOK(s)
  PROVE  /\ s.state = "opening" => Kept(s, [ s EXCEPT !.state = "open" ])
         /\ s.state \in LiveState => Kept(s, Emptied(s))
         /\ s.state = "tombstone" => Kept(s, [ s EXCEPT !.state = "free" ])
<1> USE DEF SlotOK, Slot, Coherent, Conserved, LiveState, ChannelState
<1>1. s.state = "opening" => Kept(s, [ s EXCEPT !.state = "open" ])
  BY DEF Kept, LivesOn, Phase, ShutDirections
<1>2. ASSUME s.state \in LiveState PROVE Kept(s, Emptied(s))
  <2>1. FullAccount \in [ available : 0 .. ChannelWindow, reserved : 0 .. ChannelWindow ]
        /\ Conserved(FullAccount)
    BY ChannelsAssumption DEF FullAccount
  <2>2. Emptied(s) \in Slot /\ Emptied(s).state = "tombstone" /\ Emptied(s).flow = FullAccount
    BY <2>1 DEF Emptied
  <2>3. /\ Emptied(s).generation = s.generation
        /\ Emptied(s).next_send_seq = s.next_send_seq
        /\ Emptied(s).local_half_closed = s.local_half_closed
        /\ Emptied(s).remote_half_closed = s.remote_half_closed
    BY DEF Emptied
  <2>4. QED
    BY <1>2, <2>1, <2>2, <2>3 DEF Kept, LivesOn, Phase, ShutDirections
<1>3. s.state = "tombstone" => Kept(s, [ s EXCEPT !.state = "free" ])
  BY DEF Kept, LivesOn, Phase, ShutDirections
<1>4. QED
  BY <1>1, <1>2, <1>3

(* A slot that handed out a sequence stays well formed. *)
LEMMA NumberedSlotOK ==
  ASSUME NEW s \in Slot, SlotOK(s), s.next_send_seq < MaxSequence
  PROVE  LET t == [ s EXCEPT !.next_send_seq = @ + 1 ] IN
         /\ SlotOK(t)
         /\ t.generation = s.generation
         /\ t.next_send_seq = s.next_send_seq + 1
         /\ Phase(t) = Phase(s) /\ ShutDirections(t) = ShutDirections(s)
<1> DEFINE t == [ s EXCEPT !.next_send_seq = @ + 1 ]
<1>1. t \in Slot /\ t.next_send_seq = s.next_send_seq + 1
  BY ChannelsAssumption DEF Slot
<1>2. /\ t.generation = s.generation /\ t.state = s.state /\ t.flow = s.flow
      /\ t.local_half_closed = s.local_half_closed
      /\ t.remote_half_closed = s.remote_half_closed
  BY DEF Slot
<1>3. QED
  BY <1>1, <1>2 DEF SlotOK, Coherent, Conserved, Phase, ShutDirections

(* A slot whose account was replaced by a conserving one stays well formed. *)
LEMMA AccountKept ==
  ASSUME NEW s \in Slot, SlotOK(s), Conserved(s.flow),
         NEW flow \in [ available : 0 .. ChannelWindow, reserved : 0 .. ChannelWindow ],
         Conserved(flow)
  PROVE  Kept(s, [ s EXCEPT !.flow = flow ])
BY DEF Kept, LivesOn, SlotOK, Slot, Coherent, Phase, ShutDirections, Conserved

-----------------------------------------------------------------------------
(* Every step is one of the three effects, or changes nothing. *)
LEMMA StepShape ==
  ASSUME TypeOK, HalfCloseCoherent, CreditConserved, Next
  PROVE  UNCHANGED vars \/ \E n \in Numbers : Began(n) \/ Moved(n) \/ Numbered(n)
<1>0. /\ \A n \in Numbers : slots[n] \in Slot /\ SlotOK(slots[n])
      /\ slots \in [ Numbers -> Slot ]
  BY DEF TypeOK, HalfCloseCoherent, CreditConserved, SlotOK
<1>1. ASSUME AllocateChannel PROVE UNCHANGED vars \/ \E n \in Numbers : Began(n)
  <2>1. CASE \E n \in Numbers : FirstFree(slots, n) /\ Birth(n, AllocateAt(slots, n))
    BY <2>1 DEF FirstFree, Birth, AllocateAt, Done, Refused, Began, FreshSlot, vars, TypeOK
  <2>2. CASE NoneFree(slots) /\ Call(Refused("resource_limit", slots))
    BY <2>2 DEF Call, Refused, vars
  <2>3. QED
    BY <1>1, <2>1, <2>2 DEF AllocateChannel
<1>2. ASSUME NEW id \in ChannelId, AcceptRemoteChannel(id)
      PROVE  UNCHANGED vars \/ \E n \in Numbers : Began(n)
  BY <1>2
  DEF AcceptRemoteChannel, AcceptRemote, Birth, Call, Done, Refused, Began, FreshSlot, vars, TypeOK
<1>3. ASSUME NEW id \in ChannelId, ActivateChannel(id)
      PROVE  UNCHANGED vars \/ \E n \in Numbers : Moved(n)
  BY <1>0, <1>3, StateKept DEF ActivateChannel, Activate, Call, Done, Refused, Found, Moved, vars
<1>4. ASSUME NEW id \in ChannelId, ReserveSequence(id)
      PROVE  UNCHANGED vars \/ \E n \in Numbers : Numbered(n)
  <2>1. CASE ReserveSendSequence(slots, id).error # "none"
    BY <1>4, <2>1 DEF ReserveSequence, ReserveSendSequence, Done, Refused, vars
  <2>2. CASE ReserveSendSequence(slots, id).error = "none"
    <3>1. Found(slots, id) /\ slots[id.number].next_send_seq # MaxSequence
      BY <2>2 DEF ReserveSendSequence, Done, Refused
    <3>2. id.number \in Numbers /\ slots[id.number].next_send_seq \in 1 .. MaxSequence
      BY <1>0, <3>1 DEF Found, Slot
    <3>3. Numbered(id.number)
      BY <1>4, <2>2, <3>1, <3>2, ChannelsAssumption
      DEF ReserveSequence, ReserveSendSequence, Done, Numbered
    <3>4. QED
      BY <3>2, <3>3
  <2>3. QED
    BY <2>1, <2>2
<1>5. ASSUME NEW id \in ChannelId, NEW direction \in Direction, HalfCloseChannel(id, direction)
      PROVE  UNCHANGED vars \/ \E n \in Numbers : Moved(n)
  BY <1>0, <1>5, HalfClosedKept
  DEF HalfCloseChannel, HalfClose, Call, Done, Refused, Found, Moved, vars
<1>6. ASSUME NEW id \in ChannelId, ResetChannel(id)
      PROVE  UNCHANGED vars \/ \E n \in Numbers : Moved(n)
  BY <1>0, <1>6, StateKept DEF ResetChannel, Reset, Call, Done, Refused, Found, Moved, vars
<1>7. ASSUME NEW id \in ChannelId, Retire(id)
      PROVE  UNCHANGED vars \/ \E n \in Numbers : Moved(n)
  BY <1>0, <1>7, StateKept DEF Retire, RetireTombstone, Call, Done, Refused, Moved, vars
<1>8. ASSUME NEW id \in ChannelId, NEW amount \in Amounts,
             \/ ReserveCredit(id, amount)
             \/ ReleaseCredit(id, amount)
             \/ GrantCredit(id, amount)
      PROVE  \E n \in Numbers : Moved(n)
  <2> DEFINE Account == [ available : 0 .. ChannelWindow, reserved : 0 .. ChannelWindow ]
  <2>1. PICK flow \in Account : Conserved(flow) /\ Found(slots, id) /\ OnFlow(id, flow)
    <3> DEFINE old == slots[id.number].flow
    <3>1. Found(slots, id) /\ old \in Account /\ Conserved(old) /\ amount \in Nat
      BY <1>0, <1>8 DEF ReserveCredit, ReleaseCredit, GrantCredit, Found, SlotOK, Slot, Amounts
    <3> HIDE DEF Account
    <3>2. CASE ReserveCredit(id, amount)
      BY <3>1, <3>2, FlowKept DEF ReserveCredit, Account
    <3>3. CASE ReleaseCredit(id, amount)
      BY <3>1, <3>3, FlowKept DEF ReleaseCredit, Account
    <3>4. CASE GrantCredit(id, amount)
      BY <3>1, <3>4, FlowKept DEF GrantCredit, Account
    <3>5. QED
      BY <1>8, <3>2, <3>3, <3>4
  <2>2. id.number \in Numbers /\ Kept(slots[id.number], [ slots[id.number] EXCEPT !.flow = flow ])
    BY <1>0, <2>1, AccountKept DEF Found, SlotOK
  <2>3. QED
    BY <2>1, <2>2 DEF OnFlow, Call, Done, Moved
<1>9. QED
  BY <1>1, <1>2, <1>3, <1>4, <1>5, <1>6, <1>7, <1>8 DEF Next

-----------------------------------------------------------------------------
(* The table that ChannelTable's constructor builds satisfies the invariant. *)
LEMMA InitIInv == Init => IInv
<1> SUFFICES ASSUME Init PROVE IInv
  OBVIOUS
<1>1. \A n \in Numbers : SlotOK(slots[n]) /\ lineage[n] = << >> /\ issued[n] = {}
  BY FreshSlotOK, ChannelsAssumption DEF Init, InitialTable, Generations
<1>2. TypeOK
  BY <1>1 DEF TypeOK, Init, InitialTable, SlotOK
<1>3. QED
  BY <1>1, <1>2
  DEF IInv, HalfCloseCoherent, CreditConserved, IssuedBelow, LineageCounts, LastIsPresent, SlotOK

(* A channel that begins takes the successor of the slot's generation. *)
LEMMA BeganKeepsLineage ==
  ASSUME IInv, NEW n \in Numbers, Began(n)
  PROVE  LineageCounts' /\ LastIsPresent'
<1>1. PICK state \in { "opening", "open" } :
        LET generation == NextGeneration(slots[n].generation) IN
        /\ slots' = [ slots EXCEPT ![n] = FreshSlot(generation, state) ]
        /\ lineage' = [ lineage EXCEPT ![n] = Append(@, generation) ]
  BY DEF Began
<1> DEFINE g    == slots[n].generation
           size == Len(lineage[n])
<1>2. /\ lineage \in [ Numbers -> Seq(Generations) ]
      /\ slots \in [ Numbers -> Slot ]
      /\ g \in Generations /\ size \in Nat
      /\ MaxGeneration \in Nat
  BY ChannelsAssumption DEF IInv, TypeOK, Slot
<1>3. \A m \in Numbers \ {n} : lineage'[m] = lineage[m] /\ slots'[m] = slots[m]
  BY <1>1, <1>2
<1>4. /\ lineage'[n] = Append(lineage[n], NextGeneration(g))
      /\ slots'[n].generation = NextGeneration(g)
  BY <1>1, <1>2 DEF FreshSlot
<1>5. /\ Len(lineage'[n]) = size + 1
      /\ lineage'[n][size + 1] = NextGeneration(g)
      /\ \A k \in 1 .. size : lineage'[n][k] = lineage[n][k] /\ lineage[n][k] \in Generations
  BY <1>2, <1>4, NextGenerationIs
<1>6. LastIsPresent'
  BY <1>2, <1>3, <1>4, <1>5 DEF LastIsPresent, IInv
<1>7. ASSUME NEW j \in 1 .. size, size + 1 - j <= MaxGeneration
      PROVE  NextGeneration(g) \in { lineage[n][j] + (size + 1 - j),
                                     lineage[n][j] + (size + 1 - j) - (MaxGeneration + 1) }
  <2>1. lineage[n][size] = g
    BY <1>2, <1>7 DEF LastIsPresent, IInv
  <2>2. \/ g = lineage[n][j] + (size - j)
        \/ g = lineage[n][j] + (size - j) - (MaxGeneration + 1)
    BY <1>2, <1>7, <2>1 DEF LineageCounts, IInv
  <2>3. lineage[n][j] \in 0 .. MaxGeneration /\ g \in 0 .. MaxGeneration
    BY <1>2, <1>5 DEF Generations
  <2>4. NextGeneration(g) = IF g = MaxGeneration THEN 0 ELSE g + 1
    BY <1>2, NextGenerationIs
  <2>5. /\ size - j \in 0 .. MaxGeneration - 1
        /\ (size - j) + 1 = size + 1 - j
    BY <1>2, <1>7
  <2> DEFINE x == lineage[n][j]
             d == size - j
  <2>6. /\ x \in 0 .. MaxGeneration /\ g \in 0 .. MaxGeneration
        /\ d \in 0 .. MaxGeneration - 1 /\ size + 1 - j = d + 1
        /\ g = x + d \/ g = x + d - (MaxGeneration + 1)
        /\ NextGeneration(g) = IF g = MaxGeneration THEN 0 ELSE g + 1
    BY <2>2, <2>3, <2>4, <2>5
  <2> HIDE DEF g, x, d
  <2>7. (IF g = MaxGeneration THEN 0 ELSE g + 1) \in { x + (d + 1), x + (d + 1) - (MaxGeneration + 1) }
    BY <1>2, <2>6, SuccessorDistance
  <2>8. NextGeneration(g) \in { x + (size + 1 - j), x + (size + 1 - j) - (MaxGeneration + 1) }
    BY <2>6, <2>7
  <2>9. QED
    BY <2>8 DEF x
<1>8. ASSUME NEW m \in Numbers, NEW j \in 1 .. Len(lineage'[m]), NEW k \in 1 .. Len(lineage'[m]),
             j <= k, k - j <= MaxGeneration
      PROVE  \/ lineage'[m][k] = lineage'[m][j] + (k - j)
             \/ lineage'[m][k] = lineage'[m][j] + (k - j) - (MaxGeneration + 1)
  <2>1. CASE m # n
    BY <1>3, <1>8, <2>1 DEF IInv, LineageCounts
  <2>2. CASE m = n /\ k <= size
    <3>1. j \in 1 .. size /\ k \in 1 .. size
      BY <1>2, <1>5, <1>8, <2>2
    <3>2. lineage'[n][j] = lineage[n][j] /\ lineage'[n][k] = lineage[n][k]
      BY <1>5, <3>1
    <3>3. \/ lineage[n][k] = lineage[n][j] + (k - j)
          \/ lineage[n][k] = lineage[n][j] + (k - j) - (MaxGeneration + 1)
      <4>1. LineageCounts
        BY DEF IInv
      <4>2. QED
        BY <1>2, <1>8, <3>1, <4>1 DEF LineageCounts
    <3>4. QED
      BY <2>2, <3>2, <3>3
  <2>3. CASE m = n /\ k = size + 1 /\ j <= size
    <3>1. j \in 1 .. size
      BY <1>2, <1>5, <1>8, <2>3
    <3>2. lineage'[n][j] = lineage[n][j] /\ lineage'[n][k] = NextGeneration(g)
      BY <1>5, <2>3, <3>1
    <3>3. size + 1 - j <= MaxGeneration /\ size + 1 - j = k - j
      BY <1>8, <2>3
    <3>4. NextGeneration(g) \in { lineage[n][j] + (size + 1 - j),
                                  lineage[n][j] + (size + 1 - j) - (MaxGeneration + 1) }
      BY <1>7, <3>1, <3>3
    <3>5. QED
      BY <2>3, <3>2, <3>3, <3>4
  <2>4. CASE m = n /\ k = size + 1 /\ j = size + 1
    <3>1. NextGeneration(g) \in Int
      BY <1>2, NextGenerationIs DEF Generations
    <3>2. QED
      BY <1>2, <1>5, <2>4, <3>1
  <2>5. QED
    BY <1>2, <1>5, <1>8, <2>1, <2>2, <2>3, <2>4
<1>9. QED
  BY <1>6, <1>8 DEF LineageCounts

(* Every public operation preserves the inductive invariant. *)
LEMMA NextIInv == IInv /\ [Next]_vars => IInv'
<1> SUFFICES ASSUME IInv, [Next]_vars PROVE IInv'
  OBVIOUS
<1>0. /\ slots \in [ Numbers -> Slot ]
      /\ lineage \in [ Numbers -> Seq(Generations) ]
      /\ issued \in [ Numbers -> SUBSET (1 .. MaxSequence) ]
      /\ \A n \in Numbers : SlotOK(slots[n])
      /\ MaxSequence \in Nat \ {0}
  BY ChannelsAssumption DEF IInv, TypeOK, SlotOK, HalfCloseCoherent, CreditConserved
<1>1. ASSUME NEW n \in Numbers, Began(n) PROVE IInv'
  <2>1. PICK state \in { "opening", "open" } :
          LET generation == NextGeneration(slots[n].generation) IN
          /\ slots' = [ slots EXCEPT ![n] = FreshSlot(generation, state) ]
          /\ lineage' = [ lineage EXCEPT ![n] = Append(@, generation) ]
          /\ issued' = [ issued EXCEPT ![n] = {} ]
    BY <1>1 DEF Began
  <2>2. NextGeneration(slots[n].generation) \in Generations
    BY <1>0, NextGenerationIs DEF Slot
  <2>3. SlotOK(FreshSlot(NextGeneration(slots[n].generation), state))
    BY <2>2, FreshSlotOK
  <2>4. \A m \in Numbers : SlotOK(slots'[m])
    BY <1>0, <2>1, <2>3
  <2>5. TypeOK'
    BY <1>0, <2>1, <2>2, <2>3 DEF TypeOK, SlotOK
  <2>6. IssuedBelow'
    BY <1>0, <2>1 DEF IInv, IssuedBelow
  <2>7. QED
    BY <1>1, <2>4, <2>5, <2>6, BeganKeepsLineage DEF IInv, HalfCloseCoherent, CreditConserved, SlotOK
<1>2. ASSUME NEW n \in Numbers, Moved(n) PROVE IInv'
  <2>1. PICK t : Kept(slots[n], t) /\ slots' = [ slots EXCEPT ![n] = t ]
    BY <1>2 DEF Moved
  <2>2. UNCHANGED << lineage, issued >>
    BY <1>2 DEF Moved
  <2>3. \A m \in Numbers : /\ SlotOK(slots'[m])
                           /\ slots'[m].generation = slots[m].generation
                           /\ slots'[m].next_send_seq = slots[m].next_send_seq
    BY <1>0, <2>1 DEF Kept
  <2>4. TypeOK'
    BY <1>0, <2>1, <2>2 DEF TypeOK, Kept, SlotOK
  <2>5. QED
    BY <2>2, <2>3, <2>4
    DEF IInv, HalfCloseCoherent, CreditConserved, SlotOK, IssuedBelow, LineageCounts, LastIsPresent
<1>3. ASSUME NEW n \in Numbers, Numbered(n) PROVE IInv'
  <2>1. /\ slots[n].next_send_seq \in 1 .. MaxSequence - 1
        /\ slots' = [ slots EXCEPT ![n].next_send_seq = @ + 1 ]
        /\ issued' = [ issued EXCEPT ![n] = @ \cup { slots[n].next_send_seq } ]
        /\ lineage' = lineage
    BY <1>0, <1>3 DEF Numbered, Slot
  <2> DEFINE t == [ slots[n] EXCEPT !.next_send_seq = @ + 1 ]
  <2>a. /\ SlotOK(t)
        /\ t.generation = slots[n].generation
        /\ t.next_send_seq = slots[n].next_send_seq + 1
    BY <1>0, <2>1, NumberedSlotOK
  <2>b. slots' = [ slots EXCEPT ![n] = t ]
    BY <2>1
  <2> HIDE DEF t
  <2>2. \A m \in Numbers : SlotOK(slots'[m]) /\ slots'[m].generation = slots[m].generation
    BY <1>0, <2>a, <2>b
  <2>3. TypeOK'
    <3>1. slots' \in [ Numbers -> Slot ]
      BY <1>0, <2>a, <2>b DEF SlotOK
    <3>2. slots[n].next_send_seq \in 1 .. MaxSequence
      BY <1>0, <2>1
    <3>3. issued' \in [ Numbers -> SUBSET (1 .. MaxSequence) ]
      BY <1>0, <2>1, <3>2
    <3>4. QED
      BY <1>0, <2>1, <3>1, <3>3 DEF TypeOK
  <2>4. IssuedBelow'
    <3>1. /\ slots'[n].next_send_seq = slots[n].next_send_seq + 1
          /\ \A m \in Numbers \ {n} : slots'[m] = slots[m] /\ issued'[m] = issued[m]
          /\ issued'[n] = issued[n] \cup { slots[n].next_send_seq }
      BY <1>0, <2>1, <2>a, <2>b
    <3>2. \A q \in issued[n] : q \in Int /\ q < slots[n].next_send_seq
      BY <1>0 DEF IInv, IssuedBelow
    <3>3. QED
      BY <2>1, <3>1, <3>2 DEF IInv, IssuedBelow
  <2>5. QED
    BY <2>1, <2>2, <2>3, <2>4
    DEF IInv, HalfCloseCoherent, CreditConserved, SlotOK, LineageCounts, LastIsPresent
<1>4. ASSUME UNCHANGED vars PROVE IInv'
  BY <1>4 DEF vars, IInv, TypeOK, HalfCloseCoherent, CreditConserved, IssuedBelow, LineageCounts,
              LastIsPresent
<1>5. QED
  BY <1>1, <1>2, <1>3, <1>4, StepShape DEF IInv

(* The inductive invariant holds in every reachable state. *)
LEMMA Invariance == Spec => []IInv
BY InitIInv, NextIInv, PTL DEF Spec

-----------------------------------------------------------------------------
(* The invariants of the runs *)

(* Every slot, counter and account of ChannelTable keeps its range. *)
THEOREM TypeCorrect == Spec => []TypeOK
<1>1. IInv => TypeOK
  BY DEF IInv
<1>2. QED
  BY <1>1, Invariance, PTL

(* half_close and reset never let a slot's state and flags drift apart. *)
THEOREM HalfClosesCohere == Spec => []HalfCloseCoherent
<1>1. IInv => HalfCloseCoherent
  BY DEF IInv
<1>2. QED
  BY <1>1, Invariance, PTL

(* No order of reserve, release, grant, reset and reuse loses or makes     *)
(* credit.                                                                 *)
THEOREM CreditIsConserved == Spec => []CreditConserved
<1>1. IInv => CreditConserved
  BY DEF IInv
<1>2. QED
  BY <1>1, Invariance, PTL

(* A CREDIT of any amount is refused in every state: the account never has *)
(* room for one, because the engine releases what it reserves within the   *)
(* call that reserved it and credit is conserved.                          *)
CreditNeverFits ==
  \A n \in Numbers : \A amount \in Nat : GrantError(slots[n].flow, amount) # "none"

THEOREM CreditIsAlwaysRefused == Spec => []CreditNeverFits
<1>1. IInv => CreditNeverFits
  BY FlowKept DEF IInv, TypeOK, Slot, CreditConserved, CreditNeverFits
<1>2. QED
  BY <1>1, Invariance, PTL

(* The generation check of find: two channels of one slot that are at most *)
(* MaxGeneration incarnations apart have different generations.            *)
THEOREM StaleIdsAreHarmless == Spec => []StaleIdsFindNothing
<1>1. ASSUME IInv, NEW n \in Numbers, NEW k \in 1 .. Len(lineage[n]) - 1,
             Len(lineage[n]) - k <= MaxGeneration
      PROVE  ~ Found(slots, IdOf(n, k))
  <2> DEFINE last == Len(lineage[n])
  <2>1. /\ last \in Nat /\ k \in 1 .. last /\ last \in 1 .. last /\ k < last
        /\ lineage[n][k] \in 0 .. MaxGeneration
        /\ MaxGeneration \in Nat
    BY <1>1, ChannelsAssumption DEF IInv, TypeOK, Generations
  <2>2. slots[n].generation = lineage[n][last]
    BY <1>1, <2>1 DEF IInv, LastIsPresent
  <2>3. \/ lineage[n][last] = lineage[n][k] + (last - k)
        \/ lineage[n][last] = lineage[n][k] + (last - k) - (MaxGeneration + 1)
    <3>1. k <= last /\ last - k <= MaxGeneration
      BY <1>1, <2>1
    <3>2. LineageCounts
      BY <1>1 DEF IInv
    <3>3. QED
      BY <2>1, <3>1, <3>2 DEF LineageCounts
  <2>4. lineage[n][last] # lineage[n][k]
    <3>1. PICK d \in 1 .. MaxGeneration : d = last - k
      BY <1>1, <2>1
    <3>2. lineage[n][k] + d # lineage[n][k] /\ lineage[n][k] + d - (MaxGeneration + 1) # lineage[n][k]
      BY <2>1, <3>1
    <3>3. QED
      BY <2>3, <3>1, <3>2
  <2>5. QED
    BY <2>2, <2>4 DEF Found, IdOf
<1>2. IInv => StaleIdsFindNothing
  BY <1>1 DEF IInv, StaleIdsFindNothing
<1>3. QED
  BY <1>2, Invariance, PTL

(* reserve_send_sequence hands out no sequence twice to a channel. *)
THEOREM SendSequencesAreUnique == Spec => SendSequencesUnique
<1> DEFINE Fresh(n) ==
      /\ lineage'[n] = lineage[n]
      /\ slots'[n].next_send_seq # slots[n].next_send_seq
      => /\ slots[n].next_send_seq \notin issued[n]
         /\ slots'[n].next_send_seq > slots[n].next_send_seq
<1>1. ASSUME IInv, [Next]_vars, NEW m \in Numbers PROVE Fresh(m)
  <2>0. /\ slots \in [ Numbers -> Slot ]
        /\ lineage \in [ Numbers -> Seq(Generations) ]
        /\ slots[m].next_send_seq \in Int
        /\ slots[m].next_send_seq \notin issued[m]
    <3>1. slots \in [ Numbers -> Slot ] /\ lineage \in [ Numbers -> Seq(Generations) ]
      BY <1>1 DEF IInv, TypeOK
    <3>2. slots[m].next_send_seq \in Int
      BY <3>1 DEF Slot
    <3>3. slots[m].next_send_seq \notin issued[m]
      BY <1>1, <3>2 DEF IInv, IssuedBelow
    <3>4. QED
      BY <3>1, <3>2, <3>3
  <2>1. CASE UNCHANGED vars
    BY <2>1 DEF vars
  <2>2. ASSUME NEW n \in Numbers, Began(n) PROVE Fresh(m)
    <3>1. CASE m = n
      <4>1. lineage'[n] = Append(lineage[n], NextGeneration(slots[n].generation))
        BY <2>0, <2>2 DEF Began
      <4>2. NextGeneration(slots[n].generation) \in Generations
        BY <2>0, NextGenerationIs DEF Slot
      <4>3. Len(lineage'[n]) = Len(lineage[n]) + 1 /\ Len(lineage[n]) \in Nat
        BY <2>0, <4>1, <4>2
      <4>4. lineage'[n] # lineage[n]
        BY <4>3
      <4>5. QED
        BY <3>1, <4>4
    <3>2. CASE m # n
      BY <2>0, <2>2, <3>2 DEF Began
    <3>3. QED
      BY <3>1, <3>2
  <2>3. ASSUME NEW n \in Numbers, Moved(n) PROVE Fresh(m)
    BY <2>0, <2>3 DEF Moved, Kept
  <2>4. ASSUME NEW n \in Numbers, Numbered(n) PROVE Fresh(m)
    <3>1. slots' = [ slots EXCEPT ![n].next_send_seq = @ + 1 ]
      BY <2>4 DEF Numbered
    <3>2. \/ slots'[m].next_send_seq = slots[m].next_send_seq
          \/ slots'[m].next_send_seq = slots[m].next_send_seq + 1
      BY <2>0, <3>1 DEF Slot
    <3>3. QED
      BY <2>0, <3>2
  <2>5. QED
    BY <1>1, <2>1, <2>2, <2>3, <2>4, StepShape DEF IInv
<1>2. IInv /\ [Next]_vars =>
        [ \A n \in Numbers : Fresh(n) ]_vars
  BY <1>1
<1>3. QED
  BY <1>2, Invariance, PTL DEF Spec, SendSequencesUnique

-----------------------------------------------------------------------------
(* The table implements SlotLifecycle: Began is Open, Moved is Shut, Kill, *)
(* Retire or no step at all, and Numbered is no step.                      *)
THEOREM ImplementsSlotLifecycle == Spec => ImplementsLifecycle
<1> USE DEF Lifecycle!lifecycle
<1>1. Init => Lifecycle!Init
  <2> SUFFICES ASSUME Init PROVE Lifecycle!Init
    OBVIOUS
  <2>1. \A n \in Numbers : /\ Phase(slots[n]) = "free"
                           /\ ShutDirections(slots[n]) = {}
                           /\ Len(lineage[n]) = 0
    BY DEF Init, InitialTable, FreshSlot, Phase, ShutDirections, Direction
  <2>2. QED
    BY <2>1 DEF Lifecycle!Init
<1>2. ASSUME IInv, [Next]_vars
      PROVE  [ Lifecycle!Next ]_(Lifecycle!lifecycle)
  <2> DEFINE phase       == [ n \in Numbers |-> Phase(slots[n]) ]
             incarnation == [ n \in Numbers |-> Len(lineage[n]) ]
             shut        == [ n \in Numbers |-> ShutDirections(slots[n]) ]
  <2>0. /\ slots \in [ Numbers -> Slot ]
        /\ lineage \in [ Numbers -> Seq(Generations) ]
        /\ \A n \in Numbers : SlotOK(slots[n])
    BY <1>2 DEF IInv, TypeOK, SlotOK, HalfCloseCoherent, CreditConserved
  <2>1. CASE UNCHANGED vars
    BY <2>1 DEF vars
  <2>2. ASSUME NEW n \in Numbers, Began(n) PROVE Lifecycle!Open(n)
    <3>1. PICK state \in { "opening", "open" } :
            LET generation == NextGeneration(slots[n].generation) IN
            /\ slots' = [ slots EXCEPT ![n] = FreshSlot(generation, state) ]
            /\ lineage' = [ lineage EXCEPT ![n] = Append(@, generation) ]
      BY <2>2 DEF Began
    <3> DEFINE generation == NextGeneration(slots[n].generation)
               t          == FreshSlot(generation, state)
    <3>2. Phase(slots[n]) = "free"
      BY <2>2 DEF Began, Phase
    <3>3. Phase(t) = "live" /\ ShutDirections(t) = {}
      BY DEF FreshSlot, Phase, ShutDirections, Direction
    <3>4. generation \in Generations
      BY <2>0, NextGenerationIs DEF Slot
    <3>5. Len(Append(lineage[n], generation)) = Len(lineage[n]) + 1
      BY <2>0, <3>4
    <3> HIDE DEF generation, t
    <3>6. slots' = [ slots EXCEPT ![n] = t ] /\ lineage' = [ lineage EXCEPT ![n] = Append(@, generation) ]
      BY <3>1 DEF generation, t
    <3>7. phase' = [ phase EXCEPT ![n] = "live" ]
      BY <2>0, <3>3, <3>6
    <3>8. incarnation' = [ incarnation EXCEPT ![n] = @ + 1 ]
      BY <2>0, <3>5, <3>6
    <3>9. shut' = [ shut EXCEPT ![n] = {} ]
      BY <2>0, <3>3, <3>6
    <3>10. QED
      BY <3>2, <3>7, <3>8, <3>9 DEF Lifecycle!Open
  <2>3. ASSUME NEW n \in Numbers, Moved(n)
        PROVE  [ Lifecycle!Next ]_(Lifecycle!lifecycle)
    <3>1. PICK t : Kept(slots[n], t) /\ slots' = [ slots EXCEPT ![n] = t ]
      BY <2>3 DEF Moved
    <3>2. incarnation' = incarnation
      BY <2>3 DEF Moved
    <3>3. /\ phase' = [ phase EXCEPT ![n] = Phase(t) ]
          /\ shut' = [ shut EXCEPT ![n] = ShutDirections(t) ]
      BY <2>0, <3>1
    <3>4. LivesOn(slots[n], t)
      BY <3>1 DEF Kept
    <3>5. CASE Phase(t) = Phase(slots[n]) /\ ShutDirections(t) = ShutDirections(slots[n])
      BY <3>2, <3>3, <3>5
    <3>6. ASSUME Phase(slots[n]) = "live", Phase(t) = "live",
                 NEW d \in Direction, ShutDirections(t) = ShutDirections(slots[n]) \cup {d}
          PROVE  Lifecycle!Shut(n, d)
      BY <3>2, <3>3, <3>6 DEF Lifecycle!Shut
    <3>7. CASE /\ Phase(slots[n]) = "live" /\ Phase(t) = "dead"
               /\ ShutDirections(t) = ShutDirections(slots[n])
      BY <3>2, <3>3, <3>7 DEF Lifecycle!Kill, Lifecycle!Next
    <3>8. CASE /\ Phase(slots[n]) = "dead" /\ Phase(t) = "free"
               /\ ShutDirections(t) = ShutDirections(slots[n])
      BY <3>2, <3>3, <3>8 DEF Lifecycle!Retire, Lifecycle!Next
    <3>9. QED
      BY <3>4, <3>5, <3>6, <3>7, <3>8 DEF LivesOn, Lifecycle!Next
  <2>4. ASSUME NEW n \in Numbers, Numbered(n)
        PROVE  UNCHANGED (Lifecycle!lifecycle)
    <3> DEFINE t == [ slots[n] EXCEPT !.next_send_seq = @ + 1 ]
    <3>1. Phase(t) = Phase(slots[n]) /\ ShutDirections(t) = ShutDirections(slots[n])
      BY <2>0, <2>4, NumberedSlotOK DEF Numbered
    <3>2. slots' = [ slots EXCEPT ![n] = t ] /\ lineage' = lineage
      BY <2>4 DEF Numbered
    <3> HIDE DEF t
    <3>3. phase' = phase /\ shut' = shut /\ incarnation' = incarnation
      BY <2>0, <3>1, <3>2
    <3>4. QED
      BY <3>3
  <2>5. QED
    BY <1>2, <2>1, <2>2, <2>3, <2>4, StepShape DEF IInv, Lifecycle!Next
<1>3. QED
  BY <1>1, <1>2, Invariance, PTL DEF Spec, ImplementsLifecycle, Lifecycle!Spec

-----------------------------------------------------------------------------
(* The reassembly buffer *)

(* Every byte retained, at its place. *)
Cells(pending) == UNION { {s} \X Held(pending[s].ranges) : s \in DOMAIN pending }

Fragment == [ offset : Nat, bytes : Payloads ]

(* The pairs of position and byte that some ranges carry. *)
Pairs(ranges) == UNION { PairsOf(r) : r \in ranges }

-----------------------------------------------------------------------------
(* The inductive invariant *)

(* The ranges of a message of that total lie inside it and agree. *)
RangesSound(ranges, total) ==
  /\ \A r \in ranges : r \in Fragment /\ RangeEnd(r) <= total
  /\ \A r, q \in ranges : ~ Conflicting(r, q)

(* A buffer that counts its bytes, some message perhaps being complete. *)
Sound(re) ==
  /\ DOMAIN re.pending \subseteq Sequence
  /\ \A s \in DOMAIN re.pending :
       /\ re.pending[s].total \in 1 .. MaxMessage
       /\ RangesSound(re.pending[s].ranges, re.pending[s].total)
  /\ IsFiniteSet(Cells(re.pending))
  /\ re.retained = Cardinality(Cells(re.pending))
  /\ re.retained <= MaxMessage

NoneComplete(re) ==
  \A s \in DOMAIN re.pending : ~ Covers(re.pending[s].ranges, re.pending[s].total)

BufferIInv ==
  /\ Sound(reassembler)
  /\ NoneComplete(reassembler)
  /\ accepted = [ s \in Sequence |-> Pairs(RangesOf(reassembler, s)) ]
  /\ DeliversWhatWasSent

-----------------------------------------------------------------------------
(* Ranges *)

LEMMA IntervalSize ==
  ASSUME NEW a \in Int, NEW b \in Int
  PROVE  IsFiniteSet(a .. b) /\ (a <= b + 1 => Cardinality(a .. b) = b - a + 1)
<1>1. IsFiniteSet(a .. b) /\ Cardinality(a .. b) = IF a > b THEN 0 ELSE b - a + 1
  BY FS_Interval
<1>2. QED
  BY <1>1

LEMMA PayloadIs ==
  ASSUME NEW b \in Payloads
  PROVE  b \in Seq(Byte) /\ Len(b) \in Nat
<1>1. PICK n \in 0 .. MaxMessage : b \in [ 1 .. n -> Byte ]
  BY DEF Payloads
<1>2. n \in Nat
  BY MaxMessageAssumption
<1>3. b \in Seq(Byte)
  BY <1>1, <1>2, SeqDef
<1>4. QED
  BY <1>3, LenProperties

(* A range of a message: its positions, its bytes and how many. *)
LEMMA FragmentIs ==
  ASSUME NEW r \in Fragment
  PROVE  /\ r.offset \in Nat /\ Len(r.bytes) \in Nat /\ RangeEnd(r) \in Nat
         /\ RangeEnd(r) = r.offset + Len(r.bytes)
         /\ \A pos : pos \in Positions(r) <=> pos \in Nat /\ r.offset <= pos /\ pos < RangeEnd(r)
         /\ \A pos \in Positions(r) : ByteAt(r, pos) \in Byte
         /\ IsFiniteSet(Positions(r)) /\ Cardinality(Positions(r)) = Len(r.bytes)
<1>1. r.offset \in Nat /\ r.bytes \in Seq(Byte) /\ Len(r.bytes) \in Nat
  BY PayloadIs DEF Fragment
<1>2. RangeEnd(r) \in Nat /\ RangeEnd(r) = r.offset + Len(r.bytes)
  BY <1>1 DEF RangeEnd
<1>3. \A pos : pos \in Positions(r) <=> pos \in Nat /\ r.offset <= pos /\ pos < RangeEnd(r)
  BY <1>1, <1>2 DEF Positions
<1>4. \A pos \in Positions(r) : ByteAt(r, pos) \in Byte
  <2>1. SUFFICES ASSUME NEW pos \in Positions(r) PROVE ByteAt(r, pos) \in Byte
    OBVIOUS
  <2>2. pos - r.offset + 1 \in 1 .. Len(r.bytes)
    BY <1>1, <1>2, <1>3
  <2>3. QED
    BY <1>1, <2>2, ElementOfSeq DEF ByteAt
<1>5. IsFiniteSet(Positions(r)) /\ Cardinality(Positions(r)) = Len(r.bytes)
  <2>1. PICK a \in Nat, n \in Nat : a = r.offset /\ n = Len(r.bytes) /\ Positions(r) = a .. (a + n) - 1
    BY <1>1, <1>2 DEF Positions
  <2>2. IsFiniteSet(a .. (a + n) - 1) /\ Cardinality(a .. (a + n) - 1) = n
    BY IntervalSize
  <2>3. QED
    BY <2>1, <2>2
<1>6. QED
  BY <1>1, <1>2, <1>3, <1>4, <1>5

(* Pairing a set with one value does not change its size. *)
LEMMA PairedWith ==
  ASSUME NEW a, NEW S, IsFiniteSet(S) \/ IsFiniteSet({a} \X S)
  PROVE  IsFiniteSet({a} \X S) /\ IsFiniteSet(S) /\ Cardinality({a} \X S) = Cardinality(S)
<1>1. CASE IsFiniteSet({a} \X S)
  <2>1. PICK f : f = [ x \in S |-> << a, x >> ]
    OBVIOUS
  <2>2. f \in Injection(S, {a} \X S) /\ f \in Surjection(S, {a} \X S)
    <3>1. f \in [ S -> {a} \X S ]
      BY <2>1
    <3>2. \A x, y \in S : f[x] = f[y] => x = y
      BY <2>1
    <3>3. \A t \in {a} \X S : \E x \in S : f[x] = t
      BY <2>1
    <3>4. QED
      BY <3>1, <3>2, <3>3 DEF Injection, Surjection, IsInjective
  <2>3. QED
    BY <1>1, <2>2, FS_Injection
<1>2. CASE IsFiniteSet(S)
  <2>1. IsFiniteSet({a} \X S)
    BY <1>2, FS_Singleton, FS_Product
  <2>2. QED
    BY <1>1, <2>1
<1>3. QED
  BY <1>1, <1>2

(* A fragment inside a range that it does not contradict brings no pair. *)
LEMMA ContainedBringsNothing ==
  ASSUME NEW f \in Fragment, NEW r \in Fragment, ContainedIn(f, r), ~ Conflicting(f, r)
  PROVE  PairsOf(f) \subseteq PairsOf(r)
<1>1. SUFFICES ASSUME NEW pos \in Positions(f)
               PROVE  pos \in Positions(r) /\ ByteAt(f, pos) = ByteAt(r, pos)
  BY DEF PairsOf
<1>2. pos \in Positions(r)
  BY FragmentIs DEF ContainedIn
<1>3. QED
  BY <1>2 DEF Conflicting

(* What is assembled is what the ranges carry. *)
LEMMA AssembleIs ==
  ASSUME NEW total \in Nat \ {0}, NEW ranges, RangesSound(ranges, total),
         Covers(ranges, total), NEW m, m = Assemble(ranges, total)
  PROVE  /\ m # NoMessage /\ Len(m) = total
         /\ { << i - 1, m[i] >> : i \in 1 .. Len(m) } = Pairs(ranges)
<1> DEFINE At(i) == CHOOSE r \in ranges : i - 1 \in Positions(r)
<1>1. \A i \in 1 .. total : At(i) \in ranges /\ i - 1 \in Positions(At(i))
  <2>1. SUFFICES ASSUME NEW i \in 1 .. total
                 PROVE  \E r \in ranges : i - 1 \in Positions(r)
    OBVIOUS
  <2>2. i - 1 \in 0 .. total - 1
    OBVIOUS
  <2>3. QED
    BY <2>2 DEF Covers
<1>2. m = [ i \in 1 .. total |-> ByteAt(At(i), i - 1) ]
  BY DEF Assemble
<1> HIDE DEF At
<1>3. \A i \in 1 .. total : m[i] = ByteAt(At(i), i - 1) /\ m[i] \in Byte
  BY <1>1, <1>2, FragmentIs DEF RangesSound
<1>4. m \in Seq(Byte) /\ Len(m) = total
  <2>1. m \in [ 1 .. total -> Byte ]
    BY <1>2, <1>3
  <2>2. QED
    BY <2>1, SeqDef, LenProperties
<1>5. m # << >>
  BY <1>4
<1>6. ASSUME NEW i \in 1 .. total PROVE << i - 1, m[i] >> \in Pairs(ranges)
  BY <1>1, <1>3 DEF Pairs, PairsOf
<1>7. ASSUME NEW p \in Pairs(ranges) PROVE \E i \in 1 .. total : p = << i - 1, m[i] >>
  <2>1. PICK r \in ranges : p \in PairsOf(r)
    BY DEF Pairs
  <2>2. PICK pos \in Positions(r) : p = << pos, ByteAt(r, pos) >>
    BY <2>1 DEF PairsOf
  <2>3. r \in Fragment /\ RangeEnd(r) <= total
    BY DEF RangesSound
  <2>4. pos \in Nat /\ pos + 1 \in 1 .. total /\ (pos + 1) - 1 = pos
    <3>1. pos \in Nat /\ pos < RangeEnd(r) /\ RangeEnd(r) \in Nat
      BY <2>3, FragmentIs
    <3>2. QED
      BY <2>3, <3>1
  <2>5. PICK i \in 1 .. total : i = pos + 1 /\ i - 1 = pos
    BY <2>4
  <2>6. At(i) \in ranges /\ pos \in Positions(At(i)) /\ m[i] = ByteAt(At(i), pos)
    BY <1>1, <1>3, <2>5
  <2>7. ~ Conflicting(r, At(i))
    BY <2>6 DEF RangesSound
  <2>8. m[i] = ByteAt(r, pos)
    BY <2>2, <2>6, <2>7 DEF Conflicting
  <2>9. QED
    BY <2>2, <2>5, <2>8
<1>8. QED
  BY <1>4, <1>5, <1>6, <1>7 DEF NoMessage

-----------------------------------------------------------------------------
(* The operations on a buffer *)

LEMMA CellIs ==
  ASSUME NEW pending, NEW cell
  PROVE  cell \in Cells(pending) <=>
           \E s \in DOMAIN pending : \E r \in pending[s].ranges : \E pos \in Positions(r) :
             cell = << s, << r, pos >> >>
BY DEF Cells, Held

(* Forgetting a message gives back its bytes and no others. *)
LEMMA ResetIs ==
  ASSUME NEW re, Sound(re), NEW seq, NEW new, new = ResetMessage(re, seq)
  PROVE  /\ Sound(new)
         /\ DOMAIN new.pending = DOMAIN re.pending \ {seq}
         /\ \A s \in DOMAIN new.pending : new.pending[s] = re.pending[s]
<1>1. CASE seq \notin DOMAIN re.pending
  BY <1>1 DEF ResetMessage
<1>2. CASE seq \in DOMAIN re.pending
  <2>1. PICK ranges : ranges = re.pending[seq].ranges
    OBVIOUS
  <2>2. /\ DOMAIN new.pending = DOMAIN re.pending \ {seq}
        /\ \A s \in DOMAIN new.pending : new.pending[s] = re.pending[s]
        /\ new.retained = re.retained - RetainedBy(ranges)
    BY <1>2, <2>1 DEF ResetMessage, Restrict
  <2>3. PICK old : old = {seq} \X Held(ranges)
    OBVIOUS
  <2>4. old \subseteq Cells(re.pending)
    BY <1>2, <2>1, <2>3 DEF Cells
  <2>5. Cells(new.pending) = Cells(re.pending) \ old
    <3>1. ASSUME NEW cell \in Cells(new.pending) PROVE cell \in Cells(re.pending) \ old
      <4>1. PICK s \in DOMAIN new.pending :
              \E r \in new.pending[s].ranges : \E pos \in Positions(r) : cell = << s, << r, pos >> >>
        BY <3>1, CellIs
      <4>2. s \in DOMAIN re.pending /\ s # seq /\ new.pending[s] = re.pending[s]
        BY <2>2
      <4>3. cell \in Cells(re.pending)
        BY <4>1, <4>2, CellIs
      <4>4. cell \notin old
        BY <2>3, <4>1, <4>2
      <4>5. QED
        BY <4>3, <4>4
    <3>2. ASSUME NEW cell \in Cells(re.pending) \ old PROVE cell \in Cells(new.pending)
      <4>1. PICK s \in DOMAIN re.pending :
              \E r \in re.pending[s].ranges : \E pos \in Positions(r) : cell = << s, << r, pos >> >>
        BY <3>2, CellIs
      <4>2. s # seq
        BY <2>1, <2>3, <3>2, <4>1 DEF Held
      <4>3. s \in DOMAIN new.pending /\ new.pending[s] = re.pending[s]
        BY <2>2, <4>2
      <4>4. QED
        BY <4>1, <4>3, CellIs
    <3>3. QED
      BY <3>1, <3>2
  <2>6. IsFiniteSet(Cells(re.pending)) /\ re.retained = Cardinality(Cells(re.pending))
        /\ re.retained <= MaxMessage
    BY DEF Sound
  <2>7. IsFiniteSet(old) /\ Cardinality(old) = RetainedBy(ranges)
    <3>1. IsFiniteSet(old)
      BY <2>4, <2>6, FS_Subset, Zenon
    <3>2. QED
      BY <2>3, <3>1, PairedWith DEF RetainedBy
  <2>8. /\ IsFiniteSet(Cells(new.pending))
        /\ Cardinality(Cells(new.pending)) = Cardinality(Cells(re.pending)) - Cardinality(old)
    <3>1. Cells(re.pending) \cap old = old
      BY <2>4
    <3>2. /\ IsFiniteSet(Cells(re.pending) \ old)
          /\ Cardinality(Cells(re.pending) \ old) =
               Cardinality(Cells(re.pending)) - Cardinality(Cells(re.pending) \cap old)
      BY <2>6, FS_Difference
    <3>3. QED
      BY <2>5, <3>1, <3>2, Zenon
  <2>9. new.retained = Cardinality(Cells(new.pending)) /\ new.retained <= MaxMessage
    <3>1. Cardinality(old) \in Nat /\ re.retained \in Nat
      BY <2>6, <2>7, FS_CardinalityType
    <3>2. QED
      BY <2>2, <2>6, <2>7, <2>8, <3>1, MaxMessageAssumption
  <2>10. QED
    BY <2>2, <2>8, <2>9 DEF Sound
<1>3. QED
  BY <1>1, <1>2

(* One more range counts for its bytes. *)
LEMMA KeepingIs ==
  ASSUME NEW re, Sound(re), NEW seq \in Sequence, NEW total \in 1 .. MaxMessage,
         seq \in DOMAIN re.pending => re.pending[seq].total = total,
         NEW f \in Fragment, RangeEnd(f) <= total, ~ OverBudget(re, f),
         \A r \in RangesOf(re, seq) : ~ Conflicting(f, r) /\ ~ ContainedIn(f, r),
         NEW kept,
         DOMAIN kept.pending = DOMAIN re.pending \cup {seq},
         kept.pending[seq].total = total,
         kept.pending[seq].ranges = RangesOf(re, seq) \cup {f},
         \A s \in DOMAIN re.pending \ {seq} : kept.pending[s] = re.pending[s],
         kept.retained = re.retained + Len(f.bytes)
  PROVE  Sound(kept)
<1> DEFINE ranges == RangesOf(re, seq) \cup {f}
<1>1. /\ DOMAIN kept.pending = DOMAIN re.pending \cup {seq}
      /\ kept.pending[seq].total = total /\ kept.pending[seq].ranges = ranges
      /\ \A s \in DOMAIN re.pending \ {seq} : kept.pending[s] = re.pending[s]
      /\ kept.retained = re.retained + Len(f.bytes)
  OBVIOUS
<1>2. RangesSound(RangesOf(re, seq), total)
  BY DEF Sound, RangesSound, RangesOf
<1>3. RangesSound(ranges, total)
  <2>1. \A r \in ranges : r \in Fragment /\ RangeEnd(r) <= total
    BY <1>2 DEF RangesSound
  <2>2. ~ Conflicting(f, f)
    BY DEF Conflicting
  <2>3. \A r : Conflicting(r, f) => Conflicting(f, r)
    BY DEF Conflicting
  <2>4. \A r, q \in ranges : ~ Conflicting(r, q)
    BY <1>2, <2>2, <2>3 DEF RangesSound
  <2>5. QED
    BY <2>1, <2>4 DEF RangesSound
<1>4. PICK added : added = {seq} \X ({f} \X Positions(f))
  OBVIOUS
<1>5. Cells(kept.pending) = Cells(re.pending) \cup added
  <2>1. ASSUME NEW cell \in Cells(kept.pending) PROVE cell \in Cells(re.pending) \cup added
    <3>1. PICK s \in DOMAIN kept.pending : \E r \in kept.pending[s].ranges :
            \E pos \in Positions(r) : cell = << s, << r, pos >> >>
      BY <2>1, CellIs
    <3>2. PICK r \in kept.pending[s].ranges :
            \E pos \in Positions(r) : cell = << s, << r, pos >> >>
      BY <3>1
    <3>3. CASE s = seq /\ r = f
      BY <1>4, <3>2, <3>3
    <3>4. CASE ~ (s = seq /\ r = f)
      <4>1. s \in DOMAIN re.pending /\ r \in re.pending[s].ranges
        BY <1>1, <3>4 DEF RangesOf
      <4>2. QED
        BY <3>2, <4>1, CellIs
    <3>5. QED
      BY <3>3, <3>4
  <2>2. ASSUME NEW cell \in Cells(re.pending) PROVE cell \in Cells(kept.pending)
    <3>1. PICK s \in DOMAIN re.pending : \E r \in re.pending[s].ranges :
            \E pos \in Positions(r) : cell = << s, << r, pos >> >>
      BY <2>2, CellIs
    <3>2. PICK r \in re.pending[s].ranges : \E pos \in Positions(r) : cell = << s, << r, pos >> >>
      BY <3>1
    <3>3. s \in DOMAIN kept.pending /\ r \in kept.pending[s].ranges
      BY <1>1 DEF RangesOf
    <3>4. QED
      BY <3>2, <3>3, CellIs
  <2>3. ASSUME NEW cell \in added PROVE cell \in Cells(kept.pending)
    <3>1. f \in kept.pending[seq].ranges /\ seq \in DOMAIN kept.pending
      BY <1>1
    <3>2. \E pos \in Positions(f) : cell = << seq, << f, pos >> >>
      BY <1>4, <2>3
    <3>3. QED
      BY <3>1, <3>2, CellIs
  <2>4. QED
    BY <2>1, <2>2, <2>3
<1>6. Cells(re.pending) \cap added = {}
  <2>1. SUFFICES ASSUME NEW cell \in Cells(re.pending), cell \in added PROVE FALSE
    OBVIOUS
  <2>2. PICK pos \in Positions(f) : cell = << seq, << f, pos >> >>
    BY <1>4, <2>1
  <2>3. f \in RangesOf(re, seq)
    BY <2>1, <2>2, CellIs DEF RangesOf
  <2>4. f.offset \in Nat /\ RangeEnd(f) \in Nat /\ pos \in Nat /\ f.offset <= pos /\ pos < RangeEnd(f)
    BY FragmentIs
  <2>5. ContainedIn(f, f)
    BY <2>4 DEF ContainedIn
  <2>6. QED
    BY <2>3, <2>5
<1>7. IsFiniteSet(added) /\ Cardinality(added) = Len(f.bytes) /\ Len(f.bytes) \in Nat
  <2>1. IsFiniteSet(Positions(f)) /\ Cardinality(Positions(f)) = Len(f.bytes) /\ Len(f.bytes) \in Nat
    BY FragmentIs
  <2>2. IsFiniteSet({f} \X Positions(f)) /\ Cardinality({f} \X Positions(f)) = Len(f.bytes)
    BY <2>1, PairedWith
  <2>3. IsFiniteSet(added) /\ Cardinality(added) = Cardinality({f} \X Positions(f))
    BY <1>4, <2>2, PairedWith, Zenon
  <2>4. QED
    BY <2>1, <2>2, <2>3
<1>8. IsFiniteSet(Cells(re.pending)) /\ re.retained = Cardinality(Cells(re.pending)) /\ re.retained \in Nat
  BY FS_CardinalityType DEF Sound
<1>9. /\ IsFiniteSet(Cells(kept.pending))
      /\ Cardinality(Cells(kept.pending)) = re.retained + Len(f.bytes)
  <2>1. /\ IsFiniteSet(Cells(re.pending) \cup added)
        /\ Cardinality(Cells(re.pending) \cup added) =
             Cardinality(Cells(re.pending)) + Cardinality(added)
               - Cardinality(Cells(re.pending) \cap added)
    BY <1>7, <1>8, FS_Union, Zenon
  <2>2. Cardinality(Cells(re.pending) \cap added) = 0
    BY <1>6, FS_EmptySet
  <2>3. PICK n \in Nat, k \in Nat : n = re.retained /\ k = Len(f.bytes)
    BY <1>7, <1>8
  <2>4. Cardinality(Cells(re.pending) \cup added) = n + k - 0
    BY <1>7, <1>8, <2>1, <2>2, <2>3
  <2>5. n + k - 0 = n + k
    OBVIOUS
  <2>6. QED
    BY <1>5, <2>1, <2>3, <2>4, <2>5
<1>10. kept.retained <= MaxMessage
  BY <1>1, <1>7, <1>8, MaxMessageAssumption DEF OverBudget
<1>11. \A s \in DOMAIN kept.pending :
         /\ kept.pending[s].total \in 1 .. MaxMessage
         /\ RangesSound(kept.pending[s].ranges, kept.pending[s].total)
  BY <1>1, <1>3 DEF Sound
<1>12. QED
  BY <1>1, <1>3, <1>9, <1>10, <1>11 DEF Sound

-----------------------------------------------------------------------------
(* The steps *)

LEMMA BufferInitIInv == BufferInit => BufferIInv
<1> SUFFICES ASSUME BufferInit PROVE BufferIInv
  OBVIOUS
<1>1. DOMAIN reassembler.pending = {} /\ reassembler.retained = 0
  BY DEF BufferInit, EmptyReassembler
<1>2. Cells(reassembler.pending) = {}
  BY <1>1 DEF Cells
<1>3. Sound(reassembler)
  BY <1>1, <1>2, FS_EmptySet, MaxMessageAssumption DEF Sound
<1>4. NoneComplete(reassembler)
  BY <1>1 DEF NoneComplete
<1>5. accepted = [ s \in Sequence |-> Pairs(RangesOf(reassembler, s)) ]
  BY <1>1 DEF BufferInit, RangesOf, Pairs
<1>6. DeliversWhatWasSent
  BY DEF BufferInit, Nothing, DeliversWhatWasSent
<1>7. QED
  BY <1>3, <1>4, <1>5, <1>6 DEF BufferIInv

(* A message is given up: nothing else is touched. *)
LEMMA ResetKeeps ==
  ASSUME Sound(reassembler), NoneComplete(reassembler), NEW seq \in Sequence,
         NEW new, new = ResetMessage(reassembler, seq)
  PROVE  /\ Sound(new) /\ NoneComplete(new)
         /\ RangesOf(new, seq) = {} /\ seq \notin DOMAIN new.pending
         /\ \A s \in Sequence \ {seq} : RangesOf(new, s) = RangesOf(reassembler, s)
<1>1. /\ Sound(new)
      /\ DOMAIN new.pending = DOMAIN reassembler.pending \ {seq}
      /\ \A s \in DOMAIN new.pending : new.pending[s] = reassembler.pending[s]
  BY ResetIs
<1>2. NoneComplete(new)
  BY <1>1 DEF NoneComplete
<1>3. QED
  BY <1>1, <1>2 DEF RangesOf

LEMMA GiveUpKeepsBuffer ==
  ASSUME BufferIInv, NEW seq \in Sequence, GiveUp(seq)
  PROVE  BufferIInv'
<1>1. reassembler' = ResetMessage(reassembler, seq)
  BY DEF GiveUp
<1>2. /\ Sound(reassembler') /\ NoneComplete(reassembler')
      /\ RangesOf(reassembler', seq) = {}
      /\ \A s \in Sequence \ {seq} : RangesOf(reassembler', s) = RangesOf(reassembler, s)
  BY <1>1, ResetKeeps DEF BufferIInv
<1>3. accepted' = [ s \in Sequence |-> Pairs(RangesOf(reassembler', s)) ]
  <2>1. accepted' = [ accepted EXCEPT ![seq] = {} ]
    BY DEF GiveUp
  <2>2. Pairs({}) = {}
    BY DEF Pairs
  <2>3. QED
    BY <1>2, <2>1, <2>2 DEF BufferIInv
<1>4. DeliversWhatWasSent'
  BY DEF GiveUp, Nothing, DeliversWhatWasSent
<1>5. QED
  BY <1>2, <1>3, <1>4 DEF BufferIInv

(* A fragment is refused, brings nothing, drops its message or is retained. *)
LEMMA InsertIs ==
  ASSUME BufferIInv, NEW seq \in Sequence, NEW total \in 0 .. MaxMessage + 1, NEW f \in Fragment,
         NEW result, result = Insert(reassembler, seq, total, f)
  PROVE  \/ /\ result.reassembler = reassembler /\ result.message = NoMessage
            /\ result.error = "none" => PairsOf(f) \subseteq Pairs(RangesOf(reassembler, seq))
         \/ result.reassembler = ResetMessage(reassembler, seq) /\ result.message = NoMessage
         \/ /\ result = Retain(reassembler, seq, total, f)
            /\ total \in 1 .. MaxMessage /\ RangeEnd(f) <= total
            /\ seq \in DOMAIN reassembler.pending => reassembler.pending[seq].total = total
            /\ \A r \in RangesOf(reassembler, seq) : ~ Conflicting(f, r) /\ ~ ContainedIn(f, r)
            /\ ~ OverBudget(reassembler, f)
<1> DEFINE old == RangesOf(reassembler, seq)
<1>1. CASE total = 0 \/ total > MaxMessage
  BY <1>1 DEF Insert, Inserted
<1>2. CASE ~ (total = 0 \/ total > MaxMessage) /\ RangeEnd(f) > total
  BY <1>2 DEF Insert, Inserted
<1>3. CASE /\ ~ (total = 0 \/ total > MaxMessage) /\ ~ (RangeEnd(f) > total)
           /\ seq \in DOMAIN reassembler.pending /\ reassembler.pending[seq].total # total
  BY <1>3 DEF Insert, Inserted
<1> DEFINE Valid == /\ ~ (total = 0 \/ total > MaxMessage) /\ ~ (RangeEnd(f) > total)
                    /\ ~ (/\ seq \in DOMAIN reassembler.pending
                          /\ reassembler.pending[seq].total # total)
<1>4. CASE Valid /\ \E r \in old : Conflicting(f, r)
  BY <1>4 DEF Insert, Inserted
<1>5. CASE Valid /\ ~ (\E r \in old : Conflicting(f, r)) /\ \E r \in old : ContainedIn(f, r)
  <2>1. result.reassembler = reassembler /\ result.message = NoMessage
    BY <1>5 DEF Insert, Inserted
  <2>2. PICK r \in old : ContainedIn(f, r) /\ ~ Conflicting(f, r)
    BY <1>5
  <2>3. r \in Fragment
    BY <2>2 DEF BufferIInv, Sound, RangesSound, RangesOf
  <2>4. PairsOf(f) \subseteq PairsOf(r)
    BY <2>2, <2>3, ContainedBringsNothing
  <2>5. QED
    BY <2>1, <2>2, <2>4 DEF Pairs
<1>6. CASE /\ Valid /\ ~ (\E r \in old : Conflicting(f, r)) /\ ~ (\E r \in old : ContainedIn(f, r))
           /\ OverBudget(reassembler, f)
  BY <1>6 DEF Insert, Inserted
<1>7. CASE /\ Valid /\ ~ (\E r \in old : Conflicting(f, r)) /\ ~ (\E r \in old : ContainedIn(f, r))
           /\ ~ OverBudget(reassembler, f)
  <2>1. result = Retain(reassembler, seq, total, f)
    BY <1>7 DEF Insert
  <2>2. RangeEnd(f) <= total /\ total \in 1 .. MaxMessage
    BY <1>7, FragmentIs, MaxMessageAssumption
  <2>3. QED
    BY <1>7, <2>1, <2>2
<1>8. QED
  BY <1>1, <1>2, <1>3, <1>4, <1>5, <1>6, <1>7

LEMMA InsertKeepsBuffer ==
  ASSUME BufferIInv, NEW seq \in Sequence, NEW total \in 0 .. MaxMessage + 1,
         NEW f \in FragmentsOnWire, InsertFragment(seq, total, f)
  PROVE  BufferIInv'
<1>1. f \in Fragment
  BY MaxMessageAssumption DEF FragmentsOnWire, Fragment
<1>2. PICK result : result = Insert(reassembler, seq, total, f)
  OBVIOUS
<1> DEFINE seen == accepted[seq] \cup PairsOf(f)
<1>3. /\ reassembler' = result.reassembler
      /\ accepted' = [ accepted EXCEPT ![seq] =
                         IF seq \notin DOMAIN result.reassembler.pending THEN {}
                         ELSE IF result.error = "none" THEN seen
                         ELSE @ ]
      /\ delivered' = IF result.message = NoMessage THEN Nothing
                      ELSE [ total |-> total, message |-> result.message, bytes |-> seen ]
  BY <1>2 DEF InsertFragment
<1>4. Sound(reassembler) /\ NoneComplete(reassembler)
      /\ accepted = [ s \in Sequence |-> Pairs(RangesOf(reassembler, s)) ]
  BY DEF BufferIInv
<1>5. Pairs({}) = {}
  BY DEF Pairs
<1>6. result.message = NoMessage => DeliversWhatWasSent'
  BY <1>3 DEF Nothing, DeliversWhatWasSent
<1>7. CASE /\ result.reassembler = reassembler /\ result.message = NoMessage
           /\ result.error = "none" => PairsOf(f) \subseteq Pairs(RangesOf(reassembler, seq))
  <2>1. accepted' = [ s \in Sequence |-> Pairs(RangesOf(reassembler, s)) ]
    <3>1. seq \notin DOMAIN reassembler.pending => Pairs(RangesOf(reassembler, seq)) = {}
      BY <1>5 DEF RangesOf
    <3>2. result.error = "none" => seen = accepted[seq]
      BY <1>4, <1>7
    <3>3. accepted' = [ accepted EXCEPT ![seq] = accepted[seq] ]
      BY <1>3, <1>4, <1>7, <3>1, <3>2
    <3>4. QED
      BY <1>4, <3>3
  <2>2. QED
    BY <1>3, <1>4, <1>6, <1>7, <2>1 DEF BufferIInv
<1>8. CASE result.reassembler = ResetMessage(reassembler, seq) /\ result.message = NoMessage
  <2>1. PICK new : new = ResetMessage(reassembler, seq) /\ reassembler' = new
    BY <1>3, <1>8
  <2>2. /\ Sound(new) /\ NoneComplete(new)
        /\ RangesOf(new, seq) = {} /\ seq \notin DOMAIN new.pending
        /\ \A s \in Sequence \ {seq} : RangesOf(new, s) = RangesOf(reassembler, s)
    BY <1>4, <2>1, ResetKeeps
  <2>3. accepted' = [ accepted EXCEPT ![seq] = {} ]
    BY <1>3, <1>8, <2>1, <2>2
  <2>4. accepted' = [ s \in Sequence |-> Pairs(RangesOf(new, s)) ]
    BY <1>4, <1>5, <2>2, <2>3
  <2>5. QED
    BY <1>6, <1>8, <2>1, <2>2, <2>4 DEF BufferIInv
<1>9. CASE /\ result = Retain(reassembler, seq, total, f)
           /\ total \in 1 .. MaxMessage /\ RangeEnd(f) <= total
           /\ seq \in DOMAIN reassembler.pending => reassembler.pending[seq].total = total
           /\ \A r \in RangesOf(reassembler, seq) : ~ Conflicting(f, r) /\ ~ ContainedIn(f, r)
           /\ ~ OverBudget(reassembler, f)
  <2>1. PICK ranges : ranges = RangesOf(reassembler, seq) \cup {f}
    OBVIOUS
  <2>2. PICK kept :
          kept = [ pending  |-> [ s \in DOMAIN reassembler.pending \cup {seq} |->
                                    IF s = seq THEN [ total |-> total, ranges |-> ranges ]
                                    ELSE reassembler.pending[s] ],
                   retained |-> reassembler.retained + Len(f.bytes) ]
    OBVIOUS
  <2>3. /\ DOMAIN kept.pending = DOMAIN reassembler.pending \cup {seq}
        /\ kept.pending[seq].total = total /\ kept.pending[seq].ranges = ranges
        /\ \A s \in DOMAIN reassembler.pending \ {seq} : kept.pending[s] = reassembler.pending[s]
        /\ kept.retained = reassembler.retained + Len(f.bytes)
    BY <2>2
  <2>4. Sound(kept) /\ RangesSound(ranges, total)
    <3>1. Sound(kept)
      BY <1>1, <1>4, <1>9, <2>1, <2>3, KeepingIs
    <3>2. QED
      BY <2>3, <3>1 DEF Sound
  <2>5. seen = Pairs(ranges)
    BY <1>4, <2>1 DEF Pairs
  <2>6. CASE Covers(ranges, total)
    <3>1. /\ result.error = "none" /\ result.reassembler = ResetMessage(kept, seq)
          /\ result.message = Assemble(ranges, total)
      BY <1>9, <2>1, <2>2, <2>6 DEF Retain, Inserted
    <3>2. PICK new : new = ResetMessage(kept, seq) /\ reassembler' = new
      BY <1>3, <3>1
    <3>3. /\ Sound(new)
          /\ DOMAIN new.pending = DOMAIN kept.pending \ {seq}
          /\ \A s \in DOMAIN new.pending : new.pending[s] = kept.pending[s]
      BY <2>4, <3>2, ResetIs
    <3>4. /\ DOMAIN new.pending = DOMAIN reassembler.pending \ {seq}
          /\ \A s \in DOMAIN new.pending : new.pending[s] = reassembler.pending[s]
      BY <2>3, <3>3
    <3>5. NoneComplete(new)
      BY <1>4, <3>4 DEF NoneComplete
    <3>6. RangesOf(new, seq) = {} /\ \A s \in Sequence \ {seq} : RangesOf(new, s) = RangesOf(reassembler, s)
      BY <3>4 DEF RangesOf
    <3>7. accepted' = [ accepted EXCEPT ![seq] = {} ]
      BY <1>3, <3>1, <3>2, <3>4
    <3>8. accepted' = [ s \in Sequence |-> Pairs(RangesOf(new, s)) ]
      BY <1>4, <1>5, <3>6, <3>7
    <3>9. DeliversWhatWasSent'
      <4>1. PICK m : m = Assemble(ranges, total)
        OBVIOUS
      <4>2. /\ m # NoMessage /\ Len(m) = total
            /\ { << i - 1, m[i] >> : i \in 1 .. Len(m) } = Pairs(ranges)
        BY <1>9, <2>4, <2>6, <4>1, AssembleIs
      <4>3. delivered' = [ total |-> total, message |-> m, bytes |-> Pairs(ranges) ]
        BY <1>3, <2>5, <3>1, <4>1, <4>2
      <4>4. QED
        BY <4>2, <4>3 DEF DeliversWhatWasSent
    <3>10. QED
      BY <3>2, <3>3, <3>5, <3>8, <3>9 DEF BufferIInv
  <2>7. CASE ~ Covers(ranges, total)
    <3>1. result.error = "none" /\ result.reassembler = kept /\ result.message = NoMessage
      BY <1>9, <2>1, <2>2, <2>7 DEF Retain, Inserted
    <3>2. NoneComplete(kept)
      BY <1>4, <2>3, <2>7 DEF NoneComplete
    <3>3. RangesOf(kept, seq) = ranges /\ \A s \in Sequence \ {seq} : RangesOf(kept, s) = RangesOf(reassembler, s)
      BY <2>3 DEF RangesOf
    <3>4. accepted' = [ accepted EXCEPT ![seq] = Pairs(ranges) ]
      BY <1>3, <2>3, <2>5, <3>1
    <3>5. accepted' = [ s \in Sequence |-> Pairs(RangesOf(kept, s)) ]
      BY <1>4, <3>3, <3>4
    <3>6. reassembler' = kept
      BY <1>3, <3>1
    <3>7. QED
      BY <1>6, <2>4, <3>1, <3>2, <3>5, <3>6 DEF BufferIInv
  <2>8. QED
    BY <2>6, <2>7
<1>10. QED
  BY <1>1, <1>2, <1>7, <1>8, <1>9, InsertIs

LEMMA BufferNextIInv == BufferIInv /\ [BufferNext]_bufferVars => BufferIInv'
<1>1. ASSUME BufferIInv, UNCHANGED bufferVars PROVE BufferIInv'
  BY <1>1 DEF bufferVars, BufferIInv, DeliversWhatWasSent
<1>2. QED
  BY <1>1, InsertKeepsBuffer, GiveUpKeepsBuffer DEF BufferNext

LEMMA BufferInvariance == BufferSpec => []BufferIInv
BY BufferInitIInv, BufferNextIInv, PTL DEF BufferSpec

-----------------------------------------------------------------------------
(* The theorems *)

(* Reassembler::insert and reset_message: retained_ is the number of bytes *)
(* of the ranges that are pending, on every path, and within its cap.      *)
THEOREM RetainedAlwaysExact == BufferSpec => []RetainedIsExact
<1>1. ASSUME BufferIInv PROVE RetainedIsExact
  <2>1. reassembler.retained = Cardinality(Cells(Pending)) /\ reassembler.retained \in 0 .. MaxMessage
    BY <1>1, FS_CardinalityType, MaxMessageAssumption DEF BufferIInv, Sound, Pending
  <2>2. \A s \in DOMAIN Pending : \A r \in Pending[s].ranges :
          r.bytes \in Payloads /\ RangeEnd(r) <= Pending[s].total
    BY <1>1 DEF BufferIInv, Sound, RangesSound, Fragment, Pending
  <2>3. BufferTypeOK
    BY <1>1, <2>1, <2>2 DEF BufferIInv, Sound, BufferTypeOK, Pending
  <2>4. QED
    BY <2>1, <2>3 DEF RetainedIsExact, Cells
<1>2. QED
  BY <1>1, BufferInvariance, PTL

(* The overlap test of Reassembler::insert lets no two ranges disagree. *)
THEOREM RangesAlwaysAgree == BufferSpec => []RangesAgree
<1>1. BufferIInv => RangesAgree
  BY DEF BufferIInv, Sound, RangesSound, RangesAgree, Pending, Conflicting
<1>2. QED
  BY <1>1, BufferInvariance, PTL

(* The contiguous scan of Reassembler::insert finds a message complete as  *)
(* soon as each of its positions has been accepted.                        *)
THEOREM CompleteNeverKept == BufferSpec => []NothingCompleteIsKept
<1>1. ASSUME BufferIInv PROVE NothingCompleteIsKept
  <2>1. SUFFICES ASSUME NEW s \in DOMAIN Pending
                 PROVE  \E pos \in 0 .. Pending[s].total - 1 : \A pair \in accepted[s] : pair[1] # pos
    BY DEF NothingCompleteIsKept
  <2>2. PICK pos \in 0 .. Pending[s].total - 1 : \A r \in Pending[s].ranges : pos \notin Positions(r)
    BY <1>1 DEF BufferIInv, NoneComplete, Covers, Pending
  <2>3. accepted[s] = Pairs(Pending[s].ranges)
    BY <1>1 DEF BufferIInv, Sound, RangesOf, Pending
  <2>4. QED
    BY <2>2, <2>3 DEF Pairs, PairsOf
<1>2. QED
  BY <1>1, BufferInvariance, PTL

(* The message Reassembler::insert copies together is what was accepted.   *)
THEOREM AlwaysDeliversWhatWasSent == BufferSpec => []DeliversWhatWasSent
<1>1. BufferIInv => DeliversWhatWasSent
  BY DEF BufferIInv
<1>2. QED
  BY <1>1, BufferInvariance, PTL
=============================================================================
