----------------------------- MODULE ChannelTable -----------------------------
(***************************************************************************)
(* The channel table of one connection under every sequence of calls its   *)
(* users can make, with ids they obtained long ago included: each action   *)
(* is one public operation of ChannelTable or of a slot's FlowAccount      *)
(* (src/channel/channel_state.cpp); a refused call changes nothing.        *)
(***************************************************************************)
EXTENDS Channels

CONSTANT MaxIncarnations   \* bound of the model: channels hosted by one slot

ASSUME MaxIncarnationsAssumption == MaxIncarnations \in Nat

VARIABLES
  slots,     \* slots_
  lineage,   \* history: lineage[n], the generations slot n has carried, oldest first
  issued     \* history: issued[n], the send sequences handed out to the present channel of slot n

vars == << slots, lineage, issued >>

Slot == [ generation : Generations, state : ChannelState,
          next_send_seq : 1 .. MaxSequence, next_recv_seq : {1},
          local_half_closed : BOOLEAN, remote_half_closed : BOOLEAN,
          flow : [ available : 0 .. ChannelWindow, reserved : 0 .. ChannelWindow ],
          reassembler : { EmptyReassembler } ]

Init ==
  /\ slots = InitialTable
  /\ lineage = [ n \in Numbers |-> << >> ]
  /\ issued = [ n \in Numbers |-> {} ]

(* A call that cannot begin a new incarnation. *)
Call(outcome) ==
  /\ slots' = outcome.table
  /\ UNCHANGED << lineage, issued >>

(* A call that begins the next incarnation of slot n when it succeeds. *)
Birth(n, outcome) ==
  /\ slots' = outcome.table
  /\ IF outcome.error = "none"
     THEN /\ Len(lineage[n]) < MaxIncarnations
          /\ lineage' = [ lineage EXCEPT ![n] = Append(@, outcome.table[n].generation) ]
          /\ issued' = [ issued EXCEPT ![n] = {} ]
     ELSE UNCHANGED << lineage, issued >>

AllocateChannel ==
  \/ \E n \in Numbers : FirstFree(slots, n) /\ Birth(n, AllocateAt(slots, n))
  \/ NoneFree(slots) /\ Call(Refused("resource_limit", slots))

AcceptRemoteChannel(id) ==
  IF id.number \in Numbers
  THEN Birth(id.number, AcceptRemote(slots, id))
  ELSE Call(AcceptRemote(slots, id))

ActivateChannel(id) == Call(Activate(slots, id))

ReserveSequence(id) ==
  LET outcome == ReserveSendSequence(slots, id)
  IN  /\ slots' = outcome.table
      /\ issued' = IF outcome.error = "none"
                   THEN [ issued EXCEPT ![id.number] = @ \cup { slots[id.number].next_send_seq } ]
                   ELSE issued
      /\ UNCHANGED lineage

HalfCloseChannel(id, direction) == Call(HalfClose(slots, id, direction))

ResetChannel(id) == Call(Reset(slots, id))

Retire(id) == Call(RetireTombstone(slots, id))

(* The slot's FlowAccount is reached through find; refusals write nothing. *)
OnFlow(id, flow) ==
  Call(Done([ slots EXCEPT ![id.number].flow = flow ]))

ReserveCredit(id, amount) ==
  /\ Found(slots, id)
  /\ LET flow == slots[id.number].flow
     IN  OnFlow(id, IF CanReserve(flow, amount) THEN Reserve(flow, amount) ELSE flow)

ReleaseCredit(id, amount) ==
  /\ Found(slots, id)
  /\ LET flow == slots[id.number].flow
     IN  OnFlow(id, IF CanRelease(flow, amount) THEN Release(flow, amount) ELSE flow)

GrantCredit(id, amount) ==
  /\ Found(slots, id)
  /\ LET flow == slots[id.number].flow
     IN  OnFlow(id, IF GrantError(flow, amount) = "none" THEN Grant(flow, amount) ELSE flow)

(* Amounts up to one byte more than a window. *)
Amounts == 0 .. ChannelWindow + 1

Next ==
  \/ AllocateChannel
  \/ \E id \in ChannelId :
       \/ AcceptRemoteChannel(id)
       \/ ActivateChannel(id)
       \/ ReserveSequence(id)
       \/ \E direction \in Direction : HalfCloseChannel(id, direction)
       \/ ResetChannel(id)
       \/ Retire(id)
       \/ \E amount \in Amounts :
            \/ ReserveCredit(id, amount)
            \/ ReleaseCredit(id, amount)
            \/ GrantCredit(id, amount)

Spec == Init /\ [][Next]_vars

-----------------------------------------------------------------------------
TypeOK ==
  /\ slots \in [ Numbers -> Slot ]
  /\ lineage \in [ Numbers -> Seq(Generations) ]
  /\ issued \in [ Numbers -> SUBSET (1 .. MaxSequence) ]

(* The id under which the k-th channel of slot n was known. *)
IdOf(n, k) == [ number |-> n, generation |-> lineage[n][k] ]

(* An id kept from an earlier channel of a slot never reaches a later one: *)
(* DATA, CREDIT, RESET and plugin completions that arrive late find no     *)
(* channel.  The generation is an 8-bit counter that accept_remote lets    *)
(* wrap, so this holds for the last MaxGeneration channels of a slot.      *)
StaleIdsFindNothing ==
  /\ TypeOK
  /\ \A n \in Numbers : \A k \in 1 .. Len(lineage[n]) - 1 :
       Len(lineage[n]) - k <= MaxGeneration => ~ Found(slots, IdOf(n, k))

(* The state of a live slot and its two half-close flags tell the same     *)
(* story, whichever side closed first and in whichever order.              *)
Coherent(s) ==
  /\ s.state \in { "opening", "open" } => ~ s.local_half_closed /\ ~ s.remote_half_closed
  /\ s.state = "local_closed"  => s.local_half_closed /\ ~ s.remote_half_closed
  /\ s.state = "remote_closed" => ~ s.local_half_closed /\ s.remote_half_closed
  /\ s.state = "closing"       => s.local_half_closed /\ s.remote_half_closed

HalfCloseCoherent == \A n \in Numbers : Coherent(slots[n])

(* Credit is conserved exactly: bytes move between available_ and          *)
(* reserved_ and are neither lost nor created, on the overflow path of     *)
(* release too.  It follows that a CREDIT never finds room.                *)
Conserved(flow) == flow.available + flow.reserved = ChannelWindow

CreditConserved == \A n \in Numbers : Conserved(slots[n].flow)

(* A message sequence is handed out at most once to a channel, and never   *)
(* one beyond the range of the counter.                                    *)
SendSequencesUnique ==
  [][ \A n \in Numbers :
        /\ lineage'[n] = lineage[n]
        /\ slots'[n].next_send_seq # slots[n].next_send_seq
        => /\ slots[n].next_send_seq \notin issued[n]
           /\ slots'[n].next_send_seq > slots[n].next_send_seq ]_vars

(* The life of a slot as SlotLifecycle promises it. *)
Phase(s) ==
  IF s.state = "free" THEN "free"
  ELSE IF s.state = "tombstone" THEN "dead"
  ELSE "live"

ShutDirections(s) ==
  { d \in Direction : IF d = "local_send" THEN s.local_half_closed ELSE s.remote_half_closed }

Lifecycle == INSTANCE SlotLifecycle WITH
  Slots       <- Numbers,
  Directions  <- Direction,
  phase       <- [ n \in Numbers |-> Phase(slots[n]) ],
  incarnation <- [ n \in Numbers |-> Len(lineage[n]) ],
  shut        <- [ n \in Numbers |-> ShutDirections(slots[n]) ]

ImplementsLifecycle == Lifecycle!Spec
=============================================================================
