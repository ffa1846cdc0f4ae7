------------------------------- MODULE Channels -------------------------------
(***************************************************************************)
(* FlowAccount and ChannelTable of src/channel/channel_state.cpp as        *)
(* operators on a table value: a function from channel numbers to slots.   *)
(*                                                                         *)
(* Every operation returns the record [error, table]; "none" is success.   *)
(* An operation that is refused leaves the table as it found it unless the *)
(* code had already written to it.                                         *)
(***************************************************************************)
EXTENDS Fragments

CONSTANTS
  MaxChannels,      \* number of slots (max_channels)
  MaxGeneration,    \* largest generation: 255 in the code, an 8-bit counter
  ChannelWindow,    \* channel_window_: byte window of each slot's FlowAccount
  MaxSequence       \* largest message sequence: 2^32 - 1 in the code

ASSUME ChannelsAssumption ==
  /\ MaxChannels \in Nat \ {0}
  /\ MaxGeneration \in Nat \ {0}
  /\ ChannelWindow \in Nat
  /\ MaxSequence \in Nat \ {0}

Numbers     == 1 .. MaxChannels
Generations == 0 .. MaxGeneration
ChannelId   == [ number : 0 .. MaxChannels, generation : Generations ]

ChannelState == { "free", "opening", "open", "local_closed", "remote_closed",
                  "closing", "tombstone" }
LiveState    == ChannelState \ { "free", "tombstone" }
Direction    == { "local_send", "remote_send" }

(* The 8-bit increment of a generation. *)
NextGeneration(g) == (g + 1) % (MaxGeneration + 1)

-----------------------------------------------------------------------------
(* FlowAccount *)

FullAccount == [ available |-> ChannelWindow, reserved |-> 0 ]

CanReserve(flow, amount) == amount <= flow.available

Reserve(flow, amount) ==
  [ available |-> flow.available - amount, reserved |-> flow.reserved + amount ]

CanRelease(flow, amount) == amount <= flow.reserved

(* Mutant: a release that forgets what was reserved. *)
ReleaseKeepsReserved(flow, amount) ==
  [ available |-> IF flow.available + amount > ChannelWindow THEN flow.available
                  ELSE flow.available + amount,
    reserved  |-> flow.reserved ]

(* release lowers reserved_ before it looks at the window, so a release    *)
(* that overflows the window loses the bytes.                              *)
Release(flow, amount) ==
  [ available |-> IF flow.available + amount > ChannelWindow THEN flow.available
                  ELSE flow.available + amount,
    reserved  |-> flow.reserved - amount ]

(* grant: the errors of a CREDIT, "none" when it is accepted. *)
GrantError(flow, amount) ==
  IF amount = 0 THEN "flow_underflow"
  ELSE IF flow.available + amount + flow.reserved > ChannelWindow THEN "flow_overflow"
  ELSE "none"

Grant(flow, amount) == [ flow EXCEPT !.available = @ + amount ]

-----------------------------------------------------------------------------
(* Slots *)

(* A slot as allocate and accept_remote leave it: nothing of the previous  *)
(* channel of this number survives.                                        *)
FreshSlot(generation, state) ==
  [ generation |-> generation, state |-> state,
    next_send_seq |-> 1, next_recv_seq |-> 1,
    local_half_closed |-> FALSE, remote_half_closed |-> FALSE,
    flow |-> FullAccount,
    reassembler |-> EmptyReassembler ]

InitialTable == [ n \in Numbers |-> FreshSlot(0, "free") ]

(* find: the id names the channel that lives in its slot now. *)
Found(table, id) ==
  /\ id.number \in Numbers
  /\ table[id.number].generation = id.generation
  /\ table[id.number].state \in LiveState

Done(table)           == [ error |-> "none", table |-> table ]
Refused(error, table) == [ error |-> error, table |-> table ]

-----------------------------------------------------------------------------
(* ChannelTable *)

(* The slot allocate looks at: the lowest free one, whatever generation it *)
(* has reached.                                                            *)
FirstFree(table, n) ==
  /\ n \in Numbers
  /\ table[n].state = "free"
  /\ \A m \in 1 .. n - 1 : table[m].state # "free"

NoneFree(table) == \A n \in Numbers : table[n].state # "free"

AllocateAt(table, n) ==
  IF table[n].generation = MaxGeneration
  THEN Refused("resource_limit", table)
  ELSE Done([ table EXCEPT ![n] = FreshSlot(NextGeneration(table[n].generation), "opening") ])

(* Mutant: a remote OPEN may repeat the generation the slot has now. *)
AcceptRemoteSame(table, id) ==
  IF id.number \notin Numbers THEN Refused("resource_limit", table)
  ELSE IF table[id.number].state # "free" THEN Refused("illegal_state", table)
  ELSE IF id.generation \notin { table[id.number].generation,
                                 NextGeneration(table[id.number].generation) }
    THEN Refused("stale_generation", table)
  ELSE Done([ table EXCEPT ![id.number] = FreshSlot(id.generation, "open") ])

AcceptRemote(table, id) ==
  IF id.number \notin Numbers THEN Refused("resource_limit", table)
  ELSE IF table[id.number].state # "free" THEN Refused("illegal_state", table)
  ELSE IF id.generation # NextGeneration(table[id.number].generation)
    THEN Refused("stale_generation", table)
  ELSE Done([ table EXCEPT ![id.number] = FreshSlot(id.generation, "open") ])

Activate(table, id) ==
  IF Found(table, id) /\ table[id.number].state = "opening"
  THEN Done([ table EXCEPT ![id.number].state = "open" ])
  ELSE Refused("illegal_state", table)

(* Mutant: the guard against the wrap of the send sequence is dropped. *)
ReserveSendSequenceWraps(table, id) ==
  IF ~ Found(table, id) THEN Refused("stale_generation", table)
  ELSE Done([ table EXCEPT ![id.number].next_send_seq = IF @ = MaxSequence THEN 1 ELSE @ + 1 ])

(* The sequence handed out is next_send_seq before the call. *)
ReserveSendSequence(table, id) ==
  IF ~ Found(table, id) THEN Refused("stale_generation", table)
  ELSE IF table[id.number].next_send_seq = MaxSequence THEN Refused("resource_limit", table)
  ELSE Done([ table EXCEPT ![id.number].next_send_seq = @ + 1 ])

(* Mutant: the other direction's half-close is overlooked. *)
HalfClosedForgetful(slot, direction) ==
  IF direction = "local_send"
  THEN [ slot EXCEPT !.local_half_closed = TRUE, !.state = "local_closed" ]
  ELSE [ slot EXCEPT !.remote_half_closed = TRUE, !.state = "remote_closed" ]

HalfClosed(slot, direction) ==
  IF direction = "local_send"
  THEN [ slot EXCEPT !.local_half_closed = TRUE,
                     !.state = IF slot.remote_half_closed THEN "closing" ELSE "local_closed" ]
  ELSE [ slot EXCEPT !.remote_half_closed = TRUE,
                     !.state = IF slot.local_half_closed THEN "closing" ELSE "remote_closed" ]

HalfClose(table, id, direction) ==
  IF ~ Found(table, id) THEN Refused("stale_generation", table)
  ELSE IF table[id.number].state \notin { "open", "local_closed", "remote_closed" }
    THEN Refused("illegal_state", table)
  ELSE Done([ table EXCEPT ![id.number] = HalfClosed(@, direction) ])

(* Mutant: a reset that frees the slot at once. *)
EmptiedFree(slot) ==
  [ slot EXCEPT !.state = "free", !.flow = FullAccount, !.reassembler = EmptyReassembler ]

(* A reset slot keeps the sequences and half-close flags of its dead channel. *)
Emptied(slot) ==
  [ slot EXCEPT !.state = "tombstone", !.flow = FullAccount, !.reassembler = EmptyReassembler ]

Reset(table, id) ==
  IF ~ Found(table, id) THEN Refused("stale_generation", table)
  ELSE Done([ table EXCEPT ![id.number] = Emptied(@) ])

RetireTombstone(table, id) ==
  IF /\ id.number \in Numbers
     /\ table[id.number].generation = id.generation
     /\ table[id.number].state = "tombstone"
  THEN Done([ table EXCEPT ![id.number].state = "free" ])
  ELSE Refused("illegal_state", table)
=============================================================================
