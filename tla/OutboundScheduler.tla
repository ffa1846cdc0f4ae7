-------------------------- MODULE OutboundScheduler --------------------------
(***************************************************************************)
(* The outbound scheduler between the users that enqueue encoded frames    *)
(* and a transport that takes as many bytes at a time as it likes          *)
(* (src/schedule/outbound_scheduler.cpp).                                  *)
(*                                                                         *)
(* Items are numbered in one of two ways.  The scheduler's tests number    *)
(* the items of each channel 1, 2, 3, ...  (OneNumbering = FALSE); the     *)
(* engine hands over the connection's frame sequence, which control frames *)
(* and the frames of every channel share and which a refused item has used *)
(* up (OneNumbering = TRUE).                                               *)
(***************************************************************************)
EXTENDS Scheduler

CONSTANTS
  ItemSizes,      \* sizes of encoded frames, in bytes
  MaxWrite,       \* largest number of bytes the transport takes at once
  MaxItems,       \* bound of the model: items per data queue, and control items
  OneNumbering    \* TRUE as in ConnectionEngine, FALSE as in scheduler_tests.cpp

ASSUME OutboundSchedulerAssumption ==
  /\ ItemSizes \subseteq Nat \ {0}
  /\ MaxWrite \in Nat \ {0} /\ MaxItems \in Nat
  /\ OneNumbering \in BOOLEAN

VARIABLES
  sch,         \* the scheduler
  numbers,     \* next sequence per queue (all equal when OneNumbering)
  submitted,   \* history: submitted[q], the bytes accepted for queue q, in order
  written,     \* history: written[q], the bytes of queue q put on the wire, in order
  passed       \* history: passed[c], writes to other channels since c has been waiting

vars == << sch, numbers, submitted, written, passed >>

ControlQueue == 0
Queues == DataChannels \cup { ControlQueue }

QueueOf(item)  == IF item.priority = "control" THEN ControlQueue ELSE item.channel
ItemsIn(s, q)  == IF q = ControlQueue THEN s.control ELSE s.data[q]

(* The bytes of an item that have not been written, each one told apart. *)
BytesOf(item) == [ i \in 1 .. item.left |-> << item.sequence, item.size - item.left + i >> ]

BytesIn(items) == FlattenSeq([ i \in DOMAIN items |-> BytesOf(items[i]) ])

Init ==
  /\ sch = EmptyScheduler
  /\ numbers = [ q \in Queues |-> 1 ]
  /\ submitted = [ q \in Queues |-> << >> ]
  /\ written = [ q \in Queues |-> << >> ]
  /\ passed = [ c \in DataChannels |-> 0 ]

Item(q, seq, size) ==
  [ priority |-> IF q = ControlQueue THEN "control" ELSE "data",
    channel  |-> q, sequence |-> seq, size |-> size, left |-> size ]

Advance(q) ==
  IF OneNumbering THEN [ p \in Queues |-> numbers[p] + 1 ]
  ELSE [ numbers EXCEPT ![q] = @ + 1 ]

Sent(q) == Cardinality({ submitted[q][i][1] : i \in DOMAIN submitted[q] })

Accept(item) ==
  LET q == QueueOf(item) IN
  /\ sch' = Enqueue(sch, item)
  /\ submitted' = [ submitted EXCEPT ![q] = @ \o BytesOf(item) ]
  /\ passed' = IF q # ControlQueue /\ sch.data[q] = << >>
               THEN [ passed EXCEPT ![q] = 0 ] ELSE passed

(* A frame is handed over.  A user that numbers each channel offers a      *)
(* refused frame again; the engine has spent its sequence.                 *)
Offer(q, size) ==
  LET item == Item(q, numbers[q], size) IN
  /\ Sent(q) < MaxItems
  /\ numbers[q] <= MaxItems * Cardinality(Queues)
  /\ IF EnqueueError(sch, item) = "none"
     THEN Accept(item) /\ numbers' = Advance(q)
     ELSE /\ numbers' = IF OneNumbering THEN Advance(q) ELSE numbers
          /\ UNCHANGED << sch, submitted, passed >>
  /\ UNCHANGED written

(* A frame whose sequence does not follow the queued ones is refused. *)
OfferRegressed(c, size) ==
  LET item == Item(c, Last(sch.data[c]).sequence, size) IN
  /\ sch.data[c] # << >>
  /\ Sent(c) < MaxItems
  /\ IF EnqueueError(sch, item) = "none" THEN Accept(item)
     ELSE UNCHANGED << sch, submitted, passed >>
  /\ UNCHANGED << numbers, written >>

(* The bytes a drain writes for queue q. *)
WrittenBy(order, taken, q) ==
  LET Part(i) == IF QueueOf(order[i]) = q THEN SubSeq(BytesOf(order[i]), 1, taken[i]) ELSE << >>
  IN  FlattenSeq([ i \in DOMAIN order |-> Part(i) ])

(* How many data channels are written to after c; all of them if c is not. *)
WritesAfter(order, taken, c) ==
  Cardinality({ d \in DataChannels : Served(order, taken, d) > Served(order, taken, c) })

(* drain, when the transport can take writable bytes. *)
Write(writable) ==
  \E order \in { ServiceOrder(sch) } : \E taken \in { Taken(order, writable) } :
    /\ order # << >>
    /\ sch' = Drained(sch, order, taken)
    /\ written' = [ q \in Queues |-> written[q] \o WrittenBy(order, taken, q) ]
    /\ passed' = [ c \in DataChannels |->
                     WritesAfter(order, taken, c)
                       + (IF Served(order, taken, c) = 0 THEN passed[c] ELSE 0) ]
    /\ UNCHANGED << numbers, submitted >>

Next ==
  \/ \E q \in Queues, size \in ItemSizes : Offer(q, size)
  \/ \E c \in DataChannels, size \in ItemSizes : OfferRegressed(c, size)
  \/ \E writable \in 1 .. MaxWrite : Write(writable)

(* The transport keeps taking bytes while there are bytes it can be given. *)
Fairness == WF_vars(\E writable \in 1 .. MaxWrite : Write(writable))

Spec == Init /\ [][Next]_vars /\ Fairness

-----------------------------------------------------------------------------
TypeOK ==
  /\ sch.queued \in 0 .. ByteLimit
  /\ \A q \in Queues : \A i \in DOMAIN ItemsIn(sch, q) :
       LET item == ItemsIn(sch, q)[i] IN
       item.left \in 1 .. item.size /\ QueueOf(item) = q
  /\ \A c \in DataChannels : sch.expected[c] \in Nat
  /\ sch.cursor \in Nat

(* The bytes in the queues that have not been written. *)
Unsent(s) ==
  UNION { UNION { {<< q, i >>} \X (1 .. ItemsIn(s, q)[i].left) : i \in DOMAIN ItemsIn(s, q) } : q \in Queues }

(* queued_bytes_ is the number of unsent bytes in the queues: short        *)
(* writes, refused and rolled back items included, and never exceeds the   *)
(* byte limit.                                                             *)
QueuedBytesExact ==
  TypeOK /\ sch.queued = Cardinality(Unsent(sch))

(* What has been written of a queue and what is left of it is what was     *)
(* accepted, byte for byte and in order, however the writes were cut.      *)
StreamExact ==
  \A q \in Queues : written[q] \o BytesIn(ItemsIn(sch, q)) = submitted[q]

(* Round robin: a channel with data waits for at most one write of each    *)
(* other channel, also when short writes move the cursor on.               *)
BoundedBypass ==
  \A c \in DataChannels :
    sch.data[c] # << >> => passed[c] <= Cardinality(DataChannels) - 1

(* Every frame that was accepted is written in the end. *)
AcceptedIsWritten ==
  \A c \in DataChannels : (sch.data[c] # << >>) ~> (sch.data[c] = << >>)
=============================================================================
