------------------------------ MODULE Scheduler ------------------------------
(***************************************************************************)
(* OutboundScheduler of src/schedule/outbound_scheduler.cpp as operators   *)
(* on a value [control, data, expected, cursor, queued].  An item carries  *)
(* its channel number, its sequence, the frame it encodes and the number   *)
(* of its bytes that are still to be written (left).                       *)
(***************************************************************************)
EXTENDS Integers, Sequences, FiniteSets, SequencesExt

CONSTANTS
  DataChannels,   \* channel numbers with a data queue
  ByteLimit       \* byte_limit_

ASSUME SchedulerAssumption ==
  /\ DataChannels \subseteq Nat \ {0} /\ IsFiniteSet(DataChannels)
  /\ ByteLimit \in Nat

EmptyScheduler ==
  [ control  |-> << >>,
    data     |-> [ c \in DataChannels |-> << >> ],
    expected |-> [ c \in DataChannels |-> 0 ],
    cursor   |-> 0,
    queued   |-> 0 ]

-----------------------------------------------------------------------------
(* enqueue *)

Regressed(sch, item) ==
  /\ item.priority = "data"
  /\ sch.data[item.channel] # << >>
  /\ item.sequence <= Last(sch.data[item.channel]).sequence

EnqueueError(sch, item) ==
  IF sch.queued + item.left > ByteLimit THEN "would_block"
  ELSE IF Regressed(sch, item) THEN "sequence_error"
  ELSE "none"

(* Mutant: a control item is not charged to the byte limit. *)
EnqueueUncharged(sch, item) ==
  IF item.priority = "control"
  THEN [ sch EXCEPT !.control = Append(@, item) ]
  ELSE [ sch EXCEPT !.queued = @ + item.left, !.data[item.channel] = Append(@, item) ]

(* enqueue when it succeeds; a refusal takes its charge back. *)
Enqueue(sch, item) ==
  IF item.priority = "control"
  THEN [ sch EXCEPT !.queued = @ + item.left, !.control = Append(@, item) ]
  ELSE [ sch EXCEPT !.queued = @ + item.left, !.data[item.channel] = Append(@, item) ]

-----------------------------------------------------------------------------
(* drain *)

(* A data queue is passed over while its first item is not the successor   *)
(* of the last one written for this channel number.                        *)
InTurn(sch, c) ==
  /\ sch.data[c] # << >>
  /\ sch.expected[c] \in { 0, Head(sch.data[c]).sequence }

(* c comes before d from the cursor on, in ascending order round the ring. *)
Sooner(cursor, c, d) == IF (c >= cursor) = (d >= cursor) THEN c < d ELSE c >= cursor

(* The channels that can be served, in the order they are. *)
Rotation(sch) ==
  LET turn     == { c \in DataChannels : InTurn(sch, c) }
      Ahead(c) == { d \in turn : Sooner(sch.cursor, d, c) }
  IN  [ i \in 1 .. Cardinality(turn) |-> CHOOSE c \in turn : Cardinality(Ahead(c)) = i - 1 ]

Heads(sch) == LET turn == Rotation(sch) IN [ i \in DOMAIN turn |-> Head(sch.data[turn[i]]) ]

(* The items a drain gets to: the control queue, then one item of each     *)
(* data queue.                                                             *)
ServiceOrder(sch) == sch.control \o Heads(sch)

(* The sum of some numbers of bytes. *)
Total(bytes) == Cardinality(UNION { {i} \X (1 .. bytes[i]) : i \in DOMAIN bytes })

(* Bytes written of each item of an order when there is room for so many:  *)
(* whole items, then a prefix of the next one, then nothing.               *)
Taken(order, room) ==
  [ i \in DOMAIN order |->
      LET free == room - Total([ j \in 1 .. i - 1 |-> order[j].left ])
      IN  IF free <= 0 THEN 0 ELSE IF free < order[i].left THEN free ELSE order[i].left ]

(* Mutant: the unsent tail of a short write is dropped. *)
RestDropsTail(item, bytes) == [ item EXCEPT !.left = IF bytes > 0 THEN 0 ELSE @ ]

(* What is left of an item when so many of its bytes are written. *)
Rest(item, bytes) == [ item EXCEPT !.left = @ - bytes ]

(* Mutant: every drain starts over at the first channel. *)
CursorAfterReset(c) == 0

CursorAfter(c) == c + 1

(* Mutant: the expected sequence is that of the item just written. *)
ExpectedAfterSame(item) == item.sequence

ExpectedAfter(item) == item.sequence + 1

(* The position in an order of the item written for channel c; 0 if none. *)
Served(order, taken, c) ==
  LET at == { i \in DOMAIN order : /\ order[i].priority = "data"
                                   /\ order[i].channel = c
                                   /\ taken[i] > 0 }
  IN  IF at = {} THEN 0 ELSE CHOOSE i \in at : TRUE

(* drain, when taken[i] bytes of the i-th item of the order are written: a *)
(* short write keeps the rest of its item at the head of the queue.        *)
Drained(sch, order, taken) ==
  LET controls == Len(sch.control)
      at    == [ c \in DataChannels |-> Served(order, taken, c) ]
      rest  == [ i \in DOMAIN order |-> Rest(order[i], taken[i]) ]
      Whole(i) == rest[i].left = 0
      sent  == Cardinality({ i \in 1 .. controls : Whole(i) })
      last  == Cardinality({ i \in DOMAIN order : taken[i] > 0 })
  IN
  [ control  |-> SubSeq(rest, sent + 1, controls),
    data     |-> [ c \in DataChannels |->
                     IF at[c] = 0 THEN sch.data[c]
                     ELSE IF Whole(at[c]) THEN Tail(sch.data[c])
                     ELSE [ sch.data[c] EXCEPT ![1] = rest[at[c]] ] ],
    expected |-> [ c \in DataChannels |->
                     IF at[c] # 0 /\ taken[at[c]] = order[at[c]].left
                     THEN ExpectedAfter(order[at[c]]) ELSE sch.expected[c] ],
    cursor   |-> IF last <= controls THEN sch.cursor ELSE CursorAfter(order[last].channel),
    queued   |-> sch.queued - Total(taken) ]
=============================================================================
