----------------------------- MODULE FrameStream -----------------------------
(***************************************************************************)
(* Frames on their way through bytes: a sender encodes frames and hands    *)
(* them to its outbound scheduler (make_frame, queue_encoded and           *)
(* flush_outbound of engine.cpp), a transport takes as many bytes at a     *)
(* time as it likes, and a receiver feeds its decoder with the bytes as    *)
(* they arrive; the bytes recorded are inspected afterwards.  The stream   *)
(* may be damaged in one place or end anywhere.                            *)
(***************************************************************************)
EXTENDS Inspection, Scheduler, Receiver

Health == INSTANCE Health

CONSTANTS
  Scripts,     \* the frames a sender emits, one sequence per behaviour
  Rooms,       \* sizes of the transport's short writes, in cells
  Chunks       \* sizes of the receiver's short reads, in cells

ASSUME FrameStreamAssumption == Rooms \subseteq Nat \ {0} /\ Chunks \subseteq Nat \ {0}

VARIABLES
  script,      \* the frames to emit
  emitted,     \* how many have been
  sch,         \* the scheduler
  started,     \* history: the frames in the order of their first byte on the wire
  cut,         \* history: a frame was cut by a short write and another one got in between
  damaged      \* history: a byte was changed under way

vars == << script, emitted, sch, started, cut, damaged, receiver >>

Init ==
  /\ script \in Scripts
  /\ emitted = 0
  /\ sch = EmptyScheduler
  /\ ReceiverInit
  /\ started = << >>
  /\ cut = FALSE /\ damaged = FALSE

-----------------------------------------------------------------------------
(* The sender *)

Item(frame, bytes) ==
  [ priority |-> IF frame.type = "data" THEN "data" ELSE "control", channel |-> frame.channel,
    sequence |-> frame.seq, left |-> Len(bytes), frame |-> frame, bytes |-> bytes ]

Unsent(item) == SubSeq(item.bytes, Len(item.bytes) - item.left + 1, Len(item.bytes))

(* A frame that finds the queue full is gone. *)
Handed(item) == sch' = IF EnqueueError(sch, item) = "none" THEN Enqueue(sch, item) ELSE sch

(* The program sorts the extensions and drops a frame that cannot be       *)
(* encoded, which has used up its sequence.  A peer need not be this       *)
(* program: one that does not sort, nor look at limits, sends the image as *)
(* it is.                                                                  *)
Emit ==
  /\ emitted < Len(script)
  /\ emitted' = emitted + 1
  /\ \E frame \in { [ script[emitted + 1] EXCEPT !.seq = emitted + 1 ] } :
       \/ IF EncodeError(frame) = "none" THEN Handed(Item(Sorted(frame), Encode(frame)))
                                         ELSE UNCHANGED sch
       \/ Handed(Item(frame, Image(frame)))
  /\ UNCHANGED << script, started, cut, damaged, receiver >>

Half(item) == 0 < item.left /\ item.left < Len(item.bytes)

(* drain with room for so many bytes. *)
Write(room) ==
  \E order \in { ServiceOrder(sch) } : \E taken \in { Taken(order, room) } :
    /\ order # << >>
    /\ sch' = Drained(sch, order, taken)
    /\ wire' = wire \o FlattenSeq([ i \in DOMAIN order |-> SubSeq(Unsent(order[i]), 1, taken[i]) ])
    /\ LET opened == SelectSeq([ i \in DOMAIN order |-> [ item |-> order[i], bytes |-> taken[i] ] ],
                               LAMBDA t : t.bytes > 0 /\ ~ Half(t.item))
           halves == { i \in DOMAIN order : Half(order[i]) }
       IN  /\ started' = started \o [ i \in DOMAIN opened |-> opened[i].item.frame ]
           /\ cut' = (cut \/ \E i \in halves : \E j \in DOMAIN order : j < i /\ taken[j] > 0)
    /\ UNCHANGED << script, emitted, buffer, events, received, ended, damaged >>

(* The sender has nothing more to write.  What happens to the bytes then   *)
(* does not depend on when they were written.                              *)
Written == emitted = Len(script) /\ ServiceOrder(sch) = << >>

-----------------------------------------------------------------------------
(* The transport and the receiver *)

(* What one damaged byte may turn a cell into. *)
Damage(cell) ==
  LET value == cell[2] IN
  CASE cell[1] = "head" -> { << "head", [ value EXCEPT !.type = "goaway" ] >>,
                             << "head", [ value EXCEPT !.type = "none" ] >>,
                             << "head", [ value EXCEPT !.flags = 1 ] >>,
                             << "head", [ value EXCEPT !.extensions = @ + 1 ] >>,
                             << "head", [ value EXCEPT !.extensions = MaxHeader + 1 ] >> }
    [] cell[1] = "number" -> { Byte(Radix - 1 - value.digit, value.more),
                               Byte(value.digit, ~ value.more), Byte(0, value.more) }
    [] OTHER -> { << "noise", 0 >> }

DamageByte ==
  /\ Written /\ ~ damaged /\ ~ cut
  /\ received = << >> /\ ~ ended
  /\ \E i \in DOMAIN wire : \E cell \in Damage(wire[i]) \ { wire[i] } :
       wire' = [ wire EXCEPT ![i] = cell ]
  /\ damaged' = TRUE
  /\ UNCHANGED << script, emitted, sch, buffer, events, received, ended, started, cut >>

Read(size) ==
  /\ Written
  /\ Receive(size)
  /\ UNCHANGED << script, emitted, sch, started, cut, damaged >>

End ==
  /\ Written
  /\ EndOfStream
  /\ UNCHANGED << script, emitted, sch, started, cut, damaged >>

Next ==
  \/ Emit
  \/ \E room \in Rooms \cup { ByteLimit } : Write(room)
  \/ DamageByte
  \/ \E size \in Chunks \cup { Len(wire) } : Read(size)
  \/ End

Spec == Init /\ [][Next]_vars

-----------------------------------------------------------------------------
TypeOK ==
  /\ emitted \in 0 .. Len(script) /\ Len(started) <= emitted
  /\ sch.queued \in 0 .. ByteLimit
  /\ wire \in Seq(Cells)

Decoded == LET frames == SelectSeq(events, LAMBDA e : e.status = "frame") IN
           [ i \in DOMAIN frames |-> frames[i].frame ]

(* By type; of one type, a required one may follow an optional one. *)
Ascending(extensions) ==
  \A i, j \in DOMAIN extensions : i < j => extensions[i].type <= extensions[j].type

(* Nothing is decoded but frames that were emitted, each at most once and  *)
(* in the order in which their bytes began, whatever was damaged, cut or   *)
(* skipped, and although the decoder goes on after an error; their         *)
(* extensions are the ones sent, and ascend by type.                       *)
NothingForged ==
  /\ TypeOK
  /\ \E kept \in SUBSET DOMAIN started :
       LET order == SetToSortSeq(kept, <) IN
       Decoded = [ i \in DOMAIN order |-> started[order[i]] ]
  /\ \A i \in DOMAIN Decoded : Ascending(Decoded[i].extensions)

(* The encoder accepts what the decoder does not: a required extension of  *)
(* a type it does not know.                                                *)
Acceptable(frame) ==
  /\ EncodeError(frame) = "none"
  /\ Ascending(frame.extensions)
  /\ \A i \in DOMAIN frame.extensions :
       frame.extensions[i].required => frame.extensions[i].type \in KnownRequired

(* A short write that lets another frame in between (control frames go     *)
(* first, channels take turns) breaks the frame for the receiver.  Nothing *)
(* else does: without one, without damage and before the end, acceptable   *)
(* frames arrive in order and complete.                                    *)
OnlyCutWritesHurt ==
  ~ cut /\ ~ damaged /\ ~ ended /\ (\A i \in DOMAIN started : Acceptable(started[i])) =>
    /\ ~ Failed(events)
    /\ IsPrefix(Decoded, started)
    /\ wire = << >> /\ Written => Decoded = started

HealthOf(report) ==
  Health!StreamHealth(Len(report.frames), Len(DataFrames(report)), CountOf(report, "error"),
                      Len(SelectSeq(report.findings, LAMBDA f : f.code = "decoder_error")),
                      CountOf(report, "warning"), report.reached_eof,
                      report.payload_bytes, report.decoded_bytes)

Faithful(report) ==
  /\ Health!Coherent(HealthOf(report))
  /\ HealthOf(report).level # "failed" =>
       /\ report.frames = SubSeq(started, 1, Len(report.frames))
       /\ received = FlattenSeq([ i \in DOMAIN report.frames |-> Image(report.frames[i]) ])

(* A recorded stream whose report is not failed is whole: it consists of   *)
(* complete frames as they were emitted, from the first one on, and the    *)
(* reports of all streams are coherent.                                    *)
DamageIsReported == ended => Faithful(InspectStream(received, ended))
=============================================================================
