------------------------------ MODULE Receiver ------------------------------
(***************************************************************************)
(* A decoder that is fed a stream of bytes as they arrive: any bytes may   *)
(* come, reads cut them anywhere, and the stream may end anywhere          *)
(* (FrameCodec::feed and its callers in src/connection/engine.cpp and      *)
(* tools/lattice.cpp).                                                     *)
(***************************************************************************)
EXTENDS FrameCodec

CONSTANT Cells      \* what a group of bytes may be

ASSUME ReceiverAssumption == Prefix + MaxVarint <= MaxFrame

VARIABLES
  wire,        \* the bytes under way
  buffer,      \* buffer_ of the decoder
  events,      \* what the decoder has found, need_more left out
  received,    \* history: the bytes fed
  ended        \* the stream has ended

receiver == << wire, buffer, events, received, ended >>

ReceiverInit ==
  /\ wire = << >> /\ buffer = << >> /\ events = << >> /\ received = << >>
  /\ ended = FALSE

(* The peer writes, or bytes are changed or lost under way. *)
Come ==
  /\ wire' \in Seq(Cells)
  /\ UNCHANGED << buffer, events, received, ended >>

(* need_more is an answer of its own, which callers pass over. *)
Told(found) == IF found = << Needed >> THEN << >> ELSE found

Fed(bytes, eof) ==
  /\ \E result \in { Feed(buffer, bytes, eof) } :
       /\ buffer' = result.buffer
       /\ events' = events \o Told(result.events)
  /\ received' = received \o bytes

Receive(size) ==
  /\ ~ ended
  /\ size <= Len(wire)
  /\ Fed(SubSeq(wire, 1, size), FALSE)
  /\ wire' = SubSeq(wire, size + 1, Len(wire))
  /\ UNCHANGED ended

(* The stream ends, with the bytes still under way or without them. *)
EndOfStream ==
  /\ ~ ended
  /\ \E bytes \in { wire, << >> } : Fed(bytes, TRUE)
  /\ wire' = << >>
  /\ ended' = TRUE

Receiving ==
  ReceiverInit /\ [][Come \/ (\E size \in 0 .. Len(wire) : Receive(size)) \/ EndOfStream]_receiver

-----------------------------------------------------------------------------
Failed(found) == \E i \in DOMAIN found : found[i].status = "error"

UpToError(found) ==
  LET errors == { i \in DOMAIN found : found[i].status = "error" } IN
  IF errors = {} THEN found ELSE SubSeq(found, 1, Min(errors))

SameAs(whole) ==
  /\ UpToError(events) = Told(whole.events)
  /\ ~ Failed(events) => buffer = whole.buffer

(* However the bytes were cut into reads, the decoder has found what it    *)
(* finds in all of them at once, up to the first error, and holds the same *)
(* rest, less than a frame.  (After an error it starts afresh with the next *)
(* read.)                                                                  *)
CutsDoNotMatter ==
  /\ Len(buffer) < MaxFrame
  /\ SameAs(Feed(<< >>, received, ended))
=============================================================================
