----------------------------- MODULE Reassembler -----------------------------
(***************************************************************************)
(* The reassembly buffer of one channel under every sequence of DATA       *)
(* fragments a peer can put on the wire: several messages in progress,     *)
(* fragments in any order, duplicated, overlapping, conflicting or beyond  *)
(* the budget (src/channel/channel_state.cpp, Reassembler).                *)
(***************************************************************************)
EXTENDS Fragments

CONSTANTS
  Sequence,   \* message sequence numbers the peer uses
  Byte          \* the byte values told apart

VARIABLES
  reassembler,  \* pending_ and retained_
  accepted,     \* history: accepted[s], the <<position, byte>> pairs accepted for s since it was last dropped
  delivered     \* the message the last insert completed, if any, with its total and accepted bytes

bufferVars == << reassembler, accepted, delivered >>

Nothing == [ total |-> 0, message |-> NoMessage, bytes |-> {} ]

Payloads == UNION { [ 1 .. n -> Byte ] : n \in 0 .. MaxMessage }

(* Fragments that lie within a message, or run past its end by one byte. *)
FragmentsOnWire ==
  { f \in [ offset : 0 .. MaxMessage - 1, bytes : Payloads ] : RangeEnd(f) <= MaxMessage + 1 }

PairsOf(frag) == { << pos, ByteAt(frag, pos) >> : pos \in Positions(frag) }

BufferInit ==
  /\ reassembler = EmptyReassembler
  /\ accepted = [ s \in Sequence |-> {} ]
  /\ delivered = Nothing

(* One DATA fragment reaches Reassembler::insert. *)
InsertFragment(seq, total, frag) ==
  LET result == Insert(reassembler, seq, total, frag)
      seen   == accepted[seq] \cup PairsOf(frag)
  IN  /\ reassembler' = result.reassembler
      /\ accepted' = [ accepted EXCEPT ![seq] =
                         IF seq \notin DOMAIN result.reassembler.pending THEN {}
                         ELSE IF result.error = "none" THEN seen
                         ELSE @ ]
      /\ delivered' = IF result.message = NoMessage THEN Nothing
                      ELSE [ total |-> total, message |-> result.message, bytes |-> seen ]

(* The owner of the channel gives a message up: Reassembler::reset_message. *)
GiveUp(seq) ==
  /\ reassembler' = ResetMessage(reassembler, seq)
  /\ accepted' = [ accepted EXCEPT ![seq] = {} ]
  /\ delivered' = Nothing

BufferNext ==
  \E seq \in Sequence :
    \/ \E total \in 0 .. MaxMessage + 1, frag \in FragmentsOnWire :
         InsertFragment(seq, total, frag)
    \/ GiveUp(seq)

BufferSpec == BufferInit /\ [][BufferNext]_bufferVars

-----------------------------------------------------------------------------
Pending == reassembler.pending

(* The buffer has the shape of pending_ and retained_: totals within the   *)
(* cap, ranges inside their message.                                       *)
BufferTypeOK ==
  /\ DOMAIN Pending \subseteq Sequence
  /\ \A s \in DOMAIN Pending :
       /\ Pending[s].total \in 1 .. MaxMessage
       /\ \A r \in Pending[s].ranges :
            r.bytes \in Payloads /\ RangeEnd(r) <= Pending[s].total
  /\ reassembler.retained \in 0 .. MaxMessage

(* retained_ counts the bytes of every retained range, neither more nor    *)
(* less, on every path of insert: dropped, replaced, refused, conflicting  *)
(* and completed messages.  A leak would starve the channel for good, an   *)
(* underflow would lift the budget, which is never exceeded.               *)
RetainedIsExact ==
  /\ BufferTypeOK
  /\ reassembler.retained =
       Cardinality(UNION { {s} \X Held(Pending[s].ranges) : s \in DOMAIN Pending })

(* The ranges of one message agree wherever they overlap, which is what    *)
(* makes the copy of insert independent of their order.                    *)
RangesAgree ==
  \A s \in DOMAIN Pending : \A r, q \in Pending[s].ranges :
    \A pos \in Positions(r) \cap Positions(q) : ByteAt(r, pos) = ByteAt(q, pos)

(* A message never waits although all its bytes have been accepted: the    *)
(* receiver has nothing left to send that would complete it.               *)
NothingCompleteIsKept ==
  \A s \in DOMAIN Pending :
    \E pos \in 0 .. Pending[s].total - 1 :
      \A pair \in accepted[s] : pair[1] # pos

(* A delivered message is exactly the bytes the peer sent for it: as long  *)
(* as its total, each byte the one accepted for that position by whichever *)
(* fragment carried it, including fragments that overlapped or repeated.   *)
DeliversWhatWasSent ==
  delivered.message # NoMessage =>
    /\ Len(delivered.message) = delivered.total
    /\ { << i - 1, delivered.message[i] >> : i \in 1 .. Len(delivered.message) }
         = delivered.bytes
=============================================================================
