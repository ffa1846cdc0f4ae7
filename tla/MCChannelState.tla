--------------------------- MODULE MCChannelState ---------------------------
(***************************************************************************)
(* Both structures of src/channel/channel_state.cpp.  They share no state, *)
(* so a behaviour uses one of them and leaves the other as it was made:    *)
(* the channel table with two slots, each through up to four channels, the *)
(* generation counter wrapping, or the reassembly buffer with two message  *)
(* sequences, messages of up to three bytes and two byte values (room for  *)
(* a gap, a partial overlap, a conflict and a full budget).  Sequences and *)
(* byte values are interchangeable in the buffer; the table has neither.   *)
(***************************************************************************)
EXTENDS ChannelTable, Reassembler, TLC

Symmetry == Permutations(Sequence) \cup Permutations(Byte)

BothInit == Init /\ BufferInit

BothNext ==
  \/ BufferInit /\ Next /\ UNCHANGED bufferVars
  \/ Init /\ BufferNext /\ UNCHANGED vars

BothSpec == BothInit /\ [][BothNext]_<< vars, bufferVars >>
=============================================================================
