----------------------------- MODULE EventSummary -----------------------------
(***************************************************************************)
(* summarize_connection_events of src/diagnostics/inspection.cpp: the      *)
(* events of a connection counted by kind.                                 *)
(***************************************************************************)
EXTENDS Integers, Sequences, SequencesExt

Counted(events, kind) == Len(SelectSeq(events, LAMBDA v : v.kind = kind))

Summarize(events) ==
  [ total |-> Len(events),
    negotiated |-> Counted(events, "negotiated"),
    delivered |-> Counted(events, "message_delivered"),
    timers |-> Counted(events, "timer_expired"),
    resets |-> Counted(events, "channel_reset"),
    closed |-> Counted(events, "closed"),
    diagnostics |-> Counted(events, "diagnostic"),
    payload_bytes |-> FoldLeft(LAMBDA bytes, v : bytes + Len(v.payload), 0, events) ]
=============================================================================
