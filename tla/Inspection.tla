------------------------------ MODULE Inspection ------------------------------
(***************************************************************************)
(* The report of src/diagnostics/inspection.cpp about a recorded byte      *)
(* stream.  A finding is [severity, code]; its position and its wording    *)
(* are left out.  The summary of a connection's events is EventSummary.    *)
(***************************************************************************)
EXTENDS FrameCodec

CONSTANTS
  MaxFramesInspected,   \* max_frames of StreamInspectionOptions
  PingSize,             \* 8, the size of a PING's payload
  LargeControl          \* 512, the size above which a control payload is unusual

ASSUME InspectionAssumption == { MaxFramesInspected, PingSize, LargeControl } \subseteq Nat

MessageSeq == 1
FragmentOffset == 2
MessageTotal == 3
FamilyId == 4

Warning(code) == [ severity |-> "warning", code |-> code ]
Wrong(code)   == [ severity |-> "error", code |-> code ]

When(condition, finding) == IF condition THEN << finding >> ELSE << >>

-----------------------------------------------------------------------------
(* inspect_frame *)

RepeatedTypes(frame) ==
  { e.type : e \in { f \in Range(frame.extensions) : Len(Find(frame, f.type)) > 1 } }

(* A DATA frame carries each of the four numbers. *)
MissingNumber(frame, type, code) ==
  IF Find(frame, type) = << >> THEN << Wrong(code) >>
  ELSE When(~ HasNumber(frame, type), Wrong("invalid_message_extension"))

DataFindings(frame) ==
  MissingNumber(frame, MessageSeq, "missing_message_sequence")
    \o MissingNumber(frame, FragmentOffset, "missing_fragment_offset")
    \o MissingNumber(frame, MessageTotal, "missing_message_total")
    \o MissingNumber(frame, FamilyId, "missing_family_id")
    \o When(HasNumber(frame, MessageTotal) /\ NumberOf(frame, MessageTotal) = 0,
            Wrong("zero_message_total"))
    \o When(/\ HasNumber(frame, MessageTotal) /\ HasNumber(frame, FragmentOffset)
            /\ NumberOf(frame, FragmentOffset) > NumberOf(frame, MessageTotal),
            Wrong("fragment_exceeds_total"))

InspectFrame(frame) ==
  FlattenSeq([ i \in DOMAIN frame.extensions |->
    When(frame.extensions[i].required /\ frame.extensions[i].value = << >>,
         Warning("empty_required_extension")) ])
  \o [ i \in 1 .. Cardinality(RepeatedTypes(frame)) |-> Wrong("duplicate_extension_type") ]
  \o (IF frame.type = "data" THEN DataFindings(frame) ELSE << >>)
  \o When(frame.type \in { "ping", "pong" } /\ Len(frame.payload) # PingSize,
          Warning("ping_payload_size"))
  \o When(frame.type = "resume" /\ frame.channel # 0, Wrong("resume_on_data_channel"))
  \o When(/\ frame.type \in { "hello", "ack", "ping", "pong", "goaway", "resume" }
          /\ Len(frame.payload) > LargeControl, Warning("control_payload_large"))

-----------------------------------------------------------------------------
(* inspect_frame_stream, with the default options but for eof: one feed of *)
(* the whole stream.                                                       *)

(* Mutant: an error of the decoder is no finding. *)
DecoderFindingNone(event) == << >>

DecoderFinding(event) == << Wrong("decoder_error") >>

(* What the inspection of the i-th event adds to a report. *)
Inspected(report, events, i) ==
  LET event == events[i]  frame == event.frame  frames == report.frames IN
  IF report.capped \/ event.status = "need_more" THEN report
  ELSE IF event.status = "error"
    THEN [ report EXCEPT !.findings = @ \o DecoderFinding(event) ]
  ELSE IF Len(frames) >= MaxFramesInspected
    THEN [ report EXCEPT !.findings = Append(@, Wrong("too_many_frames")), !.capped = TRUE ]
  ELSE [ report EXCEPT
           !.frames = Append(@, frame),
           !.payload_bytes = @ + Len(frame.payload),
           !.findings =
             @ \o When(frames # << >> /\ frame.seq < Last(frames).seq, Warning("sequence_rewind"))
               \o When(frame.type = "goaway" /\ i # Len(events), Warning("goaway_not_last"))
               \o InspectFrame(frame) ]

InspectEvents(events, decoded_bytes, eof) ==
  FoldLeft(LAMBDA report, i : Inspected(report, events, i),
           [ frames |-> << >>, findings |-> << >>, payload_bytes |-> 0, capped |-> FALSE,
             decoded_bytes |-> decoded_bytes, reached_eof |-> eof ],
           [ i \in DOMAIN events |-> i ])

InspectStream(bytes, eof) == InspectEvents(Feed(<< >>, bytes, eof).events, Len(bytes), eof)

CountOf(report, severity) ==
  Len(SelectSeq(report.findings, LAMBDA f : f.severity = severity))

DataFrames(report) == SelectSeq(report.frames, LAMBDA frame : frame.type = "data")
=============================================================================
