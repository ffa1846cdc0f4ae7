----------------------------- MODULE ReplayWindow -----------------------------
(***************************************************************************)
(* The outbound side of one endpoint as far as recovery is concerned: it   *)
(* numbers and records the frames it emits, retires the ones its peer      *)
(* acknowledges, retries, answers RESUME, saves snapshots of the window    *)
(* and restarts from the file it finds (src/replay/replay_window.cpp;      *)
(* src/replay/replay_store.cpp; make_frame, emit, handle_ack,              *)
(* handle_resume, export_replay_snapshot and load_replay_snapshot of       *)
(* src/connection/engine.cpp; save_snapshot and load_snapshot_if_present   *)
(* of tools/lattice.cpp).                                                  *)
(*                                                                         *)
(* A save runs in the process's only thread: the window does not change    *)
(* during its steps, but the process may end, or a step fail, at each.     *)
(* The temporary file is written anew by every save and never loaded, so   *)
(* it is not part of the state.                                            *)
(***************************************************************************)
EXTENDS Replay, FiniteSets

CONSTANTS
  RetryLimit,   \* 3 in the engine
  MaxFrames,    \* bound of the model: largest frame sequence emitted
  MaxRestarts   \* bound of the model: restarts of the process

ASSUME ReplayWindowAssumption ==
  RetryLimit \in Nat \ {0} /\ MaxFrames \in Nat /\ MaxRestarts \in Nat

VARIABLES
  window,          \* replay_: entries_
  next_frame_seq,  \* next_frame_seq_
  file,            \* the snapshot file: FileStates
  snapshot,        \* the entries restore_retained finds in it; none when there is no file
  saving,          \* how far save_text is: "no", "written", "removed"
  boot,            \* history: number of restarts so far
  known,           \* history: the frames this process has emitted or loaded
  retired,         \* history: the retained frames that an accepted ACK has named
  call             \* the last call and its outcome

vars == << window, next_frame_seq, file, snapshot, saving, boot, known, retired, call >>

Frame == [ seq : Nat \ {0}, boot : Nat ]
Entry == [ frame : Frame, retries : 0 .. RetryLimit ]

EntriesOf(entries) == { entries[i] : i \in DOMAIN entries }
FramesOf(entries)  == { entries[i].frame : i \in DOMAIN entries }

(* Never saved; removed by a save that did not come to publish its own; as *)
(* written; without its last entries; not accepted by restore_retained.    *)
FileStates == { "never", "lost", "whole", "short", "broken" }

(* What a peer may name: nothing, one range, valid or not, within what was *)
(* emitted or beyond, or two single frames, possibly the same one twice;   *)
(* named before by another ACK, evicted, or not.                           *)
AckRange == [ first : 1 .. MaxFrames + 1, last : 1 .. MaxFrames + 1 ]
Single   == { r \in AckRange : r.first = r.last }
AckLists == { << >> } \cup { << r >> : r \in AckRange }
              \cup { << r, s >> : r \in Single, s \in Single }

(* What an ACK says, read off its ranges alone. *)
Named(entries, ranges) ==
  { frame \in FramesOf(entries) :
      \E i \in DOMAIN ranges : frame.seq \in ranges[i].first .. ranges[i].last }

NoCall == [ op |-> "none", ok |-> TRUE ]

Init ==
  /\ window = << >>
  /\ next_frame_seq = 1
  /\ file = "never" /\ snapshot = << >>
  /\ saving = "no"
  /\ boot = 0
  /\ known = {} /\ retired = {}
  /\ call = NoCall

(* make_frame and emit: take the next sequence, record, send. *)
Emit ==
  LET frame == [ seq |-> next_frame_seq, boot |-> boot ] IN
  /\ saving = "no"
  /\ next_frame_seq <= MaxFrames
  /\ next_frame_seq' = next_frame_seq + 1
  /\ IF Recorded(window, frame.seq)
     THEN UNCHANGED << window, known >>
     ELSE /\ window' = Record(window, frame)
          /\ known' = known \cup {frame}
  /\ call' = [ op |-> "emit", ok |-> ~ Recorded(window, frame.seq) ]
  /\ UNCHANGED << file, snapshot, saving, boot, retired >>

(* handle_ack. *)
Acknowledge(ranges) ==
  /\ saving = "no"
  /\ call' = [ op |-> "ack", ok |-> ~ AckRejected(window, ranges) ]
  /\ IF AckRejected(window, ranges)
     THEN UNCHANGED << window, retired >>
     ELSE /\ window' = RetainedAfter(window, ranges)
          /\ retired' = retired \cup Named(window, ranges)
  /\ UNCHANGED << next_frame_seq, file, snapshot, saving, boot, known >>

(* due_for_retry of a retry timer. *)
Retry ==
  /\ saving = "no"
  /\ window' = CountedUp(window, RetryLimit)
  /\ call' = [ op |-> "retry", ok |-> Exhausted(window, RetryLimit) = {} ]
  /\ UNCHANGED << next_frame_seq, file, snapshot, saving, boot, known, retired >>

SaveCall(ok) == [ op |-> "save", ok |-> ok ]

(* save_text gives up: its temporary file is removed, or was never made.   *)
SaveFails ==
  /\ saving' = "no"
  /\ call' = SaveCall(FALSE)

(* The text exported goes to the temporary file. *)
WriteTemporary ==
  /\ saving = "no"
  /\ \/ saving' = "written" /\ call' = NoCall
     \/ SaveFails
  /\ UNCHANGED << window, next_frame_seq, file, snapshot, boot, known, retired >>

(* The old snapshot is removed before the new one has its name. *)
RemoveOld ==
  /\ saving = "written"
  /\ \/ /\ saving' = "removed" /\ call' = NoCall
        /\ file' = IF file = "never" THEN "never" ELSE "lost"
        /\ snapshot' = << >>
     \/ SaveFails /\ UNCHANGED << file, snapshot >>
  /\ UNCHANGED << window, next_frame_seq, boot, known, retired >>

(* What the temporary file has got of the text: a flush that fails when it *)
(* is closed goes unnoticed.  A text cut between two entries is accepted   *)
(* by restore_retained.  One cut in its three header lines is not, nor one *)
(* cut inside an entry (but for a cut between two bytes of the frame,      *)
(* which shortens the last frame; the model does not see that).            *)
Published ==
  \/ file' = "whole" /\ snapshot' = window
  \/ \E flushed \in 0 .. Len(window) - 1 :
       file' = "short" /\ snapshot' = SubSeq(window, 1, flushed)
  \/ file' = "broken" /\ snapshot' = << >>

(* A rename that fails leaves neither file. *)
Publish ==
  /\ saving = "removed"
  /\ \/ saving' = "no" /\ call' = SaveCall(TRUE) /\ Published
     \/ SaveFails /\ UNCHANGED << file, snapshot >>
  /\ UNCHANGED << window, next_frame_seq, boot, known, retired >>

(* The process ends, in the middle of a save or not, and a new engine      *)
(* loads the file before start; without a file it starts afresh.  When     *)
(* the file is refused the new process ends before it has an engine.       *)
Restart ==
  /\ file # "broken"
  /\ boot < MaxRestarts
  /\ saving' = "no"
  /\ boot' = boot + 1
  /\ window' = snapshot
  /\ next_frame_seq' = NextAfter(snapshot)
  /\ known' = FramesOf(snapshot)
  /\ retired' = {}
  /\ call' = NoCall
  /\ UNCHANGED << file, snapshot >>

Next ==
  \/ Emit
  \/ \E ranges \in AckLists : Acknowledge(ranges)
  \/ Retry
  \/ WriteTemporary
  \/ RemoveOld
  \/ Publish
  \/ Restart

Spec == Init /\ [][Next]_vars

-----------------------------------------------------------------------------
TypeOK ==
  /\ window \in Seq(Entry)
  /\ Len(window) <= Capacity
  /\ next_frame_seq \in Nat \ {0}
  /\ file \in FileStates
  /\ snapshot \in Seq(Entry)
  /\ Len(snapshot) <= Capacity
  /\ saving \in { "no", "written", "removed" }
  /\ boot \in Nat
  /\ known \subseteq Frame /\ retired \subseteq Frame

(* The window stays sorted by frame sequence and every new frame belongs   *)
(* at its end: earliest and latest, which ACK and RESUME rely on, are the  *)
(* first and last entry, and record never meets a duplicate, before and    *)
(* after a restart.                                                        *)
WindowSorted ==
  /\ TypeOK
  /\ \A i, j \in DOMAIN window : i < j => window[i].frame.seq < window[j].frame.seq
  /\ \A i \in DOMAIN window : window[i].frame.seq < next_frame_seq

(* A RESUME that is accepted gets every frame it asks for: each frame this *)
(* process has emitted or loaded, numbered from first_required_seq on and  *)
(* not retired by an ACK, is in the suffix that is sent.                   *)
ResumeIsComplete ==
  \A first \in 0 .. MaxFrames + 1 :
    CanResume(window, first) =>
      \A frame \in known :
        frame.seq >= first /\ frame \notin retired
          => frame \in FramesOf(RetainedFrom(window, first))

(* An accepted ACK retires exactly the retained frames its ranges name,    *)
(* whether it comes late, again or with holes, and leaves the other        *)
(* entries as they are; a refused one changes nothing.  No other call but  *)
(* the eviction of the oldest frame by a new one removes a frame at all.   *)
AckRetiresExactly ==
  [][ boot' = boot =>
      IF call'.op = "ack"
      THEN EntriesOf(window') = { entry \in EntriesOf(window) : entry.frame \notin retired' }
      ELSE \A frame \in FramesOf(window) \ FramesOf(window') :
             call'.op = "emit" /\ frame.seq = Earliest(window) /\ Len(window) = Capacity ]_vars

(* A round of retries is all or nothing: when one frame has used up its    *)
(* attempts no counter moves, although the loop counts as it goes.         *)
RetryAllOrNothing ==
  [][ call'.op = "retry" /\ ~ call'.ok => window' = window ]_vars

(* A snapshot that was published is there until another one has taken its  *)
(* place: a process that starts again finds one (ReplaySnapshotStore is    *)
(* called durable; save_text removes the old file first).                  *)
SnapshotIsDurable ==
  [][ boot' # boot => file # "lost" ]_vars

=============================================================================
