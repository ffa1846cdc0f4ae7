# A TLA+ model of the LTX/1 lattice gateway

The repository implements a multiplexed protocol gateway in C++20: connections
between two peers that carry many channels, with negotiation, flow control,
fragment reassembly, acknowledgements and a replay window, keepalive timers,
plugins that handle messages on an executor, and a gateway that bridges two
connections. This directory models the code in TLA+: the
data structures, the engine, two engines over a connection, the frame codec and
its reports, the plugin registry, and the bridge between two connections with
its route policies. TLC checks the models on small instances, and TLAPS proves
the safety properties of the channel table, the reassembler, the replay window,
the outbound scheduler, the threaded executor, the negotiation, the plugin
leases, the decoder and, of two engines over a connection, ordered and exact
delivery, for all values of the constants.
Line numbers below are those of the sources the model was written from;
`PROJECT.json` maps every definition to its lines.

## The system

| Component (source) | State | Operations | Talks to |
|---|---|---|---|
| `ChannelTable`, `FlowAccount` (`src/channel/channel_state.cpp`) | slots: generation, state, half-close flags, next send and receive sequence, account, reassembler | allocate, accept_remote, activate, reserve_send_sequence, half_close, reset, retire_tombstone, find; reserve, release, grant | owned by the engine |
| `Reassembler` (same file) | pending messages with their ranges, retained bytes | insert, reset_message | one per slot |
| `ReplayWindow` (`src/replay/replay_window.cpp`) | recorded frames with retry counters, epoch, capacity | record, acknowledge, due_for_retry, can_resume, retained_from, serialize, restore | engine, snapshot store |
| `TimerWheel` (same file) | timers in due order | schedule, cancel, expire | engine |
| `OutboundScheduler` (`src/schedule/outbound_scheduler.cpp`) | control queue, one data queue per channel number, expected sequences, round-robin cursor, queued bytes | enqueue, drain | engine, transport |
| `ConnectionEngine` (`src/connection/engine.cpp`) | connection state, capabilities, everything above, awaited PONG, event list | start, receive, open_channel, send, half_close, reset, goaway, grant_credit, acknowledge, ping, resume, complete_plugin, advance_time, flush_outbound, snapshots | peer (frames), application (calls, events), executor (tasks), registry (leases) |
| `DeterministicExecutor`, `ConnectionShardRouter` (`src/connection/event_loop.cpp`) | one bounded queue | submit, cancel, drain_one, drain_all | engine submits plugin tasks, the application drains |
| `ThreadedExecutor` (same file) | a queue per shard, counters, stop flag, first error; mutex and two condition variables | submit, wait_idle, shutdown; worker threads | any thread |
| Negotiator (`src/connection/negotiator.cpp`) | none (the engine keeps policy and result) | encode, decode, negotiate | engine |
| `PluginRegistry`, `PluginLease` (`src/plugin/registry.cpp`) | factories and, shared with copies of the registry, lease counts and draining flags | register_factory, unregister_family, create_lease; a lease releases when it ends | application, engines (copies), executor (leases in tasks) |
| `Gateway`, `RoutePolicy` (`src/gateway/`) | routes, next id, translators | create_route, find_route, add_translator, bridge_message; parse, validate, serialize, apply | application |
| bridge command (`tools/lattice.cpp`) | two engines, two sockets, a gateway, an event cursor per side | negotiate with left and right, then select, read, answer, forward | two peers |
| `ReplaySnapshotStore` (`src/replay/replay_store.cpp`) | a file | load_text, save_text | command line |
| `FrameCodec` (`src/format/frame_codec.cpp`) | undecoded bytes | encode, feed | engine, inspection |
| Inspection and health (`src/diagnostics/`) | none | inspect_frame_stream, summarize_connection_events, evaluate_*, merge | recorded bytes, events, policies |
| Transports (`src/transport/`) | a socket | connect, write, read_some, listen | engines, command line |
| Trace log, benchmark, fuzz targets | - | text format, drivers | - |

What makes the system hard to test: engines are driven by callbacks in any
order (calls, frames in chunks cut anywhere, timers, plugin completions that run
later); an error in a chunk drops frames before and behind it; calls of the two
ends cross on the wire; ids outlive their channels; a process may restart from
an old snapshot; sequences and generations are small counters; and the threaded
executor shares one condition variable among all its workers; bytes are cut
anywhere by writes and reads, and a decoder that met an error goes on; copies of
a registry share the state of its leases; the bridge pairs two connections of
which each may end, or be overtaken, at any step. `PROJECT.json` lists each hazard at its line with the properties that guard it.

## Modules

| Module | Models | Proved about |
|---|---|---|
| `Fragments` | `Reassembler` as operators on a value | |
| `Reassembler` (with `ChannelTable` in `MCChannelState`) | one reassembler under all fragments a peer can send | `ChannelState_proofs` |
| `Channels` | `FlowAccount` and `ChannelTable` as operators on a table value | |
| `SlotLifecycle` | abstract: what a table promises of one slot | |
| `ChannelTable` | the table under every sequence of calls | `ChannelState_proofs` |
| `Replay` | `ReplayWindow` as operators on a sequence | |
| `ReplayWindow` | emits, ACKs, retries, RESUME, the steps of saving a snapshot, a crash and restart at any of them | `ReplayWindow_proofs` |
| `Scheduler` | `OutboundScheduler` as operators on a value | |
| `OutboundScheduler` | its users and a transport that cuts writes anywhere | `OutboundScheduler_proofs` |
| `TaskPool` | abstract: what a sharded executor promises | |
| `ThreadedExecutor` | threads, mutex, condition variables | `ThreadedExecutor_proofs` |
| `Negotiation` | HELLO, `negotiate` and the sizes of frames as operators | |
| `Handshake` (`MCHandshake`) | two ends that start, exchange HELLOs, negotiate or time out | `Handshake_proofs` |
| `Engine` | `ConnectionEngine`: calls, frame handlers, timers, built from `Channels`, `Replay`, `Scheduler` | |
| `Link` (`MCLink`) | two engines, the byte streams between them, their executors and the clock | `Link_proofs` |
| `FrameCodec` | `encode` and the streaming decoder `feed` as operators | |
| `Receiver` | a decoder fed with any bytes, frames or not, in any reads | `Receiver_proofs` |
| `Inspection`, `EventSummary`, `Health` | the reports about streams, events and policies as operators | |
| `FrameStream` (`MCFrameStream`) | a sender's scheduler, a stream that may be damaged or end, the decoder of `Receiver` and an inspector | `Receiver_proofs` (that it is one) |
| `Plugins` | registries, leases, and the tasks of a `DeterministicExecutor` that hold them | `Plugins_proofs` |
| `Gateway`, `RoutePolicy` | the gateway and both readers of policy files as operators | |
| `Bridge` (`MCBridge`) | the bridge command between two peers, built from `Engine`, `Gateway`, `RoutePolicy` | |

The data structures are written once as operators (`Fragments`, `Channels`,
`Replay`, `Scheduler`) and used twice: by a small specification that exercises
the structure alone, and by `Engine`, which composes them. `Engine` in turn is
used by `Link` and by `Bridge`, and `Scheduler` also by `FrameStream`, whose decoder is
that of `Receiver`. An operation returns
what the C++ function returns and leaves behind: `[error, table]` for the table,
`[error, endpoint, out]` for the engine, where `out` is empty when the call
fails because the code then returns an error instead of bytes. Names follow the
source. Checks are in the order of the code; state that the code changes before
an error is detected is changed in the model too (`open_channel` before `emit`,
the reassembler before the order check of `handle_data`, the awaited PONG before
the PING, timers that leave the wheel together).

How state maps: `slots` is `slots_`; `reassembler.pending`/`.retained` are
`pending_`/`retained_`; `window` is `entries_`; `sch.control/.data/.expected/
.cursor/.queued` are `control_/data_/expected_sequence_/rr_cursor_/
queued_bytes_`; an endpoint's fields are the members of `ConnectionEngine`
(`pong` is `pending_pong_token_`, 0 when empty); in `ThreadedExecutor` the
variables are the fields of `Impl`, and `worker` and `client` say where each
thread is; in `Handshake`, `policy`, `state` and `caps` are `policy_` with the
registry's descriptors, `state_` and `capabilities_` of each end, and `inbox` is
the HELLO under way to it; in `ReplayWindow`, `file` says what has become of the
snapshot file, `snapshot` is what a process that loads it finds and
`saving` the step `save_text` has reached; in `Receiver` and `FrameStream`, `buffer` is
`buffer_` and a byte string is a sequence of cells, one for each group of bytes
the decoder reads together; in `Plugins`, `states` are the `PluginLeaseState`
objects, `entry[r]` is the family's entry in the registry of `r`, `held` are lease
variables and `queue` is `queue_`; in `Bridge`, `phase` is where `bridge_unix` is,
`todo` what `select` has reported, `cursor` the two event cursors, and `peer` an
engine in another process. Variables marked "history" exist only to state properties.

### Atomicity

Everything but the threaded executor runs on one thread per engine, so one call
is one action. In `ThreadedExecutor` an action is what a thread does between
taking and releasing the mutex; running a task and the gap between the unlock
and `notify_all` in `shutdown` lie outside. A condition wait releases the mutex
and sleeps in one step, and may end spuriously. In `ReplayWindow` each file
operation of `save_text` (write the temporary file, remove the old snapshot,
rename) is an action, since the process may die between any two. The bridge is
one thread: an action of it ends where it blocks (`select`, a read) or where what
a peer does in between can matter.

## Runs

| Run | Bounds | What it shows |
|---|---|---|
| `channel_state` | a behaviour uses one of: a buffer with 2 messages, up to 3 bytes, 2 byte values (symmetric in both); a table with 2 slots, generations 0..2, window 1, 3 sequences, 4 channels per slot | exact assembly, exact budget, no conflict retained, nothing complete kept; stale ids, half-close coherence, credit, sequences, refinement of `SlotLifecycle` |
| `replay_window` | window of 2, 4 frames, retry limit 2, 2 restarts, at any step of a save, saves that fail or whose text is cut | sorted window, complete RESUME from what was loaded, an ACK that removes what its ranges name and nothing else, all-or-nothing retry |
| `scheduler` | 3 channels, 2 items per queue, limit of 3 items, writes of 1..3 bytes, items of 2 | byte accounting, exact streams, bounded bypass, progress |
| `threaded_executor` | 2 workers, 2 clients, capacity 2, 3 tasks | refinement of `TaskPool`, wait_idle and shutdown keep their word, progress, no deadlock |
| `handshake` | 34 policies at each end, in all pairs; a u32 limit modulus of 2^21 | both ends freeze the same capabilities, which suit both; DATA frames fit at both ends |
| `link` | four kinds of use (below), 2 channels, an executor of 1 task, a replay window of 2 | ordered unchanged delivery, plugin results, resets that last, agreement of the ends, keepalive, draining, and a health report that shows losses |
| `frame_stream` | 7 scripts of 2 or 3 frames, short writes of 6 cells, reads of 1 or 4 cells or all, one damaged byte, an end anywhere | cuts do not matter, nothing is forged, only a cut write hurts, damage is reported |
| `bridge` | 52 cases: policy files, translators, schemas, peers that send up to 2 messages, open up to 2 channels, reset, hang up | messages cross, accepted policies survive |
| `plugins` | 2 engines with copies, 2 lease variables, 3 tasks, 3 lease states, 2 descriptors | a lease state counts its leases exactly, unregistering waits for those of the state it erases and comes to succeed |

The bounds are small but not trivial: each is the least that lets the case a
property is about happen. A generation range of 0..2 with four channels per slot
wraps the counter; three bytes allow a gap, a partial overlap and a conflict in
one message; three channels make the round robin more than an alternation;
writes of three bytes against items of two cut items and span them; four
frames in a window of two evict and leave holes; two restarts let a snapshot of
a restarted process be loaded. The policies of `handshake` are the default and
variations of it in each field that `negotiate`, the encoder or the decoder looks
at, on both sides of each threshold; 2^21 is the least power of two above the
default limits, so that the cut of a limit to 32 bits happens on values TLC can
handle.

The uses of `link` (`MCLink`) separate what applications do, so that each can go
deep: *data* (open, send, half-close, reset and flush by one end, with frames for
a few messages of one or two fragments, against one crossing call of the other,
which may also be an ACK or a CREDIT; receives of up to two frames, so that an
error takes a frame with it), *control* (two calls among ping, GOAWAY, RESUME and
open, a clock that runs over a keepalive period and its deadline to 6, one
direction cut at any time),
*slow* (fragments and empty messages while the clock runs past the gap timer) and
*replay* (the second end asks for frames again while messages are under way).

The scripts of `frame_stream` are a message in two fragments whose second length
needs two bytes, frames of two channels that a control frame overtakes, frames
with unsorted, repeated and empty extensions, an optional extension before a
required one of the same type (which the decoder accepts in that order and the
encoder never writes), a required extension that the decoder does not know, a
frame whose extensions exceed the header limit and one that exceeds the frame
limit. Writes of 6 cells cut every
frame but the smallest; single-cell reads cut inside numbers, extensions and
checksums. Every frame is sent by an encoder like the program's, which sorts and
refuses what exceeds a limit, or by one that neither sorts nor looks at limits. The cases of `bridge` are 44 that end in the
parsers (every rejected and every odd form of a policy line, for the command
and for a program of its own) and 8 in which peers talk: a peer missing, schemas
that differ, one route in both directions, messages that come with HELLO,
resets, two routes that swap channels, a translator whose result exceeds the
limit, a translator that refuses.

Each module states its types once; `TypeOK` is checked as the first conjunct of a
property of the run (`StaleIdsFindNothing`, `RetainedIsExact`, `WindowSorted`, `QueuedBytesExact`, `CallsKeepTheirWord`,
`DeliveredIsPrefix`, `NothingForged`, `MessagesCross`,
`UnloadWaits`). Every
property has a mutant in a module (an operator marked "Mutant") that changes the
model the way a slip in the code would and makes the property fail under the
same bounds.

Deadlock is checked where the system must always be able to go on:
`channel_state`, `threaded_executor`. It is off where the bounds
or an idle peer end a behaviour (`replay_window` cannot emit for ever; a
handshake, a stream and a bridge end; a scheduler with nothing to write, the
links, and a registry nobody uses stop).

Three runs state what a document of the repository says and end in a
counterexample; the findings in `PROJECT.json` quote the line.

| Run | Claim | What happens |
|---|---|---|
| `scheduler_engine_numbering` | data queues preserve per-channel order and rotate | `drain` waits for the successor of the last sequence, the engine numbers frames across channels: a queue stalls for ever |
| `snapshot_lost` | the snapshot store is durable | `save_text` removes the old snapshot before the new one has its name (`replay_store.cpp:42`): a process that ends in between, or a rename that fails, leaves none |
| `plugin_reregistered` | the registry maps families to factories | a family registered again is given the factory that was already moved from (`registry.cpp:62`, `:72`): it is empty and the next lease throws |

Other consequences visible in the models are not runs of their own:

- A CREDIT is refused in every reachable state, because nothing stays reserved
  between calls (proved: `CreditIsAlwaysRefused`), and the refusal closes the
  connection. With it, a channel can never carry a message above its share of
  the window, which is 4096 bytes with the defaults, while the message cap is
  1 MiB (`engine.cpp:506`, `docs/PERFORMANCE.md:57`).
- An ACK of the newest frame that arrives a second time is refused as one of an
  "unsent future frame" when nothing after it is retained
  (`replay_window.cpp:128`).
- The next sequence after a restart is one above the newest retained entry of
  the snapshot (`engine.cpp:386`). Sequences of frames that were sent after the
  snapshot, or acknowledged before it, are used again
  (`docs/IMPLEMENTATION_STATUS.md:34` calls this next-sequence restoration).
- A fragment gap timer resets its channel although the message was completed in
  the meantime, and does not tell the peer; `EndsAgree` excludes it, `LossShows`
  says that the health report is not clean then.
- After an empty message the peer refuses every later message of the channel:
  `DeliveredIsPrefix` holds, nothing more is delivered.
- Two RESUMEs that are retained by both ends answer each other without end.
- Nothing schedules a retry timer, so the retry path of `advance_time` is
  modelled in `ReplayWindow` only.
- GOAWAY moves an engine to draining from any state, also from closed
  (`engine.cpp:478`).
- `accept_remote` takes generation + 1 in eight bits, so a remote OPEN wraps a
  generation that `allocate` would refuse to pass (`channel_state.cpp:202`).
- A HELLO larger than the receiver's own frame limit closes the receiver, while
  the sender may become active; `HandshakeIsMutual` is about verdicts of
  `negotiate` and does not exclude it. Nor does it exclude a policy limit of 2^32
  or more, which is cut on the wire but not at home.
- The encoder writes required extensions of types its own decoder refuses.
- `WindowSorted` and `ResumeIsComplete` speak of the frames a process has emitted
  or loaded. What a snapshot had lost before it was loaded, they do not see: a
  snapshot removed (`snapshot_lost`), or one that lacks its last entries. A failure
  to flush goes unnoticed (`replay_store.cpp:36`), and the format has neither a count nor an end
  mark, so a text cut after an entry is saved and loaded as if it were whole,
  while `docs/RESUME_AND_RECOVERY.md:25` asks recovery to reject incomplete state.
- Registering a family again, which the registry allows when it counts no lease
  of it, gives its entry a new lease state (`registry.cpp:73`). Engines with a copy of the old entry
  go on leasing on the old state, and `unregister_family` does not ask that one: it
  can succeed while their leases are active or queued, against
  `docs/ARCHITECTURE.md:19`. `UnloadWaits` and its theorem are about one lease state.
- A snapshot that `restore_retained` refuses (a text cut in its header lines or
  inside an entry) ends every later start before it has an engine, until
  somebody removes the file; a process that runs can still replace it.
- The endless exchange of two RESUMEs, and a plugin that never runs because the
  executor was full, violate no property: no document excludes them.
- Messages that a peer sends before the bridge has negotiated with both sides are
  delivered to the bridge's engine but lie behind the cursors and are never
  forwarded (`lattice.cpp:690`). `MessagesCross` is about the others.
- A peer that sends nothing blocks the bridge for ever, which has no timers and
  never calls `advance_time`; an interrupted read ends it (`unix_transport.cpp:114`).
- Data of a sender with several channels stays in its scheduler for the reason
  given by `scheduler_engine_numbering`; `MessagesCross` asks for arrival only when
  no scheduler holds anything.
- The bridge command reads a channel that the policy parser refuses (a channel
  number of 0 with a generation) and takes the last of two values of a key;
  `PolicySurvives` is about what both accept.

### Fairness

- `ThreadedExecutor`: weak fairness of each worker and of a client inside a
  call. A thread that can take the mutex takes it in the end (the critical
  sections are short and nobody holds the mutex while waiting), tasks return. No
  client is obliged to call anything, and wake-ups are never assumed to be
  spurious. `AcceptedTasksRun` therefore holds without a shutdown.
- `OutboundScheduler`: weak fairness of `Write`: while there is something that
  can be written the transport takes at least one byte now and then.
- `Plugins`: weak fairness of `DrainOne`, since the owner of a
  `DeterministicExecutor` keeps draining it, and of `Drop` for each lease
  variable, since leases go out of scope. Nobody is obliged to call
  `unregister_family` again; `UnloadCompletes` says that it would succeed.
- The other specifications have no fairness and check safety only.

### Assumptions of `Engine`, `Link` and `Bridge`

Both peers offer the echo plugin, so OPEN finds it; the transcript hashes agree
(`Handshake`: both ends freeze the same capabilities); encoded DATA frames fit
the frame limits (`DataFramesFit`); frames count as one unit in the
scheduler, whose limit is large enough for what a run emits; undecodable bytes
(they are in `FrameStream`), malformed payloads and failing plugins do not occur.
An application starts its engine before it reads or calls
(`negotiate_unix_peer` does). Time advances in steps longer
than a round trip, which is the case the keepalive constants (30 s and 5 s) are
made for. The stream is reliable and ordered, as a Unix stream socket is. In
`link` the executor holds one task, so that it is full often. In `bridge` there is
no executor and no time, as in the command; sockets take every write unless the
peer has hung up.

## Proofs

Every invariant that is proved is a consequence of an inductive one, named
`IInv` (`BufferIInv` for the reassembler, `Inv` in `Handshake_proofs`, `Accounts`, `RoundRobin` and `Streams` in
`OutboundScheduler_proofs`), which the initial states satisfy and every action
keeps; there is one lemma per action, or per effect where several actions share
one. Counters are compared with cardinalities: the model says "the number of
queued tasks" as the size of a set of places, so that a step adds or removes one
element and the counter follows. Sums over sequences (bytes in queues, lengths
before an item) are cardinalities of sets of cells for the same reason. Where a
recursive function is unavoidable (`FlattenSeq` of the community modules, and
`FoundFrom`, the loop of `feed`) its values are obtained from the least-number principle of `WellFoundedInduction`,
applied to a set of indices. The engine's own loops (`EmitAll`, `Receive`,
`AdvanceTime`) are recursive functions over an index for the same reason.

### The channel table

`ChannelState_proofs` has the proofs about both structures of
`channel_state.cpp`. Of the table it proves, for every number of slots, generation range,
window, sequence range and number of incarnations (assumptions
`MaxMessageAssumption`, `ChannelsAssumption`, `MaxIncarnationsAssumption`: the
bounds are natural numbers, positive where the code's are), about every
behaviour of `ChannelTable!Spec`:

| Theorem | Property |
|---|---|
| `TypeCorrect` | `TypeOK` |
| `StaleIdsAreHarmless` | `StaleIdsFindNothing` |
| `HalfClosesCohere` | `HalfCloseCoherent` |
| `CreditIsConserved` | `CreditConserved` |
| `CreditIsAlwaysRefused` | no CREDIT is ever accepted |
| `SendSequencesAreUnique` | `SendSequencesUnique` |
| `ImplementsSlotLifecycle` | `ImplementsLifecycle` |
| `ReserveReleaseRestores` | a reserve and a release in one call cancel out |

The inductive invariant `IInv` strengthens the checked invariants by three
facts about the histories. `IssuedBelow`: the sequences handed out lie below
`next_send_seq`; without it uniqueness is not inductive. `LineageCounts`: two
channels of one slot that are at most `MaxGeneration` incarnations apart have
generations that differ by exactly that distance, modulo the wrap; without it
nothing relates an old id to the present generation. `LastIsPresent`: the slot
carries the newest generation of its lineage. The step from `IInv` to `IInv'` is
proved over three effects instead of fourteen operations: lemma `StepShape` shows
that each operation begins a new incarnation (`Began`), moves a slot within its
life (`Moved`), hands out a sequence (`Numbered`) or changes nothing, and the
invariant, the action property and the refinement are each proved once per
effect. `StaleIdsFindNothing` follows from `LineageCounts` by arithmetic: a
distance between 1 and `MaxGeneration` is never 0 modulo `MaxGeneration + 1`.

### The negotiation

`Handshake_proofs` proves, for any set of policies, plugin families, schemas and
features and any width of the wire's limits (assumptions `NegotiationAssumption`:
the modulus is positive, and `HandshakeAssumption`: policies are HELLOs with
finitely many plugins), about every behaviour of `Handshake!Spec`:

| Theorem | Property |
|---|---|
| `NegotiationIsSymmetric` | `negotiate` gives both ends one verdict and one set of capabilities |
| `VerdictsComeFromPolicies` | the inductive invariant `Inv` |
| `HandshakesAreMutual` | `HandshakeIsMutual` |
| `CapabilitiesSuitBothEnds` | `CapabilitiesSuitBoth` |
| `DataFramesAlwaysFit` | `DataFramesFit` |

The checked invariants speak of two ends and are not inductive: they do not say
where the capabilities of one end come from. `Inv` does: the HELLO in an inbox is
the sender's policy as the wire carries it, and an active end holds the
capabilities `negotiate` derives from its own policy and the peer's HELLO, with
verdict "none"; an end that was rejected holds that verdict. With `Inv`, mutuality
is symmetry of `negotiate`, a lemma about two HELLOs whose only real step is that
the pairs of descriptors of one family, taken from either side, mirror each other.
`CapabilitiesSuitBoth` follows from what an accepted pair of HELLOs satisfies, and
`DataFramesFit` from arithmetic: half the frame limit with prefix, payload length,
four extensions and checksum fits when the limit is at least 128.

### The reassembler

`ChannelState_proofs`, for every message cap, set of message sequences and set of
payloads (assumption `MaxMessageAssumption`: the cap is positive):

| Theorem | Property |
|---|---|
| `RetainedAlwaysExact` | `RetainedIsExact` |
| `RangesAlwaysAgree` | `RangesAgree` |
| `CompleteNeverKept` | `NothingCompleteIsKept` |
| `AlwaysDeliversWhatWasSent` | `DeliversWhatWasSent` |

`BufferIInv` says that the buffer is `Sound` (ranges lie inside their message and agree
with each other, `retained_` is the number of cells held, within the cap), that no
pending message is complete, and that the bytes accepted for each message are
exactly those its ranges carry. The work is in `insert`: its fragment may lie
inside a range already held (`ContainedBringsNothing`), adds exactly the positions
no range has (`KeepingIs`), and when it completes the message the assembled bytes
are the only function that agrees with every range (`AssembleIs`). Exact
delivery then follows because every accepted pair is in a range and no two ranges
conflict.

### The replay window

`ReplayWindow_proofs`, for every capacity, retry limit and number of frames and
restarts (`CapacityAssumption`, `ReplayWindowAssumption`: capacity and retry limit
are positive):

| Theorem | Property |
|---|---|
| `WindowAlwaysSorted` | `WindowSorted` |
| `ResumeAlwaysComplete` | `ResumeIsComplete` |
| `AcksRetireExactly` | `AckRetiresExactly` |
| `RetriesAllOrNothing` | `RetryAllOrNothing` |

`IInv` has the order of the window and of the snapshot, `BelowNext` (no frame,
known, retained or retired, is as new as the next number), `RetiredAreGone` (no retained frame has
been named by an accepted ACK), `Accounted` (a frame that is neither retained nor
retired is older than everything retained, which is what makes a RESUME from the
oldest retained frame complete) and `Aged`: an older entry has been retried at
least as often as a younger one. Without `Aged` a round of retries could count
some entries before it finds one at its limit; with it the first entry decides.
All four are stated of the snapshot as well where a restart brings it back.
Erasing entries keeps the order by a lemma about the sequence of the entries at
the chosen positions (`EntriesAtKeeps`).

`AcksRetireExactly` compares two descriptions of an ACK. `retired` is read off the
ranges of the ACK alone (`Named`), the window is what the loop of `acknowledge` with its test
`InRange` leaves (`RetainedAfterIs`: exactly the entries no range contains). An
accepted ACK must leave the entries whose frames are not in `retired`, unchanged; for that
`RetiredAreGone` is needed, since a frame named by an earlier ACK must not be
there any more, and `BelowNext` of `retired`, since a frame that is emitted later must not be
one that an ACK has named. A refused ACK names nothing that counts and changes nothing.

### The scheduler

`OutboundScheduler_proofs`, for any finite set of channels, any positive frame
sizes, any byte limit and any size of writes (`SchedulerAssumption`,
`OutboundSchedulerAssumption`):

| Theorem | Property |
|---|---|
| `QueuedBytesAlwaysExact` | `QueuedBytesExact` |
| `StreamAlwaysExact` | `StreamExact` |
| `BypassAlwaysBounded` | `BoundedBypass`, when each channel is numbered on its own |

`Accounts` is the type of the scheduler together with the exact count of unsent
bytes. A drain is described once, by what it takes of each item of each queue
(`TakenOf`) and how many items it removes (`QueueMoves`): the service order is the
control queue and then the heads of the data queues in turn (`RotationIs`: ranks in
the rotation are distinct and without gaps), `Taken` fills it from the front, and
each place of the order is one item of one queue (`PlacesAre`). The count of bytes
(`DrainAccounts`) and the streams follow from that description. `Streams` adds that
what has been written of a queue and what is in it make up what was accepted; for a
drain this is a fact about sequences of sequences: when every item is cut in two and
no item behind one with a rest has given anything, the fronts end to end and then
the rests end to end are the whole (`CutsFlatten`).

`RoundRobin` adds that the items of a data queue are numbered without gaps up to the
next number and that the drain expects the first of them (`Numbered`), hence every
channel with data is in turn, and that a waiting channel has been passed at most
once by each channel behind the cursor and before it (`Waits`). `BypassAlwaysBounded`
assumes `OneNumbering = FALSE`, the numbering of `scheduler_tests.cpp`; with the
engine's shared numbering the property is false, as `scheduler_engine_numbering`
shows of its liveness.

### The threaded executor

`ThreadedExecutor_proofs`, for every finite, nonempty set of workers, any clients,
capacity and number of tasks (`ThreadedExecutorAssumption`):

| Theorem | Property |
|---|---|
| `CallsAlwaysKeepTheirWord` | `CallsKeepTheirWord` |
| `ImplementsPool` | `ImplementsTaskPool` |

`IInv` adds to the property: the two counters are the numbers of queued tasks and of
busy workers (`CountersExact`), a worker is running exactly when it has a task and
exits only when the queue is stopping and its own queue is empty
(`WorkersCoherent`), every accepted task is done, queued or running (`NothingLost`), in one
place only (`NothingTwice`), and nothing else is (`NothingInvented`); `first_error_` is set
exactly when a task has failed; and a client that joined found all workers gone.
`wait_idle` returns when both counters are 0; by `CountersExact` nothing is queued or
running, by `NothingLost` every task is done, and by `ErrorsRecorded` none failed.
The refinement maps each critical section to one step of `TaskPool` or to a
stutter, and uses `NothingTwice` for "run at most once".

### The plugin leases

`Plugins_proofs`, for any engines, finite set of lease variables, descriptors, number
of lease states and capacity of the executor (`PluginsAssumption`):
`UnloadAlwaysWaits` proves `UnloadWaits`. The property already counts (the active
count of a state is the number of lease variables and queued tasks that hold a lease
on it); `IInv` adds the types and that an unloaded state is draining, which keeps
`create_lease` from raising its count again. Each action is proved from two facts
about counting: a lease variable that changes moves one element between the sets of
two states (`HolderTakes`), and a task that joins or leaves the queue, at whatever
position, changes the count of its state by one (`TaskJoins`, `TaskLeaves`).

### The decoder

`Receiver_proofs`, for any cells, any streams of them and all limits
(`FrameCodecAssumption`, `ReceiverAssumption`: the frame limit has room for the
prefix and a length, 21 bytes): `CutsNeverMatter` proves `CutsDoNotMatter` of
`Receiving`, a decoder to which any bytes come (`Come`), frames or not.
`FrameStreamReceives` shows that `FrameStream` implements `Receiving`: a step of its
sender or of what damages the stream is a `Come` or changes nothing of the receiver,
its reads and its end are the receiver's, so the property the run `frame_stream`
checks holds for all scripts, rooms and chunks. Its hypothesis, that the bytes
under way are cells, fixes what `Cells` is; the run checks it (`TypeOK`). `IInv` (`Holds`) relates what the decoder has
found and kept to what one call would find in all the bytes received:
`Found(received, ended)`. It is kept because two calls find what one call finds in
the bytes of both (`FoundInTwo`, by induction on the length of the first bytes).
That rests on three facts. A frame or an error that is found is the same with more
bytes behind it (`DecodeOneStable`): every check looks at bytes that are there, and
the only answer that can change is need_more. What the loop finds from a position
on is what it finds in those bytes alone (`FoundFromShifts`). An error ends a call,
so what two calls find after one is not compared (`UpToMore`). That fewer bytes than
a frame are kept is part of `DecodeOneIs`: need_more is answered only to a view
shorter than the limit.

### Two engines

`Link_proofs`, for any number of channels, any message cap, window, executor,
timeouts and clock, any calls the applications make in any order, and streams
that are cut at any time (the assumptions of the structures `Engine` is built from,
`EngineAssumption` and `LinkAssumption`: limits are natural numbers, positive where
the code's are, the scheduler has a queue for every channel number, there are two
endpoints):

| Theorem | Property |
|---|---|
| `DeliveryInOrder` | `DeliveredIsPrefix` |
| `ResponsesInOrder` | `ResponsesFollowDelivery` |
| `ResetForGood` | `ResetIsFinal` |

None of the three is inductive: what an endpoint delivers next depends on what its
buffers hold, that on the frames under way, and those on what the peer keeps in its
replay window, its scheduler and the bytes its application has yet to write. `IInv`
measures all of that against the two logs of messages sent. An endpoint is `Good`
with respect to what both ends have sent so far (`Past`) when

- each DATA frame it retains or has queued is part of a message it sent, with that
  message's number, length and bytes in their places (`Kept`, `Queued`, `CarriesPart`);
- the next number of a channel is one more than the messages sent on it, and each
  range in a reassembler is part of a message the peer sent (`Tabled`);
- the next number it expects is one more than the messages it has delivered, each of
  which is the peer's message of that number (`Delivered`);
- each response, and each task that waits, answers an earlier delivery, and tasks of
  a channel are in order, behind the responses given (`Answered`);
- an engine that has not negotiated has an untouched table (`Phased`), and timers
  and the awaited PONG are not of the future (`Timed`).

`IInv` is that both ends are `Good` and that what is under way to each carries parts
of what the other has sent (`Carries`). RESUME, retransmitted frames and fragments in
any order need no case of their own: a frame that comes twice is still part of the
message it was cut from, and whether it is delivered is decided by the number alone.
A log only grows, so what was good stays so when the peer sends (`PeerSends`).

Beside the invariant each step must keep what is final: events are appended only, a
channel in tombstone stays as it is and nothing is said of it (`Final`). `Moved` is
both, and is transitive (`MovedTwice`), so a handler is proved as its code is
written, one change after another. There is a lemma for each change of one field, one
for each call, each frame handler and each timer (`Outcome`: the endpoint has moved
and the frames it returns carry parts of what was sent, also when the call fails
half-way), and for the loops over fragments, frames and timers (`UpTo`, induction on
the position). Only `SendMessage` lengthens the log; its fragments are parts of the
new message (`FragmentsAreParts`), and it is the one case in which the endpoint is
measured against a log that has grown in the same step. `InsertParts` is the fact
about the reassembler that all this needs: from parts of a message, whatever their
order and overlaps, a completed message is that message.

### Left to TLC

Liveness (`AcceptedTasksRun`, `EveryCallReturns`, `AcceptedIsWritten`,
`UnloadCompletes`), since fairness and ENABLED are beyond the prover; what the
decoder finds in encoded frames, the reports and the policy texts (`FrameStream`,
`PolicySurvives`), whose encoders are recursive over data; and `MessagesCross`, which
is about four engines and would need `Good` of each together with what the bridge's
cursors have passed.

Of `Link`, `EndsAgree` and `LossShows` describe both ends at rest: their inductive
form would account for every frame under way, and for every frame that an error has
lost, not only say what each carries. `DrainIsBounded`, `DeadPeerIsNoticed` and
`HealthyLinkStaysOpen` hold at the bounds of the run and are not theorems for all
constants, which is worth knowing of the code:

- `DrainIsBounded` and `DeadPeerIsNoticed` need room in the scheduler. Frames that the
  shared numbering holds back for ever (`scheduler_engine_numbering`) fill a small
  byte limit; the PING of the idle timer is then refused, `advance_time` returns the
  error (`engine.cpp:324`), and the timers due behind it, a drain deadline among them,
  have left the wheel and never fire.
- `HealthyLinkStaysOpen` needs PONGs to arrive. One that stands behind a frame that
  fails, in the same chunk, is dropped with it; its deadline then closes the
  connection although both ends answer.

Liveness over engines (that a message sent is delivered, that a draining connection
closes) is beyond TLC as well: the event lists and histories make the state graphs of
`link` and `bridge` too large for its liveness check; their safety properties ask at
rest what liveness would ask in the end.

## Plan

Done: the modules above, in this order: channel table, reassembler, replay
window and its snapshots, scheduler, threaded executor, engine, link, handshake
with its proofs; then the frame codec and its stream, the reports, the plugin
registry, the gateway, the policies and the bridge; then the proofs about each
module that models one component alone, and those about two engines.

Next, in order of weight:

1. `Bridge`: the delivery half of `MessagesCross`, by `Good` of all four engines; what
   is forwarded is measured against what was delivered on the other side.
2. `FrameStream`: that a frame is found in its own image (`NothingForged` without
   damage), from the lemmas about `DecodeOne`; the length of a number and the
   extensions are recursive over data, which bounds what can be proved.

## Not modelled

- Writes that block on a full socket, the signal a write to a closed socket
  raises, `UnixListener` (bind, accept, and the unlink on close, which removes the
  path of a newer listener too) and the memory transport of the tests: I/O with
  no state of the program behind it.
- `TraceLog`, the text renderings of the reports, argument parsing, the fixture
  printers and the one-shot `serve` and `probe` commands: sequential text work, or
  the same calls `Bridge` makes at one side. Benchmark and fuzz targets drive
  modelled components and have no behaviour of their own.
- Collisions of CRC32C and of the transcript hash: both are taken to tell their
  inputs apart.
- `ThreadedExecutor` called from inside a task (it would wait for itself) and an
  engine that is destroyed while its tasks are queued (they refer to it): the
  program does neither.
- `create` of the registry, which makes a plugin without a lease, `cancel` of the
  timer wheel and `reset` of the codec have no caller among the modelled parts.
- A snapshot text cut between two bytes of a frame, which loads a shortened
  last frame; a text cut elsewhere is modelled. The temporary file of a save is
  never loaded and is left out. The epoch of a replay window is always 1 in the
  engine and is left out; so are frame sequences at 2^32 - 1, where
  `load_replay_snapshot` replaces the window before it refuses, and a replay
  capacity of 0.

## Running

    tlc -workers 2 -config MCChannelState.cfg MCChannelState
    tlc -workers 2 -config MCLink.cfg MCLink
    tlapm ChannelState_proofs.tla
    tlapm Handshake_proofs.tla
    tlapm ReplayWindow_proofs.tla
    tlapm OutboundScheduler_proofs.tla
    tlapm ThreadedExecutor_proofs.tla
    tlapm Plugins_proofs.tla
    tlapm Receiver_proofs.tla
    tlapm Link_proofs.tla

`PROJECT.json` names the module of every configuration. The longest run takes
two to three minutes; the proofs about two engines take a quarter of an hour, those
about the scheduler four minutes, those about the decoder two, the others about one
each.
