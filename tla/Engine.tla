-------------------------------- MODULE Engine --------------------------------
(***************************************************************************)
(* ConnectionEngine of src/connection/engine.cpp as operators on an        *)
(* endpoint value.  Every public call and every frame handler returns      *)
(* [error, endpoint, out]: its error or "none", what it has made of the    *)
(* endpoint by then, and the frames it hands to the caller, which a call   *)
(* that fails does not.                                                    *)
(*                                                                         *)
(* Assumed here: both peers offer the same plugin family, so negotiation   *)
(* and OPEN find it; the plugin is the echo plugin; encoded frames fit the *)
(* negotiated limits and count as one unit in the scheduler; both peers    *)
(* derive the same transcript hash.                                        *)
(***************************************************************************)
EXTENDS Channels, Replay, Scheduler

CONSTANTS
  FragmentSize,       \* max_frame / 2: payload bytes of one DATA frame
  Executor,           \* an executor is attached (TRUE) or plugins run inline
  ExecutorCapacity,   \* capacity_ of the DeterministicExecutor
  HandshakeTimeout, IdlePing, PongTimeout, DrainTimeout, FragmentGap
                      \* 5000, 30000, 5000, 1000 and 1000 ms

ASSUME EngineAssumption ==
  /\ FragmentSize \in Nat \ {0}
  /\ Numbers \subseteq DataChannels
  /\ Executor \in BOOLEAN /\ ExecutorCapacity \in Nat
  /\ { HandshakeTimeout, IdlePing, PongTimeout, DrainTimeout, FragmentGap } \subseteq Nat \ {0}

ConnectionState == { "created", "negotiating", "active", "draining", "closed" }

ControlId == [ number |-> 0, generation |-> 0 ]

NoToken == 0

Created ==
  [ state |-> "created", negotiated |-> FALSE, channels |-> InitialTable,
    scheduler |-> EmptyScheduler, window |-> << >>, next_frame_seq |-> 1,
    timers |-> << >>, now |-> 0, pong |-> NoToken,
    tasks |-> << >>, events |-> << >> ]

Returned(e, out)    == [ error |-> "none", endpoint |-> e, out |-> out ]
Failed(error, e)    == [ error |-> error, endpoint |-> e, out |-> << >> ]

(* One step of several: its frames follow those of the steps before. *)
Continued(out, result) ==
  IF result.error = "none" THEN Returned(result.endpoint, out \o result.out) ELSE result

Event(e, kind, id, seq, payload) ==
  [ e EXCEPT !.events = Append(@, [ kind |-> kind, channel |-> id,
                                    sequence |-> seq, payload |-> payload ]) ]

Notice(e, kind, id) == Event(e, kind, id, 0, NoMessage)

(* Errors whose close recommendation is close_connection. *)
Fatal == { "unexpected_hello", "not_active", "flow_overflow", "ack_rejected",
           "resume_rejected", "duplicate_frame" }

-----------------------------------------------------------------------------
(* Timers: due-time order, ties in the order they were scheduled. *)

DueBy(timers, now)    == EntriesAt(timers, { i \in DOMAIN timers : timers[i].due <= now })
DueAfter(timers, now) == EntriesAt(timers, { i \in DOMAIN timers : timers[i].due > now })

Schedule(e, kind, id, delay) ==
  LET timer == [ kind |-> kind, channel |-> id, due |-> e.now + delay ] IN
  [ e EXCEPT !.timers = DueBy(@, timer.due) \o << timer >> \o DueAfter(@, timer.due) ]

-----------------------------------------------------------------------------
(* make_frame, emit, queue_encoded, flush_outbound *)

IsControlFrame(type) == type # "data"

(* flush_outbound with room for everything queued. *)
Flush(e) ==
  LET order == ServiceOrder(e.scheduler)
      taken == Taken(order, ByteLimit)
  IN  Returned([ e EXCEPT !.scheduler = Drained(@, order, taken) ],
               [ i \in DOMAIN order |-> order[i].frame ])

Emit(e, type, id, body) ==
  LET frame == [ type |-> type, channel |-> id, seq |-> e.next_frame_seq, body |-> body ]
      item  == [ priority |-> IF IsControlFrame(type) THEN "control" ELSE "data",
                 channel |-> id.number, sequence |-> frame.seq, left |-> 1, frame |-> frame ]
      made  == [ e EXCEPT !.next_frame_seq = @ + 1 ]
      kept  == [ made EXCEPT !.window = Record(@, frame) ]
      error == EnqueueError(e.scheduler, item)
  IN
  IF Recorded(e.window, frame.seq) THEN Failed("duplicate_frame", made)
  ELSE IF error # "none" THEN Failed(error, kept)
  ELSE Flush([ kept EXCEPT !.scheduler = Enqueue(@, item) ])

(* A call that also raises an event when it succeeds. *)
WithNotice(result, kind, id) ==
  IF result.error = "none" THEN [ result EXCEPT !.endpoint = Notice(@, kind, id) ] ELSE result

-----------------------------------------------------------------------------
(* Calls of the application *)

Start(e) ==
  IF e.state # "created" THEN Failed("illegal_state", e)
  ELSE Emit(Schedule([ e EXCEPT !.state = "negotiating" ], "handshake", ControlId, HandshakeTimeout),
            "hello", ControlId, 0)

(* open_channel allocates and activates before it can fail to emit. *)
OpenChannel(e) ==
  IF e.state # "active" THEN Failed("illegal_state", e)
  ELSE IF NoneFree(e.channels) THEN Failed("resource_limit", e)
  ELSE
  LET n    == CHOOSE m \in Numbers : FirstFree(e.channels, m)
      made == AllocateAt(e.channels, n)
      id   == [ number |-> n, generation |-> made.table[n].generation ]
      opened == [ e EXCEPT !.channels = Activate(made.table, id).table ]
  IN  IF made.error # "none" THEN Failed(made.error, e)
      ELSE WithNotice(Emit(opened, "open", id, 0), "channel_opened", id)

(* The DATA bodies of one message. *)
FragmentsOf(seq, payload) ==
  [ i \in 1 .. (Len(payload) + FragmentSize - 1) \div FragmentSize |->
      LET first == (i - 1) * FragmentSize + 1 IN
      [ sequence |-> seq, offset |-> first - 1, total |-> Len(payload),
        bytes |-> SubSeq(payload, first, Min({ first + FragmentSize - 1, Len(payload) })) ] ]

(* The fragments are emitted one after the other; those that were before   *)
(* one fails are lost to the caller.                                       *)
EmitNext(got, id, body) ==
  IF got.error # "none" THEN got ELSE Continued(got.out, Emit(got.endpoint, "data", id, body))

EmitAll(e, id, bodies) ==
  LET after[i \in 0 .. Len(bodies)] ==
        IF i = 0 THEN Returned(e, << >>) ELSE EmitNext(after[i - 1], id, bodies[i])
  IN  after[Len(bodies)]

(* send.  The bytes reserved on the channel are released on every path,    *)
(* which leaves the account as it was.                                     *)
Send(e, id, payload) ==
  LET seq  == e.channels[id.number].next_send_seq
      next == ReserveSendSequence(e.channels, id)
  IN
  IF e.state # "active" THEN Failed("illegal_state", e)
  ELSE IF ~ Found(e.channels, id) THEN Failed("stale_generation", e)
  ELSE IF e.channels[id.number].local_half_closed THEN Failed("illegal_state", e)
  ELSE IF Len(payload) > MaxMessage THEN Failed("resource_limit", e)
  ELSE IF ~ CanReserve(e.channels[id.number].flow, Len(payload)) THEN Failed("would_block", e)
  ELSE IF next.error # "none" THEN Failed(next.error, e)
  ELSE EmitAll([ e EXCEPT !.channels = next.table ], id, FragmentsOf(seq, payload))

HalfCloseCall(e, id, direction) ==
  LET close == HalfClose(e.channels, id, direction) IN
  IF ~ e.negotiated THEN Failed("illegal_state", e)
  ELSE IF close.error # "none" THEN Failed(close.error, e)
  ELSE Emit(Notice([ e EXCEPT !.channels = close.table ], "half_closed", id),
            "half_close", id, direction)

ResetCall(e, id) ==
  LET reset == Reset(e.channels, id) IN
  IF ~ e.negotiated THEN Failed("illegal_state", e)
  ELSE IF reset.error # "none" THEN Failed(reset.error, e)
  ELSE Emit(Notice([ e EXCEPT !.channels = reset.table ], "channel_reset", id), "reset", id, 0)

(* goaway asks for no state. *)
GoAway(e) ==
  Emit(Schedule([ e EXCEPT !.state = "draining" ], "drain", ControlId, DrainTimeout),
       "goaway", ControlId, 0)

GrantCredit(e, id, amount)   == Emit(e, "credit", id, amount)
PingCall(e, token)           == Emit(e, "ping", ControlId, token)
ResumeCall(e, first)         == Emit(e, "resume", ControlId, first)

AcknowledgeCall(e, ranges) ==
  IF MalformedRanges(ranges) THEN Failed("sequence_error", e)
  ELSE Emit(e, "ack", ControlId, ranges)

(* Mutant: the result of a plugin is not checked against the channel. *)
CompletePluginAlways(e, done) ==
  Returned(Event(e, "plugin_response", done.channel, done.sequence, done.payload), << >>)

(* complete_plugin: a result for a channel that is gone is dropped. *)
CompletePlugin(e, done) ==
  IF ~ Found(e.channels, done.channel) THEN Returned(e, << >>)
  ELSE Returned(Event(e, "plugin_response", done.channel, done.sequence, done.payload), << >>)

(* drain_one of the executor: the oldest task runs the plugin. *)
DrainOne(e) == CompletePlugin([ e EXCEPT !.tasks = Tail(@) ], Head(e.tasks))

-----------------------------------------------------------------------------
(* Frame handlers *)

HandleHello(e) ==
  IF e.state # "negotiating" THEN Failed("unexpected_hello", e)
  ELSE Returned(Notice(Schedule([ e EXCEPT !.state = "active", !.negotiated = TRUE,
                                           !.channels = InitialTable ],
                                "idle", ControlId, IdlePing),
                       "negotiated", ControlId), << >>)

HandleOpen(e, id) ==
  LET accepted == AcceptRemote(e.channels, id) IN
  IF e.state # "active" THEN Failed("not_active", e)
  ELSE IF accepted.error # "none" THEN Failed(accepted.error, e)
  ELSE Returned(Notice([ e EXCEPT !.channels = accepted.table ], "channel_opened", id), << >>)

(* submit of the DeterministicExecutor. *)
Submit(e, task) ==
  IF Len(e.tasks) >= ExecutorCapacity THEN Failed("would_block", e)
  ELSE Returned([ e EXCEPT !.tasks = Append(@, task) ], << >>)

(* Mutant: the task takes its number from the channel, which is one ahead. *)
DeliverNumbersLate(e, id, seq, message) ==
  LET next == e.channels[id.number].next_recv_seq
      task == [ channel |-> id, sequence |-> next, payload |-> message ]
      delivered == Event(e, "message_delivered", id, seq, message)
  IN
  IF Executor THEN Submit(delivered, task) ELSE CompletePlugin(delivered, task)

(* The message is delivered; its plugin runs at once or is queued. *)
Deliver(e, id, seq, message) ==
  LET task == [ channel |-> id, sequence |-> seq, payload |-> message ]
      delivered == Event(e, "message_delivered", id, seq, message)
  IN
  IF Executor THEN Submit(delivered, task) ELSE CompletePlugin(delivered, task)

(* Mutant: a message is delivered whenever it is complete. *)
InOrderNever(slot, seq) == TRUE

InOrder(slot, seq) == seq = slot.next_recv_seq

(* handle_data: the buffer has taken the fragment before the order of the  *)
(* completed message is looked at; the credit reserved is given back.      *)
HandleData(e, id, body) ==
  LET slot   == e.channels[id.number]
      result == Insert(slot.reassembler, body.sequence, body.total,
                       [ offset |-> body.offset, bytes |-> body.bytes ])
      taken  == [ e EXCEPT !.channels[id.number].reassembler = result.reassembler ]
  IN
  IF e.state # "active" THEN Failed("not_active", e)
  ELSE IF ~ Found(e.channels, id) THEN Failed("stale_generation", e)
  ELSE IF slot.remote_half_closed THEN Failed("illegal_state", e)
  ELSE IF body.sequence < slot.next_recv_seq THEN Failed("sequence_error", e)
  ELSE IF ~ CanReserve(slot.flow, Len(body.bytes)) THEN Failed("would_block", e)
  ELSE IF result.error # "none" THEN Failed(result.error, taken)
  ELSE IF result.message = NoMessage
    THEN Returned(Schedule(taken, "fragment_gap", id, FragmentGap), << >>)
  ELSE IF ~ InOrder(slot, body.sequence) THEN Failed("sequence_error", taken)
  ELSE Deliver([ taken EXCEPT !.channels[id.number].next_recv_seq = @ + 1 ],
               id, body.sequence, result.message)

HandleCredit(e, id, amount) ==
  IF ~ e.negotiated THEN Failed("illegal_state", e)
  ELSE IF ~ Found(e.channels, id) THEN Failed("stale_generation", e)
  ELSE LET flow == e.channels[id.number].flow IN
       IF GrantError(flow, amount) # "none" THEN Failed(GrantError(flow, amount), e)
       ELSE Returned([ e EXCEPT !.channels[id.number].flow = Grant(flow, amount) ], << >>)

HandleAck(e, ranges) ==
  IF AckRejected(e.window, ranges) THEN Failed("ack_rejected", e)
  ELSE Returned([ e EXCEPT !.window = RetainedAfter(@, ranges) ], << >>)

HandlePing(e, token) == Emit(e, "pong", ControlId, token)

(* Mutant: the token that is awaited is not cleared. *)
AwaitedAfterKept(pong, token) == pong

(* Only the PONG with the token of the last idle PING is awaited. *)
AwaitedAfter(pong, token) == IF pong = token THEN NoToken ELSE pong

HandlePong(e, token) ==
  Returned(Event([ e EXCEPT !.pong = AwaitedAfter(@, token) ],
                 "pong_received", ControlId, token, NoMessage), << >>)

(* handle_resume answers with retained frames as they were, which are not  *)
(* recorded again, and makes the connection active whatever it was.        *)
HandleResume(e, first) ==
  IF ~ e.negotiated \/ ~ CanResume(e.window, first) THEN Failed("resume_rejected", e)
  ELSE LET suffix == RetainedFrom(e.window, first) IN
       Returned(Notice([ e EXCEPT !.state = "active" ], "resumed", ControlId),
                [ i \in DOMAIN suffix |-> suffix[i].frame ])

(* Mutant: the direction is not turned round for the receiver. *)
OppositeSame(direction) == direction

(* What the sender calls local is remote to the receiver. *)
Opposite(direction) == IF direction = "local_send" THEN "remote_send" ELSE "local_send"

HandleHalfClose(e, id, direction) ==
  LET close == HalfClose(e.channels, id, Opposite(direction)) IN
  IF ~ e.negotiated THEN Failed("illegal_state", e)
  ELSE IF close.error # "none" THEN Failed(close.error, e)
  ELSE Returned(Notice([ e EXCEPT !.channels = close.table ], "half_closed", id), << >>)

(* A RESET for a channel that is not there is no error. *)
HandleReset(e, id) ==
  Returned(Notice([ e EXCEPT !.channels = Reset(@, id).table ], "channel_reset", id), << >>)

(* Mutant: the drain of a GOAWAY that was received has no deadline. *)
HandleGoAwayUnbounded(e, id) ==
  Returned(Notice([ e EXCEPT !.state = "draining" ], "closed", id), << >>)

HandleGoAway(e, id) ==
  Returned(Notice(Schedule([ e EXCEPT !.state = "draining" ], "drain", ControlId, DrainTimeout),
                  "closed", id), << >>)

HandleFrame(e, frame) ==
  CASE frame.type = "hello"      -> HandleHello(e)
    [] frame.type = "open"       -> HandleOpen(e, frame.channel)
    [] frame.type = "data"       -> HandleData(e, frame.channel, frame.body)
    [] frame.type = "ack"        -> HandleAck(e, frame.body)
    [] frame.type = "credit"     -> HandleCredit(e, frame.channel, frame.body)
    [] frame.type = "ping"       -> HandlePing(e, frame.body)
    [] frame.type = "pong"       -> HandlePong(e, frame.body)
    [] frame.type = "resume"     -> HandleResume(e, frame.body)
    [] frame.type = "half_close" -> HandleHalfClose(e, frame.channel, frame.body)
    [] frame.type = "reset"      -> HandleReset(e, frame.channel)
    [] frame.type = "goaway"     -> HandleGoAway(e, frame.channel)

(* receive, for the frames that one chunk of bytes completes: the first    *)
(* error ends it, and what the frames before it produced and the frames    *)
(* after it are lost.                                                      *)
Handled(got, frame) ==
  LET r == HandleFrame(got.endpoint, frame) IN
  IF got.error # "none" THEN got
  ELSE IF r.error = "none" THEN Returned(r.endpoint, got.out \o r.out)
  ELSE Failed(r.error, Notice([ r.endpoint EXCEPT
         !.state = IF r.error \in Fatal THEN "closed" ELSE @ ], "diagnostic", ControlId))

Receive(e, frames) ==
  LET after[i \in 0 .. Len(frames)] ==
        IF i = 0 THEN Returned(e, << >>) ELSE Handled(after[i - 1], frames[i])
  IN  after[Len(frames)]

-----------------------------------------------------------------------------
(* advance_time *)

Timeout(e) ==
  Failed("timeout", Notice([ e EXCEPT !.state = "closed" ], "diagnostic", ControlId))

(* Mutant: nothing waits for the answer to an idle PING. *)
IdleExpiredNoDeadline(e) ==
  LET Pinged(result) ==
        IF result.error # "none" THEN result
        ELSE Returned(Schedule(result.endpoint, "idle", ControlId, IdlePing), result.out)
  IN  Pinged(PingCall([ e EXCEPT !.pong = Max({ 1, e.now }) ], Max({ 1, e.now })))

(* The token is awaited before the PING is sent, and the next deadlines    *)
(* are set only once it was.                                               *)
IdleExpired(e) ==
  LET Pinged(result) ==
        IF result.error # "none" THEN result
        ELSE Returned(Schedule(Schedule(result.endpoint, "pong_deadline", ControlId, PongTimeout),
                               "idle", ControlId, IdlePing), result.out)
  IN  Pinged(PingCall([ e EXCEPT !.pong = Max({ 1, e.now }) ], Max({ 1, e.now })))

Expired(e, timer) ==
  CASE timer.kind = "handshake" ->
         IF e.state = "negotiating" THEN Timeout(e) ELSE Returned(e, << >>)
    [] timer.kind = "idle" -> IdleExpired(e)
    [] timer.kind = "pong_deadline" ->
         IF e.pong = NoToken THEN Returned(e, << >>)
         ELSE Failed("timeout", Notice(Timeout(e).endpoint, "closed", ControlId))
    [] timer.kind = "drain" ->
         IF e.state # "draining" THEN Returned(e, << >>)
         ELSE Returned(Notice([ e EXCEPT !.state = "closed" ], "closed", ControlId), << >>)
    [] timer.kind = "fragment_gap" ->
         Returned(Notice([ e EXCEPT !.channels = Reset(@, timer.channel).table ],
                         "channel_reset", timer.channel), << >>)

(* Once a timer has closed the connection the ones after it are only told. *)
Ticked(got, timer) ==
  LET seen == Notice(got.endpoint, "timer_expired", timer.channel) IN
  IF got.error # "none" THEN got
  ELSE IF seen.state = "closed" THEN Returned(seen, got.out)
  ELSE Continued(got.out, Expired(seen, timer))

(* The timers that are due leave the wheel together; an error ends the     *)
(* call and the ones after it are lost.                                    *)
AdvanceTime(e, now) ==
  LET due == DueBy(e.timers, now)
      after[i \in 0 .. Len(due)] ==
        IF i = 0 THEN Returned([ e EXCEPT !.now = now, !.timers = DueAfter(@, now) ], << >>)
        ELSE Ticked(after[i - 1], due[i])
  IN  after[Len(due)]
=============================================================================
