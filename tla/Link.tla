--------------------------------- MODULE Link ---------------------------------
(***************************************************************************)
(* Two engines at the ends of one connection: a reliable, ordered byte     *)
(* stream in each direction that is cut into chunks anywhere, so that a    *)
(* receive completes one or several frames; each engine with the queue of  *)
(* its executor; and the clock, which the applications read and report.    *)
(* Bytes of a frame that is not complete stay in the decoder and are not   *)
(* told apart from bytes still on the wire.                                *)
(***************************************************************************)
EXTENDS Engine, FiniteSets

Events == INSTANCE EventSummary
Health == INSTANCE Health

CONSTANTS
  Endpoints,       \* the two ends
  Uses             \* what the applications of a behaviour may do, one record per kind of use:
                   \*   calls     calls[p], the calls p makes ("time" and "cut" happen to it)
                   \*   sizes     the sizes of the messages sent
                   \*   messages  bound of the model: messages sent by each end
                   \*   frames    bound of the model: p calls until it has numbered frames[p] frames
                   \*   chunk     bound of the model: frames completed by one receive
                   \*   time      bound of the model: the clock

Calls == { "open", "send", "half_close", "reset", "flush", "goaway", "credit", "ack", "ping",
           "resume", "time", "cut" }

ASSUME LinkAssumption ==
  /\ IsFiniteSet(Endpoints) /\ Cardinality(Endpoints) = 2
  /\ \A u \in Uses :
       /\ u.calls \in [ Endpoints -> SUBSET Calls ] /\ u.sizes \subseteq Nat
       /\ u.frames \in [ Endpoints -> Nat ]
       /\ u.chunk \in Nat \ {0} /\ { u.messages, u.time } \subseteq Nat

VARIABLES
  use,     \* what the applications may do in this behaviour
  ep,      \* ep[p]: the engine of p
  wire,    \* wire[p]: the frames under way to p
  clock,
  cut,     \* cut[p]: since when nothing reaches p any more; NotCut while it does
  sent,    \* history: sent[p], the messages for which send took a sequence, in order
  dropped, \* history: frames were lost behind an error in their chunk or to one that closes
           \*   the connection, or a timer has reset a channel, of which the peer is not told
  meddled  \* history: GOAWAY, CREDIT, ACK or RESUME has been sent by a call

vars == << use, ep, wire, clock, cut, sent, dropped, meddled >>

NotCut == 0 - 1

Peer(p) == CHOOSE q \in Endpoints : q # p

Init ==
  /\ use \in Uses
  /\ ep = [ p \in Endpoints |-> Created ]
  /\ wire = [ p \in Endpoints |-> << >> ]
  /\ clock = 0
  /\ cut = [ p \in Endpoints |-> NotCut ]
  /\ sent = [ p \in Endpoints |-> << >> ]
  /\ dropped = FALSE
  /\ meddled = FALSE

(* A call returns: its frames go out. *)
Result(p, result) ==
  /\ ep' = [ ep EXCEPT ![p] = result.endpoint ]
  /\ wire' = [ wire EXCEPT ![Peer(p)] = @ \o result.out ]

(* Applications start the engine before they use it. *)
Allowed(p, operation) ==
  /\ operation \in use.calls[p]
  /\ ep[p].state # "created"
  /\ ep[p].next_frame_seq <= use.frames[p]

Call(p, operation, results) ==
  /\ Allowed(p, operation)
  /\ \E result \in results : Result(p, result)
  /\ meddled' = (meddled \/ operation \in { "goaway", "credit", "ack", "resume" })
  /\ UNCHANGED << use, clock, cut, sent, dropped >>

StartEngine(p) ==
  /\ ep[p].state = "created"
  /\ \E result \in { Start(ep[p]) } : Result(p, result)
  /\ UNCHANGED << use, clock, cut, sent, dropped, meddled >>

(* The ids p can name: those of its slots' present or last channels. *)
Ids(p) == { [ number |-> n, generation |-> ep[p].channels[n].generation ] : n \in Numbers }

(* A message no other message is mistaken for. *)
Message(p, size) == [ i \in 1 .. size |-> << p, Len(sent[p]) + 1, i >> ]

SendMessage(p, id, size) ==
  /\ Allowed(p, "send") /\ Len(sent[p]) < use.messages
  /\ \E result \in { Send(ep[p], id, Message(p, size)) } :
       /\ Result(p, result)
       /\ sent' = IF result.endpoint.channels[id.number].next_send_seq
                       = ep[p].channels[id.number].next_send_seq
                  THEN sent
                  ELSE [ sent EXCEPT ![p] = Append(@, [ channel |-> id, payload |-> Message(p, size) ]) ]
  /\ UNCHANGED << use, clock, cut, dropped, meddled >>

(* Some frame that is not the last of the chunk fails. *)
DropsTail(p, frames) ==
  \E k \in 1 .. frames - 1 : Receive(ep[p], SubSeq(wire[p], 1, k)).error # "none"

(* An engine is started before it reads. *)
ReceiveChunk(p, frames) ==
  /\ ep[p].state # "created"
  /\ cut[p] = NotCut
  /\ frames <= Len(wire[p])
  /\ \E result \in { Receive(ep[p], SubSeq(wire[p], 1, frames)) } :
       /\ ep' = [ ep EXCEPT ![p] = result.endpoint ]
       /\ wire' = [ wire EXCEPT ![p] = SubSeq(@, frames + 1, Len(@)),
                                ![Peer(p)] = @ \o result.out ]
       /\ dropped' = (dropped \/ DropsTail(p, frames) \/ result.error \in Fatal)
  /\ UNCHANGED << use, clock, cut, sent, meddled >>

RunTask(p) ==
  /\ ep[p].tasks # << >>
  /\ \E result \in { DrainOne(ep[p]) } : Result(p, result)
  /\ UNCHANGED << use, clock, cut, sent, dropped, meddled >>

(* Time passes once both applications have reported the last step of the   *)
(* clock and every frame that can arrive has: a round trip is shorter than *)
(* a step.                                                                 *)
Tick ==
  /\ \A p \in Endpoints : "time" \in use.calls[p]
  /\ clock < use.time
  /\ \A p \in Endpoints : ep[p].state # "created" /\ ep[p].now = clock
  /\ \A p \in Endpoints : wire[p] # << >> => cut[p] # NotCut
  /\ clock' = clock + 1
  /\ UNCHANGED << use, ep, wire, cut, sent, dropped, meddled >>

ReportTime(p) ==
  /\ ep[p].now < clock
  /\ \E result \in { AdvanceTime(ep[p], clock) } :
       /\ Result(p, result)
       /\ dropped' = (dropped \/ result.endpoint.channels # ep[p].channels)
  /\ UNCHANGED << use, clock, cut, sent, meddled >>

(* The direction to p goes dead. *)
Cut(p) ==
  /\ "cut" \in use.calls[p]
  /\ \A q \in Endpoints : cut[q] = NotCut
  /\ cut' = [ cut EXCEPT ![p] = clock ]
  /\ UNCHANGED << use, ep, wire, clock, sent, dropped, meddled >>

Next ==
  \E p \in Endpoints :
    \/ StartEngine(p)
    \/ Call(p, "open", { OpenChannel(ep[p]) })
    \/ \E id \in Ids(p), size \in use.sizes : SendMessage(p, id, size)
    \/ \E id \in Ids(p), direction \in Direction :
         Call(p, "half_close", { HalfCloseCall(ep[p], id, direction) })
    \/ \E id \in Ids(p) : Call(p, "reset", { ResetCall(ep[p], id) })
    \/ Call(p, "flush", { Flush(ep[p]) })
    \/ \E id \in Ids(p) : Call(p, "credit", { GrantCredit(ep[p], id, 1) })
    \/ Call(p, "goaway", { GoAway(ep[p]) })
    \/ Call(p, "ping", { PingCall(ep[p], use.time + 1) })
    \/ \E first \in 1 .. 3 : Call(p, "resume", { ResumeCall(ep[p], first) })
    \/ Call(p, "ack", { AcknowledgeCall(ep[p], << [ first |-> 1, last |-> 1 ] >>) })
    \/ \E frames \in 1 .. use.chunk : ReceiveChunk(p, frames)
    \/ RunTask(p)
    \/ Tick
    \/ ReportTime(p)
    \/ Cut(p)

Spec == Init /\ [][Next]_vars

-----------------------------------------------------------------------------
TypeOK ==
  \A p \in Endpoints :
    /\ ep[p].state \in ConnectionState
    /\ ep[p].pong \in 0 .. use.time + 1
    /\ ep[p].now <= clock
    /\ Len(ep[p].tasks) <= ExecutorCapacity
    /\ ep[p].scheduler.queued \in 0 .. ByteLimit
    /\ Len(ep[p].window) <= Capacity

(* Where events of one kind for a channel are among the events raised, and *)
(* where the messages for a channel are among those sent.                  *)
Raised(events, kind, id) ==
  { i \in DOMAIN events : events[i].kind = kind /\ events[i].channel = id }

SentOn(log, id) == { k \in DOMAIN log : log[k].channel = id }

(* i is the how-manieth of the positions. *)
Rank(positions, i) == Cardinality({ j \in positions : j <= i })

(* What has been delivered on a channel is, message for message, what the  *)
(* peer began to send on it, without a gap, a repetition or a change,      *)
(* whatever was lost to errors, overtaken or stuck on the way; it is       *)
(* numbered 1, 2, 3, ...                                                   *)
DeliveredIsPrefix ==
  TypeOK /\ \A p \in Endpoints : \A id \in Ids(p) :
    LET events == ep[p].events
        log    == sent[Peer(p)]
        got    == Raised(events, "message_delivered", id)
        theirs == SentOn(log, id)
    IN  \A i \in got :
          /\ events[i].sequence = Rank(got, i)
          /\ \E k \in theirs :
               /\ Rank(theirs, k) = Rank(got, i)
               /\ events[i].payload = log[k].payload

(* Plugin results: at most one per delivered message, with its number and  *)
(* its bytes, and in the order of delivery although the tasks run later (a *)
(* message that met a full executor has none).                             *)
ResponsesFollowDelivery ==
  \A p \in Endpoints : \A id \in Ids(p) :
    LET events  == ep[p].events
        results == Raised(events, "plugin_response", id)
        got     == Raised(events, "message_delivered", id)
    IN
    /\ \A i, j \in results : i < j => events[i].sequence < events[j].sequence
    /\ \A i \in results : \E j \in got :
         /\ j < i
         /\ events[j].sequence = events[i].sequence
         /\ events[j].payload = events[i].payload

(* A channel that was reset stays so: nothing that is still under way, in  *)
(* the buffer, with the executor or asked for again is delivered or        *)
(* answered on it any more.                                                *)
ResetIsFinal ==
  [][ \A p \in Endpoints : \A id \in Ids(p) :
        ep[p].channels[id.number].state = "tombstone" =>
          /\ ep'[p].channels[id.number] = ep[p].channels[id.number]
          /\ \A kind \in { "message_delivered", "plugin_response" } :
               Raised(ep'[p].events, kind, id) = Raised(ep[p].events, kind, id) ]_vars

(* Once everything has arrived, and unless frames were lost to an error or *)
(* a fragment gap has reset the channel, both ends of a channel agree on   *)
(* whether it lives and which directions are closed, calls that crossed    *)
(* included.                                                               *)
Quiet == \A p \in Endpoints : wire[p] = << >> /\ ep[p].negotiated

EndsAgree ==
  Quiet /\ ~ dropped => \A p \in Endpoints : \A n \in Numbers :
    LET mine == ep[p].channels[n]  theirs == ep[Peer(p)].channels[n] IN
    /\ mine.generation = theirs.generation
    /\ (mine.state \in LiveState) = (theirs.state \in LiveState)
    /\ mine.state \in LiveState =>
         mine.local_half_closed = theirs.remote_half_closed

(* Draining ends: a drain timer is due in time, GOAWAY sent, received or   *)
(* both, in any state, and with timers lost to an error.                   *)
DrainIsBounded ==
  \A p \in Endpoints :
    ep[p].state = "draining" =>
      \E i \in DOMAIN ep[p].timers :
        /\ ep[p].timers[i].kind = "drain"
        /\ ep[p].timers[i].due \in ep[p].now + 1 .. ep[p].now + DrainTimeout

(* Two engines that hear from each other in time, and whose applications   *)
(* only send PINGs, keep their connection for good.                        *)
HealthyLinkStaysOpen ==
  ~ meddled /\ (\A p \in Endpoints : cut[p] = NotCut) => \A p \in Endpoints : ep[p].state # "closed"

(* An engine that hears nothing any more gives up after one keepalive      *)
(* period and one deadline.                                                *)
DeadPeerIsNoticed ==
  \A p \in Endpoints :
    cut[p] # NotCut /\ ep[p].now >= cut[p] + IdlePing + PongTimeout
      => ep[p].state \in { "draining", "closed" }

(* The health report of an end, and of the connection as a whole. *)
ReportOf(p)     == Health!ConnectionHealth(Events!Summarize(ep[p].events))
OverallReport   == LET ends == SetToSeq(Endpoints) IN
                   Health!Merge([ i \in DOMAIN ends |-> ReportOf(ends[i]) ])

(* Reports are coherent, and what was lost to an error or a timer shows:   *)
(* the connection is not reported healthy.                                 *)
LossShows ==
  LET report == OverallReport IN
  /\ Health!Coherent(report)
  /\ dropped => report.level # "healthy"
=============================================================================
