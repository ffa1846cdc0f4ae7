-------------------------------- MODULE Bridge --------------------------------
(***************************************************************************)
(* The bridge between two connections (bridge_unix and its loop in         *)
(* tools/lattice.cpp): it reads a route policy, connects and says HELLO to *)
(* a peer on the left and then to one on the right, registers the routes,  *)
(* and from then on reads whatever side select reports, answers it, and    *)
(* forwards the messages delivered there to the other side.                *)
(*                                                                         *)
(* The bridge is single-threaded and has no timers: it blocks in select or *)
(* in a read of the socket it waits for.  The peers are engines of their   *)
(* own in other processes, at the other ends of two Unix stream sockets,   *)
(* and may hang up at any time.                                            *)
(***************************************************************************)
EXTENDS Engine, RoutePolicy

CONSTANTS
  left, right,   \* the sides
  Cases          \* the circumstances of a behaviour, one record per case:
                 \*   lines        the policy file
                 \*   embedded     a program of its own takes every route of the policy
                 \*                and may have translators; the command takes one route
                 \*   translators  its translators, [family, translator] in order
                 \*   schema       schema[s], the schema of the family negotiated at side s
                 \*   listening    the sides at which a peer listens
                 \*   messages     bound of the model: messages[s], sent by the peer at s
                 \*   opens        bound of the model: opens[s], channels its peer opens
                 \*   resets       the sides whose peer may reset channels

Sides == { left, right }
Other(s) == IF s = left THEN right ELSE left
Family == 7

Health  == INSTANCE Health

VARIABLES
  case,
  phase,      \* where bridge_unix is
  todo,       \* the sides select has reported and the loop has not come to
  bridge,     \* bridge[s]: the bridge's engine for side s
  gateway,
  cursor,     \* cursor[s]: events of bridge[s] that have been looked at
  peer,       \* peer[s]: the engine of the peer at s
  hung,       \* hung[s]: that peer has closed its socket
  toBridge,   \* toBridge[s], toPeer[s]: the frames under way
  toPeer,
  sent,       \* history: sent[s], the messages for which the peer's send took a sequence
  start,      \* history: start[s], the cursor when the loop began
  lost        \* history: a peer has refused a frame

vars == << case, phase, todo, bridge, gateway, cursor, peer, hung, toBridge, toPeer,
           sent, start, lost >>

Phases == { "policy", "connect", "hello_left", "read_left", "hello_right", "read_right",
            "route", "loop", "ended" }

Each(value) == [ s \in Sides |-> value ]

Init ==
  /\ case \in Cases
  /\ phase = "policy" /\ todo = {}
  /\ bridge = Each(Created) /\ gateway = EmptyGateway /\ cursor = Each(0)
  /\ peer = Each(Created) /\ hung = Each(FALSE)
  /\ toBridge = Each(<< >>) /\ toPeer = Each(<< >>)
  /\ sent = Each(<< >>) /\ start = Each(0) /\ lost = FALSE

peers == << peer, hung, toBridge, toPeer, sent, lost >>

-----------------------------------------------------------------------------
(* bridge_unix *)

(* The routes the program will register, as entries. *)
Policy ==
  IF case.embedded THEN Parse(case.lines)
  ELSE LET read == ReadBridgePolicy(case.lines) IN
       IF read.error = "none" THEN Good(<< read.value >>) ELSE read

ReadPolicy ==
  /\ phase = "policy"
  /\ phase' = IF Policy.error = "none" THEN "connect" ELSE "ended"
  /\ UNCHANGED << case, todo, bridge, gateway, cursor, start, peers >>

(* connect_path, left before right. *)
Connect ==
  /\ phase = "connect"
  /\ phase' = IF case.listening = Sides THEN "hello_left" ELSE "ended"
  /\ UNCHANGED << case, todo, bridge, gateway, cursor, start, peers >>

(* write_all; a peer that has hung up ends the program, by an error or by  *)
(* the signal that comes with it.                                          *)
Write(s, frames) ==
  toPeer' = [ toPeer EXCEPT ![s] = IF hung[s] THEN @ ELSE @ \o frames ]

WriteFails(s, frames) == hung[s] /\ frames # << >>

(* negotiate_unix_peer: HELLO goes out. *)
SayHello(s, now, next) ==
  /\ phase = now
  /\ \E result \in { Start(bridge[s]) } :
       /\ bridge' = [ bridge EXCEPT ![s] = result.endpoint ]
       /\ Write(s, result.out)
       /\ phase' = IF WriteFails(s, result.out) THEN "ended" ELSE next
  /\ UNCHANGED << case, todo, gateway, cursor, start, peer, hung, toBridge, sent, lost >>

(* A read returns frames that are there, or nothing: the peer has hung up  *)
(* and all it wrote was read, or a signal has interrupted the read.  Both  *)
(* are taken for the end of the connection.                                *)
ReadAt(s) ==
  { SubSeq(toBridge[s], 1, n) : n \in 1 .. Len(toBridge[s]) } \cup { << >> }

EndOfStream(s) == phase' = "ended" /\ UNCHANGED << bridge, toBridge, toPeer >>

(* ... and reads until it is answered, whatever comes with the answer. *)
ReadHello(s, now, next) ==
  /\ phase = now
  /\ \E frames \in ReadAt(s) :
       IF frames = << >> THEN EndOfStream(s)
       ELSE \E result \in { Receive(bridge[s], frames) } :
              /\ bridge' = [ bridge EXCEPT ![s] = result.endpoint ]
              /\ toBridge' = [ toBridge EXCEPT ![s] = SubSeq(@, Len(frames) + 1, Len(@)) ]
              /\ Write(s, result.out)
              /\ phase' = IF result.error # "none" \/ WriteFails(s, result.out) THEN "ended"
                          ELSE IF result.endpoint.state = "negotiating" THEN now ELSE next
  /\ UNCHANGED << case, todo, gateway, cursor, start, peer, hung, sent, lost >>

CapabilitiesAt(s) ==
  [ plugins |-> { [ family |-> Family, schema |-> case.schema[s] ] }, max_message |-> MaxMessage ]

(* The routes are registered, one message of the policy is translated as a *)
(* trial, and the events so far are behind the cursors.                    *)
Route ==
  LET entries == Policy.value
      translating == FoldLeft(LAMBDA g, t : AddTranslator(g, t.family, t.translator), EmptyGateway,
                              case.translators)
      applied == Apply(translating, entries)
      trial   == BridgeMessage(applied.gateway, CapabilitiesAt(left), CapabilitiesAt(right),
                               entries[1].source, entries[1].payload)
  IN
  /\ phase = "route"
  /\ gateway' = applied.gateway
  /\ phase' = IF applied.error = "none" /\ trial.error = "none" THEN "loop" ELSE "ended"
  /\ cursor' = [ s \in Sides |-> Len(bridge[s].events) ]
  /\ start' = cursor'
  /\ UNCHANGED << case, todo, bridge, peers >>

-----------------------------------------------------------------------------
(* run_unix_bridge_loop *)

Readable(s) == toBridge[s] # << >> \/ hung[s]

(* select *)
Select ==
  /\ phase = "loop" /\ todo = {}
  /\ todo' = { s \in Sides : Readable(s) }
  /\ todo' # {}
  /\ UNCHANGED << case, phase, bridge, gateway, cursor, start, peers >>

(* Mutant: the events are looked at from the beginning. *)
UnseenAll(e, seen) == e.events

(* The events a side has not looked at. *)
Unseen(e, seen) == SubSeq(e.events, seen + 1, Len(e.events))

(* An event is behind the cursor before it is forwarded, and skipped when  *)
(* it has no route.  The frames of a message are written at once.          *)
ForwardEvent(s, acc, event) ==
  LET Translate == BridgeMessage(gateway, CapabilitiesAt(s), CapabilitiesAt(Other(s)),
                                 event.channel, event.payload)
      SendOn(message) ==
        IF message.error # "none" THEN Failed(message.error, acc.to)
        ELSE Send(acc.to, RoutesOf(gateway, event.channel)[1].destination, message.payload)
      Forwarded(call) ==
        [ error |-> IF WriteFails(Other(s), call.out) THEN "transport_error" ELSE call.error,
          to |-> call.endpoint, out |-> acc.out \o call.out, seen |-> acc.seen + 1 ]
  IN
  IF acc.error # "none" THEN acc
  ELSE IF event.kind # "message_delivered" \/ RoutesOf(gateway, event.channel) = << >>
    THEN [ acc EXCEPT !.seen = @ + 1 ]
  ELSE Forwarded(SendOn(Translate))

(* forward_new_events, from s to the other side, until the first error. *)
ForwardNewEvents(s, from, to) ==
  FoldLeft(LAMBDA acc, event : ForwardEvent(s, acc, event),
           [ error |-> "none", to |-> to, out |-> << >>, seen |-> cursor[s] ],
           Unseen(from, cursor[s]))

(* Left before right. *)
Turn(s) == s \in todo /\ (s = right => left \notin todo)

(* read_bridge_side *)
ReadSide(s) ==
  /\ phase = "loop" /\ Turn(s)
  /\ todo' = todo \ { s }
  /\ \E frames \in ReadAt(s) :
       IF frames = << >> THEN EndOfStream(s) /\ UNCHANGED cursor
       ELSE \E result \in { Receive(bridge[s], frames) } :
            \E forwarded \in { IF result.error = "none" /\ ~ WriteFails(s, result.out)
                               THEN ForwardNewEvents(s, result.endpoint, bridge[Other(s)])
                               ELSE [ error |-> "not_reached", to |-> bridge[Other(s)],
                                      out |-> << >>, seen |-> cursor[s] ] } :
              /\ bridge' = [ t \in Sides |-> IF t = s THEN result.endpoint ELSE forwarded.to ]
              /\ toBridge' = [ toBridge EXCEPT ![s] = SubSeq(@, Len(frames) + 1, Len(@)) ]
              /\ toPeer' = [ t \in Sides |->
                               IF hung[t] THEN toPeer[t]
                               ELSE toPeer[t] \o (IF t = s THEN result.out ELSE forwarded.out) ]
              /\ cursor' = [ cursor EXCEPT ![s] = forwarded.seen ]
              /\ phase' = IF forwarded.error = "none" THEN "loop" ELSE "ended"
  /\ UNCHANGED << case, gateway, start, peer, hung, sent, lost >>

-----------------------------------------------------------------------------
(* The peers *)

bridging == << case, phase, todo, bridge, gateway, cursor, start >>

Here(s) == s \in case.listening /\ ~ hung[s] /\ phase \notin { "policy", "connect" }

PeerStart(s) ==
  /\ Here(s) /\ peer[s].state = "created"
  /\ \E result \in { Start(peer[s]) } :
       /\ peer' = [ peer EXCEPT ![s] = result.endpoint ]
       /\ toBridge' = [ toBridge EXCEPT ![s] = @ \o result.out ]
  /\ UNCHANGED << bridging, hung, toPeer, sent, lost >>

PeerReceive(s) ==
  /\ Here(s) /\ peer[s].state # "created" /\ toPeer[s] # << >>
  /\ \E result \in { Receive(peer[s], << Head(toPeer[s]) >>) } :
       /\ peer' = [ peer EXCEPT ![s] = result.endpoint ]
       /\ toBridge' = [ toBridge EXCEPT ![s] = @ \o result.out ]
       /\ lost' = (lost \/ result.error # "none")
  /\ toPeer' = [ toPeer EXCEPT ![s] = Tail(@) ]
  /\ UNCHANGED << bridging, hung, sent >>

Ids(s) == { [ number |-> n, generation |-> peer[s].channels[n].generation ] : n \in Numbers }

OpenedBy(s) == Cardinality({ i \in DOMAIN peer[s].events : peer[s].events[i].kind = "channel_opened" })

PeerOpen(s) ==
  /\ Here(s) /\ OpenedBy(s) < case.opens[s]
  /\ \E result \in { OpenChannel(peer[s]) } :
       /\ result.error = "none"
       /\ peer' = [ peer EXCEPT ![s] = result.endpoint ]
       /\ toBridge' = [ toBridge EXCEPT ![s] = @ \o result.out ]
  /\ UNCHANGED << bridging, hung, toPeer, sent, lost >>

(* A message no other one is mistaken for. *)
Message(s, size) == [ i \in 1 .. size |-> << s, Len(sent[s]) + 1, i >> ]

PeerSend(s, id, size) ==
  /\ Here(s) /\ Len(sent[s]) < case.messages[s]
  /\ \E result \in { Send(peer[s], id, Message(s, size)) } :
       /\ result.error = "none"
       /\ peer' = [ peer EXCEPT ![s] = result.endpoint ]
       /\ toBridge' = [ toBridge EXCEPT ![s] = @ \o result.out ]
       /\ sent' = [ sent EXCEPT ![s] = Append(@, [ channel |-> id, payload |-> Message(s, size) ]) ]
  /\ UNCHANGED << bridging, hung, toPeer, lost >>

PeerReset(s, id) ==
  /\ Here(s) /\ s \in case.resets /\ Found(peer[s].channels, id)
  /\ \E result \in { ResetCall(peer[s], id) } :
       /\ peer' = [ peer EXCEPT ![s] = result.endpoint ]
       /\ toBridge' = [ toBridge EXCEPT ![s] = @ \o result.out ]
  /\ UNCHANGED << bridging, hung, toPeer, sent, lost >>

PeerHangsUp(s) ==
  /\ Here(s)
  /\ hung' = [ hung EXCEPT ![s] = TRUE ]
  /\ toPeer' = [ toPeer EXCEPT ![s] = << >> ]
  /\ UNCHANGED << bridging, peer, toBridge, sent, lost >>

-----------------------------------------------------------------------------
BridgeStep ==
  \/ ReadPolicy
  \/ Connect
  \/ SayHello(left, "hello_left", "read_left")
  \/ ReadHello(left, "read_left", "hello_right")
  \/ SayHello(right, "hello_right", "read_right")
  \/ ReadHello(right, "read_right", "route")
  \/ Route
  \/ Select
  \/ \E s \in Sides : ReadSide(s)

Next ==
  \/ BridgeStep
  \/ \E s \in Sides :
       \/ PeerStart(s)
       \/ PeerReceive(s)
       \/ PeerOpen(s)
       \/ \E id \in Ids(s), size \in 1 .. MaxMessage : PeerSend(s, id, size)
       \/ \E id \in Ids(s) : PeerReset(s, id)
       \/ PeerHangsUp(s)

Spec == Init /\ [][Next]_vars

-----------------------------------------------------------------------------
TypeOK ==
  /\ phase \in Phases
  /\ todo \subseteq Sides /\ (todo # {} => phase \in { "loop", "ended" })
  /\ \A s \in Sides :
       /\ cursor[s] \in start[s] .. Len(bridge[s].events)
       /\ bridge[s].state \in ConnectionState /\ peer[s].state \in ConnectionState
       /\ bridge[s].scheduler.queued \in 0 .. ByteLimit

DeliveredOn(e, id) ==
  SelectSeq(e.events, LAMBDA v : v.kind = "message_delivered" /\ v.channel = id)

(* What has arrived at the far peer on channel d of the messages the peer  *)
(* at s sent on channel c.                                                 *)
Arrived(s, c, d) ==
  LET got  == DeliveredOn(peer[Other(s)], d)
      From(v) == v.payload[1][1] = s /\ sent[s][v.payload[1][2]].channel = c
      mine == SelectSeq(got, From)
  IN  [ i \in DOMAIN mine |-> mine[i].payload ]

(* What should: all but what was delivered before the loop began. *)
Due(s, c) ==
  LET mine    == SelectSeq(sent[s], LAMBDA m : m.channel = c)
      skipped == Len(DeliveredOn([ events |-> SubSeq(bridge[s].events, 1, start[s]) ], c))
  IN  [ i \in 1 .. Len(mine) - skipped |->
          Translated(gateway, Family, mine[i + skipped].payload).payload ]

(* Nothing is under way.  Data may be left in a scheduler for good, when   *)
(* its channels take turns (OutboundScheduler with OneNumbering).          *)
AtRest ==
  /\ phase = "loop" /\ todo = {} /\ ~ lost
  /\ \A s \in Sides : /\ ~ hung[s] /\ toBridge[s] = << >> /\ toPeer[s] = << >>
                      /\ peer[s].scheduler.queued = 0 /\ bridge[s].scheduler.queued = 0

Routed(c, d) == RoutesOf(gateway, c) # << >> /\ RoutesOf(gateway, c)[1].destination = d

(* From the beginning of the loop on, the messages one peer sends on a     *)
(* routed channel arrive at the other peer on the destination of the       *)
(* route, translated, in order, each once, and once all is quiet every one *)
(* of them has; no message arrives on any other channel.                   *)
MessagesCross ==
  TypeOK /\ \A s \in Sides : \A c \in { m.channel : m \in Range(sent[s]) }, d \in Ids(Other(s)) :
    IF Routed(c, d)
    THEN /\ IsPrefix(Arrived(s, c, d), Due(s, c))
         /\ AtRest => Arrived(s, c, d) = Due(s, c)
    ELSE Arrived(s, c, d) = << >>

(* A policy that is accepted survives: written out and parsed again it is  *)
(* the same; a gateway made of it routes each source as its entry says; if *)
(* the reader of the bridge command accepts it too, a single route means   *)
(* the same to both; and its health report is coherent and not failed      *)
(* unless a route leads back to its source.                                *)
PolicySurvives ==
  LET parsed == Parse(case.lines)
      read   == ReadBridgePolicy(case.lines)
      routes == parsed.value
      Meaning(r) == << r.source, r.destination, r.family >>
      Count(P(_)) == Cardinality({ i \in DOMAIN routes : P(routes[i]) })
      shared == { f \in { r.family : r \in Range(routes) } : Count(LAMBDA r : r.family = f) > 1 }
      loops  == Count(LAMBDA r : r.source = r.destination)
      health == Health!PolicyHealth(0, loops, Count(LAMBDA r : r.payload = << >>), Cardinality(shared))
  IN
  phase = "policy" /\ parsed.error = "none" =>
    /\ Parse(Serialize(routes).value) = parsed
    /\ \A r \in Range(routes) :
         /\ EntriesOf(routes, r.source) = << r >>
         /\ Meaning(RoutesOf(Apply(EmptyGateway, routes).gateway, r.source)[1]) = Meaning(r)
    /\ Len(routes) = 1 /\ read.error = "none" => Meaning(read.value) = Meaning(routes[1])
    /\ Health!Coherent(health)
    /\ (health.level = "failed") = (loops > 0)
=============================================================================
