------------------------------- MODULE Handshake -------------------------------
(***************************************************************************)
(* Two ends that start, exchange HELLOs and negotiate: start, receive,     *)
(* handle_hello and the handshake timer of src/connection/engine.cpp, with *)
(* the frame limit each end's codec takes from its own policy.             *)
(***************************************************************************)
EXTENDS Negotiation

CONSTANT Policies   \* what an end may offer

ASSUME HandshakeAssumption ==
  Policies \subseteq Hello /\ \A hello \in Policies : IsFiniteSet(hello.plugins)

VARIABLES
  policy,   \* policy[p]: policy_ and the descriptors of registry_
  state,    \* state[p]: state_
  error,    \* error[p]: the last error of p, or "none"
  caps,     \* caps[p]: capabilities_, once p is active
  inbox     \* inbox[p]: the HELLO under way to p, if any

vars == << policy, state, error, caps, inbox >>

Endpoints == { "left", "right" }

Peer(p) == IF p = "left" THEN "right" ELSE "left"

NoCapabilities == [ major |-> 0 ]

Init ==
  /\ policy \in [ Endpoints -> Policies ]
  /\ state = [ p \in Endpoints |-> "created" ]
  /\ error = [ p \in Endpoints |-> "none" ]
  /\ caps = [ p \in Endpoints |-> NoCapabilities ]
  /\ inbox = [ p \in Endpoints |-> {} ]

(* encode checks the size against p's own frame limit, the scheduler       *)
(* against p's own connection window.                                      *)
HelloCanLeave(p) ==
  /\ HelloSize(policy[p]) <= policy[p].max_frame
  /\ HelloSize(policy[p]) <= policy[p].connection_window

(* start: once the payload is encoded the end negotiates, whether or not   *)
(* its HELLO can be sent.                                                  *)
Start(p) ==
  /\ state[p] = "created"
  /\ \/ /\ EncodeError(policy[p]) # "none"
        /\ error' = [ error EXCEPT ![p] = EncodeError(policy[p]) ]
        /\ UNCHANGED << state, inbox >>
     \/ /\ EncodeError(policy[p]) = "none"
        /\ state' = [ state EXCEPT ![p] = "negotiating" ]
        /\ IF HelloCanLeave(p)
           THEN /\ inbox' = [ inbox EXCEPT ![Peer(p)] = { OnWire(policy[p]) } ]
                /\ UNCHANGED error
           ELSE /\ error' = [ error EXCEPT ![p] = "cannot_send" ]
                /\ UNCHANGED inbox
  /\ UNCHANGED << policy, caps >>

Close(p, reason) ==
  /\ state' = [ state EXCEPT ![p] = "closed" ]
  /\ error' = [ error EXCEPT ![p] = reason ]
  /\ UNCHANGED caps

(* receive of the peer's HELLO by an end that has started: the decoder's   *)
(* limit, then handle_hello.                                               *)
Receive(p) ==
  /\ state[p] # "created"
  /\ \E hello \in inbox[p] :
       \/ /\ HelloSize(hello) > policy[p].max_frame
          /\ Close(p, "frame_too_large")
       \/ /\ HelloSize(hello) <= policy[p].max_frame
          /\ state[p] # "negotiating"
          /\ Close(p, "unexpected_hello")
       \/ /\ HelloSize(hello) <= policy[p].max_frame
          /\ state[p] = "negotiating"
          /\ NegotiationError(policy[p], hello) # "none"
          /\ Close(p, NegotiationError(policy[p], hello))
       \/ /\ HelloSize(hello) <= policy[p].max_frame
          /\ state[p] = "negotiating"
          /\ NegotiationError(policy[p], hello) = "none"
          /\ state' = [ state EXCEPT ![p] = "active" ]
          /\ caps' = [ caps EXCEPT ![p] = Capabilities(policy[p], hello) ]
          /\ UNCHANGED error
  /\ inbox' = [ inbox EXCEPT ![p] = {} ]
  /\ UNCHANGED policy

(* The handshake timer: no time is modelled, it may fire at any moment.    *)
HandshakeTimeout(p) ==
  /\ state[p] = "negotiating"
  /\ Close(p, "timeout")
  /\ UNCHANGED << policy, inbox >>

Next == \E p \in Endpoints : Start(p) \/ Receive(p) \/ HandshakeTimeout(p)

Spec == Init /\ [][Next]_vars

-----------------------------------------------------------------------------
(* The limits of p survive the cast to u32. *)
Representable(p) == OnWire(policy[p]) = policy[p]

(* Both ends freeze the same capabilities, and neither rejects what the    *)
(* other accepts: an end that is active never faces one that negotiate     *)
(* turned away.  Limits of 2^32 and more are cut on the wire only, so they *)
(* are excepted.                                                           *)
HandshakeIsMutual ==
  (\A p \in Endpoints : Representable(p)) =>
    /\ (\A p \in Endpoints : state[p] = "active") => caps["left"] = caps["right"]
    /\ \A p \in Endpoints : state[p] = "active" => error[Peer(p)] \notin Rejections

(* What an active end has frozen both ends can live with: no limit above   *)
(* either policy, a version both speak, all features either one requires   *)
(* and none that one does not offer, plugins both have with one schema.    *)
CapabilitiesSuitBoth ==
  \A p \in Endpoints : state[p] = "active" =>
    \A q \in Endpoints :
      /\ caps[p].max_frame <= policy[q].max_frame
      /\ caps[p].max_message <= policy[q].max_message
      /\ caps[p].connection_window <= policy[q].connection_window
      /\ caps[p].max_channels <= policy[q].max_channels
      /\ caps[p].major \in policy[q].min_major .. policy[q].max_major
      /\ policy[q].required \subseteq caps[p].features
      /\ caps[p].features \subseteq Offered(policy[q])
      /\ caps[p].plugins # {}
      /\ \A x \in caps[p].plugins : \E y \in policy[q].plugins :
           x.family = y.family /\ x.schema = y.schema /\ x.depth <= y.depth

(* No DATA frame of an active end is too large: its own encoder makes it   *)
(* and the decoder of its peer, whose limit is the peer's policy and not   *)
(* what was negotiated, takes it.                                          *)
DataFramesFit ==
  \A p, q \in Endpoints : state[p] = "active" =>
    \A message \in Sendable(caps[p]) :
      FrameSize(DataExtensions, Lesser(message, FragmentLimit(caps[p]))) <= policy[q].max_frame

=============================================================================
