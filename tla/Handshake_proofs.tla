--------------------------- MODULE Handshake_proofs ---------------------------
(***************************************************************************)
(* What two ends agree on, for all policies: the theorems of Handshake.    *)
(* negotiate gives both ends one answer (NegotiationIsSymmetric); the      *)
(* invariant says where a HELLO under way, an active end's capabilities    *)
(* and a rejection come from; the properties follow from the two.          *)
(***************************************************************************)
EXTENDS Handshake, TLAPS

States == { "created", "negotiating", "active", "closed" }

(* What p negotiates with: the peer's policy as the wire carries it. *)
Heard(p) == OnWire(policy[Peer(p)])

Types ==
  /\ policy \in [ Endpoints -> Hello ]
  /\ state \in [ Endpoints -> States ]
  /\ error = [ p \in Endpoints |-> error[p] ]
  /\ caps = [ p \in Endpoints |-> caps[p] ]
  /\ inbox = [ p \in Endpoints |-> inbox[p] ]

(* Only a HELLO that could be encoded gets on its way. *)
HellosAreThePeers ==
  \A p \in Endpoints :
    /\ inbox[p] \subseteq { Heard(p) }
    /\ inbox[p] # {} => EncodeError(policy[Peer(p)]) = "none"

StartedWithAHello ==
  \A p \in Endpoints : state[p] # "created" => EncodeError(policy[p]) = "none"

ActiveHasNegotiated ==
  \A p \in Endpoints : state[p] = "active" =>
    /\ NegotiationError(policy[p], Heard(p)) = "none"
    /\ caps[p] = Capabilities(policy[p], Heard(p))
    /\ EncodeError(policy[Peer(p)]) = "none"

RejectedHasReason ==
  \A p \in Endpoints : error[p] \in Rejections => NegotiationError(policy[p], Heard(p)) # "none"

Inv ==
  Types /\ HellosAreThePeers /\ StartedWithAHello /\ ActiveHasNegotiated /\ RejectedHasReason

-----------------------------------------------------------------------------
(* The lesser of two numbers does not depend on their order. *)
LEMMA LesserFacts ==
  ASSUME NEW m \in Nat, NEW n \in Nat
  PROVE  /\ Lesser(m, n) \in Nat
         /\ Lesser(m, n) = Lesser(n, m)
         /\ Lesser(m, n) <= m /\ Lesser(m, n) <= n
         /\ Lesser(m, n) = m \/ Lesser(m, n) = n
  BY DEF Lesser

(* The wire carries a HELLO with limits no higher than the policy's. *)
LEMMA OnWireFacts ==
  ASSUME NEW hello \in Hello
  PROVE  /\ OnWire(hello) \in Hello
         /\ OnWire(hello).max_frame <= hello.max_frame
         /\ OnWire(hello).max_message <= hello.max_message
         /\ OnWire(hello).connection_window <= hello.connection_window
         /\ OnWire(hello).max_channels = hello.max_channels
         /\ OnWire(hello).min_major = hello.min_major
         /\ OnWire(hello).max_major = hello.max_major
         /\ OnWire(hello).required = hello.required
         /\ OnWire(hello).optional = hello.optional
         /\ OnWire(hello).plugins = hello.plugins
  <1>1. \A n \in Nat : n % LimitModulus \in Nat /\ n % LimitModulus <= n
    BY NegotiationAssumption
  <1>2. QED  BY <1>1 DEF OnWire, Hello

(* The pairs of descriptors of one family, seen from the other end. *)
LEMMA MatchesAreSymmetric ==
  ASSUME NEW x \in Hello, NEW y \in Hello
  PROVE  /\ \A m \in Matches(x, y) : << m[2], m[1] >> \in Matches(y, x)
         /\ SchemaMismatch(x, y) <=> SchemaMismatch(y, x)
         /\ Matches(x, y) = {} <=> Matches(y, x) = {}
  <1>1. ASSUME NEW u \in Hello, NEW v \in Hello
        PROVE  \A m \in Matches(u, v) : << m[2], m[1] >> \in Matches(v, u)
    BY DEF Matches
  <1>2. QED  BY <1>1 DEF SchemaMismatch

(* Without a schema mismatch both ends share the same plugins. *)
LEMMA SharedPluginsAreSymmetric ==
  ASSUME NEW x \in Hello, NEW y \in Hello, ~ SchemaMismatch(x, y)
  PROVE  SharedPlugins(x, y) = SharedPlugins(y, x)
  <1>1. ASSUME NEW u \in Hello, NEW v \in Hello, ~ SchemaMismatch(u, v)
        PROVE  SharedPlugins(u, v) \subseteq SharedPlugins(v, u)
    <2>1. SUFFICES ASSUME NEW m \in Matches(u, v)
                   PROVE  [ family |-> m[1].family, schema |-> m[1].schema,
                            depth |-> Lesser(m[1].depth, m[2].depth) ] \in SharedPlugins(v, u)
      BY DEF SharedPlugins
    <2>2. << m[2], m[1] >> \in Matches(v, u)
      BY MatchesAreSymmetric
    <2>3. m[1].family = m[2].family /\ m[1].schema = m[2].schema
      BY <1>1 DEF Matches, SchemaMismatch
    <2>4. m[1].depth \in Nat /\ m[2].depth \in Nat
      BY DEF Matches, Hello, PluginDescriptor
    <2>5. Lesser(m[1].depth, m[2].depth) = Lesser(m[2].depth, m[1].depth)
      BY <2>4, LesserFacts
    <2>6. QED  BY <2>2, <2>3, <2>5 DEF SharedPlugins
  <1>2. ~ SchemaMismatch(y, x)
    BY MatchesAreSymmetric
  <1>3. QED  BY <1>1, <1>2

(* Both ends reach the same verdict, for the same reason, and where they   *)
(* accept they derive the same capabilities: negotiate is called with the  *)
(* two HELLOs exchanged.                                                   *)
THEOREM NegotiationIsSymmetric ==
  ASSUME NEW x \in Hello, NEW y \in Hello
  PROVE  /\ NegotiationError(x, y) = NegotiationError(y, x)
         /\ NegotiationError(x, y) = "none" => Capabilities(x, y) = Capabilities(y, x)
  <1>1. NoCommonVersion(x, y) <=> NoCommonVersion(y, x)
    BY DEF NoCommonVersion
  <1>2. /\ Lesser(x.max_major, y.max_major) = Lesser(y.max_major, x.max_major)
        /\ Lesser(x.max_frame, y.max_frame) = Lesser(y.max_frame, x.max_frame)
        /\ Lesser(x.max_message, y.max_message) = Lesser(y.max_message, x.max_message)
        /\ Lesser(x.connection_window, y.connection_window)
             = Lesser(y.connection_window, x.connection_window)
        /\ Lesser(x.max_channels, y.max_channels) = Lesser(y.max_channels, x.max_channels)
    BY LesserFacts DEF Hello
  <1>3. BelowMinimum(Capabilities(x, y)) <=> BelowMinimum(Capabilities(y, x))
    BY <1>2 DEF BelowMinimum, Capabilities
  <1>4. CommonFeatures(x, y) = CommonFeatures(y, x)
    BY DEF CommonFeatures
  <1>5. MissingRequired(x, y) <=> MissingRequired(y, x)
    BY <1>4 DEF MissingRequired
  <1>6. NegotiationError(x, y) = NegotiationError(y, x)
    BY <1>1, <1>3, <1>5, MatchesAreSymmetric DEF NegotiationError
  <1>7. ASSUME NegotiationError(x, y) = "none"
        PROVE  Capabilities(x, y) = Capabilities(y, x)
    <2>1. ~ SchemaMismatch(x, y)
      BY <1>7 DEF NegotiationError
    <2>2. QED  BY <1>2, <1>4, <2>1, SharedPluginsAreSymmetric DEF Capabilities
  <1>8. QED  BY <1>6, <1>7

-----------------------------------------------------------------------------
(* Every end begins with no HELLO, no capabilities and no error. *)
LEMMA Initially == Init => Inv
  <1>1. SUFFICES ASSUME Init PROVE Inv
    OBVIOUS
  <1>2. Types
    BY <1>1, HandshakeAssumption DEF Init, Types, States
  <1>3. HellosAreThePeers /\ StartedWithAHello /\ ActiveHasNegotiated
    BY <1>1 DEF Init, HellosAreThePeers, StartedWithAHello, ActiveHasNegotiated
  <1>4. RejectedHasReason
    BY <1>1 DEF Init, RejectedHasReason, Rejections
  <1>5. QED  BY <1>2, <1>3, <1>4 DEF Inv

(* The two ends, and what an end hears of its peer. *)
LEMMA PeerFacts ==
  ASSUME Types, NEW p \in Endpoints
  PROVE  /\ Peer(p) \in Endpoints /\ Peer(p) # p /\ Peer(Peer(p)) = p
         /\ Endpoints = { p, Peer(p) }
         /\ policy[p] \in Hello /\ Heard(p) \in Hello
  <1>1. Peer(p) \in Endpoints /\ Peer(p) # p /\ Peer(Peer(p)) = p /\ Endpoints = { p, Peer(p) }
    BY DEF Endpoints, Peer
  <1>2. policy[p] \in Hello /\ policy[Peer(p)] \in Hello
    BY <1>1 DEF Types
  <1>3. QED  BY <1>1, <1>2, OnWireFacts DEF Heard

(* A start sends the policy as the wire carries it, or nothing. *)
LEMMA StartKeepsInv ==
  ASSUME Inv, NEW p \in Endpoints, Start(p)
  PROVE  Inv'
  <1> USE DEF Inv
  <1>1. Types /\ policy' = policy /\ caps' = caps
    BY DEF Start
  <1>2. Peer(p) \in Endpoints /\ Peer(p) # p /\ Peer(Peer(p)) = p
    BY <1>1, PeerFacts
  <1>3. \A q \in Endpoints : Heard(q)' = Heard(q)
    BY <1>1 DEF Heard
  <1>4. CASE EncodeError(policy[p]) # "none"
    <2>1. /\ state' = state /\ inbox' = inbox
          /\ error' = [ error EXCEPT ![p] = EncodeError(policy[p]) ]
      BY <1>4 DEF Start
    <2>2. EncodeError(policy[p]) \notin Rejections
      BY DEF EncodeError, Rejections
    <2>3. Types'
      BY <1>1, <2>1 DEF Types
    <2>4. HellosAreThePeers' /\ StartedWithAHello' /\ ActiveHasNegotiated'
      BY <1>1, <1>3, <2>1 DEF HellosAreThePeers, StartedWithAHello, ActiveHasNegotiated
    <2>5. RejectedHasReason'
      BY <1>1, <1>3, <2>1, <2>2 DEF RejectedHasReason, Types
    <2>6. QED  BY <2>3, <2>4, <2>5
  <1>5. CASE EncodeError(policy[p]) = "none"
    <2>1. /\ state[p] = "created" /\ state' = [ state EXCEPT ![p] = "negotiating" ]
          /\ inbox' \in { inbox, [ inbox EXCEPT ![Peer(p)] = { OnWire(policy[p]) } ] }
          /\ error' \in { error, [ error EXCEPT ![p] = "cannot_send" ] }
      BY <1>5 DEF Start
    <2>2. Types'
      BY <1>1, <2>1 DEF Types, States
    <2>3. HellosAreThePeers'
      BY <1>1, <1>2, <1>3, <1>5, <2>1 DEF HellosAreThePeers, Types, Heard
    <2>4. StartedWithAHello' /\ ActiveHasNegotiated'
      BY <1>1, <1>3, <1>5, <2>1 DEF StartedWithAHello, ActiveHasNegotiated, Types
    <2>5. RejectedHasReason'
      BY <1>1, <1>3, <2>1 DEF RejectedHasReason, Types, Rejections
    <2>6. QED  BY <2>2, <2>3, <2>4, <2>5
  <1>6. QED  BY <1>4, <1>5

(* A HELLO received is the peer's: what is made of it is the verdict on    *)
(* the two policies.                                                       *)
LEMMA ReceiveKeepsInv ==
  ASSUME Inv, NEW p \in Endpoints, Receive(p)
  PROVE  Inv'
  <1> USE DEF Inv
  <1>1. Types /\ policy' = policy /\ inbox' = [ inbox EXCEPT ![p] = {} ]
    BY DEF Receive
  <1>2. \A q \in Endpoints : Heard(q)' = Heard(q)
    BY <1>1 DEF Heard
  <1>3. Heard(p) \in inbox[p] /\ EncodeError(policy[Peer(p)]) = "none" /\ state[p] # "created"
    BY DEF Receive, HellosAreThePeers
  <1>4. HellosAreThePeers'
    BY <1>1, <1>2 DEF HellosAreThePeers, Types
  <1>5. CASE \E reason :
               /\ Close(p, reason)
               /\ reason \in Rejections => NegotiationError(policy[p], Heard(p)) # "none"
    <2>1. PICK reason :
               /\ Close(p, reason)
               /\ reason \in Rejections => NegotiationError(policy[p], Heard(p)) # "none"
      BY <1>5
    <2>2. /\ state' = [ state EXCEPT ![p] = "closed" ]
          /\ error' = [ error EXCEPT ![p] = reason ] /\ caps' = caps
      BY <2>1 DEF Close
    <2>3. Types'
      BY <1>1, <2>2 DEF Types, States
    <2>4. StartedWithAHello' /\ ActiveHasNegotiated'
      BY <1>1, <1>2, <1>3, <2>2 DEF StartedWithAHello, ActiveHasNegotiated, Types
    <2>5. RejectedHasReason'
      BY <1>1, <1>2, <2>1, <2>2 DEF RejectedHasReason, Types
    <2>6. QED  BY <1>4, <2>3, <2>4, <2>5
  <1>6. CASE /\ state' = [ state EXCEPT ![p] = "active" ] /\ error' = error
             /\ caps' = [ caps EXCEPT ![p] = Capabilities(policy[p], Heard(p)) ]
             /\ NegotiationError(policy[p], Heard(p)) = "none"
    <2>1. Types'
      BY <1>1, <1>6 DEF Types, States
    <2>2. StartedWithAHello' /\ RejectedHasReason'
      BY <1>1, <1>2, <1>3, <1>6 DEF StartedWithAHello, RejectedHasReason, Types
    <2>3. ActiveHasNegotiated'
      BY <1>1, <1>2, <1>3, <1>6 DEF ActiveHasNegotiated, Types
    <2>4. QED  BY <1>4, <2>1, <2>2, <2>3
  <1>7. "frame_too_large" \notin Rejections /\ "unexpected_hello" \notin Rejections
    BY DEF Rejections
  <1>8. \A hello \in inbox[p] : hello = Heard(p)
    BY DEF HellosAreThePeers
  <1>9. QED  BY <1>5, <1>6, <1>7, <1>8 DEF Receive

(* A handshake that times out is no rejection. *)
LEMMA TimeoutKeepsInv ==
  ASSUME Inv, NEW p \in Endpoints, HandshakeTimeout(p)
  PROVE  Inv'
  <1> USE DEF Inv
  <1>1. /\ policy' = policy /\ inbox' = inbox /\ caps' = caps /\ state[p] = "negotiating"
        /\ state' = [ state EXCEPT ![p] = "closed" ]
        /\ error' = [ error EXCEPT ![p] = "timeout" ]
    BY DEF HandshakeTimeout, Close
  <1>2. \A q \in Endpoints : Heard(q)' = Heard(q)
    BY <1>1 DEF Heard
  <1>3. Types'
    BY <1>1 DEF Types, States
  <1>4. HellosAreThePeers' /\ StartedWithAHello' /\ ActiveHasNegotiated'
    BY <1>1, <1>2 DEF HellosAreThePeers, StartedWithAHello, ActiveHasNegotiated, Types
  <1>5. RejectedHasReason'
    BY <1>1, <1>2 DEF RejectedHasReason, Types, Rejections
  <1>6. QED  BY <1>3, <1>4, <1>5

(* A HELLO under way, capabilities and rejections are always what the two  *)
(* policies make of them.                                                  *)
THEOREM VerdictsComeFromPolicies == Spec => []Inv
  <1>1. Inv /\ [Next]_vars => Inv'
    <2>1. SUFFICES ASSUME Inv, [Next]_vars PROVE Inv'
      OBVIOUS
    <2>2. CASE Next
      BY <2>1, <2>2, StartKeepsInv, ReceiveKeepsInv, TimeoutKeepsInv DEF Next
    <2>3. CASE UNCHANGED vars
      BY <2>1, <2>3 DEF vars, Inv, Types, HellosAreThePeers, StartedWithAHello,
                        ActiveHasNegotiated, RejectedHasReason, Heard
    <2>4. QED  BY <2>1, <2>2, <2>3
  <1>2. QED  BY Initially, <1>1, PTL DEF Spec

-----------------------------------------------------------------------------
(* Both ends freeze the same capabilities, and neither rejects what the    *)
(* other accepts: HandshakeIsMutual, for every pair of policies.           *)
THEOREM HandshakesAreMutual == Spec => []HandshakeIsMutual
  <1>1. Inv => HandshakeIsMutual
    <2>1. SUFFICES ASSUME Inv, \A p \in Endpoints : Representable(p)
                   PROVE  /\ (\A p \in Endpoints : state[p] = "active") => caps["left"] = caps["right"]
                          /\ \A p \in Endpoints : state[p] = "active" => error[Peer(p)] \notin Rejections
      BY DEF HandshakeIsMutual
    <2>2. ASSUME NEW p \in Endpoints
          PROVE  /\ Peer(p) \in Endpoints /\ Peer(Peer(p)) = p
                 /\ policy[p] \in Hello /\ policy[Peer(p)] \in Hello
                 /\ Heard(p) = policy[Peer(p)]
      <3>1. Types
        BY <2>1 DEF Inv
      <3>2. QED  BY <2>1, <3>1, PeerFacts DEF Representable, Heard
    <2>3. ASSUME NEW p \in Endpoints, state[p] = "active", state[Peer(p)] = "active"
          PROVE  caps[p] = caps[Peer(p)]
      <3>1. /\ NegotiationError(policy[p], policy[Peer(p)]) = "none"
            /\ caps[p] = Capabilities(policy[p], policy[Peer(p)])
            /\ caps[Peer(p)] = Capabilities(policy[Peer(p)], policy[p])
        BY <2>1, <2>2, <2>3 DEF Inv, ActiveHasNegotiated
      <3>2. QED  BY <2>2, <3>1, NegotiationIsSymmetric
    <2>4. ASSUME NEW p \in Endpoints, state[p] = "active", error[Peer(p)] \in Rejections
          PROVE  FALSE
      <3>1. /\ NegotiationError(policy[p], policy[Peer(p)]) = "none"
            /\ NegotiationError(policy[Peer(p)], policy[p]) # "none"
        BY <2>1, <2>2, <2>4 DEF Inv, ActiveHasNegotiated, RejectedHasReason
      <3>2. QED  BY <2>2, <3>1, NegotiationIsSymmetric
    <2>5. "left" \in Endpoints /\ "right" \in Endpoints /\ Peer("left") = "right"
      BY DEF Endpoints, Peer
    <2>6. QED  BY <2>3, <2>4, <2>5
  <1>2. QED  BY VerdictsComeFromPolicies, <1>1, PTL

(* What negotiate accepts: capabilities at or above the minimum, a common  *)
(* version, the required features, and a plugin at least.                  *)
LEMMA AcceptedFacts ==
  ASSUME NEW x \in Hello, NEW y \in Hello, NegotiationError(x, y) = "none"
  PROVE  LET c == Capabilities(x, y) IN
         /\ c.max_frame \in Nat /\ c.max_frame <= x.max_frame /\ c.max_frame <= y.max_frame
         /\ c.max_message \in Nat /\ c.max_message <= x.max_message /\ c.max_message <= y.max_message
         /\ c.connection_window \in Nat
         /\ c.connection_window <= x.connection_window /\ c.connection_window <= y.connection_window
         /\ c.max_channels \in Nat \ {0}
         /\ c.max_channels <= x.max_channels /\ c.max_channels <= y.max_channels
         /\ c.max_frame >= MinimumFrame
         /\ x.required \cup y.required \subseteq c.features
         /\ c.features = CommonFeatures(x, y)
         /\ c.plugins # {}
  <1> DEFINE c == Capabilities(x, y)
  <1>1. ~ NoCommonVersion(x, y) /\ ~ BelowMinimum(c) /\ ~ MissingRequired(x, y)
        /\ Matches(x, y) # {}
    BY DEF NegotiationError
  <1>2. /\ c.max_frame \in Nat /\ c.max_frame <= x.max_frame /\ c.max_frame <= y.max_frame
        /\ c.max_message \in Nat /\ c.max_message <= x.max_message /\ c.max_message <= y.max_message
        /\ c.connection_window \in Nat
        /\ c.connection_window <= x.connection_window /\ c.connection_window <= y.connection_window
        /\ c.max_channels \in Nat
        /\ c.max_channels <= x.max_channels /\ c.max_channels <= y.max_channels
    BY LesserFacts DEF Capabilities, Hello
  <1>3. c.max_frame >= MinimumFrame /\ c.max_channels # 0
    BY <1>1, <1>2 DEF BelowMinimum, MinimumFrame
  <1>4. x.required \cup y.required \subseteq c.features /\ c.features = CommonFeatures(x, y)
    BY <1>1 DEF MissingRequired, Capabilities
  <1>5. c.plugins # {}
    BY <1>1 DEF Capabilities, SharedPlugins
  <1>6. QED  BY <1>2, <1>3, <1>4, <1>5

(* The version chosen is one both ends speak. *)
LEMMA VersionInBothRanges ==
  ASSUME NEW x \in Hello, NEW y \in Hello, NegotiationError(x, y) = "none",
         EncodeError(x) = "none", EncodeError(y) = "none"
  PROVE  /\ Capabilities(x, y).major \in x.min_major .. x.max_major
         /\ Capabilities(x, y).major \in y.min_major .. y.max_major
  <1>1. ~ x.max_major < y.min_major /\ ~ y.max_major < x.min_major
    BY DEF NegotiationError, NoCommonVersion
  <1>2. ~ x.min_major > x.max_major /\ ~ y.min_major > y.max_major
    BY DEF EncodeError
  <1>3. Capabilities(x, y).major = Lesser(x.max_major, y.max_major)
    BY DEF Capabilities
  <1>4. QED  BY <1>1, <1>2, <1>3 DEF Lesser, Hello

(* A plugin agreed on is registered at both ends with that schema, and     *)
(* with no less depth.                                                     *)
LEMMA SharedPluginIsRegistered ==
  ASSUME NEW x \in Hello, NEW y \in Hello, ~ SchemaMismatch(x, y),
         NEW s \in SharedPlugins(x, y)
  PROVE  /\ \E r \in x.plugins : s.family = r.family /\ s.schema = r.schema /\ s.depth <= r.depth
         /\ \E r \in y.plugins : s.family = r.family /\ s.schema = r.schema /\ s.depth <= r.depth
  <1>1. PICK m \in Matches(x, y) :
          s = [ family |-> m[1].family, schema |-> m[1].schema,
                depth |-> Lesser(m[1].depth, m[2].depth) ]
    BY DEF SharedPlugins
  <1>2. /\ m[1] \in x.plugins /\ m[2] \in y.plugins
        /\ m[1].family = m[2].family /\ m[1].schema = m[2].schema
    BY DEF Matches, SchemaMismatch
  <1>3. m[1].depth \in Nat /\ m[2].depth \in Nat
    BY <1>2 DEF Hello, PluginDescriptor
  <1>4. Lesser(m[1].depth, m[2].depth) <= m[1].depth /\ Lesser(m[1].depth, m[2].depth) <= m[2].depth
    BY <1>3, LesserFacts
  <1>5. QED  BY <1>1, <1>2, <1>4

(* What an active end has frozen suits both policies, for every pair of    *)
(* policies and also where the wire cuts a limit.                          *)
THEOREM CapabilitiesSuitBothEnds == Spec => []CapabilitiesSuitBoth
  <1>1. Inv => CapabilitiesSuitBoth
    <2>1. SUFFICES ASSUME Inv, NEW p \in Endpoints, state[p] = "active", NEW q \in Endpoints
                   PROVE  /\ caps[p].max_frame <= policy[q].max_frame
                          /\ caps[p].max_message <= policy[q].max_message
                          /\ caps[p].connection_window <= policy[q].connection_window
                          /\ caps[p].max_channels <= policy[q].max_channels
                          /\ caps[p].major \in policy[q].min_major .. policy[q].max_major
                          /\ policy[q].required \subseteq caps[p].features
                          /\ caps[p].features \subseteq Offered(policy[q])
                          /\ caps[p].plugins # {}
                          /\ \A x \in caps[p].plugins : \E y \in policy[q].plugins :
                               x.family = y.family /\ x.schema = y.schema /\ x.depth <= y.depth
      BY DEF CapabilitiesSuitBoth
    <2> DEFINE x == policy[p]
               y == Heard(p)
               z == policy[Peer(p)]
    <2>2. x \in Hello /\ y \in Hello /\ z \in Hello /\ q \in { p, Peer(p) } /\ y = OnWire(z)
      BY <2>1, PeerFacts DEF Inv, Types, Heard
    <2>3. /\ NegotiationError(x, y) = "none" /\ caps[p] = Capabilities(x, y)
          /\ EncodeError(x) = "none" /\ EncodeError(z) = "none"
      BY <2>1 DEF Inv, ActiveHasNegotiated, StartedWithAHello
    <2> HIDE DEF x, y, z
    <2>4. /\ y.max_frame <= z.max_frame /\ y.max_message <= z.max_message
          /\ y.connection_window <= z.connection_window /\ y.max_channels = z.max_channels
          /\ y.min_major = z.min_major /\ y.max_major = z.max_major
          /\ y.required = z.required /\ y.optional = z.optional /\ y.plugins = z.plugins
      BY <2>2, OnWireFacts
    <2>5. EncodeError(y) = "none"
      BY <2>3, <2>4 DEF EncodeError
    <2>6. q = p \/ q = Peer(p)
      BY <2>2
    <2>7. /\ caps[p].max_frame <= x.max_frame /\ caps[p].max_frame <= z.max_frame
          /\ caps[p].max_message <= x.max_message /\ caps[p].max_message <= z.max_message
          /\ caps[p].connection_window <= x.connection_window
          /\ caps[p].connection_window <= z.connection_window
          /\ caps[p].max_channels <= x.max_channels /\ caps[p].max_channels <= z.max_channels
      <3>1. /\ caps[p].max_frame \in Nat /\ caps[p].max_message \in Nat
            /\ caps[p].connection_window \in Nat /\ caps[p].max_channels \in Nat
            /\ caps[p].max_frame <= x.max_frame /\ caps[p].max_frame <= y.max_frame
            /\ caps[p].max_message <= x.max_message /\ caps[p].max_message <= y.max_message
            /\ caps[p].connection_window <= x.connection_window
            /\ caps[p].connection_window <= y.connection_window
            /\ caps[p].max_channels <= x.max_channels /\ caps[p].max_channels <= y.max_channels
        BY <2>2, <2>3, AcceptedFacts
      <3>2. /\ y.max_frame \in Nat /\ z.max_frame \in Nat
            /\ y.max_message \in Nat /\ z.max_message \in Nat
            /\ y.connection_window \in Nat /\ z.connection_window \in Nat
        BY <2>2 DEF Hello
      <3>3. QED  BY <2>4, <3>1, <3>2
    <2>8. /\ caps[p].major \in x.min_major .. x.max_major
          /\ caps[p].major \in z.min_major .. z.max_major
      BY <2>2, <2>3, <2>4, <2>5, VersionInBothRanges
    <2>9. /\ x.required \subseteq caps[p].features /\ z.required \subseteq caps[p].features
          /\ caps[p].features \subseteq Offered(x) /\ caps[p].features \subseteq Offered(z)
          /\ caps[p].plugins # {}
      BY <2>2, <2>3, <2>4, AcceptedFacts DEF CommonFeatures, Offered
    <2>10. ~ SchemaMismatch(x, y) /\ caps[p].plugins = SharedPlugins(x, y)
      BY <2>3 DEF NegotiationError, Capabilities
    <2>11. ASSUME NEW s \in caps[p].plugins
           PROVE  /\ \E r \in x.plugins : s.family = r.family /\ s.schema = r.schema /\ s.depth <= r.depth
                  /\ \E r \in z.plugins : s.family = r.family /\ s.schema = r.schema /\ s.depth <= r.depth
      BY <2>2, <2>4, <2>10, <2>11, SharedPluginIsRegistered
    <2>12. CASE q = p
      BY <2>7, <2>8, <2>9, <2>11, <2>12 DEF x
    <2>13. CASE q = Peer(p)
      BY <2>7, <2>8, <2>9, <2>11, <2>13 DEF z
    <2>14. QED  BY <2>6, <2>12, <2>13
  <1>2. QED  BY VerdictsComeFromPolicies, <1>1, PTL

(* Half a frame leaves room for everything around it, down to the smallest *)
(* frame negotiate accepts.                                                *)
LEMMA FragmentFits ==
  ASSUME NEW limit \in Nat, limit >= MinimumFrame,
         NEW payload \in Nat, payload <= limit \div 2
  PROVE  FrameSize(DataExtensions, payload) <= limit
  <1>1. VarintSize(payload) \in 1 .. 5
    BY DEF VarintSize
  <1>2. FrameSize(DataExtensions, payload) = 48 + VarintSize(payload) + payload
    BY <1>1 DEF FrameSize, DataExtensions
  <1>3. QED  BY <1>1, <1>2 DEF MinimumFrame

(* No DATA frame of an active end is too large for either codec, for every *)
(* pair of policies.                                                       *)
THEOREM DataFramesAlwaysFit == Spec => []DataFramesFit
  <1>1. Inv /\ CapabilitiesSuitBoth => DataFramesFit
    <2>1. SUFFICES ASSUME Inv, CapabilitiesSuitBoth,
                          NEW p \in Endpoints, NEW q \in Endpoints, state[p] = "active",
                          NEW message \in Sendable(caps[p])
                   PROVE  FrameSize(DataExtensions, Lesser(message, FragmentLimit(caps[p])))
                            <= policy[q].max_frame
      BY DEF DataFramesFit
    <2>2. caps[p].max_frame <= policy[q].max_frame
      BY <2>1 DEF CapabilitiesSuitBoth
    <2>3. /\ caps[p].max_frame \in Nat /\ caps[p].max_frame >= MinimumFrame
          /\ policy[q].max_frame \in Nat
      <3>1. policy[p] \in Hello /\ Heard(p) \in Hello /\ policy[q] \in Hello
        BY <2>1, PeerFacts DEF Inv
      <3>2. NegotiationError(policy[p], Heard(p)) = "none"
            /\ caps[p] = Capabilities(policy[p], Heard(p))
        BY <2>1 DEF Inv, ActiveHasNegotiated
      <3>3. QED  BY <3>1, <3>2, AcceptedFacts DEF Hello
    <2>4. message \in Nat
      BY DEF Sendable
    <2>5. FragmentLimit(caps[p]) \in Nat
      BY <2>3 DEF FragmentLimit
    <2> DEFINE payload == Lesser(message, FragmentLimit(caps[p]))
    <2>6. payload \in Nat /\ payload <= caps[p].max_frame \div 2
      BY <2>4, <2>5, LesserFacts DEF FragmentLimit
    <2> HIDE DEF payload
    <2>7. FrameSize(DataExtensions, payload) <= caps[p].max_frame
      BY <2>3, <2>6, FragmentFits
    <2>8. FrameSize(DataExtensions, payload) \in Nat
      BY <2>6 DEF FrameSize, VarintSize, DataExtensions
    <2>9. QED  BY <2>2, <2>3, <2>7, <2>8 DEF payload
  <1>2. QED  BY VerdictsComeFromPolicies, CapabilitiesSuitBothEnds, <1>1, PTL
=============================================================================
