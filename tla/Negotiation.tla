------------------------------ MODULE Negotiation ------------------------------
(***************************************************************************)
(* HELLO and the capabilities two ends derive from their HELLOs            *)
(* (src/connection/negotiator.cpp), with the sizes of encoded frames that  *)
(* the limits are about (encode of src/format/frame_codec.cpp).            *)
(*                                                                         *)
(* A HELLO is a record of the fields of the local policy and the set of    *)
(* plugin descriptors registered; feature masks are sets of features.      *)
(***************************************************************************)
EXTENDS Integers, FiniteSets

CONSTANTS
  Families, Schemas, Features,
  LimitModulus   \* 2^32: the wire carries limits as u32, the policy as size_t

ASSUME NegotiationAssumption == LimitModulus \in Nat \ {0}

PluginDescriptor == [ family : Families, schema : Schemas, depth : Nat ]

Hello ==
  [ min_major : Nat, max_major : Nat,
    max_frame : Nat, max_message : Nat, connection_window : Nat, max_channels : Nat,
    required : SUBSET Features, optional : SUBSET Features,
    plugins : SUBSET PluginDescriptor ]

(* encode_hello_payload refuses an empty version range and a family that   *)
(* is described twice.                                                     *)
EncodeError(hello) ==
  IF hello.min_major > hello.max_major THEN "empty_version_range"
  ELSE IF \E x, y \in hello.plugins : x # y /\ x.family = y.family THEN "duplicate_family"
  ELSE "none"

(* What decode_hello_payload makes of the payload encode_hello_payload     *)
(* writes: the three limits lose what does not fit into a u32.             *)
OnWire(hello) ==
  [ hello EXCEPT !.max_frame = @ % LimitModulus,
                 !.max_message = @ % LimitModulus,
                 !.connection_window = @ % LimitModulus ]

-----------------------------------------------------------------------------
(* negotiate *)

Lesser(m, n) == IF m <= n THEN m ELSE n

Offered(hello) == hello.required \cup hello.optional

CommonFeatures(local, peer) == Offered(local) \cap Offered(peer)

(* The descriptors of one family at both ends. *)
Matches(local, peer) ==
  { m \in local.plugins \X peer.plugins : m[1].family = m[2].family }

SchemaMismatch(local, peer) == \E m \in Matches(local, peer) : m[1].schema # m[2].schema

(* Mutant: every end keeps its own depth. *)
SharedPluginsOwnDepth(local, peer) == { m[1] : m \in Matches(local, peer) }

SharedPlugins(local, peer) ==
  { [ family |-> m[1].family, schema |-> m[1].schema, depth |-> Lesser(m[1].depth, m[2].depth) ] :
      m \in Matches(local, peer) }

(* The transcript hash is a function of these fields. *)
Capabilities(local, peer) ==
  [ major             |-> Lesser(local.max_major, peer.max_major),
    max_frame         |-> Lesser(local.max_frame, peer.max_frame),
    max_message       |-> Lesser(local.max_message, peer.max_message),
    connection_window |-> Lesser(local.connection_window, peer.connection_window),
    max_channels      |-> Lesser(local.max_channels, peer.max_channels),
    features          |-> CommonFeatures(local, peer),
    plugins           |-> SharedPlugins(local, peer) ]

NoCommonVersion(local, peer) ==
  local.max_major < peer.min_major \/ peer.max_major < local.min_major

MinimumFrame == 128

BelowMinimum(caps) ==
  \/ caps.max_frame < MinimumFrame
  \/ caps.max_message < 1
  \/ caps.connection_window < caps.max_frame
  \/ caps.max_channels = 0

(* Mutant: only what this end requires is looked for. *)
MissingRequiredLocal(local, peer) == ~ local.required \subseteq CommonFeatures(local, peer)

MissingRequired(local, peer) ==
  ~ (local.required \cup peer.required) \subseteq CommonFeatures(local, peer)

NegotiationError(local, peer) ==
  IF NoCommonVersion(local, peer) THEN "version"
  ELSE IF BelowMinimum(Capabilities(local, peer)) THEN "limits"
  ELSE IF MissingRequired(local, peer) THEN "feature"
  ELSE IF SchemaMismatch(local, peer) THEN "schema"
  ELSE IF Matches(local, peer) = {} THEN "plugin"
  ELSE "none"

Rejections == { "version", "limits", "feature", "schema", "plugin" }

-----------------------------------------------------------------------------
(* Sizes of encoded frames and what a channel may send *)

VarintSize(n) ==
  IF n < 128 THEN 1
  ELSE IF n < 16384 THEN 2
  ELSE IF n < 2097152 THEN 3
  ELSE IF n < 268435456 THEN 4
  ELSE 5

(* Prefix, payload length, extensions, payload and checksum. *)
FrameSize(extensions, payload) == 16 + VarintSize(payload) + extensions + payload + 4

(* Seven fixed fields and a count, then family, schema and depth of each.  *)
HelloSize(hello) == FrameSize(0, 36 + 16 * Cardinality(hello.plugins))

(* Sequence, offset, total and family: type, length and a u32 each. *)
DataExtensions == 4 * (2 + 1 + 4)

(* Mutant: a fragment as long as a frame may be. *)
FragmentLimitWhole(caps) == caps.max_frame

(* max_fragment of send; max_frame is at least 128. *)
FragmentLimit(caps) == caps.max_frame \div 2

(* The table is made with an equal share of the connection window for each *)
(* channel, and send reserves a whole message of it.                       *)
ChannelShare(caps) == caps.connection_window \div caps.max_channels

Sendable(caps) == 1 .. Lesser(caps.max_message, ChannelShare(caps))
=============================================================================
