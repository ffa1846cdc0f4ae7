----------------------------- MODULE RoutePolicy -----------------------------
(***************************************************************************)
(* The two readers of route policies: parse_route_policy_text with         *)
(* validate and serialize (src/gateway/route_policy.cpp), and the reader   *)
(* of the bridge command, read_bridge_policy (tools/lattice.cpp).          *)
(*                                                                         *)
(* A text is a sequence of lines: a section header, key and value, or      *)
(* noise.  A value is a sequence of << kind, meaning >>: single quotes,    *)
(* hashes, spaces and letters, and whole words for a channel, a number or  *)
(* hex digits.  Blank lines and spaces around lines and keys are left out; *)
(* the key payload is payload_hex.                                         *)
(***************************************************************************)
EXTENDS Gateway, SequencesExt, FiniteSetsExt

CONSTANTS
  MaxNumber,      \* 2^32 - 1
  MaxByte         \* 255

ASSUME RoutePolicyAssumption == { MaxNumber, MaxByte } \subseteq Nat

Quote == << "quote", 0 >>
Hash  == << "hash", 0 >>
Space == << "space", 0 >>
Word(kind, meaning) == << kind, meaning >>

Section == [ kind |-> "section" ]
Noise   == [ kind |-> "noise" ]
Line(key, value) == [ kind |-> "key", key |-> key, value |-> value ]

(* A comment ends a line. *)
Uncommented(value) ==
  LET hashes == { i \in DOMAIN value : value[i] = Hash } IN
  IF hashes = {} THEN value ELSE SubSeq(value, 1, Min(hashes) - 1)

(* trim *)
Trim(value) ==
  LET solid == { i \in DOMAIN value : value[i] # Space } IN
  IF solid = {} THEN << >> ELSE SubSeq(value, Min(solid), Max(solid))

(* unquote *)
Unquote(value) ==
  LET text == Trim(value) IN
  IF Len(text) >= 2 /\ text[1] = Quote /\ Last(text) = Quote
  THEN SubSeq(text, 2, Len(text) - 1) ELSE text

Good(value) == [ error |-> "none", value |-> value ]
Bad(error)  == [ error |-> error ]

Is(text, kind) == Len(text) = 1 /\ text[1][1] = kind

(* parse_u32_text, parse_decimal_u32 *)
ParseNumber(text) ==
  IF Is(text, "number") /\ text[1][2] <= MaxNumber THEN Good(text[1][2]) ELSE Bad("invalid_integer")

(* parse_hex_text, parse_hex_bytes *)
ParseHex(text) ==
  IF text = << >> THEN Good(<< >>)
  ELSE IF Is(text, "hex") THEN Good(text[1][2]) ELSE Bad("invalid_hex")

(* parse_channel_id of the bridge command. *)
ParseChannelId(text) ==
  IF ~ Is(text, "channel") THEN Bad("invalid_channel")
  ELSE IF text[1][2].number > MaxNumber \/ text[1][2].generation > MaxNumber THEN Bad("invalid_integer")
  ELSE IF text[1][2].generation > MaxByte THEN Bad("invalid_channel")
  ELSE Good(text[1][2])

(* parse_channel_text asks in addition for generation 0 of number 0. *)
ParseChannelText(text) ==
  IF Is(text, "channel") /\ text[1][2].number = 0 /\ text[1][2].generation \in 1 .. MaxByte
  THEN Bad("invalid_channel") ELSE ParseChannelId(text)

-----------------------------------------------------------------------------
(* RoutePolicyEntry, ParseState, finish_route, begin_route, set_key *)

DefaultEntry ==
  [ name |-> << >>, source |-> [ number |-> 1, generation |-> 1 ],
    destination |-> [ number |-> 2, generation |-> 1 ], family |-> 7, payload |-> << >> ]

DefaultPayload == << "o", "k" >>

RequiredKeys == { "source", "destination", "family" }

Closed(document) ==
  [ error |-> "none", routes |-> document, open |-> FALSE, entry |-> DefaultEntry, keys |-> {} ]

Opened(document) == [ Closed(document) EXCEPT !.open = TRUE ]

FinishRoute(state) ==
  LET payload == IF state.entry.payload = << >> THEN DefaultPayload ELSE state.entry.payload IN
  IF ~ state.open THEN state
  ELSE IF state.keys = {} THEN [ state EXCEPT !.error = "empty_route" ]
  ELSE IF ~ RequiredKeys \subseteq state.keys THEN [ state EXCEPT !.error = "missing_key" ]
  ELSE Closed(Append(state.routes, [ state.entry EXCEPT !.payload = payload ]))

BeginRoute(state) ==
  LET finished == FinishRoute(state) IN
  IF finished.error # "none" THEN finished ELSE Opened(finished.routes)

ParseValue(key, text) ==
  CASE key = "name" -> Good(text)
    [] key \in { "source", "destination" } -> ParseChannelText(text)
    [] key = "family" -> ParseNumber(text)
    [] key = "payload" -> ParseHex(text)
    [] OTHER -> Bad("unknown_key")

SetKey(state, key, parsed) ==
  IF key \in state.keys THEN [ state EXCEPT !.error = "duplicate_key" ]
  ELSE IF parsed.error # "none" THEN [ state EXCEPT !.error = parsed.error ]
  ELSE [ state EXCEPT !.keys = @ \cup { key }, !.entry[key] = parsed.value ]

-----------------------------------------------------------------------------
(* validate_route_policy: the diagnostics of a document. *)

(* Mutant: a source may be routed more than once. *)
DuplicateSourceNever(routes, i) == FALSE

DuplicateSource(routes, i) == \E j \in 1 .. i - 1 : routes[j].source = routes[i].source

DuplicateName(routes, i) ==
  routes[i].name # << >> /\ \E j \in 1 .. i - 1 : routes[j].name = routes[i].name

Validate(routes) ==
  LET When(condition, code) == IF condition THEN << code >> ELSE << >>
      Of(i) == When(IsControl(routes[i].source) \/ IsControl(routes[i].destination), "invalid_channel")
                 \o When(routes[i].family = 0, "invalid_integer")
                 \o When(DuplicateSource(routes, i), "duplicate_source")
                 \o When(DuplicateName(routes, i), "duplicate_name")
  IN  FlattenSeq([ i \in DOMAIN routes |-> Of(i) ]) \o When(routes = << >>, "empty_route")

-----------------------------------------------------------------------------
(* parse_route_policy_text *)

ParseLine(state, line) ==
  IF state.error # "none" THEN state
  ELSE CASE line.kind = "section" -> BeginRoute(state)
         [] line.kind = "noise"   -> [ state EXCEPT !.error = "malformed_line" ]
         [] line.kind = "key"     ->
              (* a key before any section opens a route *)
              SetKey(IF state.open THEN state ELSE BeginRoute(state), line.key,
                     ParseValue(line.key, Unquote(Uncommented(line.value))))

Judged(routes, found) == IF found # << >> THEN Bad(found[1]) ELSE Good(routes)

Document(state) ==
  IF state.error # "none" THEN Bad(state.error)
  ELSE Judged(state.routes, Validate(state.routes))

(* The last route ends with the text. *)
EndText(state) == IF state.error = "none" THEN FinishRoute(state) ELSE state

Parse(lines) == Document(EndText(FoldLeft(ParseLine, Closed(<< >>), lines)))

(* serialize_route_policy; a name is written between quotes as it is. *)
Serialize(routes) ==
  LET Lines(r) ==
        << Section >>
          \o (IF r.name = << >> THEN << >> ELSE << Line("name", << Quote >> \o r.name \o << Quote >>) >>)
          \o << Line("source", << Word("channel", r.source) >>),
                Line("destination", << Word("channel", r.destination) >>),
                Line("family", << Word("number", r.family) >>),
                Line("payload", IF r.payload = << >> THEN << >> ELSE << Word("hex", r.payload) >>) >>
  IN  IF Validate(routes) # << >> THEN Bad(Validate(routes)[1])
      ELSE Good(FlattenSeq([ i \in DOMAIN routes |-> Lines(routes[i]) ]))

(* apply_route_policy_entry for each entry, until one is refused. *)
Apply(gateway, routes) ==
  LET Step(acc, r) == IF acc.error # "none" THEN acc
                      ELSE CreateRoute(acc.gateway, r.source, r.destination, r.family)
  IN  FoldLeft(Step, [ error |-> "none", gateway |-> gateway ], routes)

(* find_route_policy_source *)
EntriesOf(routes, source) == SelectSeq(routes, LAMBDA r : r.source = source)

-----------------------------------------------------------------------------
(* read_bridge_policy: sections mean nothing, a key given again replaces   *)
(* its value, what is not given keeps its default, and a name is unknown.  *)

ReadValue(key, text) ==
  CASE key \in { "source", "destination" } -> ParseChannelId(text)
    [] key = "family" -> ParseNumber(text)
    [] key = "payload" -> ParseHex(text)
    [] OTHER -> Bad("unknown_key")

SetValue(state, key, parsed) ==
  IF parsed.error # "none" THEN [ state EXCEPT !.error = parsed.error ]
  ELSE [ state EXCEPT !.value[key] = parsed.value ]

ReadLine(state, line) ==
  IF state.error # "none" \/ line.kind = "section" THEN state
  ELSE IF line.kind = "noise" THEN [ state EXCEPT !.error = "malformed_line" ]
  ELSE SetValue(state, line.key, ReadValue(line.key, Unquote(Uncommented(line.value))))

ReadBridgePolicy(lines) ==
  FoldLeft(ReadLine, Good([ DefaultEntry EXCEPT !.payload = DefaultPayload ]), lines)
=============================================================================
