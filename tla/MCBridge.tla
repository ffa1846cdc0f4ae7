------------------------------- MODULE MCBridge -------------------------------
(***************************************************************************)
(* Policies a program can be given, and what two peers do about them.      *)
(***************************************************************************)
EXTENDS Bridge

CONSTANTS L, R

Id(n, g)  == [ number |-> n, generation |-> g ]
Channel(n, g) == << Word("channel", Id(n, g)) >>
Number(n) == << Word("number", n) >>
Hex(bytes) == << Word("hex", bytes) >>
Letter(x) == Word("letter", x)
Quoted(value) == << Quote >> \o value \o << Quote >>

At(l, r) == [ s \in { L, R } |-> IF s = L THEN l ELSE r ]

Keys(source, destination, family) ==
  << Line("source", source), Line("destination", destination), Line("family", family) >>

(* fixtures/ltx1/memory_bridge.policy, but for its payload. *)
Fixture == << Section >> \o Keys(Quoted(Channel(1, 1)), Quoted(Channel(2, 1)), Number(7))
                         \o << Line("payload", Quoted(Hex(<< "h" >>))) >>

OneWay == << Section >> \o Keys(Channel(1, 1), Channel(1, 1), Number(7))

Crossed == << Section >> \o Keys(Channel(1, 1), Channel(2, 1), Number(7))
           \o << Section >> \o Keys(Channel(2, 1), Channel(1, 1), Number(7))

Translating(translator) == << [ family |-> 7, translator |-> translator ] >>

Base ==
  [ lines |-> Fixture, embedded |-> FALSE, translators |-> << >>, schema |-> At("x", "x"),
    listening |-> { L, R }, messages |-> At(0, 0), opens |-> At(0, 0), resets |-> {} ]

(* Policies that are about the parsers alone. *)
Named(name) == << Section, Line("name", name) >> \o Keys(Channel(1, 1), Channel(2, 1), Number(7))

Texts ==
  { Named(Quoted(<< Letter("a") >>)) \o << Section, Line("name", << Letter("b"), Hash >>) >>
      \o Keys(Channel(2, 1), Channel(1, 1), << Space >> \o Number(7)),
    Named(<< Quote, Letter("a") >>), Named(<< Quote >>), Named(<< Space, Letter("a"), Space >>),
    Named(Quoted(<< Space, Letter("a"), Hash >>)), Named(Quoted(Quoted(<< >>))),
    Named(<< Letter("a") >>) \o Named(<< Letter("a") >>),
    Keys(Channel(1, 1), Channel(2, 1), Number(7)) \o << Section >>
      \o Keys(Channel(1, 1), Channel(1, 1), Number(7)),
    << Section >>, << Noise >>, << >>, << Section, Line("source", Channel(1, 1)) >>,
    << Section, Line("other", Number(1)) >>, Fixture \o << Line("family", Number(7)) >>,
    << Section >> \o Keys(Channel(0, 1), Channel(2, 1), Number(7)),
    << Section >> \o Keys(Channel(0, 0), Channel(2, 1), Number(7)),
    << Section >> \o Keys(Channel(1, 4), Channel(2, 1), Number(7)),
    << Section >> \o Keys(Channel(1, 1), Channel(2, 1), Number(0)),
    << Section >> \o Keys(Channel(1, 1), Channel(2, 1), Number(10)),
    << Section >> \o Keys(Channel(1, 1), Number(2), Number(7)),
    OneWay \o << Line("payload", Number(1)) >>, OneWay \o << Line("payload", Quoted(<< >>)) >> }

AllCases ==
  { [ Base EXCEPT !.lines = text, !.embedded = e ] : text \in Texts, e \in BOOLEAN }
  \cup
  { [ Base EXCEPT !.listening = { L } ],
    [ Base EXCEPT !.schema = At("x", "y"), !.embedded = TRUE ],
    (* the route of the fixture, in both directions *)
    [ Base EXCEPT !.opens = At(2, 2), !.messages = At(1, 1) ],
    (* messages that come with HELLO, and resets *)
    [ Base EXCEPT !.lines = OneWay, !.opens = At(1, 1), !.messages = At(2, 0), !.resets = { L, R } ],
    [ Base EXCEPT !.lines = OneWay, !.opens = At(1, 1), !.messages = At(1, 1), !.resets = { L } ],
    (* two routes, which swap channels *)
    [ Base EXCEPT !.lines = Crossed, !.embedded = TRUE, !.opens = At(2, 2), !.messages = At(2, 0) ],
    (* a translator, whose result may exceed the limit *)
    [ Base EXCEPT !.lines = OneWay, !.embedded = TRUE, !.translators = Translating("twice"),
                  !.schema = At("x", "y"), !.opens = At(1, 1), !.messages = At(2, 0) ],
    [ Base EXCEPT !.embedded = TRUE, !.translators = Translating("refuse") ] }
=============================================================================
