-------------------------------- MODULE MCLink --------------------------------
(***************************************************************************)
(* Two named endpoints and four kinds of use.  Data: the first end has     *)
(* frames enough for HELLO, OPEN and a few messages of one or two          *)
(* fragments, the second for HELLO and one call that crosses them, an ACK  *)
(* or a CREDIT among others.                                               *)
(* Control: the first application makes two calls beside HELLO, and both   *)
(* engines send the PINGs of their keepalive and the PONGs that answer     *)
(* them.  Slow: fragments, empty messages among them, while time passes.   *)
(* Replay: the second end asks for frames again while messages are under   *)
(* way.                                                                    *)
(***************************************************************************)
EXTENDS Link

CONSTANTS a, b

TwoEndpoints == { a, b }

By(first, second) == [ p \in TwoEndpoints |-> IF p = a THEN first ELSE second ]

Both(calls) == By(calls, calls)

Data ==
  [ calls |-> By({ "open", "send", "half_close", "reset", "flush" },
                { "open", "send", "half_close", "reset", "ack", "credit" }), sizes |-> { 1, 2 },
    messages |-> 9, frames |-> By(5, 2), chunk |-> 2, time |-> 0 ]

Control ==
  [ calls |-> Both({ "open", "ping", "time", "cut", "goaway", "resume" }),
    sizes |-> {}, messages |-> 0, frames |-> By(3, 1), chunk |-> 1, time |-> 6 ]

Slow ==
  [ calls |-> Both({ "open", "send", "time" }), sizes |-> { 0, 1, 2 },
    messages |-> 2, frames |-> By(5, 1), chunk |-> 2, time |-> 3 ]

Replayed ==
  [ calls |-> By({ "open", "send" }, { "resume" }), sizes |-> { 1, 2 },
    messages |-> 2, frames |-> By(5, 3), chunk |-> 2, time |-> 0 ]

FourUses == { Data, Control, Slow, Replayed }
=============================================================================
