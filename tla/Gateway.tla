------------------------------- MODULE Gateway -------------------------------
(***************************************************************************)
(* Gateway and GatewayPolicy of src/gateway/gateway.cpp as operators on a  *)
(* value [routes, next, translators]: the routes in the order of their     *)
(* ids, the next id, and the translator of each family that has one.       *)
(*                                                                         *)
(* Capabilities are [plugins, max_message] with one [family, schema] per   *)
(* family, which negotiation sees to.  A translator is a function of the   *)
(* program that embeds the gateway; two stand for all: one that writes     *)
(* the payload twice and one that refuses it.                              *)
(***************************************************************************)
EXTENDS Integers, Sequences

EmptyGateway == [ routes |-> << >>, next |-> 1, translators |-> << >> ]

(* add_translator; translators is a function from families, the family is  *)
(* not 0 and the translator is callable.                                   *)
AddTranslator(gateway, family, translator) ==
  [ gateway EXCEPT !.translators =
      [ f \in DOMAIN @ \cup { family } |-> IF f = family THEN translator ELSE @[f] ] ]

(* is_control *)
IsControl(id) == id.number = 0 /\ id.generation = 0

(* create_route; that a source is routed already is not looked at. *)
CreateRoute(gateway, source, destination, family) ==
  IF IsControl(source) \/ IsControl(destination) \/ family = 0
  THEN [ error |-> "illegal_state", gateway |-> gateway ]
  ELSE [ error |-> "none",
         gateway |-> [ gateway EXCEPT
           !.routes = Append(@, [ id |-> gateway.next, source |-> source,
                                  destination |-> destination, family |-> family ]),
           !.next = @ + 1 ] ]

(* find_route: the routes of a source, the first of which is taken. *)
RoutesOf(gateway, source) == SelectSeq(gateway.routes, LAMBDA r : r.source = source)

(* may_forward *)
MayForward(gateway, from, to, family) ==
  \E x \in from.plugins, y \in to.plugins :
    /\ x.family = family /\ y.family = family
    /\ x.schema = y.schema \/ family \in DOMAIN gateway.translators

Forwarding(error, payload) == [ error |-> error, payload |-> payload ]

(* translate_payload *)
Translated(gateway, family, payload) ==
  IF family \notin DOMAIN gateway.translators THEN Forwarding("none", payload)
  ELSE CASE gateway.translators[family] = "twice"  -> Forwarding("none", payload \o payload)
         [] gateway.translators[family] = "refuse" -> Forwarding("plugin_decode", << >>)

(* translate and forward: the limit is that of the destination, after the  *)
(* translation.                                                            *)
Forward(gateway, from, to, route, payload) ==
  LET translated == Translated(gateway, route.family, payload) IN
  IF ~ MayForward(gateway, from, to, route.family) THEN Forwarding("plugin_decode", << >>)
  ELSE IF translated.error = "none" /\ Len(translated.payload) > to.max_message
    THEN Forwarding("resource_limit", << >>)
  ELSE translated

(* bridge_message *)
BridgeMessage(gateway, from, to, source, payload) ==
  LET routes == RoutesOf(gateway, source) IN
  IF routes = << >> THEN Forwarding("illegal_state", << >>)
  ELSE Forward(gateway, from, to, routes[1], payload)
=============================================================================
