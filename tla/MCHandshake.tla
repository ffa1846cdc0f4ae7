------------------------------ MODULE MCHandshake ------------------------------
(***************************************************************************)
(* Handshake with the default policy and policies that differ from it      *)
(* where negotiate, the encoder or the decoder looks.  The modulus is      *)
(* 2^21 here, the smallest power of two above the default limits.          *)
(***************************************************************************)
EXTENDS Handshake

Echo(family) == [ family |-> family, schema |-> "echo_v01", depth |-> 4 ]

Default ==
  [ min_major |-> 1, max_major |-> 1,
    max_frame |-> 65536, max_message |-> 1048576, connection_window |-> 1048576,
    max_channels |-> 256, required |-> {}, optional |-> {},
    plugins |-> { Echo(7) } ]

Small ==
  [ Default EXCEPT !.max_frame = 128, !.max_message = 80, !.connection_window = 256,
                   !.max_channels = 2 ]

Versions == { [ Default EXCEPT !.min_major = v[1], !.max_major = v[2] ] :
                v \in { << 1, 3 >>, << 2, 2 >>, << 2, 1 >> } }

Limits ==
  { [ Small EXCEPT !.max_frame = f ] : f \in { 56, 72, 73, 127, 128, 129, 256, 257 } }
  \cup { [ Small EXCEPT !.max_message = m ] : m \in { 0, 1, 1000 } }
  \cup { [ Small EXCEPT !.connection_window = w ] : w \in { 72, 127, 128 } }
  \cup { [ Small EXCEPT !.max_channels = c ] : c \in { 0, 1, 300 } }

Wide ==
  { [ Default EXCEPT !.max_message = LimitModulus + 5 ],
    [ Default EXCEPT !.max_frame = LimitModulus + 64, !.connection_window = LimitModulus + 64 ] }

Masks ==
  { [ Default EXCEPT !.required = r, !.optional = o ] :
      r \in { {}, {"compress"} }, o \in { {}, {"trace"}, {"compress", "trace"} } }

Registries ==
  { [ Default EXCEPT !.plugins = x ] :
      x \in { {}, { Echo(9) }, { Echo(f) : f \in Families },
              { [ Echo(7) EXCEPT !.schema = "echo_v02" ] },
              { [ Echo(7) EXCEPT !.depth = 2 ] },
              { Echo(7), [ Echo(7) EXCEPT !.depth = 2 ] } } }

SomePolicies == { Default, Small } \cup Versions \cup Limits \cup Wide \cup Masks \cup Registries
=============================================================================
