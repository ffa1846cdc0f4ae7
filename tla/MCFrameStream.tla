---------------------------- MODULE MCFrameStream ----------------------------
EXTENDS FrameStream

Value(type, number) == [ type |-> type, required |-> TRUE, value |-> << number >> ]
Optional(type, value) == [ type |-> type, required |-> FALSE, value |-> value ]

Frame(type, channel, extensions, payload) ==
  [ type |-> type, channel |-> channel, seq |-> 0, extensions |-> extensions,
    payload |-> payload ]

DataFrame(channel, offset, total, payload) ==
  Frame("data", channel,
        << Value(MessageSeq, 1), Value(FragmentOffset, offset), Value(MessageTotal, total),
           Value(FamilyId, 1) >>, payload)

Ping   == Frame("ping", 0, << >>, << 7 >>)
Goaway == Frame("goaway", 0, << >>, << >>)

(* A message in two fragments, its second one longer than a byte can say.  *)
Fragmented == << DataFrame(1, 0, 3, << 5 >>), DataFrame(1, 1, 3, << 6, 7 >>) >>

(* Frames of two channels and a control frame, which overtakes them. *)
Crossing == << DataFrame(1, 0, 1, << 5 >>), DataFrame(2, 0, 1, << 6 >>), Goaway >>

(* An empty one, extensions out of order, one given twice, an empty value. *)
Unusual ==
  << Goaway,
     Frame("open", 1, << Optional(9, << 1, 2 >>), Value(FamilyId, 1), Optional(9, << >>) >>, << >>) >>

(* A required extension the decoder does not know, before a good frame. *)
Unknown == << Frame("open", 1, << Value(9, 1) >>, << >>), Ping >>

(* An optional extension before the required one of its type, which the    *)
(* encoder sends in the other order.                                       *)
Inverted ==
  << Frame("open", 1, << Optional(FamilyId, << 2 >>), Value(FamilyId, 1) >>, << >>), Ping >>

(* Extensions, and a frame, above the limits. *)
LargeHeader ==
  << Frame("hello", 0, << Optional(9, << 1, 2, 3 >>), Optional(10, << 1, 2, 3 >>),
                          Optional(11, << 1, 2, 3 >>) >>, << >>), Ping >>

LargeFrame == << DataFrame(1, 0, 4, << 1, 2, 3, 3 >>), Goaway >>

AllScripts == { Fragmented, Crossing, Unusual, Unknown, Inverted, LargeHeader, LargeFrame }

(* The cells of all frames, and what damage makes of them. *)
AllCells ==
  LET sent == UNION { { [ f[i] EXCEPT !.seq = i ] : i \in DOMAIN f } : f \in AllScripts }
      cells == UNION { ToSet(Image(f)) \cup ToSet(Encode(f)) : f \in sent }
  IN  cells \cup UNION { Damage(c) : c \in cells }
=============================================================================
