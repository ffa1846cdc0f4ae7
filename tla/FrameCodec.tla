------------------------------ MODULE FrameCodec ------------------------------
(***************************************************************************)
(* FrameCodec of src/format/frame_codec.cpp as operators: a frame, its     *)
(* bytes, and the streaming decoder that finds the frames in bytes again.  *)
(*                                                                         *)
(* A byte string is a sequence of cells << what, value >>, one for each    *)
(* group of bytes the decoder reads together: the magic and the rest of    *)
(* the fixed prefix (16 bytes), each byte of a variable-length number, the *)
(* type of an extension, each unit of a value or payload, and the checksum,*)
(* which carries what it was computed over: CRC32C is taken to tell any    *)
(* two byte strings apart.                                                 *)
(***************************************************************************)
EXTENDS Integers, Sequences, SequencesExt, FiniteSetsExt

CONSTANTS
  MaxFrame, MaxHeader,   \* limits_, in cells
  Radix,                 \* 128: values of one byte of a variable-length number
  MaxVarint,             \* kMaxVarintBytes
  MaxLength              \* 2^32 - 1

ASSUME FrameCodecAssumption ==
  /\ { MaxFrame, MaxHeader, MaxLength } \subseteq Nat
  /\ Radix \in Nat \ {0, 1} /\ MaxVarint \in Nat \ {0}

ControlTypes == { "hello", "open", "ack", "credit", "half_close", "reset", "ping", "pong",
                  "goaway", "resume" }
FrameTypes   == ControlTypes \cup { "data" }

KnownRequired == 1 .. 4

Magic == << "magic", 0 >>
Prefix == 2

Units(values) == [ i \in DOMAIN values |-> << "unit", values[i] >> ]
Values(cells) == [ i \in DOMAIN cells |-> cells[i][2] ]

-----------------------------------------------------------------------------
(* encode_uleb128, decode_uleb128 *)

Byte(digit, more) == << "number", [ digit |-> digit, more |-> more ] >>

uleb[n \in Nat] ==
  IF n < Radix THEN << Byte(n, FALSE) >> ELSE << Byte(n % Radix, TRUE) >> \o uleb[n \div Radix]

(* What a cell reads as where a number is expected. *)
Digit(cell) == IF cell[1] = "number" THEN cell[2].digit ELSE 1
More(cell)  == cell[1] = "number" /\ cell[2].more

NumberFrom(digits) == MapThenSumSet(LAMBDA i : digits[i] * Radix ^ (i - 1), DOMAIN digits)

(* The number that starts at cell at: [error, value, size]. *)
DecodeNumber(cells, at) ==
  LET ends == { i \in 1 .. MaxVarint : at + i - 1 > Len(cells) \/ ~ More(cells[at + i - 1]) }
      size == Min(ends)
      value == NumberFrom([ i \in 1 .. size |-> Digit(cells[at + i - 1]) ])
  IN
  IF ends = {} THEN [ error |-> "varint_too_long" ]
  ELSE IF at + size - 1 > Len(cells) THEN [ error |-> "need_more_data" ]
  ELSE IF (size > 1 /\ value < Radix ^ (size - 1)) \/ value \notin 0 .. MaxLength
    THEN [ error |-> "varint_non_canonical" ]
  ELSE [ error |-> "none", value |-> value, size |-> size ]

-----------------------------------------------------------------------------
(* write_extensions, parse_extensions, find_extension, extension_u32 *)

(* By type, required before optional, otherwise as they were given. *)
Canonical(extensions) ==
  LET Before(i, j) ==
        LET e == extensions[i]  f == extensions[j] IN
        IF e.type # f.type THEN e.type < f.type
        ELSE IF e.required # f.required THEN e.required ELSE i < j
      order == SetToSortSeq(DOMAIN extensions, Before)
  IN  [ i \in DOMAIN order |-> extensions[order[i]] ]

ExtensionCells(extensions) ==
  FlattenSeq([ i \in DOMAIN extensions |->
    LET e == extensions[i] IN
    << << "extension", [ type |-> e.type, required |-> e.required ] >> >>
      \o uleb[Len(e.value)] \o Units(e.value) ])

(* One extension: [error, extension, next]. *)
ExtensionOf(cells, at, number) ==
  IF cells[at][1] # "extension" \/ number.error = "need_more_data" THEN [ error |-> "malformed_tlv" ]
  ELSE IF number.error # "none" THEN [ error |-> number.error ]
  ELSE IF number.value > Len(cells) - at - number.size THEN [ error |-> "malformed_tlv" ]
  ELSE LET first == at + 1 + number.size
           value == Values(SubSeq(cells, first, first + number.value - 1))
       IN  [ error |-> "none", next |-> first + number.value,
             extension |-> [ type |-> cells[at][2].type, required |-> cells[at][2].required,
                             value |-> value ] ]

ParseExtension(cells, at) == ExtensionOf(cells, at, DecodeNumber(cells, at + 1))

(* All of them: in ascending order of type, the required ones known. *)
ParseExtensions(cells) ==
  LET one[at \in 1 .. Len(cells)] == ParseExtension(cells, at)
      from[at \in 1 .. Len(cells) + 1] ==
        IF at > Len(cells) THEN [ error |-> "none", extensions |-> << >> ]
        ELSE IF one[at].error # "none" THEN one[at]
        ELSE LET e == one[at].extension  next == one[at].next IN
             IF e.required /\ e.type \notin KnownRequired THEN [ error |-> "unknown_required_feature" ]
             ELSE IF next <= Len(cells) /\ one[next].error = "none" /\ one[next].extension.type < e.type
               THEN [ error |-> "malformed_tlv" ]
             ELSE IF from[next].error # "none" THEN from[next]
             ELSE [ error |-> "none", extensions |-> << e >> \o from[next].extensions ]
  IN  from[1]

(* The first extension of a type decides. *)
Find(frame, type) == SelectSeq(frame.extensions, LAMBDA e : e.type = type)

HasNumber(frame, type) == Find(frame, type) # << >> /\ Len(Find(frame, type)[1].value) = 1

NumberOf(frame, type) == Find(frame, type)[1].value[1]

-----------------------------------------------------------------------------
(* encode *)

(* The bytes of a frame with its extensions in the order given, which is   *)
(* what a peer that does not sort them sends.                              *)
Image(frame) ==
  LET extensions == ExtensionCells(frame.extensions)
      head == [ type |-> frame.type, flags |-> 0, extensions |-> Len(extensions),
                channel |-> frame.channel, seq |-> frame.seq ]
      body == << Magic, << "head", head >> >> \o uleb[Len(frame.payload)]
                \o extensions \o Units(frame.payload)
  IN  body \o << << "checksum", body >> >>

Sorted(frame) == [ frame EXCEPT !.extensions = Canonical(@) ]

EncodeError(frame) ==
  IF Len(ExtensionCells(frame.extensions)) > MaxHeader THEN "header_too_large"
  ELSE IF Len(Image(Sorted(frame))) > MaxFrame THEN "frame_too_large"
  ELSE "none"

Encode(frame) == Image(Sorted(frame))

-----------------------------------------------------------------------------
(* feed *)

Needed          == [ status |-> "need_more" ]
Refused(error)  == [ status |-> "error", error |-> error ]

(* The length of the payload cannot be read. *)
LengthOutcome(error, eof) ==
  IF error # "need_more_data" THEN Refused(error)
  ELSE IF eof THEN Refused("truncated_frame") ELSE Needed

(* Mutant: the checksum is not looked at. *)
ChecksumMatchesAlways(view, size) == TRUE

ChecksumMatches(view, size) == view[size + 1] = << "checksum", SubSeq(view, 1, size) >>

Short(view, eof) == IF eof /\ view # << >> THEN Refused("truncated_frame") ELSE Needed

(* The checksum was right: the frame, unless its extensions are wrong. *)
FrameOf(view, header, size, parsed) ==
  LET head == view[2][2] IN
  IF parsed.error # "none" THEN Refused(parsed.error)
  ELSE [ status |-> "frame", size |-> size + 1,
         frame |-> [ type |-> head.type, channel |-> head.channel, seq |-> head.seq,
                     extensions |-> parsed.extensions,
                     payload |-> Values(SubSeq(view, header + 1, size)) ] ]

(* The fixed prefix was right; length is what follows it. *)
DecodeRest(view, eof, length) ==
  LET start  == Prefix + length.size
      header == start + view[2][2].extensions
      size   == header + length.value      \* without the checksum
  IN
  IF length.error # "none" THEN LengthOutcome(length.error, eof)
  ELSE IF size + 1 > MaxFrame THEN Refused("frame_too_large")
  ELSE IF Len(view) < size + 1 THEN Short(view, eof)
  ELSE IF ~ ChecksumMatches(view, size) THEN Refused("crc_mismatch")
  ELSE FrameOf(view, header, size, ParseExtensions(SubSeq(view, start + 1, header)))

(* What the decoder makes of the bytes from one frame boundary on. *)
DecodeOne(view, eof) ==
  LET head == view[2][2] IN
  IF Len(view) < Prefix THEN Short(view, eof)
  ELSE IF view[1] # Magic THEN Refused("bad_magic")
  ELSE IF view[2][1] # "head" \/ head.type \notin FrameTypes THEN Refused("unsupported_frame_type")
  ELSE IF head.flags # 0 THEN Refused("reserved_flags")
  ELSE IF head.extensions \notin 0 .. MaxHeader THEN Refused("header_too_large")
  ELSE DecodeRest(view, eof, DecodeNumber(view, Prefix + 1))

(* Mutant: the frames that were decoded stay in the buffer. *)
RemainderKeepsAll(all, from) == all

(* What is left in the buffer from one frame boundary on. *)
Remainder(all, from) == SubSeq(all, from + 1, Len(all))

(* One frame found and what follows it, or the end of the call. *)
FrameThen(all, from, found, run) ==
  IF found.status = "need_more" THEN [ events |-> << >>, buffer |-> Remainder(all, from) ]
  ELSE IF found.status = "error" THEN [ events |-> << found >>, buffer |-> << >> ]
  ELSE IF from + found.size = Len(all) THEN [ events |-> << found >>, buffer |-> << >> ]
  ELSE LET rest == run[from + found.size] IN
       [ events |-> << found >> \o rest.events, buffer |-> rest.buffer ]

Answered(result) ==
  IF result.events = << >> THEN [ result EXCEPT !.events = << Needed >> ] ELSE result

(* What is found from each position on: every complete frame, then an      *)
(* error, which empties the buffer, or the bytes of a frame that is not    *)
(* complete.                                                               *)
FoundFrom(all, eof) ==
  LET run[from \in 0 .. Len(all)] ==
        FrameThen(all, from, DecodeOne(SubSeq(all, from + 1, Len(all)), eof), run)
  IN  run

(* feed(bytes, eof) on what an earlier call has left in the buffer. *)
Feed(buffer, bytes, eof) == Answered(FoundFrom(buffer \o bytes, eof)[0])
=============================================================================
