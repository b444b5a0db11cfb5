------------------------------- MODULE Layout -------------------------------
(* Layouts of packet bodies.  A layout is the sequence of the fields that an    *)
(* encoder of protocol/src/versions writes and its decoder reads, and a field   *)
(* is <<kind, argument>>: the primitives of protocol/src/codec.rs, the helpers  *)
(* that the packet modules repeat, and the tests of the remaining length that   *)
(* stand before raw reads.  Write and ReadAll give a layout its meaning.        *)
EXTENDS Nbt

(* The kinds of fields.                                                        *)

(* Codec numbers: the decoder tests the length first.                           *)
Fixed(n) == <<"fixed", n>>
U8 == Fixed(1)
I16 == Fixed(2)
I32 == Fixed(4)
I64 == Fixed(8)
F32 == Fixed(4)
F64 == Fixed(8)
Uuid == Fixed(16)
Flag == <<"bool", 0>>

(* `if src.remaining() < n { return Err }`, and the raw reads that follow it.   *)
Need(n) == <<"need", n>>
Raw(n) == <<"raw", n>>
RawFlag == <<"rawbool", 0>>

Var == <<"varint", 0>>

MAX_STRING_LENGTH == 32767
MAX_PACKET_SIZE == 2^25
MAX_VEC_LEN == 65536

(* Length and bytes: the codec's string and array have a limit, the packet      *)
(* modules' own helpers have none.                                              *)
Text == <<"bytes", 3 * MAX_STRING_LENGTH>>
Array == <<"bytes", MAX_PACKET_SIZE>>
LocalText == <<"bytes", 2147483647>>
LocalArray == <<"bytes", 2147483647>>

(* Pre-netty text: a u16 count of UTF-16 units.                                 *)
Ucs2 == <<"ucs2", 0>>

(* An i16 length and bytes.                                                     *)
ShortArray == <<"shortbytes", 0>>

(* A UUID as 36 characters of text.                                             *)
UuidText == <<"uuidtext", 0>>

(* Whatever is left of the body, kept or dropped.                               *)
Rest == <<"rest", 0>>
DropRest == <<"droprest", 0>>

(* Repetition with the codec's limit and with none; a flag and what it promises.*)
Many(layout) == <<"many", layout>>
Counted(layout) == <<"counted", layout>>
Maybe(layout) == <<"maybe", layout>>

(* An optional field without a flag: read when at least n bytes are left.       *)
IfLeft(n, layout) == <<"tail", <<n, layout>>>>

(* One of two optional fields, told apart by how many bytes are left.           *)
ByLength == <<"bylength", 0>>

(* A field that the encoder writes when it has one and no decoder reads.        *)
Unread(layout) == <<"unread", layout>>

(* A binary tag kept as its bytes: its end is found with `skip`.  One caller    *)
(* passes an error on, the other goes on with an empty value from where the     *)
(* walk stopped.                                                                *)
NbtBytes == <<"nbt", "strict">>
NbtOrNothing == <<"nbt", "lenient">>

(* A variable-length tag that selects the layout of what follows.               *)
Switch(cases) == <<"switch", cases>>

------------------------------------------------------------------------------
Hex(d) == IF d < 10 THEN 48 + d ELSE 87 + d
Unhex(c) == IF c < 58 THEN c - 48 ELSE c - 87

(* Positions of the hyphens of 8-4-4-4-12.                                      *)
Hyphens == {9, 14, 19, 24}

(* Position in the text of the n-th hexadecimal digit.                          *)
DigitAt(n) == n + (IF n > 8 THEN 1 ELSE 0) + (IF n > 12 THEN 1 ELSE 0)
                + (IF n > 16 THEN 1 ELSE 0) + (IF n > 20 THEN 1 ELSE 0)

(* uuid::Uuid::hyphenated and parse_str (external crate).                       *)
UuidToText(u) ==
    [p \in 1..36 |-> IF p \in Hyphens THEN 45
                     ELSE LET n == CHOOSE d \in 1..32 : DigitAt(d) = p
                              b == u[(n + 1) \div 2]
                          IN  IF n % 2 = 1 THEN Hex(b \div 16) ELSE Hex(b % 16)]
TextToUuid(t) == [i \in 1..16 |-> Unhex(t[DigitAt(2 * i - 1)]) * 16 + Unhex(t[DigitAt(2 * i)])]
IsUuidText(t) == Len(t) = 36 /\ \A h \in Hyphens : t[h] = 45

RECURSIVE Write(_, _), ReadAll(_, _), ReadTimes(_, _, _)

WriteField(field, val) ==
    CASE field[1] \in {"fixed", "raw", "rest", "nbt"} -> val
      [] field[1] \in {"need", "droprest"} -> <<>>
      [] field[1] \in {"bool", "rawbool"} -> IF val THEN <<1>> ELSE <<0>>
      [] field[1] = "varint" -> EncodeVarInt(val)
      [] field[1] = "bytes" -> EncodeVarInt(Len(val)) \o val
      [] field[1] = "ucs2" -> WriteUcs2(val)
      [] field[1] = "shortbytes" -> PutU16(Len(val)) \o val
      [] field[1] = "uuidtext" -> EncodeVarInt(36) \o UuidToText(val)
      [] field[1] \in {"many", "counted"} ->
            EncodeVarInt(Len(val)) \o ConcatAll([i \in 1..Len(val) |-> Write(field[2], val[i])])
      [] field[1] = "maybe" -> IF val = <<>> THEN <<0>> ELSE <<1>> \o Write(field[2], val[1])
      [] field[1] = "tail" -> IF val = <<>> THEN <<>> ELSE Write(field[2][2], val[1])
      [] field[1] = "unread" -> IF val = <<>> THEN <<>> ELSE Write(field[2], val[1])
      [] field[1] = "bylength" -> val[1] \o val[2]
      [] field[1] = "switch" -> EncodeVarInt(val[1]) \o Write(field[2][val[1]], val[2])

Write(layout, vals) == ConcatAll([i \in 1..Len(layout) |-> WriteField(layout[i], vals[i])])

ReadCounted(field, src) ==
    LET n == DecodeVarInt(src)
    IN  CASE n.res # "ok" -> Err(src)
          [] n.res = "ok" /\ field[1] = "many" /\ (n.val < 0 \/ n.val > MAX_VEC_LEN) -> Err(src)
          [] n.res = "ok" /\ field[1] = "counted" /\ n.val < 0 -> Panic(src)
          [] OTHER -> ReadTimes(field[2], n.val, n.rest)

ReadByLength(src) ==
    CASE Len(src) = 1 -> Ok(<<src, <<>>>>, <<>>)
      [] Len(src) = 16 -> Ok(<<<<>>, src>>, <<>>)
      [] OTHER -> Ok(<<<<>>, <<>>>>, src)

ReadSwitch(cases, src) ==
    LET tag == DecodeVarInt(src)
        body == ReadAll(cases[tag.val], tag.rest)
    IN  IF tag.res # "ok" \/ tag.val \notin DOMAIN cases THEN Err(src)
        ELSE [body EXCEPT !.val = <<tag.val, @>>]

ReadMaybe(layout, src) ==
    CASE src = <<>> -> Err(src)
      [] src # <<>> /\ src[1] = 0 -> Ok(<<>>, Tail(src))
      [] OTHER -> LET body == ReadAll(layout, Tail(src)) IN [body EXCEPT !.val = <<@>>]

ReadNbtBytes(mode, src) ==
    LET r == SkipNbt(src)
    IN  IF r.res = "err" /\ mode = "lenient" THEN Ok(<<>>, r.rest)
        ELSE [r EXCEPT !.val = Front(src, Len(src) - Len(r.rest))]

ReadField(field, src) ==
    CASE field[1] = "fixed" -> ReadExactly(src, field[2])
      [] field[1] = "raw" -> IF Len(src) < field[2] THEN Panic(src) ELSE ReadExactly(src, field[2])
      [] field[1] = "need" -> IF Len(src) < field[2] THEN Err(src) ELSE Ok(<<>>, src)
      [] field[1] = "bool" -> IF src = <<>> THEN Err(src) ELSE Ok(src[1] # 0, Tail(src))
      [] field[1] = "rawbool" -> IF src = <<>> THEN Panic(src) ELSE Ok(src[1] # 0, Tail(src))
      [] field[1] = "varint" -> DecodeVarInt(src)
      [] field[1] = "bytes" -> ReadBytes(src, field[2])
      [] field[1] = "ucs2" -> ReadUcs2(src)
      [] field[1] = "shortbytes" -> ReadShortArray(src)
      [] field[1] = "uuidtext" ->
            LET t == ReadBytes(src, 2147483647)
            IN  IF t.res = "ok" /\ IsUuidText(t.val) THEN Ok(TextToUuid(t.val), t.rest) ELSE Err(src)
      [] field[1] = "rest" -> Ok(src, <<>>)
      [] field[1] = "droprest" -> Ok(<<>>, <<>>)
      [] field[1] \in {"many", "counted"} -> ReadCounted(field, src)
      [] field[1] = "maybe" -> ReadMaybe(field[2], src)
      [] field[1] = "tail" -> IF Len(src) < field[2][1] THEN Ok(<<>>, src)
                              ELSE LET body == ReadAll(field[2][2], src) IN [body EXCEPT !.val = <<@>>]
      [] field[1] = "unread" -> Ok(<<>>, src)
      [] field[1] = "bylength" -> ReadByLength(src)
      [] field[1] = "nbt" -> ReadNbtBytes(field[2], src)
      [] field[1] = "switch" -> ReadSwitch(field[2], src)

(* Field after field; the first that is not "ok" decides (the `?` operator).    *)
ReadAll(layout, src) ==
    IF layout = <<>> THEN Ok(<<>>, src)
    ELSE LET first == ReadField(Head(layout), src)
             others == ReadAll(Tail(layout), first.rest)
         IN  IF first.res # "ok" THEN Passed(first) ELSE [others EXCEPT !.val = <<first.val>> \o @]

ReadTimes(layout, n, src) ==
    IF n = 0 THEN Ok(<<>>, src)
    ELSE LET first == ReadAll(layout, src)
             others == ReadTimes(layout, n - 1, first.rest)
         IN  IF first.res # "ok" THEN Passed(first) ELSE [others EXCEPT !.val = <<first.val>> \o @]
=============================================================================
