--------------------------------- MODULE Nbt ---------------------------------
(* Named binary tags: protocol/src/types/nbt.rs.  A tag is its type byte and    *)
(* its payload: the bytes of a number, the elements of an array, list or text,  *)
(* and for a compound the sequence of <<name, tag>> in the order in which the   *)
(* hash map is walked.                                                          *)
EXTENDS Wire

CONSTANT MAX_NBT_DEPTH      \* 512 in the code

MAX_NBT_ARRAY_LEN == 1048576

TypeList == 9
TypeCompound == 10

(* Bytes of a number, and of the elements of an array.                          *)
NumberSize == <<1, 2, 4, 8, 4, 8>>

(* Faulty variant: long arrays stepped over as if of integers.                  *)
ElementSizeOfInts(t) == CASE t = 7 -> 1 [] t \in {11, 12} -> 4

ElementSize(t) == CASE t = 7 -> 1 [] t = 11 -> 4 [] t = 12 -> 8

Tag(t, v) == [t |-> t, v |-> v]

ReadNbtString(src) ==
    IF Len(src) < 2 \/ Len(src) - 2 < GetU16(src) THEN Err(src)
    ELSE Ok(Front(After(src, 2), GetU16(src)), After(src, 2 + GetU16(src)))

WriteNbtString(s) == PutU16(Len(s)) \o s

(* The type of a list is that of its first element.                             *)
RECURSIVE WritePayload(_)
WritePayload(tag) ==
    CASE tag.t \in 1..6 -> tag.v
      [] tag.t \in {7, 11, 12} -> PutI32(Len(tag.v)) \o ConcatAll(tag.v)
      [] tag.t = 8 -> WriteNbtString(tag.v)
      [] tag.t = TypeList ->
            <<IF tag.v = <<>> THEN 0 ELSE tag.v[1].t>> \o PutI32(Len(tag.v))
                \o ConcatAll([i \in 1..Len(tag.v) |-> WritePayload(tag.v[i])])
      [] tag.t = TypeCompound ->
            ConcatAll([i \in 1..Len(tag.v) |->
                <<tag.v[i][2].t>> \o WriteNbtString(tag.v[i][1]) \o WritePayload(tag.v[i][2])])
                \o <<0>>

(* Elements of an array, as long as whole ones are there.                       *)
ReadArray(src, size) ==
    LET n == GetI32(src)
        body == After(src, 4)
    IN  IF Len(src) < 4 \/ n < 0 \/ n > MAX_NBT_ARRAY_LEN \/ Len(body) < n * size THEN Err(src)
        ELSE Ok([i \in 1..n |-> SubSeq(body, (i - 1) * size + 1, i * size)], After(body, n * size))

RECURSIVE ReadPayload(_, _, _), ReadElements(_, _, _, _), ReadEntries(_, _)

(* Only compounds count towards the depth, in a list or on their own.           *)
ReadList(src, depth) ==
    LET t == src[1]
        n == GetI32(Tail(src))
    IN  IF Len(src) < 5 \/ t > 12 \/ n < 0 \/ n > MAX_NBT_ARRAY_LEN THEN Err(src)
        ELSE IF t = TypeCompound
             THEN IF depth >= MAX_NBT_DEPTH THEN Err(src) ELSE ReadElements(t, n, After(src, 5), depth + 1)
             ELSE ReadElements(t, n, After(src, 5), depth)

ReadPayload(t, src, depth) ==
    CASE t = 0 -> Ok(Tag(0, <<>>), src)
      [] t \in 1..6 -> LET r == ReadExactly(src, NumberSize[t]) IN [r EXCEPT !.val = Tag(t, @)]
      [] t \in {7, 11, 12} -> LET r == ReadArray(src, ElementSize(t)) IN [r EXCEPT !.val = Tag(t, @)]
      [] t = 8 -> LET r == ReadNbtString(src) IN [r EXCEPT !.val = Tag(t, @)]
      [] t = TypeList -> LET r == ReadList(src, depth) IN [r EXCEPT !.val = Tag(t, @)]
      [] t = TypeCompound ->
            IF depth >= MAX_NBT_DEPTH THEN Err(src)
            ELSE LET r == ReadEntries(src, depth + 1) IN [r EXCEPT !.val = Tag(t, @)]

ReadElements(t, n, src, depth) ==
    IF n = 0 THEN Ok(<<>>, src)
    ELSE LET first == ReadPayload(t, src, depth)
             others == ReadElements(t, n - 1, first.rest, depth)
         IN  IF first.res # "ok" THEN Passed(first) ELSE [others EXCEPT !.val = <<first.val>> \o @]

ReadEntries(src, depth) ==
    LET name == ReadNbtString(Tail(src))
        first == ReadPayload(src[1], name.rest, depth)
        others == ReadEntries(first.rest, depth)
    IN  CASE src = <<>> -> Err(src)
          [] src # <<>> /\ src[1] = 0 -> Ok(<<>>, Tail(src))
          [] src # <<>> /\ src[1] > 12 -> Err(src)
          [] OTHER -> IF name.res # "ok" THEN name
                      ELSE IF first.res # "ok" THEN Passed(first)
                      ELSE [others EXCEPT !.val = <<<<name.val, first.val>>>> \o @]

(* Nbt::encode and Nbt::decode: a named root compound; a lone End is empty.     *)
EncodeNbt(name, entries) ==
    <<TypeCompound>> \o WriteNbtString(name) \o WritePayload(Tag(TypeCompound, entries))

DecodeNbt(src) ==
    LET name == ReadNbtString(Tail(src))
        root == ReadPayload(src[1], name.rest, 0)
    IN  CASE src = <<>> -> Err(src)
          [] src # <<>> /\ src[1] = 0 -> Ok(<<<<>>, <<>>>>, Tail(src))
          [] src # <<>> /\ src[1] > 12 -> Err(src)
          [] OTHER -> IF name.res # "ok" THEN name
                      ELSE IF root.res # "ok" \/ src[1] # TypeCompound THEN Err(src)
                      ELSE Ok(<<name.val, root.val.v>>, root.rest)

------------------------------------------------------------------------------
(* skip: steps over a value without building it.  `need` advances past the      *)
(* bytes it asks for, so the length that is read after it comes from the bytes  *)
(* behind the length field; the raw read panics when they are not there.        *)

NeedBytes(src, n) == IF Len(src) < n THEN Err(src) ELSE Ok(<<>>, After(src, n))

SkipName(src) == IF Len(src) < 2 THEN Err(src) ELSE NeedBytes(After(src, 2), GetU16(src))

SkipArray(src, size) ==
    LET past == NeedBytes(src, 4)
        n == GetI32(past.rest)
        body == After(past.rest, 4)
    IN  IF past.res # "ok" THEN past
        ELSE IF Len(past.rest) < 4 THEN Panic(src)
        ELSE IF n < 0 \/ n > Len(body) \div size THEN Err(body)
        ELSE NeedBytes(body, n * size)

SkipString(src) ==
    LET past == NeedBytes(src, 2)
    IN  IF past.res # "ok" THEN past
        ELSE IF Len(past.rest) < 2 THEN Panic(src)
        ELSE NeedBytes(After(past.rest, 2), GetU16(past.rest))

RECURSIVE SkipPayload(_, _, _), SkipElements(_, _, _, _), SkipEntries(_, _)

SkipList(src, depth) ==
    LET past == NeedBytes(src, 5)
        t == past.rest[1]
        n == GetI32(Tail(past.rest))
        nested == t \in {TypeList, TypeCompound}
    IN  IF past.res # "ok" THEN past
        ELSE IF past.rest = <<>> THEN Panic(src)
        ELSE IF t > 12 THEN Err(Tail(past.rest))
        ELSE IF Len(past.rest) < 5 THEN Panic(src)
        ELSE IF n < 0 \/ (nested /\ depth >= MAX_NBT_DEPTH) THEN Err(After(past.rest, 5))
        ELSE SkipElements(t, n, After(past.rest, 5), IF nested THEN depth + 1 ELSE depth)

SkipPayload(t, src, depth) ==
    CASE t = 0 -> Ok(<<>>, src)
      [] t \in 1..6 -> NeedBytes(src, NumberSize[t])
      [] t \in {7, 11, 12} -> SkipArray(src, ElementSize(t))
      [] t = 8 -> SkipString(src)
      [] t = TypeList -> SkipList(src, depth)
      [] t = TypeCompound -> IF depth >= MAX_NBT_DEPTH THEN Err(src) ELSE SkipEntries(src, depth + 1)

SkipElements(t, n, src, depth) ==
    IF n = 0 \/ t = 0 THEN Ok(<<>>, src)
    ELSE LET first == SkipPayload(t, src, depth)
         IN  IF first.res # "ok" THEN first ELSE SkipElements(t, n - 1, first.rest, depth)

SkipEntries(src, depth) ==
    LET name == SkipName(Tail(src))
        first == SkipPayload(src[1], name.rest, depth)
    IN  CASE src = <<>> -> Err(src)
          [] src # <<>> /\ src[1] = 0 -> Ok(<<>>, Tail(src))
          [] src # <<>> /\ src[1] > 12 -> Err(Tail(src))
          [] OTHER -> IF name.res # "ok" THEN name
                      ELSE IF first.res # "ok" THEN first
                      ELSE SkipEntries(first.rest, depth)

SkipNbt(src) ==
    LET name == SkipName(Tail(src))
    IN  CASE src = <<>> -> Err(src)
          [] src # <<>> /\ src[1] = 0 -> Ok(<<>>, Tail(src))
          [] src # <<>> /\ src[1] > 12 -> Err(Tail(src))
          [] OTHER -> IF name.res # "ok" THEN name ELSE SkipPayload(src[1], name.rest, 0)
=============================================================================
