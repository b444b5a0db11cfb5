-------------------------------- MODULE Wire --------------------------------
(* Bytes on the wire: variable-length integers, lengths and length-prefixed     *)
(* runs of bytes, as the codec and the packet modules read and write them.      *)
(*                                                                              *)
(* A buffer is a sequence of bytes.  A read yields its verdict, the value and   *)
(* what is left of the buffer: "ok", "err" (the decoder returns a               *)
(* ProtocolError) or "panic" (a raw `get_*` of the bytes crate on a buffer that *)
(* is too short, which unwinds the task).  Fixed-width numbers are the bytes    *)
(* they consist of, text is its bytes; whether they are UTF-8 is left out.      *)
EXTENDS Integers, Sequences

Ok(val, rest) == [res |-> "ok", val |-> val, rest |-> rest]
Err(rest) == [res |-> "err", val |-> <<>>, rest |-> rest]
Panic(rest) == [res |-> "panic", val |-> <<>>, rest |-> rest]

(* The failure of a part as the failure of the whole.                           *)
Passed(failure) == [failure EXCEPT !.val = <<>>]

Front(src, n) == SubSeq(src, 1, n)
After(src, n) == SubSeq(src, n + 1, Len(src))

RECURSIVE ConcatAll(_)
ConcatAll(seqs) == IF seqs = <<>> THEN <<>> ELSE Head(seqs) \o ConcatAll(Tail(seqs))

RECURSIVE AddUp(_)
AddUp(nums) == IF nums = <<>> THEN 0 ELSE Head(nums) + AddUp(Tail(nums))

------------------------------------------------------------------------------
(* Variable-length integers.                                                   *)

VARINT_MAX_BYTES == 5

(* The five groups of seven bits of an i32, the lowest first.                   *)
Groups(v) == [i \in 1..5 |-> IF i < 5 THEN (v \div 128^(i - 1)) % 128 ELSE (v \div 2^28) % 16]

(* The groups up to the last one that is not 0, all but that one with the       *)
(* continuation bit.                                                            *)
EncodeVarInt(v) ==
    LET g == Groups(v)
        last == CHOOSE i \in 1..5 : /\ i = 1 \/ g[i] # 0
                                    /\ \A j \in (i + 1)..5 : g[j] = 0
    IN  [i \in 1..last |-> IF i < last THEN g[i] + 128 ELSE g[i]]

(* VarInt::encoded_len: shifts until the rest fits a byte.                      *)
EncodedLen(v) ==
    CHOOSE n \in 1..5 : /\ \A i \in (n + 1)..5 : Groups(v)[i] = 0
                        /\ n = 1 \/ Groups(v)[n] # 0

(* Faulty variant: without the test of the fifth byte's upper bits.             *)
DecodeVarIntUnchecked(src) ==
    LET ends == {i \in 1..VARINT_MAX_BYTES : i <= Len(src) /\ src[i] < 128}
        n == CHOOSE i \in ends : \A j \in ends : i <= j
        low == AddUp([i \in 1..(IF n < 4 THEN n ELSE 4) |-> (src[i] % 128) * 128^(i - 1)])
        top == src[5] % 16
        high == (IF top >= 8 THEN top - 16 ELSE top) * 2^28
    IN  IF ends = {} THEN Err(src) ELSE Ok(IF n = 5 THEN low + high ELSE low, After(src, n))

DecodeVarInt(src) ==
    LET ends == {i \in 1..VARINT_MAX_BYTES : i <= Len(src) /\ src[i] < (IF i = 5 THEN 16 ELSE 128)}
        n == CHOOSE i \in ends : \A j \in ends : i <= j
        low == AddUp([i \in 1..(IF n < 4 THEN n ELSE 4) |-> (src[i] % 128) * 128^(i - 1)])
        high == (IF src[5] >= 8 THEN src[5] - 16 ELSE src[5]) * 2^28
    IN  IF ends = {} THEN Err(src) ELSE Ok(IF n = 5 THEN low + high ELSE low, After(src, n))

VARLONG_MAX_BYTES == 10

(* A 64-bit number is the sequence of its ten groups; the tenth has one bit.    *)
EncodeVarLong(g) ==
    LET last == CHOOSE i \in 1..VARLONG_MAX_BYTES : /\ i = 1 \/ g[i] # 0
                                                    /\ \A j \in (i + 1)..VARLONG_MAX_BYTES : g[j] = 0
    IN  [i \in 1..last |-> IF i < last THEN g[i] + 128 ELSE g[i]]

(* The bits above the 64th of a tenth byte are shifted out.                     *)
DecodeVarLong(src) ==
    LET ends == {i \in 1..VARLONG_MAX_BYTES : i <= Len(src) /\ src[i] < 128}
        n == CHOOSE i \in ends : \A j \in ends : i <= j
    IN  IF ends = {} THEN Err(src)
        ELSE Ok([i \in 1..VARLONG_MAX_BYTES |->
                    CASE i > n -> 0
                      [] i <= n /\ i < 10 -> src[i] % 128
                      [] i <= n /\ i = 10 -> src[i] % 2],
                After(src, n))

------------------------------------------------------------------------------
(* Big-endian lengths.                                                         *)

PutU16(n) == <<(n \div 256) % 256, n % 256>>
PutI32(n) == <<(n \div 2^24) % 256, (n \div 65536) % 256, (n \div 256) % 256, n % 256>>
GetU16(b) == b[1] * 256 + b[2]
GetI16(b) == IF b[1] >= 128 THEN GetU16(b) - 65536 ELSE GetU16(b)
GetI32(b) == (IF b[1] >= 128 THEN b[1] - 256 ELSE b[1]) * 2^24 + b[2] * 65536 + b[3] * 256 + b[4]

------------------------------------------------------------------------------
(* A length-prefixed run of bytes; a negative length becomes a huge usize.      *)
ReadBytes(src, limit) ==
    LET n == DecodeVarInt(src)
    IN  IF n.res # "ok" \/ n.val < 0 \/ n.val > limit \/ Len(n.rest) < n.val THEN Err(src)
        ELSE Ok(Front(n.rest, n.val), After(n.rest, n.val))

(* Reads in one piece when n bytes are there.                                   *)
ReadExactly(src, n) == IF Len(src) < n THEN Err(src) ELSE Ok(Front(src, n), After(src, n))

ReadUcs2(src) ==
    IF Len(src) < 2 \/ Len(src) - 2 < 2 * GetU16(src) THEN Err(src)
    ELSE Ok([i \in 1..GetU16(src) |-> GetU16(After(src, 2 * i))], After(src, 2 + 2 * GetU16(src)))

WriteUcs2(units) == PutU16(Len(units)) \o ConcatAll([i \in 1..Len(units) |-> PutU16(units[i])])

ReadShortArray(src) ==
    IF Len(src) < 2 \/ GetI16(src) < 0 \/ Len(src) - 2 < GetI16(src) THEN Err(src)
    ELSE Ok(Front(After(src, 2), GetI16(src)), After(src, 2 + GetI16(src)))

=============================================================================
