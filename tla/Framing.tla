------------------------------ MODULE Framing ------------------------------
(* How the bytes of a client in play become packets: net/packet_io.rs, the      *)
(* buffered reader of the relay (net/relay.rs) and the one of limbo, which      *)
(* reads and discards (net/limbo.rs).  The two take turns on one stream.        *)
(*                                                                              *)
(* A read is a branch of a select!: when another branch is ready first, the     *)
(* bytes that it has already taken are dropped with it.  A frame of a netty     *)
(* client is <length><body>, one of a 1.6 client <id><fields of that packet>,   *)
(* where each reader has a table of the fields of its own.                      *)
EXTENDS Layout

CONSTANTS
    Conversations,      \* records [legacy, threshold, packets]: what a client writes
    Pieces              \* bound: numbers of bytes that arrive at a time

VARIABLES
    talk,               \* the conversation
    network,            \* bytes on their way, or in the socket
    at,                 \* who reads: limbo, relay, or nobody (closed)
    ahead,              \* bytes in the BufReader of the relay
    got,                \* bytes that the current read has taken
    returned,           \* what the reads have returned, <<>> for a packet of limbo
    torn                \* history: bytes were dropped with a read or with a BufReader

framingVars == <<talk, network, at, ahead, got, returned, torn>>

AtMost(m, n) == IF m < n THEN m ELSE n
NotNegative(n) == IF n < 0 THEN 0 ELSE n

------------------------------------------------------------------------------
(* Frames of netty clients.                                                    *)

NO_COMPRESSION == -1
MAX_FRAME == 2097152

(* zlib, by what the code needs of it: something else than the text, that leads *)
(* back to it.                                                                  *)
Deflated(raw) == <<120>> \o raw
Inflated(z) == IF z # <<>> /\ z[1] = 120 THEN Ok(Tail(z), <<>>) ELSE Err(z)

Compress(raw, threshold) ==
    IF Len(raw) >= threshold THEN EncodeVarInt(Len(raw)) \o Deflated(raw) ELSE EncodeVarInt(0) \o raw

Decompress(body) ==
    LET n == DecodeVarInt(body)
        out == Inflated(n.rest)
    IN  IF n.res # "ok" THEN n
        ELSE IF n.val = 0 THEN Ok(n.rest, <<>>)
        ELSE IF n.val \in 1..MAX_FRAME /\ out.res = "ok" /\ Len(out.val) = n.val THEN out
        ELSE Err(body)

EncodeFrame(body) == EncodeVarInt(Len(body)) \o body

EncodePacket(raw, threshold) ==
    EncodeFrame(IF threshold >= 0 THEN Compress(raw, threshold) ELSE raw)

(* read_varint takes the fifth byte as it comes.                                *)
LengthBytes(src) == {i \in 1..AtMost(5, Len(src)) : src[i] < 128}
LengthEnd(src) == CHOOSE i \in LengthBytes(src) : \A j \in LengthBytes(src) : i <= j
FrameLength(src) ==
    LET n == LengthEnd(src) IN AddUp([i \in 1..AtMost(n, 4) |-> (src[i] % 128) * 128^(i - 1)])

BadLength(src) ==
    IF LengthBytes(src) = {} THEN Len(src) >= 5
    ELSE (LengthEnd(src) = 5 /\ src[5] % 16 # 0) \/ FrameLength(src) > MAX_FRAME

------------------------------------------------------------------------------
(* Packets of 1.6 clients: the fields after the id.                            *)

(* A slot: an i16 of -1, or an item with its count, damage and tag.             *)
Item == <<"item", 0>>

Unknown == <<<<"unknown", 0>>>>

(* The table of read_pre_netty_packet.                                          *)
RelayFields(id) ==
    CASE id \in {10, 22, 101, 205} -> <<Fixed(1)>>
      [] id = 16 -> <<Fixed(2)>>
      [] id \in {0, 106} -> <<Fixed(4)>>
      [] id = 18 -> <<Fixed(5)>>
      [] id \in {7, 12, 19, 202} -> <<Fixed(9)>>
      [] id = 14 -> <<Fixed(11)>>
      [] id = 11 -> <<Fixed(33)>>
      [] id = 13 -> <<Fixed(41)>>
      [] id \in {3, 203, 255} -> <<Ucs2>>
      [] id = 15 -> <<Fixed(10), Item, Fixed(3)>>
      [] id = 102 -> <<Fixed(7), Item>>
      [] id = 130 -> <<Fixed(10), Ucs2, Ucs2, Ucs2, Ucs2>>
      [] id = 204 -> <<Ucs2, Fixed(4)>>
      [] id = 250 -> <<Ucs2, ShortArray>>
      [] OTHER -> Unknown

(* The table of read_and_discard_pre_netty.                                     *)
(* Faulty variant: two flags in LocaleAndViewDistance where there is one byte.  *)
LimboFieldsLongLocale(id) ==
    CASE id \in {10, 205, 254} -> <<Fixed(1)>>
      [] id \in {3, 203, 255} -> <<Ucs2>>
      [] id = 204 -> <<Ucs2, Fixed(5)>>
      [] id \in {0, 7, 11, 12, 13, 14, 16, 18, 19, 202, 250} -> RelayFields(id)
      [] OTHER -> Unknown

LimboFields(id) ==
    CASE id \in {10, 205, 254} -> <<Fixed(1)>>
      [] id = 16 -> <<Fixed(2)>>
      [] id = 0 -> <<Fixed(4)>>
      [] id = 18 -> <<Fixed(5)>>
      [] id \in {7, 12, 19, 202} -> <<Fixed(9)>>
      [] id = 14 -> <<Fixed(11)>>
      [] id = 11 -> <<Fixed(33)>>
      [] id = 13 -> <<Fixed(41)>>
      [] id \in {3, 203, 255} -> <<Ucs2>>
      [] id = 204 -> <<Ucs2, Fixed(4)>>
      [] id = 250 -> <<Ucs2, ShortArray>>
      [] OTHER -> Unknown

FieldsOf(id) == IF at = "limbo" THEN LimboFields(id) ELSE RelayFields(id)

(* How many bytes the reader of a field asks for, as far as src tells.          *)
FieldSize(field, src) ==
    CASE field[1] = "fixed" -> field[2]
      [] field[1] = "ucs2" -> IF Len(src) < 2 THEN 2 ELSE 2 + 2 * GetU16(src)
      [] field[1] = "shortbytes" -> IF Len(src) < 2 THEN 2 ELSE 2 + NotNegative(GetI16(src))
      [] field[1] = "item" -> IF Len(src) < 2 \/ GetI16(src) = -1 THEN 2
                              ELSE IF Len(src) < 7 THEN 7 ELSE 7 + NotNegative(GetI16(After(src, 5)))

RECURSIVE SizeOf(_, _)
SizeOf(fields, src) ==
    IF fields = <<>> THEN 0
    ELSE LET n == FieldSize(Head(fields), src)
         IN  IF Len(src) < n THEN n ELSE n + SizeOf(Tail(fields), After(src, n))

------------------------------------------------------------------------------
(* One read.                                                                   *)

(* What the bytes so far tell of the length of the frame: at least this much.   *)
Wanted ==
    IF talk.legacy THEN IF got = <<>> THEN 1 ELSE 1 + SizeOf(FieldsOf(got[1]), Tail(got))
    ELSE IF LengthBytes(got) = {} THEN Len(got) + 1 ELSE LengthEnd(got) + FrameLength(got)

Refused ==
    IF talk.legacy THEN got # <<>> /\ FieldsOf(got[1]) = Unknown ELSE BadLength(got)

Complete == ~Refused /\ Len(got) = Wanted

(* read_client_packet; limbo does not look into the frame.                      *)
Payload ==
    LET body == After(got, LengthEnd(got))
    IN  IF talk.legacy THEN Ok(got, <<>>)
        ELSE IF at = "relay" /\ talk.threshold >= 0 THEN Decompress(body)
        ELSE Ok(body, <<>>)

Written(raw) == IF talk.legacy THEN raw ELSE EncodePacket(raw, talk.threshold)

(* The client's bytes from its n-th packet on.                                  *)
WrittenFrom(n) ==
    ConcatAll([i \in 1..(Len(talk.packets) - n + 1) |-> Written(talk.packets[n + i - 1])])

FramingInit ==
    /\ talk \in Conversations
    /\ network = WrittenFrom(1)
    /\ at = "limbo"
    /\ ahead = <<>> /\ got = <<>> /\ returned = <<>> /\ torn = FALSE

(* Limbo's stream has no buffer: a read takes no more than it asks for.         *)
TakeFromSocket(k) ==
    /\ at = "limbo" /\ ~Refused /\ ~Complete /\ network # <<>>
    /\ LET n == AtMost(AtMost(k, Wanted - Len(got)), Len(network))
       IN  got' = got \o Front(network, n) /\ network' = After(network, n)
    /\ UNCHANGED <<talk, at, ahead, returned, torn>>

(* The BufReader takes what there is, once it is empty.                         *)
FillBuffer(k) ==
    /\ at = "relay" /\ ~Refused /\ ~Complete /\ ahead = <<>> /\ network # <<>>
    /\ ahead' = Front(network, AtMost(k, Len(network)))
    /\ network' = After(network, AtMost(k, Len(network)))
    /\ UNCHANGED <<talk, at, got, returned, torn>>

TakeFromBuffer ==
    /\ at = "relay" /\ ~Refused /\ ~Complete /\ ahead # <<>>
    /\ LET n == AtMost(Wanted - Len(got), Len(ahead))
       IN  got' = got \o Front(ahead, n) /\ ahead' = After(ahead, n)
    /\ UNCHANGED <<talk, network, at, returned, torn>>

ReadReturns ==
    /\ at # "closed" /\ Complete
    /\ got' = <<>>
    /\ IF Payload.res = "ok"
       THEN at' = at /\ returned' = Append(returned, IF at = "limbo" THEN <<>> ELSE Payload.val)
       ELSE at' = "closed" /\ UNCHANGED returned
    /\ UNCHANGED <<talk, network, ahead, torn>>

ReadFails ==
    /\ at # "closed" /\ Refused
    /\ at' = "closed"
    /\ UNCHANGED <<talk, network, ahead, got, returned, torn>>

(* Another branch of the select! is ready: a tick of limbo, or a packet for the *)
(* backend in the relay.  The next turn of the loop starts a new read.          *)
ReadCancelled ==
    /\ at # "closed" /\ ~Refused /\ ~Complete
    /\ got' = <<>> /\ torn' = (torn \/ got # <<>>)
    /\ UNCHANGED <<talk, network, at, ahead, returned>>

(* Limbo has found a backend.                                                   *)
IntoRelay ==
    /\ at = "limbo" /\ ~Refused /\ ~Complete
    /\ at' = "relay"
    /\ got' = <<>> /\ torn' = (torn \/ got # <<>>)
    /\ UNCHANGED <<talk, network, ahead, returned>>

(* The relay stops for a switch or a fall-back and gives up its BufReader.      *)
OutOfRelay ==
    /\ at = "relay" /\ ~Refused /\ ~Complete
    /\ at' = "limbo"
    /\ got' = <<>> /\ ahead' = <<>> /\ torn' = (torn \/ got # <<>> \/ ahead # <<>>)
    /\ UNCHANGED <<talk, network, returned>>

FramingNext ==
    \/ \E k \in Pieces : TakeFromSocket(k) \/ FillBuffer(k)
    \/ TakeFromBuffer \/ ReadReturns \/ ReadFails
    \/ ReadCancelled \/ IntoRelay \/ OutOfRelay

------------------------------------------------------------------------------
(* Whoever reads, and in whatever pieces the bytes arrive, a read returns one   *)
(* packet of the client and leaves the next one whole, so that it is read as    *)
(* what it is after the stream has changed hands; limbo and the relay agree on  *)
(* the length of every packet that both know.  Only a packet that one of them   *)
(* has no fields for closes the connection.  This holds up to the first read or *)
(* BufReader that is given up with bytes in it, from where on the code has no   *)
(* means to find the next packet.                                               *)
ReadsStayAligned ==
    ~torn =>
        /\ \A i \in DOMAIN returned : returned[i] \in {<<>>, talk.packets[i]}
        /\ at # "closed" => got \o ahead \o network = WrittenFrom(Len(returned) + 1)
        /\ at = "closed" =>
             LET next == talk.packets[Len(returned) + 1]
             IN  talk.legacy /\ Unknown \in {LimboFields(next[1]), RelayFields(next[1])}
=============================================================================
