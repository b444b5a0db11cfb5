---------------------------- MODULE MCReception ----------------------------
(* Every typed packet of every canonical version with a few sample values each, *)
(* all small binary tags, and every protocol number.                            *)
EXTENDS Reception, Framing

VarInts == <<0, 1, 127, 128, 300, 2097151, 2147483647, -1, -2147483647 - 1>>
Texts == <<<<104, 105>>, <<>>, <<97>>>>
At(seq, k) == seq[1 + (k % Len(seq))]
Bytes(n, k) == [i \in 1..n |-> (37 * (k + i)) % 256]

TagSamples == <<Tag(8, <<104, 105>>), Tag(9, <<Tag(2, <<1, 2>>)>>), Tag(1, <<7>>),
                Tag(10, <<<<<<98>>, Tag(4, Bytes(8, 1))>>>>), Tag(12, <<Bytes(8, 1)>>), Tag(8, <<>>)>>

RECURSIVE SampleAll(_, _)
Sample(field, k) ==
    CASE field[1] \in {"fixed", "raw"} -> Bytes(field[2], k)
      [] field[1] \in {"need", "droprest", "unread"} -> <<>>
      [] field[1] \in {"bool", "rawbool"} -> k % 2 = 0
      [] field[1] = "varint" -> At(VarInts, k)
      [] field[1] \in {"bytes", "ucs2", "shortbytes", "rest"} -> At(Texts, k)
      [] field[1] = "uuidtext" -> Bytes(16, k)
      [] field[1] \in {"many", "counted"} -> [i \in 1..(k % 3) |-> SampleAll(field[2], k + i)]
      [] field[1] = "maybe" -> IF k % 2 = 0 THEN <<>> ELSE <<SampleAll(field[2], k + 1)>>
      [] field[1] = "tail" -> IF k % 2 = 0 THEN <<>> ELSE <<SampleAll(field[2][2], k + 1)>>
      [] field[1] = "bylength" -> At(<<<<<<>>, <<>>>>, <<<<1>>, <<>>>>, <<<<>>, Bytes(16, k)>>>>, k)
      [] field[1] = "nbt" -> EncodeNbt(<<>>, <<<<<<97>>, At(TagSamples, k)>>>>)
      [] field[1] = "switch" -> LET tags == DOMAIN field[2]
                                    tag == CHOOSE t \in tags :
                                            Cardinality({u \in tags : u < t}) = k % Cardinality(tags)
                                IN  <<tag, SampleAll(field[2][tag], k + 1)>>
SampleAll(layout, k) == [i \in 1..Len(layout) |-> Sample(layout[i], k + i)]

(* Versions of each packet module that differ in their layouts.                 *)
Buckets == {<<Bucket_6, 78>>, <<Bucket_7, 5>>, <<Bucket_8, 47>>, <<Bucket_12(340), 340>>,
            <<Bucket_12(578), 578>>, <<Bucket_16(736), 736>>, <<Bucket_16(754), 754>>,
            <<Bucket_19, 762>>, <<Bucket_20(765), 765>>, <<Bucket_20(766), 766>>, <<Bucket_21, 767>>,
            <<Bucket_21, 776>>}

CONSTANT Samples

MCPacketSubjects ==
    UNION {{[packet |-> b[1][i], ver |-> b[2], vals |-> SampleAll(b[1][i].w, k)] :
                i \in DOMAIN b[1], k \in Samples} : b \in Buckets}

(* Leaves, and compounds and lists of them, one level deep.                     *)
Numbers123 == {Tag(1, <<7>>), Tag(2, <<1, 2>>), Tag(5, <<0, 0, 0, 9>>)}
Sized == {Tag(7, <<<<1>>, <<2>>>>), Tag(8, <<104, 105>>), Tag(11, <<<<0, 0, 0, 1>>>>),
          Tag(12, <<Bytes(8, 1)>>), Tag(9, <<>>)}
Leaves == Numbers123 \cup Sized
Lists == {Tag(9, <<t, t>>) : t \in Leaves}
            \cup {Tag(9, <<Tag(10, <<<<<<97>>, t>>>>)>>) : t \in Numbers123}
Trees == Leaves \cup Lists \cup {Tag(10, <<<<<<97>>, t>>>>) : t \in Leaves}
MCNbtSubjects ==
    {<<>>} \cup {<<<<<<98>>, t>>>> : t \in Trees}
           \cup {<<<<<<98>>, t>>, <<<<>>, u>>>> : t \in Trees, u \in Numbers123}
           \cup {<<<<<<98>>, Tag(10, <<<<<<99>>, t>>>>)>>>> : t \in Trees}

CONSTANTS MaxNumber
MCNumbers == 0..MaxNumber

(* Bodies that the proxy builds, for every netty version.                       *)
Netty == Known \ {73, 74, 78}
MCBuiltSubjects ==
    {[what |-> w, ver |-> p, vals |-> SampleAll(BuiltBody(w, p), k)] :
        w \in {"LoginSuccess", "LoginStart", "EncryptionRequest", "Brand"}, p \in Netty, k \in Samples}

(* Components with text, a style and parts, and some that cannot be converted.  *)
Str(t) == <<"string", t>>
Plaintext(t) == <<"object", <<<<TextKey, Str(t)>>>>>>
JsonLeaves == {Str(<<104>>), <<"bool", TRUE>>, <<"int", <<0, 0, 0, 7>>>>, <<"real", Bytes(8, 1)>>,
               <<"null", 0>>, <<"array", <<>>>>}
JsonParts == JsonLeaves \cup {Plaintext(<<105>>)}
             \cup {<<"array", <<a, b>>>> : a, b \in JsonLeaves \cup {Plaintext(<<105>>)}}
MCJsonSubjects ==
    JsonLeaves \cup {<<"object", <<<<TextKey, Str(<<104, 105>>)>>, <<ExtraKey, part>>>>>> : part \in JsonParts}

(* What a client writes: one packet of every kind, and a second that shows      *)
(* whether the first was read to its end.  The fields of a 1.6 client's packet, *)
(* by the game's own definition.                                                *)
Wide(n) == [i \in 1..n |-> 200 + (i % 50)]
Word == <<0, 2, 0, 104, 0, 105>>
Held == <<1, 4, 1, 0, 0, 0, 2, 9, 9>>
GamePackets ==
    {<<0>> \o Wide(4), <<3>> \o Word, <<7>> \o Wide(4) \o Wide(4) \o Wide(1), <<10, 1>>,
     <<11>> \o Wide(32) \o <<1>>, <<12>> \o Wide(8) \o <<1>>, <<13>> \o Wide(40) \o <<1>>,
     <<14, 0>> \o Wide(4) \o <<64>> \o Wide(4) \o <<1>>, <<16, 0, 3>>, <<18>> \o Wide(4) \o <<1>>,
     <<15>> \o Wide(4) \o <<64>> \o Wide(4) \o <<1>> \o Held \o <<1, 2, 3>>,
     <<15>> \o Wide(4) \o <<64>> \o Wide(4) \o <<1>> \o <<255, 255>> \o <<1, 2, 3>>,
     <<19>> \o Wide(4) \o <<1>> \o Wide(4), <<22, 1>>, <<101, 0>>, <<102, 1, 0, 9, 0, 0, 1, 0>> \o Held,
     <<102, 1, 0, 9, 0, 0, 1, 0, 255, 255>>, <<106, 1, 0, 1, 1>>,
     <<130>> \o Wide(4) \o <<0, 64>> \o Wide(4) \o Word \o <<0, 0>> \o Word \o <<0, 0>>,
     <<202, 1>> \o Wide(4) \o Wide(4), <<203>> \o Word, <<204>> \o Word \o <<8, 1, 2, 1>>, <<205, 1>>,
     <<250>> \o Word \o <<0, 3, 1, 2, 3>>, <<250>> \o Word \o <<0, 0>>, <<254, 1>>, <<255>> \o Word}

NettyPackets == {<<16>>, <<16, 0, 0>>, <<16, 0, 0, 0>>}

Conversation(legacy, threshold, packets) ==
    [legacy |-> legacy, threshold |-> threshold, packets |-> packets]
MCConversations ==
    {Conversation(TRUE, NO_COMPRESSION, <<p, <<16, 0, 7>>>>) : p \in GamePackets}
        \cup {Conversation(FALSE, t, <<p, <<4, 7>>>>) : p \in NettyPackets, t \in {NO_COMPRESSION, 0, 3}}
        \cup {Conversation(FALSE, 3, <<<<16>> \o Wide(127), <<4, 7>>>>)}

(* A state is either about one body of Reception or about one stream.           *)
NoStream == [legacy |-> FALSE, threshold |-> NO_COMPRESSION, packets |-> <<>>]

MCInit ==
    \/ /\ ReceptionInit
       /\ talk = NoStream /\ network = <<>> /\ at = "limbo"
       /\ ahead = <<>> /\ got = <<>> /\ returned = <<>> /\ torn = FALSE
    \/ /\ FramingInit
       /\ subject = Subject("stream", 0) /\ bytes = <<>> /\ arrived = 0 /\ limbo = NotBuilt

MCNext ==
    \/ ReceptionNext /\ UNCHANGED framingVars
    \/ subject.kind = "stream" /\ FramingNext /\ UNCHANGED receptionVars

MCSpec == MCInit /\ [][MCNext]_<<receptionVars, framingVars>>
=============================================================================
