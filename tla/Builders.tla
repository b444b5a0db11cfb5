------------------------------ MODULE Builders ------------------------------
(* The packets that the proxy makes itself: the login sequence                  *)
(* (proxy-core/src/net/login_packets.rs), the void world of limbo               *)
(* (net/limbo_packets), messages and kicks (net/packet_builder.rs).  A built    *)
(* packet is its id and the layout of its body for one protocol number; values  *)
(* are left out.                                                                *)
EXTENDS Packets, PacketIds

NotBuilt == [id |-> 255, name |-> "none", body |-> <<>>]
Built(packet) == packet # NotBuilt

(* A layout without what only a decoder does.  The i-th field whose presence    *)
(* the values decide stands for fill[i].                                        *)
RECURSIVE Plain(_, _)
Plain(layout, fill) ==
    IF layout = <<>> THEN <<>>
    ELSE LET field == Head(layout)
             kind == field[1]
         IN  CASE kind \in {"need", "droprest"} -> Plain(Tail(layout), fill)
               [] kind = "raw" -> <<Fixed(field[2])>> \o Plain(Tail(layout), fill)
               [] kind \in {"bool", "rawbool"} -> <<U8>> \o Plain(Tail(layout), fill)
               [] kind = "bytes" -> <<Text>> \o Plain(Tail(layout), fill)
               [] kind = "nbt" -> <<NbtBytes>> \o Plain(Tail(layout), fill)
               [] kind \in {"many", "counted"} ->
                    <<Many(Plain(field[2], <<>>))>> \o Plain(Tail(layout), fill)
               [] kind = "maybe" -> <<Maybe(Plain(field[2], <<>>))>> \o Plain(Tail(layout), fill)
               [] kind \in {"tail", "unread", "bylength", "switch"} ->
                    fill[1] \o Plain(Tail(layout), Tail(fill))
               [] OTHER -> <<field>> \o Plain(Tail(layout), fill)

(* A text component as binary tags without a name.                              *)
Component == <<"component", 0>>

When(cond, fields) == IF cond THEN fields ELSE <<>>

(* A packet for which the values decide fill, and one that is not sent.         *)
Filled(packet, fill) == [packet EXCEPT !.w = Plain(@, fill)]
NoPacket == Packet("none", 255, <<>>)

(* encode: a packet without an id is not sent.  Play packets ask the registry.  *)
Encode(p, packet) ==
    LET id == IF packet.id = FromRegistry THEN PacketId(PlayTable, p, packet.name) ELSE packet.id
    IN  IF id = 255 THEN NotBuilt ELSE [id |-> id, name |-> packet.name, body |-> Plain(packet.w, <<>>)]

------------------------------------------------------------------------------
(* login_packets.rs                                                            *)

(* UUID and name without the properties that 1.19 added.                        *)
LoginSuccessBare == Packet("ClientboundLoginSuccess", 2, <<Uuid, Text>>)

(* Faulty variant: 1.19 still without properties.                               *)
LoginSuccessBareOn759(p) ==
    LET c == CanonicalOf(p)
    IN  Encode(p,
          CASE c = 78 -> NoPacket
            [] c = 5 -> LoginSuccess_7
            [] c = 47 -> LoginSuccess_8
            [] c \in {340, 578} -> LoginSuccess_12
            [] c \in {754, 758, 762} /\ p <= 759 -> LoginSuccessBare
            [] c = 762 /\ p > 759 -> LoginSuccess_19
            [] c = 765 -> Filled(LoginSuccess_20, <<When(p >= 766, <<U8>>)>>)
            [] c \in {767, 775} ->
                  Filled(LoginSuccess_21, <<When(p = 767, <<U8>>) \o When(p >= 776, <<Uuid>>)>>))

(* The packet modules write a UUID as two numbers.                              *)
LoginSuccessBuilt(p) ==
    LET c == CanonicalOf(p)
    IN  Encode(p,
          CASE c = 78 -> NoPacket
            [] c = 5 -> LoginSuccess_7
            [] c = 47 -> LoginSuccess_8
            [] c \in {340, 578} -> LoginSuccess_12
            [] c \in {754, 758} /\ p < 735 -> LoginSuccess_12
            [] c \in {754, 758, 762} /\ p \in 735..758 -> LoginSuccessBare
            [] c \in {754, 758} /\ p >= 759 -> LoginSuccess_16
            [] c = 762 /\ p >= 759 -> LoginSuccess_19
            [] c = 765 -> Filled(LoginSuccess_20, <<When(p >= 766, <<U8>>)>>)
            [] c \in {767, 775} ->
                  Filled(LoginSuccess_21, <<When(p = 767, <<U8>>) \o When(p >= 776, <<Uuid>>)>>))

EncryptionRequestBuilt(p) ==
    LET c == CanonicalOf(p)
    IN  Encode(p,
          CASE c = 78 -> NoPacket
            [] c = 5 -> EncryptionRequest_7
            [] c = 47 -> EncryptionRequest_8
            [] c \in {340, 578} -> EncryptionRequest_12
            [] c \in {754, 758} -> EncryptionRequest_16
            [] c = 762 -> EncryptionRequest_19
            [] c = 765 -> Filled(EncryptionRequest_20, <<When(p >= 766, <<U8>>)>>)
            [] c \in {767, 775} -> Filled(EncryptionRequest_21, <<<<U8>>>>))

SetCompressionBuilt(p) ==
    LET c == CanonicalOf(p)
    IN  Encode(p,
          CASE c \in {78, 5} -> NoPacket
            [] c = 47 -> SetCompression_8
            [] c \in {340, 578} -> SetCompression_12
            [] c \in {754, 758} -> SetCompression_16
            [] c = 762 -> SetCompression_19
            [] c = 765 -> SetCompression_20
            [] c \in {767, 775} -> SetCompression_21)

LoginDisconnectBuilt(p) ==
    LET c == CanonicalOf(p)
    IN  Encode(p,
          CASE c = 78 -> NoPacket
            [] c = 5 -> LoginDisconnect_7
            [] c = 47 -> LoginDisconnect_8
            [] c \in {340, 578} -> LoginDisconnect_12
            [] c \in {754, 758} -> LoginDisconnect_16
            [] c = 762 -> LoginDisconnect_19
            [] c = 765 -> LoginDisconnect_20
            [] c \in {767, 775} -> LoginDisconnect_21)

PlayDisconnectBuilt(p) ==
    LET c == CanonicalOf(p)
    IN  Encode(p,
          CASE c = 78 -> Disconnect_6
            [] c = 5 -> Disconnect_7
            [] c = 47 -> Disconnect_8
            [] c \in {340, 578} -> Disconnect_12
            [] c \in {754, 758} -> Disconnect_16
            [] c = 762 -> Disconnect_19
            [] c = 765 -> Disconnect_20
            [] c \in {767, 775} -> Disconnect_21)

BackendHandshakeBuilt(p) == Encode(p, IF CanonicalOf(p) = 78 THEN NoPacket ELSE Handshake_8)

BackendLoginStartBuilt(p) ==
    LET c == CanonicalOf(p)
    IN  Encode(p,
          CASE c = 762 \/ (c = 765 /\ p < 764) -> LoginStart_19
            [] c \in {767, 775} \/ (c = 765 /\ p >= 764) -> LoginStart_20
            [] c \in {754, 758} -> LoginStart_16
            [] c \in {5, 47, 340, 578} -> LoginStart_8
            [] c = 78 -> NoPacket)

(* The decoder that skip_backend_login_success runs.                            *)
LoginSuccessReader(p) ==
    LET c == CanonicalOf(p)
    IN  CASE c \in {78, 5} -> LoginSuccess_7.r
          [] c = 47 -> LoginSuccess_8.r
          [] c \in {340, 578} -> LoginSuccess_12.r
          [] c \in {754, 758} -> LoginSuccess_16.r
          [] c = 762 -> LoginSuccess_19.r
          [] c = 765 -> LoginSuccess_20.r
          [] c \in {767, 775} -> LoginSuccess_21.r

(* What handle_login reads of a LoginStart: the UUID is behind a flag in        *)
(* 761..763, and two numbers from 764 on.                                       *)
LoginStartReader(p) ==
    <<Text>> \o (CASE ~HasLoginStartUuid(Nearest(p)) -> <<>>
                   [] HasLoginStartUuid(Nearest(p)) /\ ~HasMandatoryLoginStartUuid(Nearest(p)) ->
                        <<Maybe(<<I64, I64>>)>>
                   [] HasMandatoryLoginStartUuid(Nearest(p)) -> <<I64, I64>>)

(* decode_encryption_request and encode_encryption_request, by epoch.           *)
EncryptionRequestShape(p) ==
    <<Text>> \o (IF EpochOf(Nearest(p)) = V1_7 THEN <<ShortArray, ShortArray>> ELSE <<Array, Array>>)

------------------------------------------------------------------------------
(* packet_builder.rs, packet_ids.rs, plugin_decoder.rs.  These go out whatever  *)
(* the id is, and match exact versions: 1.6.4, 1.7.10, 1.8, 1.12.2, 1.16.5 and  *)
(* a default for every other number.                                            *)
Sent(p, name, body) == [id |-> PacketId(PlayTable, p, name), name |-> name, body |-> Plain(body, <<>>)]

ChatName(p) ==
    IF Nearest(p) \in {78, 5, 47, 340, 754} THEN "ClientboundChatMessage" ELSE "ClientboundSystemChat"

(* Faulty variant: the component stays a JSON string on 1.20.3.                 *)
SystemMessageLate(p) ==
    Sent(p, ChatName(p),
         CASE Nearest(p) = 78 -> Chat_6.w
           [] Nearest(p) = 5 -> Chat_7.w
           [] Nearest(p) \in {47, 340} -> Chat_12.w
           [] Nearest(p) = 754 -> Chat_16.w
           [] OTHER -> IF p > 765 THEN <<Component, U8>> ELSE SystemChat_20.w)

SystemMessage(p) ==
    Sent(p, ChatName(p),
         CASE Nearest(p) = 78 -> Chat_6.w
           [] Nearest(p) = 5 -> Chat_7.w
           [] Nearest(p) \in {47, 340} -> Chat_12.w
           [] Nearest(p) = 754 -> Chat_16.w
           [] OTHER -> IF p >= 765 THEN <<Component, U8>> ELSE SystemChat_20.w)

DisconnectMessage(p) ==
    Sent(p, "ClientboundDisconnect",
         CASE Nearest(p) = 78 -> Disconnect_6.w
           [] Nearest(p) = 5 -> Disconnect_7.w
           [] Nearest(p) \in {47, 340} -> Disconnect_12.w
           [] Nearest(p) = 754 -> Disconnect_16.w
           [] Nearest(p) = 762 -> Disconnect_19.w
           [] Nearest(p) = 765 -> Disconnect_20.w
           [] Nearest(p) = 767 -> Disconnect_21.w
           [] OTHER -> <<Text>>)

(* Channel and data: with a length up to 1.8, to the end of the packet after.   *)
PluginMessageShape(p) ==
    IF Nearest(p) \in {78, 5, 47} THEN <<Text, ShortArray>> ELSE <<Text, Rest>>
PluginMessage(p) == Sent(p, "ClientboundPluginMessage", PluginMessageShape(p))
ServerboundPluginMessage(p) == Sent(p, "ServerboundPluginMessage", PluginMessageShape(p))
BrandMessage(p) == Sent(p, "ClientboundPluginMessage", <<Text, Text>>)

(* chat_packet_ids_for: the serverbound ids that the relay takes for chat.      *)
ChatPacketIds(p) ==
    {PacketId(PlayTable, p, "ServerboundChatMessage")}
        \cup (IF Nearest(p) \in {78, 5, 47, 340, 754} THEN {}
              ELSE {PacketId(PlayTable, p, "ServerboundChatCommand")} \ {255})

(* The text of a chat component: its own, then that of its parts.  JSON values  *)
(* are <<kind, value>> as in LimboPackets.                                      *)
RECURSIVE Walk(_)
TextKey == <<116, 101, 120, 116>>
ExtraKey == <<101, 120, 116, 114, 97>>
Member(object, key) == {i \in DOMAIN object : object[i][1] = key}
Walk(json) ==
    CASE json[1] = "string" -> json[2]
      [] json[1] = "object" ->
            LET text == {i \in Member(json[2], TextKey) : json[2][i][2][1] = "string"}
                extra == {i \in Member(json[2], ExtraKey) : json[2][i][2][1] = "array"}
            IN  (IF text = {} THEN <<>> ELSE json[2][CHOOSE i \in text : TRUE][2][2])
                    \o (IF extra = {} THEN <<>> ELSE Walk(json[2][CHOOSE i \in extra : TRUE][2]))
      [] json[1] = "array" -> ConcatAll([i \in DOMAIN json[2] |-> Walk(json[2][i])])
      [] OTHER -> <<>>
=============================================================================
