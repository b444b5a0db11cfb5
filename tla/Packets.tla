------------------------------- MODULE Packets -------------------------------
(* The typed packets of protocol/src/versions, one definition per packet and    *)
(* canonical version (the suffix: _6 is v1_6_x).  id is what packet_id answers, *)
(* or FromRegistry for a packet whose id comes from the registry's table.       *)
EXTENDS Layout

FromRegistry == -1

Packet(name, id, layout) == [name |-> name, id |-> id, w |-> layout, r |-> layout]
PlayPacket(name, layout) == Packet(name, FromRegistry, layout)

(* For a packet whose encoder and decoder do not agree on the layout.           *)
PacketPair(name, w, r) == [name |-> name, id |-> FromRegistry, w |-> w, r |-> r]

Repeat(field, n) == [i \in 1..n |-> field]
Doubles(n) == Repeat(Raw(8), n)
Floats(n) == Repeat(Raw(4), n)

------------------------------------------------------------------------------
(* 1.6, before the netty rewrite.                                              *)

Handshake_6 == Packet("ServerboundHandshake", 2, <<Raw(1), Ucs2, Ucs2, Raw(4)>>)
LegacyPing_6 == Packet("ServerboundLegacyPing", 254, <<>>)
StatusResponse_6 == Packet("ClientboundResponse", 0, <<Ucs2>>)
Pong_6 == Packet("ClientboundPong", 1, <<Raw(8)>>)
LoginHandshake_6 == Packet("HandshakeC2S", 2, <<Need(1), Raw(1), Ucs2, Ucs2, Need(4), Raw(4)>>)
EncryptionKeyRequest_6 == Packet("EncryptionKeyRequestS2C", 253, <<Ucs2, ShortArray, ShortArray>>)
EncryptionKeyResponse_6 == Packet("EncryptionKeyResponseC2S", 252, <<ShortArray, ShortArray>>)
LoginRequest_6 == Packet("LoginRequestS2C", 1, <<Need(4), Raw(4), Ucs2, Need(5)>> \o Repeat(Raw(1), 5))
LoginDisconnect_6 == Packet("ClientboundLoginDisconnect", 0, <<Ucs2>>)
KeepAlive_6 == PlayPacket("ClientboundKeepAlive", <<Need(4), Raw(4)>>)
Chat_6 == PlayPacket("ClientboundChatMessage", <<Ucs2>>)
PlayerPosition_6 ==
    PlayPacket("ClientboundPlayerPosition", <<Need(41)>> \o Doubles(4) \o Floats(2) \o <<RawFlag>>)
HeldItemChange_6 == PlayPacket("ClientboundHeldItemChange", <<Need(2), Raw(2)>>)
Abilities_6 == PlayPacket("ClientboundPlayerAbilities", <<Need(9), Raw(1)>> \o Floats(2))
Disconnect_6 == PlayPacket("ClientboundDisconnect", <<Ucs2>>)
Respawn_6 == PlayPacket("ClientboundRespawn", <<Need(8), Raw(4), Raw(1), Raw(1), Raw(2), Ucs2>>)
SpawnPosition_6 == PlayPacket("ClientboundSpawnPosition", <<Need(12)>> \o Repeat(Raw(4), 3))
TimeUpdate_6 == PlayPacket("ClientboundTimeUpdate", <<Need(16), Raw(8), Raw(8)>>)
UpdateHealth_6 == PlayPacket("ClientboundUpdateHealth", <<Need(10), Raw(4), Raw(2), Raw(4)>>)

Bucket_6 == <<Handshake_6, LegacyPing_6, StatusResponse_6, Pong_6, LoginHandshake_6,
    EncryptionKeyRequest_6, EncryptionKeyResponse_6, LoginRequest_6, LoginDisconnect_6, KeepAlive_6,
    Chat_6, PlayerPosition_6, HeldItemChange_6, Abilities_6, Disconnect_6, Respawn_6,
    SpawnPosition_6, TimeUpdate_6, UpdateHealth_6>>

------------------------------------------------------------------------------
(* 1.7.                                                                        *)

LocalHandshake == <<Var, LocalText, Need(2), Raw(2), Var>>

Handshake_7 == Packet("ServerboundHandshake", 0, LocalHandshake)
StatusRequest_7 == Packet("ServerboundStatusRequest", 0, <<>>)
PingRequest_7 == Packet("ServerboundPingRequest", 1, <<Need(8), Raw(8)>>)
StatusResponse_7 == Packet("ClientboundStatusResponse", 0, <<LocalText>>)
Pong_7 == Packet("ClientboundPongResponse", 1, <<Need(8), Raw(8)>>)
LoginDisconnect_7 == Packet("ClientboundLoginDisconnect", 0, <<LocalText>>)
EncryptionRequest_7 == Packet("ClientboundEncryptionRequest", 1, <<LocalText, ShortArray, ShortArray>>)
LoginSuccess_7 == Packet("ClientboundLoginSuccess", 2, <<UuidText, LocalText>>)
LoginStart_7 == Packet("ServerboundLoginStart", 0, <<LocalText>>)
EncryptionResponse_7 == Packet("ServerboundEncryptionResponse", 1, <<ShortArray, ShortArray>>)
KeepAlive_7 == PlayPacket("ClientboundKeepAlive", <<Need(4), Raw(4)>>)
JoinGame_7 == PlayPacket("ClientboundJoinGame", <<Need(8), Raw(4)>> \o Repeat(Raw(1), 4) \o <<LocalText>>)
Chat_7 == PlayPacket("ClientboundChatMessage", <<LocalText>>)
PlayerPosition_7 ==
    PlayPacket("ClientboundPlayerPosition", <<Need(33)>> \o Doubles(3) \o Floats(2) \o <<RawFlag>>)
Disconnect_7 == PlayPacket("ClientboundDisconnect", <<LocalText>>)
Abilities_7 == PlayPacket("ClientboundPlayerAbilities", <<Need(9), Raw(1)>> \o Floats(2))

Bucket_7 == <<Handshake_7, StatusRequest_7, PingRequest_7, StatusResponse_7, Pong_7,
    LoginDisconnect_7, EncryptionRequest_7, LoginSuccess_7, LoginStart_7, EncryptionResponse_7,
    KeepAlive_7, JoinGame_7, Chat_7, PlayerPosition_7, Disconnect_7, Abilities_7>>

------------------------------------------------------------------------------
(* 1.8.                                                                        *)

LocalProperty == <<LocalText, LocalText, Need(1), Maybe(<<LocalText>>)>>

Handshake_8 == Packet("ServerboundHandshake", 0, LocalHandshake)
StatusRequest_8 == Packet("ServerboundStatusRequest", 0, <<>>)
PingRequest_8 == Packet("ServerboundPingRequest", 1, <<Raw(8)>>)
StatusResponse_8 == Packet("ClientboundStatusResponse", 0, <<LocalText>>)
Pong_8 == Packet("ClientboundPongResponse", 1, <<Need(8), Raw(8)>>)
LoginStart_8 == Packet("ServerboundLoginStart", 0, <<LocalText>>)
LoginDisconnect_8 == Packet("ClientboundLoginDisconnect", 0, <<LocalText>>)
EncryptionRequest_8 == Packet("ClientboundEncryptionRequest", 1, <<LocalText, LocalArray, LocalArray>>)
ProfileProperty_8 == Packet("ProfileProperty", 0, LocalProperty)
LoginSuccess_8 == Packet("ClientboundLoginSuccess", 2, <<UuidText, LocalText>>)
SetCompression_8 == Packet("ClientboundSetCompression", 3, <<Var>>)
EncryptionResponse_8 == Packet("ServerboundEncryptionResponse", 1, <<LocalArray, LocalArray>>)
JoinGame_8 ==
    PlayPacket("ClientboundJoinGame",
               <<Need(8), Raw(4)>> \o Repeat(Raw(1), 4) \o <<LocalText, Need(1), RawFlag>>)
Respawn_8 == PlayPacket("ClientboundRespawn", <<Need(6), Raw(4), Raw(1), Raw(1), LocalText>>)
PlayerPosition_8 ==
    PlayPacket("ClientboundPlayerPosition", <<Need(33)>> \o Doubles(3) \o Floats(2) \o <<Raw(1)>>)
KeepAlive_8 == PlayPacket("ClientboundKeepAlive", <<Var>>)
Chat_8 == PlayPacket("ClientboundChatMessage", <<LocalText, Need(1), Raw(1)>>)
PluginMessage_8 == PlayPacket("ClientboundPluginMessage", <<LocalText, Rest>>)
Disconnect_8 == PlayPacket("ClientboundDisconnect", <<LocalText>>)
SetHeldItem_8 == PlayPacket("ClientboundSetHeldItem", <<Need(1), Raw(1)>>)
Sound_8 == PlayPacket("ClientboundSound", <<LocalText, Need(17)>> \o Repeat(Raw(4), 4) \o <<Raw(1)>>)
Abilities_8 == PlayPacket("ClientboundPlayerAbilities", <<Need(9), Raw(1)>> \o Floats(2))

Bucket_8 == <<Handshake_8, StatusRequest_8, PingRequest_8, StatusResponse_8, Pong_8, LoginStart_8,
    LoginDisconnect_8, EncryptionRequest_8, ProfileProperty_8, LoginSuccess_8, SetCompression_8,
    EncryptionResponse_8, JoinGame_8, Respawn_8, PlayerPosition_8, KeepAlive_8, Chat_8,
    PluginMessage_8, Disconnect_8, SetHeldItem_8, Sound_8, Abilities_8>>

------------------------------------------------------------------------------
(* 1.9 to 1.12.                                                                *)

(* No such packet at 340.                                                       *)
Since393(ver, id) == IF ver = 340 THEN 255 ELSE id

Handshake_12 == Packet("ServerboundHandshake", 0, LocalHandshake)
StatusRequest_12 == Packet("ServerboundStatusRequest", 0, <<>>)
StatusResponse_12 == Packet("ClientboundStatusResponse", 0, <<LocalText>>)
PingRequest_12 == Packet("ServerboundPingRequest", 1, <<Need(8), Raw(8)>>)
Pong_12 == Packet("ClientboundPongResponse", 1, <<Need(8), Raw(8)>>)
LoginStart_12 == Packet("ServerboundLoginStart", 0, <<LocalText>>)
LoginDisconnect_12 == Packet("ClientboundLoginDisconnect", 0, <<LocalText>>)
EncryptionRequest_12 ==
    Packet("ClientboundEncryptionRequest", 1, <<LocalText, LocalArray, LocalArray, DropRest>>)
EncryptionResponse_12 == Packet("ServerboundEncryptionResponse", 1, <<LocalArray, LocalArray>>)
ProfileProperty_12 == Packet("ProfileProperty", 0, LocalProperty)
LoginSuccess_12 == Packet("ClientboundLoginSuccess", 2, <<UuidText, LocalText>>)
SetCompression_12 == Packet("ClientboundSetCompression", 3, <<Var>>)
LoginPluginRequest_12(ver) ==
    Packet("ClientboundLoginPluginRequest", Since393(ver, 4), <<Var, LocalText, Rest>>)
LoginPluginResponse_12(ver) ==
    Packet("ServerboundLoginPluginResponse", Since393(ver, 2), <<Var, Need(1), Maybe(<<Rest>>)>>)
LoginAcknowledged_12(ver) == Packet("ServerboundLoginAcknowledged", Since393(ver, 3), <<>>)
AcknowledgeFinish_12(ver) ==
    Packet("AcknowledgeFinishConfiguration", Since393(ver, 2), <<>>)

(* The dimension was one byte before 1.9.1; the decoder knows four.             *)
JoinGame_12(ver) ==
    LET tail == <<Raw(1), Raw(1), LocalText, Need(1), RawFlag>>
    IN  PacketPair("ClientboundJoinGame",
                   <<Need(0), Raw(4), Raw(1), IF ver < 108 THEN Raw(1) ELSE Raw(4)>> \o tail,
                   <<Need(11), Raw(4), Raw(1), Raw(4)>> \o tail)
Respawn_12 == PlayPacket("ClientboundRespawn", <<Need(6), Raw(4), Raw(1), Raw(1), LocalText>>)
PlayerPosition_12 ==
    PlayPacket("ClientboundPlayerPosition", <<Need(33)>> \o Doubles(3) \o Floats(2) \o <<Raw(1), Var>>)

(* A VarInt before 1.12.2; the decoder knows eight bytes.                       *)
KeepAlive_12(ver) ==
    PacketPair("ClientboundKeepAlive", IF ver < 340 THEN <<Need(0), Var>> ELSE <<Need(0), Raw(8)>>,
               <<Need(8), Raw(8)>>)
Chat_12 == PlayPacket("ClientboundChatMessage", <<LocalText, Need(1), Raw(1)>>)
Disconnect_12 == PlayPacket("ClientboundDisconnect", <<LocalText>>)
Abilities_12 == PlayPacket("ClientboundPlayerAbilities", <<Need(9), Raw(1)>> \o Floats(2))
SetCarriedItem_12 == PlayPacket("ClientboundSetCarriedItem", <<Need(1), Raw(1)>>)
BossBarAction_12 ==
    [tag \in 0..5 |->
        CASE tag = 0 -> <<LocalText, Need(4), Raw(4), Var, Var, Need(1), Raw(1)>>
          [] tag = 1 -> <<>>
          [] tag = 2 -> <<Need(4), Raw(4)>>
          [] tag = 3 -> <<LocalText>>
          [] tag = 4 -> <<Var, Var>>
          [] tag = 5 -> <<Need(1), Raw(1)>>]
BossBar_12 == PlayPacket("ClientboundBossBar", <<Need(16), Raw(16), Switch(BossBarAction_12)>>)
Sound_12 == PlayPacket("ClientboundSound", <<Var, Var, Need(20)>> \o Repeat(Raw(4), 5))

Bucket_12(ver) == <<Handshake_12, StatusRequest_12, StatusResponse_12, PingRequest_12, Pong_12,
    LoginStart_12, LoginDisconnect_12, EncryptionRequest_12, EncryptionResponse_12,
    ProfileProperty_12, LoginSuccess_12, SetCompression_12, LoginPluginRequest_12(ver),
    LoginPluginResponse_12(ver), LoginAcknowledged_12(ver), AcknowledgeFinish_12(ver),
    JoinGame_12(ver), Respawn_12, PlayerPosition_12, KeepAlive_12(ver), Chat_12, Disconnect_12,
    Abilities_12, SetCarriedItem_12, BossBar_12, Sound_12>>

------------------------------------------------------------------------------
(* 1.13 to 1.16.                                                               *)

Handshake_16 == Packet("ServerboundHandshake", 0, LocalHandshake)
StatusRequest_16 == Packet("ServerboundStatusRequest", 0, <<>>)
StatusResponse_16 == Packet("ClientboundStatusResponse", 0, <<LocalText>>)
PingRequest_16 == Packet("ServerboundPingRequest", 1, <<Need(8), Raw(8)>>)
Pong_16 == Packet("ClientboundPongResponse", 1, <<Need(8), Raw(8)>>)
LoginStart_16 == Packet("ServerboundLoginStart", 0, <<LocalText>>)
LoginDisconnect_16 == Packet("ClientboundLoginDisconnect", 0, <<LocalText>>)
EncryptionRequest_16 == Packet("ClientboundEncryptionRequest", 1, <<LocalText, LocalArray, LocalArray>>)
ProfileProperty_16 == Packet("ProfileProperty", 0, LocalProperty)
LoginSuccess_16 ==
    Packet("ClientboundLoginSuccess", 2, <<Need(16), Raw(8), Raw(8), LocalText, Counted(LocalProperty)>>)
SetCompression_16 == Packet("ClientboundSetCompression", 3, <<Var>>)
EncryptionResponse_16 == Packet("ServerboundEncryptionResponse", 1, <<LocalArray, LocalArray>>)
Abilities_16 == PlayPacket("ClientboundPlayerAbilities", <<Need(9), Raw(1)>> \o Floats(2))
HeldItemChange_16 == PlayPacket("ClientboundHeldItemChange", <<Need(1), Raw(1)>>)
NamedSoundEffect_16 ==
    PlayPacket("ClientboundNamedSoundEffect", <<LocalText, Var, Need(20)>> \o Repeat(Raw(4), 5))

(* The dimension is a name up to 1.16.1 and from 1.19, a tag in between.        *)
DimensionRef_16(ver) == IF ver <= 750 \/ ver >= 759 THEN LocalText ELSE NbtOrNothing
JoinGame_16(ver) ==
    PlayPacket("ClientboundJoinGame",
        <<Need(4), Raw(4), Need(3), RawFlag, Raw(1), Raw(1), Counted(<<LocalText>>), NbtOrNothing,
          DimensionRef_16(ver), LocalText, Need(8), Raw(8), Var, Var, Need(4)>> \o Repeat(RawFlag, 4))
Respawn_16 ==
    PlayPacket("ClientboundRespawn",
        <<LocalText, LocalText, Need(8), Raw(8), Need(3), Raw(1), Raw(1), Need(3)>> \o Repeat(RawFlag, 3))
PlayerPosition_16 ==
    PlayPacket("ClientboundPlayerPosition", <<Need(33)>> \o Doubles(3) \o Floats(2) \o <<Raw(1), Var>>)
KeepAlive_16 == PlayPacket("ClientboundKeepAlive", <<Need(8), Raw(8)>>)
Chat_16 == PlayPacket("ClientboundChatMessage", <<LocalText, Need(17), Raw(1), Raw(8), Raw(8)>>)
Disconnect_16 == PlayPacket("ClientboundDisconnect", <<LocalText>>)

Bucket_16(ver) == <<Handshake_16, StatusRequest_16, StatusResponse_16, PingRequest_16, Pong_16,
    LoginStart_16, LoginDisconnect_16, EncryptionRequest_16, ProfileProperty_16, LoginSuccess_16,
    SetCompression_16, EncryptionResponse_16, Abilities_16, HeldItemChange_16, NamedSoundEffect_16,
    JoinGame_16(ver), Respawn_16, PlayerPosition_16, KeepAlive_16, Chat_16, Disconnect_16>>

------------------------------------------------------------------------------
(* 1.17 to 1.19, with the primitives of the codec.                             *)

CodecHandshake == <<Var, Text, I16, Var>>
Property == <<Text, Text, Maybe(<<Text>>)>>
DeathLocation == Maybe(<<Text, I64>>)

Handshake_19 == Packet("ServerboundHandshake", 0, CodecHandshake)
StatusRequest_19 == Packet("ServerboundStatusRequest", 0, <<>>)
StatusResponse_19 == Packet("ClientboundStatusResponse", 0, <<Text>>)
PingRequest_19 == Packet("ServerboundPingRequest", 1, <<I64>>)
Pong_19 == Packet("ClientboundPongResponse", 1, <<I64>>)
LoginStart_19 == Packet("ServerboundLoginStart", 0, <<Text, Maybe(<<Uuid>>)>>)
LoginDisconnect_19 == Packet("ClientboundLoginDisconnect", 0, <<Text>>)
EncryptionRequest_19 == Packet("ClientboundEncryptionRequest", 1, <<Text, Array, Array>>)
ProfileProperty_19 == Packet("ProfileProperty", 0, Property)
LoginSuccess_19 == Packet("ClientboundLoginSuccess", 2, <<I64, I64, Text, Many(Property)>>)
SetCompression_19 == Packet("ClientboundSetCompression", 3, <<Var>>)
LoginPluginRequest_19 == Packet("ClientboundLoginPluginRequest", 4, <<Var, Text, Rest>>)
EncryptionResponse_19 == Packet("ServerboundEncryptionResponse", 1, <<Array, Array>>)
LoginPluginResponse_19 == Packet("ServerboundLoginPluginResponse", 2, <<Var, Maybe(<<Rest>>)>>)
Disconnect_19 == PlayPacket("ClientboundDisconnect", <<Text>>)
KeepAlive_19 == PlayPacket("ClientboundKeepAlive", <<I64>>)
Login_19 ==
    PlayPacket("ClientboundLogin",
        <<I32, Flag, U8, U8, Many(<<Text>>), NbtBytes, Text, Text, I64, Var, Var, Var,
          Flag, Flag, Flag, Flag, DeathLocation>>)
PlayerPosition_19 == PlayPacket("ClientboundPlayerPosition", <<F64, F64, F64, F32, F32, U8, Var>>)
Respawn_19 ==
    PlayPacket("ClientboundRespawn", <<Text, Text, I64, U8, U8, Flag, Flag, U8, DeathLocation>>)
Abilities_19 == PlayPacket("ClientboundPlayerAbilities", <<U8, F32, F32>>)
SystemChat_19 == PlayPacket("ClientboundSystemChat", <<Text, Flag>>)
SetCarriedItem_19 == PlayPacket("ClientboundSetCarriedItem", <<U8>>)

Bucket_19 == <<Handshake_19, StatusRequest_19, StatusResponse_19, PingRequest_19, Pong_19,
    LoginStart_19, LoginDisconnect_19, EncryptionRequest_19, ProfileProperty_19, LoginSuccess_19,
    SetCompression_19, LoginPluginRequest_19, EncryptionResponse_19, LoginPluginResponse_19,
    Disconnect_19, KeepAlive_19, Login_19, PlayerPosition_19, Respawn_19, Abilities_19,
    SystemChat_19, SetCarriedItem_19>>

------------------------------------------------------------------------------
(* 1.20, with the configuration phase.                                         *)

Handshake_20 == Packet("ServerboundHandshake", 0, CodecHandshake)
StatusRequest_20 == Packet("ServerboundStatusRequest", 0, <<>>)
StatusResponse_20 == Packet("ClientboundStatusResponse", 0, <<Text>>)
PingRequest_20 == Packet("ServerboundPingRequest", 1, <<I64>>)
Pong_20 == Packet("ClientboundPongResponse", 1, <<I64>>)
LoginStart_20 == Packet("ServerboundLoginStart", 0, <<Text, Uuid>>)
EncryptionResponse_20 == Packet("ServerboundEncryptionResponse", 1, <<Array, Array>>)
LoginPluginResponse_20 == Packet("ServerboundLoginPluginResponse", 2, <<Var, Maybe(<<Rest>>)>>)
LoginAcknowledged_20 == Packet("ServerboundLoginAcknowledged", 3, <<>>)
LoginDisconnect_20 == Packet("ClientboundLoginDisconnect", 0, <<Text>>)
EncryptionRequest_20 == Packet("ClientboundEncryptionRequest", 1, <<Text, Array, Array, IfLeft(1, <<Flag>>)>>)
ProfileProperty_20 == Packet("ProfileProperty", 0, Property)
LoginSuccess_20 ==
    Packet("ClientboundLoginSuccess", 2, <<I64, I64, Text, Many(Property), IfLeft(1, <<Flag>>)>>)
SetCompression_20 == Packet("ClientboundSetCompression", 3, <<Var>>)
LoginPluginRequest_20 == Packet("ClientboundLoginPluginRequest", 4, <<Var, Text, Rest>>)
BossBarAction_20 ==
    [tag \in 0..5 |->
        CASE tag = 0 -> <<Text, F32, Var, Var, U8>>
          [] tag = 1 -> <<>>
          [] tag = 2 -> <<F32>>
          [] tag = 3 -> <<Text>>
          [] tag = 4 -> <<Var, Var>>
          [] tag = 5 -> <<U8>>]
BossBar_20 == PlayPacket("ClientboundBossBar", <<Uuid, Switch(BossBarAction_20)>>)
Disconnect_20 == PlayPacket("ClientboundDisconnect", <<Text>>)
KeepAlive_20 == PlayPacket("ClientboundKeepAlive", <<I64>>)

(* A name up to 1.20.4, a registry index from 1.20.5.                           *)
DimensionTypeRef_20(ver) == IF ver <= 765 THEN Text ELSE Var
Login_20(ver) ==
    PlayPacket("ClientboundLogin",
        <<I32, Flag, Many(<<Text>>), Var, Var, Var, Flag, Flag, Unread(<<Flag>>),
          DimensionTypeRef_20(ver), Text, I64, U8, U8, Flag, Flag, DeathLocation, Var,
          Unread(<<Flag>>)>>)
PluginMessage_20 == PlayPacket("ClientboundPluginMessage", <<Text, Rest>>)
PlayerPosition_20 == PlayPacket("ClientboundPlayerPosition", <<F64, F64, F64, F32, F32, U8, Var>>)
Respawn_20 ==
    PlayPacket("ClientboundRespawn", <<Var, Text, I64, U8, U8, Flag, Flag, U8, DeathLocation, Var>>)
Abilities_20 == PlayPacket("ClientboundPlayerAbilities", <<U8, F32, F32>>)
SetCarriedItem_20 == PlayPacket("ClientboundSetCarriedItem", <<U8>>)
SystemChat_20 == PlayPacket("ClientboundSystemChat", <<Text, Flag>>)
AcknowledgeFinish_20 == Packet("ServerboundAcknowledgeFinishConfiguration", 2, <<>>)
Finish_20 == Packet("ClientboundFinishConfiguration", 2, <<>>)

Bucket_20(ver) == <<Handshake_20, StatusRequest_20, StatusResponse_20, PingRequest_20, Pong_20,
    LoginStart_20, EncryptionResponse_20, LoginPluginResponse_20, LoginAcknowledged_20,
    LoginDisconnect_20, EncryptionRequest_20, ProfileProperty_20, LoginSuccess_20,
    SetCompression_20, LoginPluginRequest_20, BossBar_20, Disconnect_20, KeepAlive_20,
    Login_20(ver), PluginMessage_20, PlayerPosition_20, Respawn_20, Abilities_20,
    SetCarriedItem_20, SystemChat_20, AcknowledgeFinish_20, Finish_20>>

------------------------------------------------------------------------------
(* 1.21.                                                                       *)

LocalDeathLocation == Maybe(<<LocalText, Need(8), Raw(8)>>)

Handshake_21 == Packet("ServerboundHandshake", 0, CodecHandshake)
StatusRequest_21 == Packet("ServerboundStatusRequest", 0, <<>>)
StatusResponse_21 == Packet("ClientboundStatusResponse", 0, <<Text>>)
PingRequest_21 == Packet("ServerboundPingRequest", 1, <<I64>>)
Pong_21 == Packet("ClientboundPongResponse", 1, <<I64>>)
LoginStart_21 == Packet("ServerboundLoginStart", 0, <<Text, Uuid>>)
LoginDisconnect_21 == Packet("ClientboundLoginDisconnect", 0, <<Text>>)
EncryptionRequest_21 == Packet("ClientboundEncryptionRequest", 1, <<Text, Array, Array, IfLeft(1, <<Flag>>)>>)
ProfileProperty_21 == Packet("ProfileProperty", 0, Property)
LoginSuccess_21 == Packet("ClientboundLoginSuccess", 2, <<I64, I64, Text, Many(Property), ByLength>>)
SetCompression_21 == Packet("ClientboundSetCompression", 3, <<Var>>)
LoginPluginRequest_21 == Packet("ClientboundLoginPluginRequest", 4, <<Var, Text, Rest>>)
EncryptionResponse_21 == Packet("ServerboundEncryptionResponse", 1, <<Array, Array>>)
LoginPluginResponse_21 == Packet("ServerboundLoginPluginResponse", 2, <<Var, Maybe(<<Rest>>)>>)
LoginAcknowledged_21 == Packet("ServerboundLoginAcknowledged", 3, <<>>)
KeepAlive_21 == PlayPacket("ClientboundKeepAlive", <<I64>>)

PlayerPosition_21 ==
    PlayPacket("ClientboundPlayerPosition", <<Need(33)>> \o Doubles(3) \o Floats(2) \o <<Raw(1), Var>>)
SystemChat_21 == PlayPacket("ClientboundSystemChat", <<LocalText, Need(1), RawFlag>>)

(* Faulty variant: the sea level is taken when one byte is left.                *)
LoginGreedy_21 ==
    PlayPacket("ClientboundLogin",
        <<Need(4), Raw(4), Need(1), RawFlag, Many(<<Text>>), Var, Var, Var, Need(3), RawFlag,
          RawFlag, RawFlag, Var, LocalText, Need(8), Raw(8), Need(4), Raw(1), Raw(1), RawFlag,
          RawFlag, Need(1), LocalDeathLocation, Var, IfLeft(1, <<Var, IfLeft(2, <<RawFlag>>)>>),
          Need(1), RawFlag>>)

(* Two optional fields before the last byte: the sea level is taken when two    *)
(* bytes are left, then the online mode when two are still left.                *)
Login_21 ==
    PlayPacket("ClientboundLogin",
        <<Need(4), Raw(4), Need(1), RawFlag, Many(<<Text>>), Var, Var, Var, Need(3), RawFlag,
          RawFlag, RawFlag, Var, LocalText, Need(8), Raw(8), Need(4), Raw(1), Raw(1), RawFlag,
          RawFlag, Need(1), LocalDeathLocation, Var, IfLeft(2, <<Var, IfLeft(2, <<RawFlag>>)>>),
          Need(1), RawFlag>>)
Respawn_21 ==
    PlayPacket("ClientboundRespawn",
        <<Var, LocalText, Need(8), Raw(8), Need(4), Raw(1), Raw(1), RawFlag, RawFlag, Need(1),
          Raw(1), Need(1), LocalDeathLocation, Var, IfLeft(1, <<Var>>)>>)
Sound_21 ==
    PlayPacket("ClientboundSound", <<Var, LocalText, Var, Need(28)>> \o Repeat(Raw(4), 5) \o <<Raw(8)>>)
Disconnect_21 == PlayPacket("ClientboundDisconnect", <<LocalText>>)
Abilities_21 == PlayPacket("ClientboundPlayerAbilities", <<Rest>>)
SetCarriedItem_21 == PlayPacket("ClientboundSetCarriedItem", <<Rest>>)
AcknowledgeFinish_21 == Packet("ServerboundAcknowledgeFinishConfiguration", 3, <<>>)
Finish_21 == Packet("ClientboundFinishConfiguration", 3, <<>>)

Bucket_21 == <<Handshake_21, StatusRequest_21, StatusResponse_21, PingRequest_21, Pong_21,
    LoginStart_21, LoginDisconnect_21, EncryptionRequest_21, ProfileProperty_21, LoginSuccess_21,
    SetCompression_21, LoginPluginRequest_21, EncryptionResponse_21, LoginPluginResponse_21,
    LoginAcknowledged_21, KeepAlive_21, PlayerPosition_21, SystemChat_21, Login_21, Respawn_21,
    Sound_21, Disconnect_21, Abilities_21, SetCarriedItem_21, AcknowledgeFinish_21, Finish_21>>
=============================================================================
