---------------------------- MODULE LimboPackets ----------------------------
(* The packets of the void world of limbo, proxy-core/src/net/limbo_packets:    *)
(* one set per packet module, and the choice among the sets.                    *)
EXTENDS Builders

NothingBuilt ==
    [join |-> NoPacket, respawn |-> NoPacket, abilities |-> NoPacket, held |-> NoPacket,
     position |-> NoPacket, chat |-> NoPacket, sound |-> NoPacket, bossAdd |-> NoPacket,
     bossRemove |-> NoPacket, keepalive |-> NoPacket, brand |-> NoPacket, center |-> NoPacket,
     defaultSpawn |-> NoPacket, batchStart |-> NoPacket, batchEnd |-> NoPacket,
     waitChunks |-> NoPacket, chunk |-> NoPacket, light |-> NoPacket, spawn |-> NoPacket,
     time |-> NoPacket, health |-> NoPacket]

(* JSON values are <<"string", text>>, <<"bool", b>>, <<"int", bytes>>,         *)
(* <<"real", bytes>>, <<"array", values>>, <<"object", <<key, value>> pairs>>   *)
(* and <<"null">>.  json_value_to_nbt fails on a null anywhere.                 *)
RECURSIVE HasNull(_), JsonToTag(_)
HasNull(json) ==
    CASE json[1] = "null" -> TRUE
      [] json[1] = "array" -> \E i \in DOMAIN json[2] : HasNull(json[2][i])
      [] json[1] = "object" -> \E i \in DOMAIN json[2] : HasNull(json[2][i][2])
      [] OTHER -> FALSE

JsonToTag(json) ==
    CASE json[1] = "string" -> Tag(8, json[2])
      [] json[1] = "bool" -> Tag(1, <<IF json[2] THEN 1 ELSE 0>>)
      [] json[1] = "int" -> Tag(3, json[2])
      [] json[1] = "real" -> Tag(6, json[2])
      [] json[1] = "array" -> Tag(9, [i \in DOMAIN json[2] |-> JsonToTag(json[2][i])])
      [] json[1] = "object" -> Tag(10, [i \in DOMAIN json[2] |-> <<json[2][i][1], JsonToTag(json[2][i][2])>>])

(* json_component_to_nameless_nbt: only an object, without the two bytes of the *)
(* empty name.                                                                  *)
NamelessNbt(json) ==
    IF HasNull(json) \/ json[1] # "object" THEN <<>>
    ELSE LET named == EncodeNbt(<<>>, JsonToTag(json).v) IN <<10>> \o After(named, 3)

------------------------------------------------------------------------------
(* Chunks.                                                                     *)

(* HeightmapFmt: a named tag, a nameless one, or an empty array.                *)
Heightmaps(format) ==
    CASE format = "NamedNbt" -> NbtBytes
      [] format = "AnonNbt" -> Component
      [] format = "Array" -> Var

(* Bits of the empty-light masks: one section more below and above.             *)
LightTail == <<Var, Var, Many(<<I64>>), Many(<<I64>>), Var, Var>>
VoidChunkBody(trustEdges, format) ==
    <<I32, I32, Heightmaps(format), Array, Var>> \o When(trustEdges, <<U8>>) \o LightTail
VoidChunkBody_1_17 == <<I32, I32, Many(<<I64>>), NbtBytes, Many(<<Var>>), Array, Var>>
LightUpdateBody_1_17 == <<Var, Var, U8>> \o LightTail
DefaultSpawnBody == <<I64, F32>>

CenterChunk(id) == Packet("SetCenterChunk", id, <<Var, Var>>)
DefaultSpawn(id) == Packet("SetDefaultSpawn", id, DefaultSpawnBody)
BatchStart(id) == Packet("ChunkBatchStart", id, <<>>)
BatchFinished(id) == Packet("ChunkBatchFinished", id, <<Var>>)
WaitForChunks(id) == Packet("GameEvent", id, <<U8, F32>>)
ChunkData(body) == PlayPacket("ClientboundLevelChunkWithLight", body)

BossAdd(packet, action) == Filled(packet, <<<<Var>> \o Plain(action[0], <<>>)>>)
BossRemove(packet) == Filled(packet, <<<<Var>>>>)

(* Faulty variant: the dimension as a tag, which came with 1.16.2.               *)
JoinGameTagged_1_16_0(p) ==
    PlayPacket("ClientboundJoinGame",
           <<I32, U8, U8, Many(<<Text>>), NbtBytes, NbtBytes, Text, I64, Var, Var, Flag, Flag, Flag, Flag>>)

(* Respawn with a numbered dimension, for clients that are already in Play.     *)
LegacyRespawn(p) ==
    Encode(p, IF p >= 735 THEN NoPacket
              ELSE PlayPacket("ClientboundRespawn",
                       <<I32>> \o When(p < 477, <<U8>>) \o When(p >= 573, <<I64>>) \o <<U8, Text>>))

------------------------------------------------------------------------------
(* One set per packet module, to be encoded.                                   *)

Limbo_6 ==
    [NothingBuilt EXCEPT
        !.respawn = Respawn_6, !.abilities = Abilities_6,
        !.held = HeldItemChange_6, !.position = PlayerPosition_6,
        !.chat = Chat_6, !.keepalive = KeepAlive_6,
        !.spawn = SpawnPosition_6, !.time = TimeUpdate_6,
        !.health = UpdateHealth_6]

Limbo_7 ==
    [NothingBuilt EXCEPT
        !.join = JoinGame_7, !.abilities = Abilities_7,
        !.position = PlayerPosition_7, !.chat = Chat_7,
        !.keepalive = KeepAlive_7, !.brand = PluginMessage_8]

Limbo_8 ==
    [NothingBuilt EXCEPT
        !.join = JoinGame_8, !.respawn = Respawn_8,
        !.abilities = Abilities_8, !.held = SetHeldItem_8,
        !.position = PlayerPosition_8, !.chat = Chat_8,
        !.sound = Sound_8, !.keepalive = KeepAlive_8,
        !.brand = PluginMessage_8]

Limbo_12(p) ==
    [NothingBuilt EXCEPT
        !.join = JoinGame_12(p), !.respawn = Respawn_12,
        !.abilities = Abilities_12, !.held = SetCarriedItem_12,
        !.position = PlayerPosition_12, !.chat = Chat_12,
        !.bossAdd = BossAdd(BossBar_12, BossBarAction_12), !.bossRemove = BossRemove(BossBar_12),
        !.keepalive = KeepAlive_12(p), !.brand = PluginMessage_20]

JoinGame_1_13_to_1_15(p) ==
    PlayPacket("ClientboundJoinGame",
           <<I32, U8, I32>> \o When(p >= 573, <<I64>>) \o When(p < 477, <<U8>>) \o <<U8, Text>>
               \o When(p >= 477, <<Var>>) \o <<Flag>> \o When(p >= 573, <<Flag>>))

(* No hardcore flag yet, and the dimension is a name.                           *)
JoinGame_1_16_0(p) ==
    PlayPacket("ClientboundJoinGame",
           <<I32, U8, U8, Many(<<Text>>), NbtBytes, Text, Text, I64, Var, Var, Flag, Flag, Flag, Flag>>)

Join_16(p) ==
    CASE p < 735 -> JoinGame_1_13_to_1_15(p)
      [] p \in {735, 736} -> JoinGame_1_16_0(p)
      [] OTHER -> JoinGame_16(p)

Respawn_1_13_to_1_15(p) ==
    PlayPacket("ClientboundRespawn",
           <<I32>> \o When(p < 477, <<U8>>) \o When(p >= 573, <<I64>>) \o <<U8, Text>>)
ChatPre_1_16 == PlayPacket("ClientboundChatMessage", <<Text, U8>>)

Limbo_16(p) ==
    [NothingBuilt EXCEPT
        !.join = Join_16(p),
        !.respawn = IF p < 735 THEN Respawn_1_13_to_1_15(p) ELSE Respawn_16,
        !.abilities = Abilities_16, !.held = HeldItemChange_16,
        !.position = PlayerPosition_16,
        !.chat = IF p < 735 THEN ChatPre_1_16 ELSE Chat_16,
        !.sound = NamedSoundEffect_16,
        !.bossAdd = BossAdd(BossBar_12, BossBarAction_12), !.bossRemove = BossRemove(BossBar_12),
        !.keepalive = KeepAlive_16, !.brand = PluginMessage_20]

(* 1.17 and 1.18, where the dimension is a tag.                                 *)
JoinGame_1_17_or_1_18(p) ==
    PlayPacket("ClientboundLogin",
           <<I32, Flag, U8, U8, Many(<<Text>>), NbtBytes, NbtBytes, Text, I64, Var, Var>>
               \o When(p >= 757, <<Var>>) \o <<Flag, Flag, Flag, Flag>>)
Respawn_1_17_or_1_18 ==
    PlayPacket("ClientboundRespawn", <<NbtBytes, Text, I64, U8, U8, Flag, Flag, Flag>>)

Join_19(p) ==
    CASE p \in 755..758 -> JoinGame_1_17_or_1_18(p)
      [] p \in 759..763 -> Login_19
      [] OTHER -> NoPacket

(* 1.17 to 1.19.3 end with a dismount flag.                                     *)
Position_19(p) ==
    IF p \in 755..761
    THEN PlayPacket("ClientboundPlayerPosition", <<F64, F64, F64, F32, F32, U8, Var, U8>>)
    ELSE PlayerPosition_19

Chat_19(p) ==
    CASE p \in 755..758 -> Chat_16
      [] p < 755 -> NoPacket
      [] OTHER -> SystemChat_19

(* An inline sound event: 1.19.3 turned the name into a holder.                 *)
InlineSound == <<Var, Text, U8, Var, I32, I32, I32, F32, F32, I64>>
Sound_19(p) ==
    CASE p \in 755..758 -> NamedSoundEffect_16
      [] p \in 759..760 -> PlayPacket("ClientboundSound", <<Text, Var, I32, I32, I32, F32, F32, I64>>)
      [] OTHER -> PlayPacket("ClientboundSound", InlineSound)

Chunk_19(p) ==
    ChunkData(IF p <= 756 THEN VoidChunkBody_1_17 ELSE VoidChunkBody(TRUE, "NamedNbt"))
Center_19(p) ==
    CASE p \in 755..758 -> CenterChunk(73)
      [] p = 759 -> CenterChunk(72)
      [] p = 760 -> CenterChunk(75)
      [] p = 761 -> CenterChunk(74)
      [] p = 762 -> CenterChunk(78)
      [] OTHER -> NoPacket
DefaultSpawn_19(p) ==
    CASE p = 761 -> DefaultSpawn(76) [] p = 762 -> DefaultSpawn(80) [] OTHER -> NoPacket

Limbo_19(p) ==
    [NothingBuilt EXCEPT
        !.join = Join_19(p),
        !.respawn = CASE p \in 755..758 -> Respawn_1_17_or_1_18
                      [] p < 755 -> NoPacket
                      [] OTHER -> Respawn_19,
        !.abilities = Abilities_19, !.held = SetCarriedItem_19,
        !.position = Position_19(p), !.chat = Chat_19(p), !.sound = Sound_19(p),
        !.bossAdd = BossAdd(BossBar_20, BossBarAction_20), !.bossRemove = BossRemove(BossBar_20),
        !.keepalive = KeepAlive_19, !.brand = PluginMessage_20,
        !.center = Center_19(p), !.chunk = Chunk_19(p), !.defaultSpawn = DefaultSpawn_19(p),
        !.light = IF p \in 755..756 THEN Packet("LightUpdate", 37, LightUpdateBody_1_17) ELSE NoPacket]

(* 1.20 still carries the registries in JoinGame.                               *)
Join_20(p) ==
    IF p = 763
    THEN PlayPacket("ClientboundLogin",
                <<I32, Flag, U8, U8, Many(<<Text>>), NbtBytes, Text, Text, I64, Var, Var, Var,
                  Flag, Flag, Flag, Flag, Maybe(<<Text, I64>>), Var>>)
    ELSE Filled(Login_20(p), <<When(p >= 764, <<U8>>), When(p >= 766, <<U8>>)>>)

(* The component in chat and titles is a tag from 1.20.3 on.                    *)
Chat_20(p) ==
    IF p >= 765 THEN PlayPacket("ClientboundSystemChat", <<Component, U8>>)
    ELSE SystemChat_20
BossAddComponent == PlayPacket("ClientboundBossBar", <<Uuid, Var, Component, F32, Var, Var, U8>>)
Center_20(p) ==
    CASE p = 763 -> CenterChunk(78) [] p = 764 -> CenterChunk(80)
      [] p = 765 -> CenterChunk(82) [] p = 766 -> CenterChunk(84) [] OTHER -> NoPacket
DefaultSpawn_20(p) ==
    CASE p = 763 -> DefaultSpawn(80) [] p = 764 -> DefaultSpawn(82)
      [] p = 765 -> DefaultSpawn(84) [] p = 766 -> DefaultSpawn(86) [] OTHER -> NoPacket
WaitChunks_20(p) ==
    CASE p = 765 -> WaitForChunks(32) [] p = 766 -> WaitForChunks(34) [] OTHER -> NoPacket

Limbo_20(p) ==
    [NothingBuilt EXCEPT
        !.join = Join_20(p), !.respawn = Respawn_20,
        !.abilities = Abilities_20, !.held = SetCarriedItem_20,
        !.position = PlayerPosition_20, !.chat = Chat_20(p),
        !.sound = PlayPacket("ClientboundSound", InlineSound),
        !.bossAdd = IF p >= 765 THEN BossAddComponent ELSE BossAdd(BossBar_20, BossBarAction_20),
        !.bossRemove = BossRemove(BossBar_20),
        !.keepalive = KeepAlive_20, !.brand = PluginMessage_20,
        !.center = Center_20(p), !.defaultSpawn = DefaultSpawn_20(p),
        !.chunk = ChunkData(VoidChunkBody(FALSE, IF p <= 763 THEN "NamedNbt" ELSE "AnonNbt")),
        !.batchStart = IF p \in 764..766 THEN BatchStart(13) ELSE NoPacket,
        !.batchEnd = IF p \in 764..766 THEN BatchFinished(12) ELSE NoPacket,
        !.waitChunks = WaitChunks_20(p)]

Position_21(p) ==
    IF p >= 768
    THEN PlayPacket("ClientboundPlayerPosition", <<Var, F64, F64, F64, F64, F64, F64, F32, F32, I32>>)
    ELSE PlayerPosition_21
Join_21(p) == Filled(Login_21, <<When(p >= 768, <<Var>>) \o When(p >= 776, <<U8>>)>>)
Center_21(p) ==
    CASE p = 767 -> CenterChunk(84) [] p \in 768..769 -> CenterChunk(88)
      [] p \in 770..772 -> CenterChunk(87) [] p \in 773..774 -> CenterChunk(92)
      [] OTHER -> NoPacket
BatchStart_21(p) ==
    CASE p \in 767..769 -> BatchStart(13) [] p \in 770..774 -> BatchStart(12) [] OTHER -> NoPacket
BatchFinished_21(p) ==
    CASE p \in 767..769 -> BatchFinished(12) [] p \in 770..774 -> BatchFinished(11) [] OTHER -> NoPacket
(* Faulty variant: no row for 1.21.5 to 1.21.8.                                 *)
WaitChunksGap_21(p) ==
    CASE p = 767 -> WaitForChunks(34) [] p \in 768..769 -> WaitForChunks(35)
      [] p \in 773..774 -> WaitForChunks(38) [] OTHER -> NoPacket

WaitChunks_21(p) ==
    CASE p = 767 -> WaitForChunks(34) [] p \in 768..769 -> WaitForChunks(35)
      [] p \in 770..772 -> WaitForChunks(34) [] p \in 773..774 -> WaitForChunks(38)
      [] OTHER -> NoPacket

Limbo_21(p) ==
    [NothingBuilt EXCEPT
        !.join = Join_21(p), !.respawn = Filled(Respawn_21, <<When(p >= 768, <<Var>>)>>),
        !.abilities = Abilities_21, !.held = SetCarriedItem_21,
        !.position = Position_21(p), !.chat = PlayPacket("ClientboundSystemChat", <<Component, U8>>),
        !.sound = PlayPacket("ClientboundSound", InlineSound),
        !.bossAdd = BossAddComponent, !.bossRemove = BossRemove(BossBar_20),
        !.keepalive = KeepAlive_21, !.brand = PluginMessage_20,
        !.center = Center_21(p),
        !.chunk = ChunkData(VoidChunkBody(FALSE, IF p >= 770 THEN "Array" ELSE "AnonNbt")),
        !.batchStart = BatchStart_21(p), !.batchEnd = BatchFinished_21(p),
        !.waitChunks = WaitChunks_21(p)]

Limbo_26(p) ==
    [Limbo_21(p) EXCEPT !.center = CenterChunk(94), !.batchStart = BatchStart(12),
                        !.batchEnd = BatchFinished(11), !.waitChunks = WaitForChunks(38)]

(* for_version, for the canonical version of the nearest one.                   *)
LimboFor(p) ==
    LET c == CanonicalOf(Nearest(p))
        packets == CASE c = 78 -> Limbo_6
                     [] c = 5 -> Limbo_7
                     [] c = 47 -> Limbo_8
                     [] c \in {340, 578} -> Limbo_12(p)
                     [] c \in {754, 758} -> Limbo_16(p)
                     [] c = 762 -> Limbo_19(p)
                     [] c = 765 -> Limbo_20(p)
                     [] c = 767 -> Limbo_21(p)
                     [] c = 775 -> Limbo_26(p)
    IN  [k \in DOMAIN packets |-> Encode(p, packets[k])]
=============================================================================
