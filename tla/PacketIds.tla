----------------------------- MODULE PacketIds -----------------------------
(* The table of packet ids: protocol/src/registry.rs.  An anchor lists the ids  *)
(* that are registered for some protocol numbers; every other number takes      *)
(* them from the nearest lower one.                                             *)
EXTENDS Versions

None == -1

(* The packets of the play state, in the order of the columns below.            *)
ClientboundColumns == <<"ClientboundKeepAlive", "ClientboundChatMessage", "ClientboundSystemChat",
    "ClientboundRespawn", "ClientboundPlayerPosition", "ClientboundPlayerAbilities",
    "ClientboundDisconnect", "ClientboundJoinGame", "ClientboundSetHeldItem",
    "ClientboundLevelChunkWithLight", "ClientboundSound", "ClientboundPluginMessage",
    "ClientboundBossBar">>
ServerboundColumns == <<"ServerboundKeepAlive", "ServerboundChatMessage", "ServerboundChatCommand",
    "ServerboundPluginMessage">>
MoveColumns == <<"ServerboundMovePlayerPos", "ServerboundMovePlayerPosRot",
    "ServerboundMovePlayerRot", "ServerboundMovePlayerStatusOnly">>
NoMoves == <<None, None, None, None>>

(* Second names: rows with the same id as the name they stand for; those of     *)
(* Login begin with 107.                                                        *)
Alias == [ClientboundSetCarriedItem |-> "ClientboundSetHeldItem",
          ClientboundNamedSoundEffect |-> "ClientboundSound",
          ClientboundCustomPayload |-> "ClientboundPluginMessage",
          ServerboundCustomPayload |-> "ServerboundPluginMessage",
          ClientboundLogin |-> "ClientboundJoinGame"]

(* Rows of an anchor: a set of <<name, id>>.                                    *)
RowsOf(names, ids) == {<<names[i], ids[i]>> : i \in {j \in DOMAIN names : ids[j] # None}}

Anchor(protos, cb, sb, moves) ==
    [protos |-> protos,
     rows |-> RowsOf(ClientboundColumns, cb) \cup RowsOf(ServerboundColumns, sb)
                \cup RowsOf(MoveColumns, moves)]

Play_78 == [protos |-> {78},
    rows |-> {<<"ClientboundKeepAlive", 0>>, <<"ClientboundTimeUpdate", 4>>,
              <<"ClientboundSpawnPosition", 6>>, <<"ClientboundUpdateHealth", 8>>,
              <<"ClientboundChatMessage", 3>>, <<"ClientboundRespawn", 9>>,
              <<"ClientboundPlayerPosition", 13>>, <<"ClientboundHeldItemChange", 16>>,
              <<"ClientboundPlayerAbilities", 202>>, <<"ClientboundDisconnect", 255>>}]
Play_5 == Anchor({5, 47},
    <<0, 2, None, 7, 8, 57, 64, 1, 9, 33, 41, 63, None>>, <<0, 1, None, 23>>, <<4, 6, 5, 3>>)
Play_107 == Anchor({107, 108, 109, 110, 210, 315, 316},
    <<31, 15, None, 51, 46, 43, 26, 35, 55, 32, 25, 24, 12>>, <<11, 2, None, 9>>, NoMoves)
Play_335 == Anchor({335},
    <<31, 15, None, 52, 46, 43, 26, 35, 57, 32, 25, 24, 12>>, <<12, 3, None, 10>>, NoMoves)
Play_338 == Anchor({338},
    <<31, 15, None, 53, 47, 44, 26, 35, 58, 32, 25, 24, 12>>, <<11, 2, None, 9>>, NoMoves)
Play_340 == Anchor({340},
    <<31, 15, None, 53, 47, 44, 26, 35, 58, 32, 25, 24, 12>>, <<11, 2, None, 9>>, <<13, 14, 15, 12>>)
Play_393 == Anchor({393, 401, 404},
    <<33, 14, None, 56, 50, 46, 27, 37, 61, 34, 26, 25, 12>>, <<14, 2, None, 10>>, NoMoves)
Play_477 == Anchor({477, 480, 485, 490, 498},
    <<32, 14, None, 58, 53, 49, 26, 37, 63, 33, 25, 24, 12>>, <<15, 3, None, 11>>, NoMoves)
Play_573 == Anchor({573, 575, 578},
    <<33, 15, None, 59, 54, 50, 27, 38, 64, 34, 26, 25, 13>>, <<15, 3, None, 11>>, NoMoves)
Play_735 == Anchor({735, 736},
    <<32, 14, None, 58, 53, 49, 26, 37, 63, 33, 25, 24, 12>>, <<16, 3, None, 11>>, NoMoves)
Play_751 == Anchor({751, 753},
    <<31, 14, None, 57, 52, 48, 25, 36, 63, 32, 24, 23, 12>>, <<16, 3, None, 11>>, NoMoves)
Play_754 == Anchor({754},
    <<31, 14, None, 57, 52, 48, 25, 36, 63, 32, 24, 23, 12>>, <<16, 3, None, 11>>, <<18, 19, 20, 21>>)
Play_755 == Anchor({755, 756, 757, 758},
    <<33, 15, None, 61, 56, 50, 26, 38, 72, 34, 25, 24, 13>>, <<15, 3, None, 10>>, NoMoves)
Play_759 == Anchor({759},
    <<30, None, 95, 59, 54, 47, 23, 35, 71, 31, 22, 21, 10>>, <<17, 4, 3, 12>>, NoMoves)
Play_760 == Anchor({760},
    <<32, None, 98, 62, 57, 49, 25, 37, 74, 33, 23, 22, 10>>, <<18, 5, 4, 13>>, NoMoves)
Play_761 == Anchor({761},
    <<31, None, 96, 61, 56, 48, 23, 36, 73, 32, 94, 21, 10>>, <<17, 5, 4, 12>>, NoMoves)
Play_762 == Anchor({762},
    <<35, None, 100, 65, 60, 52, 26, 40, 77, 36, 98, 23, 11>>, <<18, 5, 4, 13>>, <<20, 21, 22, 23>>)
Play_763 == Anchor({763},
    <<35, None, 100, 65, 60, 52, 26, 40, 77, 36, 98, 23, 11>>, <<18, 5, 4, 13>>, NoMoves)
Play_764 == Anchor({764},
    <<36, None, 103, 67, 62, 54, 27, 41, 79, 37, 100, 24, 10>>, <<20, 5, 4, 15>>, NoMoves)
Play_765 == Anchor({765},
    <<36, None, 105, 69, 62, 54, 27, 41, 81, 37, 102, 24, 10>>, <<21, 5, 4, 15>>, <<22, 23, 24, 25>>)
Play_766 == Anchor({766},
    <<38, None, 108, 71, 64, 56, 29, 43, 83, 39, 104, 25, 10>>, <<24, 6, 4, 18>>, NoMoves)
Play_767 == Anchor({767},
    <<38, None, 108, 71, 64, 56, 29, 43, 83, 39, 104, 25, 10>>, <<24, 6, 4, 18>>, <<26, 27, 28, 29>>)

Play_768 == Anchor({768},
    <<39, None, 115, 76, 66, 58, 29, 44, 99, 40, 111, 25, 10>>, <<26, 7, 5, 20>>, NoMoves)
Play_769 == Anchor({769},
    <<39, None, 115, 76, 66, 58, 29, 44, 99, 40, 111, 25, 10>>, <<26, 7, 5, 20>>, <<28, 29, 30, 31>>)
Play_770 == Anchor({770},
    <<38, None, 114, 75, 65, 57, 28, 43, 98, 39, 110, 24, 9>>, <<26, 7, 5, 20>>, <<28, 29, 30, 31>>)
Play_771 == Anchor({771},
    <<38, None, 114, 75, 65, 57, 28, 43, 98, 39, 110, 24, 9>>, <<26, 7, 5, 20>>, NoMoves)
Play_772 == Anchor({772},
    <<38, None, 114, 75, 65, 57, 28, 43, 98, 39, 110, 24, 9>>, <<None, None, None, None>>, NoMoves)
Play_773 == Anchor({773, 774},
    <<43, None, 119, 80, 70, 62, 32, 48, 103, 44, 115, 24, 9>>, <<None, None, None, None>>, NoMoves)
Play_775 == Anchor({775, 776},
    <<44, None, 121, 82, 72, 64, 32, 49, 105, 45, 117, 24, 9>>, <<28, 9, 7, 22>>, <<30, 31, 32, 33>>)

(* The packets that take a client from Play back to Configuration.              *)
Reconfigure(protos, rows) == [protos |-> protos, rows |-> rows]
StartConfiguration ==
    {Reconfigure({764}, {<<"ClientboundStartConfiguration", 101>>}),
     Reconfigure({766}, {<<"ClientboundStartConfiguration", 105>>}),
     Reconfigure({768}, {<<"ClientboundStartConfiguration", 112>>}),
     Reconfigure({770}, {<<"ClientboundStartConfiguration", 111>>}),
     Reconfigure({773}, {<<"ClientboundStartConfiguration", 116>>}),
     Reconfigure({775, 776}, {<<"ClientboundStartConfiguration", 118>>}),
     Reconfigure({764}, {<<"ServerboundConfigurationAcknowledged", 11>>}),
     Reconfigure({766}, {<<"ServerboundConfigurationAcknowledged", 12>>}),
     Reconfigure({768}, {<<"ServerboundConfigurationAcknowledged", 14>>}),
     Reconfigure({771}, {<<"ServerboundConfigurationAcknowledged", 15>>}),
     Reconfigure({775, 776}, {<<"ServerboundConfigurationAcknowledged", 16>>})}

PlayTable ==
    {Play_78, Play_5, Play_107, Play_335, Play_338, Play_340, Play_393, Play_477, Play_573, Play_735, 
     Play_751, Play_754, Play_755, Play_759, Play_760, Play_761, Play_762, Play_763, Play_764, 
     Play_765, Play_766, Play_767, Play_768, Play_769, Play_770, Play_771, Play_772, Play_773, 
     Play_775}
        \cup StartConfiguration

PreNettyTable ==
    {[protos |-> {78}, rows |-> {<<"ServerboundPingRequest", 254>>, <<"HandshakeC2S", 2>>,
        <<"EncryptionKeyRequestS2C", 253>>, <<"EncryptionKeyResponseC2S", 252>>,
        <<"LoginRequestS2C", 1>>}]}

HandshakeTable == {[protos |-> {4}, rows |-> {<<"ServerboundHandshake", 0>>}]}

StatusTable ==
    {[protos |-> {4}, rows |-> {<<"ServerboundStatusRequest", 0>>, <<"ServerboundPingRequest", 1>>,
        <<"ClientboundStatusResponse", 0>>, <<"ClientboundPongResponse", 1>>}]}

LoginTable ==
    {[protos |-> {4}, rows |-> {<<"ServerboundLoginStart", 0>>, <<"ServerboundEncryptionResponse", 1>>,
        <<"ClientboundLoginDisconnect", 0>>, <<"ClientboundEncryptionRequest", 1>>,
        <<"ClientboundLoginSuccess", 2>>}],
     [protos |-> {47}, rows |-> {<<"ClientboundSetCompression", 3>>}],
     [protos |-> {393}, rows |-> {<<"ClientboundLoginPluginRequest", 4>>,
        <<"ServerboundLoginPluginResponse", 2>>}],
     [protos |-> {764}, rows |-> {<<"ServerboundLoginAcknowledged", 3>>}]}

(* FinishConfiguration has a row in both directions, with the same id.          *)
ConfigurationTable ==
    {[protos |-> {764}, rows |-> {<<"ClientboundPluginMessage", 0>>, <<"ClientboundDisconnect", 1>>,
        <<"FinishConfiguration", 2>>, <<"ClientboundKeepAlive", 3>>,
        <<"ClientboundPing", 4>>, <<"ClientboundRegistryData", 5>>,
        <<"ServerboundPluginMessage", 1>>, <<"AcknowledgeFinishConfiguration", 2>>}],
     [protos |-> {766}, rows |-> {<<"ClientboundPluginMessage", 1>>, <<"ClientboundDisconnect", 2>>,
        <<"FinishConfiguration", 3>>, <<"ClientboundKeepAlive", 4>>,
        <<"ClientboundPing", 5>>, <<"ClientboundRegistryData", 7>>,
        <<"ClientboundSelectKnownPacks", 14>>, <<"ServerboundPluginMessage", 2>>,
        <<"AcknowledgeFinishConfiguration", 3>>, <<"ServerboundSelectKnownPacks", 7>>}]}

------------------------------------------------------------------------------
(* Lookup.                                                                     *)

(* Protocol numbers that register a name, and the id they register.             *)
Registering(table, name) == UNION {a.protos : a \in {b \in table : \E r \in b.rows : r[1] = name}}
IdAt(table, p, name) ==
    (CHOOSE r \in UNION {a.rows : a \in {b \in table : p \in b.protos}} : r[1] = name)[2]

(* The name under which a row is found: second names, and the old name of the   *)
(* held item outside the pre-netty protocol.                                    *)
RealName(p, name) ==
    CASE name = "ClientboundLogin" /\ p < 107 -> "not registered"
      [] name \in DOMAIN Alias /\ ~(name = "ClientboundLogin" /\ p < 107) -> Alias[name]
      [] name = "ClientboundHeldItemChange" /\ p # 78 -> "ClientboundSetHeldItem"
      [] OTHER -> name

(* Faulty variant: get_id, which knows the rows of the number itself only.      *)
LookupExact(table, p, name) ==
    LET real == RealName(p, name)
    IN  IF p \in Registering(table, real) THEN IdAt(table, p, real) ELSE None

(* get_id_for_version: the highest number up to p that registers the name, on   *)
(* p's side of the boundary between pre-netty (78) and later protocols.         *)
Lookup(table, p, name) ==
    LET real == RealName(p, name)
        lower == {q \in Registering(table, real) : q <= p /\ ((q = 78) <=> (p = 78))}
    IN  IF lower = {} THEN None
        ELSE IdAt(table, CHOOSE q \in lower : \A r \in lower : r <= q, real)

(* lookup: an id that is not registered is 0xFF.                                *)
PacketId(table, p, name) == LET id == Lookup(table, p, name) IN IF id = None THEN 255 ELSE id
=============================================================================
