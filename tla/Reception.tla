----------------------------- MODULE Reception -----------------------------
(* What a decoder makes of a packet body of which only a part has arrived, and  *)
(* the tables behind it.  One subject is looked at per behaviour: a packet with *)
(* sample values, a binary tag, a run of bytes taken as a VarInt, a protocol    *)
(* number, a packet that the proxy builds for a version, a text component.  The *)
(* bytes of the first two arrive one by one, with surplus bytes after the last; *)
(* the third is a run that grows at will.                                       *)
EXTENDS LimboPackets, FiniteSets

CONSTANTS
    PacketSubjects,     \* records [packet, ver, vals]
    NbtSubjects,        \* sequences of <<name, tag>>
    Alphabet,           \* bytes of the runs taken as VarInts
    MaxRun,             \* their length
    Surplus,            \* bytes after the end of a packet
    Numbers,            \* protocol numbers
    BuiltSubjects,      \* records [what, ver, vals]
    JsonSubjects        \* JSON values

VARIABLES
    subject,            \* [kind, of]
    bytes,              \* what the encoder wrote
    arrived,            \* how much of it, and of the surplus, has arrived
    limbo               \* the packets that limbo has for a protocol number

receptionVars == <<subject, bytes, arrived, limbo>>

Subject(kind, of) == [kind |-> kind, of |-> of]

(* What the proxy writes for a version, and how it reads the same packet itself *)
(* when a client or a backend of that version sends it.                         *)
BuiltBody(what, p) ==
    CASE what = "LoginSuccess" -> LoginSuccessBuilt(p).body
      [] what = "LoginStart" -> BackendLoginStartBuilt(p).body
      [] what = "EncryptionRequest" -> EncryptionRequestBuilt(p).body
      [] what = "Brand" -> BrandMessage(p).body
OwnReader(what, p) ==
    CASE what = "LoginSuccess" -> LoginSuccessReader(p)
      [] what = "LoginStart" -> LoginStartReader(p)
      [] what = "EncryptionRequest" -> EncryptionRequestShape(p)
      [] what = "Brand" -> PluginMessageShape(p)

ReceptionInit ==
    /\ \/ \E p \in PacketSubjects :
            /\ subject = Subject("packet", p)
            /\ bytes = Write(p.packet.w, p.vals)
       \/ \E entries \in NbtSubjects :
            /\ subject = Subject("nbt", entries)
            /\ bytes = EncodeNbt(<<114>>, entries)
       \/ subject = Subject("run", 0) /\ bytes = <<>>
       \/ \E n \in Numbers : subject = Subject("number", n) /\ bytes = <<>>
       \/ \E b \in BuiltSubjects :
            /\ subject = Subject("built", b)
            /\ bytes = Write(BuiltBody(b.what, b.ver), b.vals)
       \/ \E j \in JsonSubjects : subject = Subject("json", j) /\ bytes = NamelessNbt(j)
    /\ arrived = 0
    /\ limbo = IF subject.kind = "number" THEN LimboFor(subject.of) ELSE NotBuilt

(* One more byte of the body, or one after it.                                  *)
ByteArrives ==
    /\ subject.kind \in {"packet", "nbt"}
    /\ arrived < Len(bytes) + Surplus
    /\ arrived' = arrived + 1
    /\ UNCHANGED <<subject, bytes, limbo>>

(* The run taken as a VarInt grows.                                             *)
RunGrows ==
    /\ subject.kind = "run"
    /\ Len(bytes) < MaxRun
    /\ \E b \in Alphabet : bytes' = Append(bytes, b)
    /\ UNCHANGED <<subject, arrived, limbo>>

ReceptionNext == ByteArrives \/ RunGrows

ReceptionSpec == ReceptionInit /\ [][ReceptionNext]_receptionVars

SurplusByte == 255

(* What the decoder has in front of it.                                         *)
Buffer == Front(bytes \o [i \in 1..Surplus |-> SurplusByte], arrived)
Decoded == ReadAll(subject.of.packet.r, Buffer)

(* Layouts that end with whatever is left.                                      *)
Open(layout) == \E i \in DOMAIN layout :
                    \/ layout[i][1] \in {"rest", "droprest", "tail", "bylength"}
                    \/ layout[i] = Maybe(<<Rest>>)

(* Decoders whose last field is a raw read that no length test precedes.        *)
Unguarded == {Handshake_6, Pong_6, PingRequest_8}

(* Tags without a length of their own: numbers, and compounds of them.          *)
RECURSIVE OnlyNumbers(_)
OnlyNumbers(tag) ==
    \/ tag.t \in 1..6
    \/ tag.t = TypeCompound /\ \A i \in DOMAIN tag.v : OnlyNumbers(tag.v[i][2])

(* Packets of which each tag that the decoder steps over with `skip` is such.   *)
SkipsNumbersOnly ==
    LET layout == subject.of.packet.r
    IN  \A i \in {j \in DOMAIN layout : layout[j][1] = "nbt"} :
            OnlyNumbers(Tag(TypeCompound, DecodeNbt(subject.of.vals[i]).val[2]))

GivenBack ==
    /\ Decoded.res = "ok"
    /\ Decoded.val = subject.of.vals
    /\ Len(Decoded.rest) = arrived - Len(bytes)

------------------------------------------------------------------------------
(* A decoder of protocol/src/versions accepts exactly what its encoder wrote.   *)
(* Once all of it is there it gives back the values and takes no byte of what   *)
(* follows (a layout with an open end: when nothing follows), exactly if the    *)
(* packet has no tag on which nbt::skip ends elsewhere: the JoinGame of 1.16    *)
(* and the Login of 1.19 are lost when their registries contain a text, a list  *)
(* or an array.  A packet that is cut off is an error, not another packet; it   *)
(* is a raw read beyond the end of the buffer, which unwinds the task, only in  *)
(* the unguarded decoders, and there as soon as the last byte is missing.       *)
DecodesExactlyWhenComplete ==
    subject.kind = "packet" =>
        /\ arrived = Len(bytes) \/ (arrived > Len(bytes) /\ ~Open(subject.of.packet.r)) =>
              (GivenBack <=> SkipsNumbersOnly)
        /\ arrived < Len(bytes) /\ SkipsNumbersOnly =>
              /\ Decoded.res = "panic" => subject.of.packet \in Unguarded
              /\ ~Open(subject.of.packet.r) => Decoded.res # "ok"
              /\ subject.of.packet \in Unguarded /\ arrived = Len(bytes) - 1 => Decoded.res = "panic"

(* Arrays whose elements have one type.                                         *)
RECURSIVE Uniform(_)
Uniform(json) ==
    CASE json[1] = "array" ->
            /\ \A i, j \in DOMAIN json[2] : json[2][i][1] = json[2][j][1]
            /\ \A i \in DOMAIN json[2] : Uniform(json[2][i])
      [] json[1] = "object" -> \A i \in DOMAIN json[2] : Uniform(json[2][i][2])
      [] OTHER -> TRUE

(* A binary tag is read back as it was written, up to the depth that the        *)
(* reader admits, its end is found without a length, and a part of it is an     *)
(* error (Nbt::encode, Nbt::decode).  So is a text component that               *)
(* json_component_to_nameless_nbt converts, by a reader that leaves out the     *)
(* name, as long as no array mixes types: a list has that of its first element. *)
TagsAreReadBack ==
    /\ subject.kind = "nbt" =>
         LET r == DecodeNbt(Buffer)
         IN  IF arrived < Len(bytes) THEN r.res = "err"
             ELSE r = Ok(<<<<114>>, subject.of>>, [i \in 1..(arrived - Len(bytes)) |-> SurplusByte])
    /\ subject.kind = "json" /\ bytes # <<>> /\ Uniform(subject.of) =>
         DecodeNbt(<<10, 0, 0>> \o After(bytes, 1)) = Ok(<<<<>>, JsonToTag(subject.of).v>>, <<>>)

(* nbt.rs says of skip: "Advance `cur` past one top-level NBT value. Returns    *)
(* the number of bytes consumed."                                               *)
SkipStepsOverOneValue ==
    subject.kind = "nbt" /\ arrived = Len(bytes) + Surplus =>
        LET r == SkipNbt(Buffer)
        IN  r.res = "ok" /\ Len(r.rest) = Surplus

(* Runs of bytes as a VarLong: pad makes some of up to ten bytes, of which the  *)
(* last has one bit that counts; further bits are dropped without an error.     *)
VarLongRuns == {pad \o bytes : pad \in {<<>>, <<129, 128, 255, 128, 129>>}}

(* A VarInt or VarLong that is accepted and has no zero padding is the only     *)
(* encoding of its value: no two runs of bytes are taken for the same number,   *)
(* and no bit of a fifth byte is dropped.                                       *)
NumbersHaveOneEncoding ==
    subject.kind = "run" =>
        /\ LET r == DecodeVarInt(bytes)
               used == Len(bytes) - Len(r.rest)
           IN  r.res = "ok" =>
                 /\ used = 1 \/ bytes[used] # 0 => EncodeVarInt(r.val) = Front(bytes, used)
                 /\ EncodedLen(r.val) <= used
                 /\ DecodeVarInt(EncodeVarInt(r.val)).val = r.val
        /\ \A src \in VarLongRuns :
             LET r == DecodeVarLong(src)
                 used == Len(src) - Len(r.rest)
             IN  r.res = "ok" /\ (used = 1 \/ src[used] # 0) /\ (used = VARLONG_MAX_BYTES => src[used] < 2)
                   => EncodeVarLong(r.val) = Front(src, used)

(* Which table answers for a packet with a fixed id.                            *)
FixedTable == HandshakeTable \cup StatusTable \cup LoginTable \cup ConfigurationTable

(* The names under which the table has a packet type of another name.           *)
TableName(name) ==
    CASE name = "ClientboundFinishConfiguration" -> "FinishConfiguration"
      [] name = "ServerboundAcknowledgeFinishConfiguration" -> "AcknowledgeFinishConfiguration"
      [] OTHER -> name

(* Packets whose fixed id is that of the older versions of their module only.   *)
Outdated == {<<AcknowledgeFinish_20, 766>>, <<Finish_20, 766>>}

(* Versions that speak the play state of the table: pre-netty ones other than   *)
(* 78 and 1.7.2 have no rows of their own.                                      *)
Tabled(n) == n \in Known \ {4, 73, 74}

(* The names of each direction, without second names.                           *)
MoveNames == {MoveColumns[i] : i \in DOMAIN MoveColumns}
ClientNames ==
    {ClientboundColumns[i] : i \in DOMAIN ClientboundColumns}
        \cup {"ClientboundStartConfiguration", "ClientboundTimeUpdate", "ClientboundSpawnPosition",
              "ClientboundUpdateHealth"}
ServerNames ==
    {ServerboundColumns[i] : i \in DOMAIN ServerboundColumns}
        \cup {"ServerboundConfigurationAcknowledged"} \cup MoveNames

(* Where the inherited id of a movement packet is another packet's by now: only *)
(* eleven versions list the movement packets.                                   *)
MoveShares == {335, 760, 764, 766, 768} \cup 393..404 \cup 477..578

(* The packets of limbo under ids of their own.                                 *)
PinnedKinds == {"center", "defaultSpawn", "batchStart", "batchEnd", "waitChunks", "light"}

(* An id stands for one packet in a version and a direction, though most        *)
(* versions inherit their ids from lower ones, each name at a distance of its   *)
(* own (get_id_for_version): two names have the same id exactly where one is a  *)
(* movement packet in a version of MoveShares.  A packet module's own id is the *)
(* registry's, but for Outdated, a play packet that it sends has one, and       *)
(* limbo's pinned ids are no other packet's.  The predicates by which the proxy *)
(* decides what a version understands agree with the ids that it has.           *)
IdsNameOnePacket ==
    /\ subject.kind = "packet" =>
         LET p == subject.of.packet
             fixed == Lookup(FixedTable, subject.of.ver, TableName(p.name))
         IN  IF p.id = FromRegistry
             THEN Tabled(subject.of.ver) => Lookup(PlayTable, subject.of.ver, p.name) # None
             ELSE <<p, subject.of.ver>> \in Outdated <=> fixed \notin {None, p.id}
    /\ subject.kind = "number" /\ Tabled(subject.of) =>
         LET pinned == {k \in PinnedKinds : Built(limbo[k])}
             PlayId(n) == Lookup(PlayTable, subject.of, n)
             Shares(n, names) == PlayId(n) # None /\ \E m \in names \ {n} : PlayId(m) = PlayId(n)
         IN  /\ \A n \in ClientNames : ~Shares(n, ClientNames)
             /\ \A n \in ServerNames \ MoveNames : ~Shares(n, ServerNames \ MoveNames)
             /\ subject.of \in MoveShares <=> \E n \in MoveNames : Shares(n, ServerNames)
             /\ \A k \in pinned :
                   /\ \A n \in ClientNames : PlayId(n) # limbo[k].id
                   /\ \A l \in pinned \ {k} : limbo[l].id # limbo[k].id
             /\ HasConfigurationPhase(subject.of) <=> PlayId("ClientboundStartConfiguration") # None
             /\ HasConfigurationPhase(subject.of) <=>
                   Lookup(ConfigurationTable, subject.of, "FinishConfiguration") # None
             /\ HasConfigurationPhase(subject.of) <=>
                   Lookup(LoginTable, subject.of, "ServerboundLoginAcknowledged") # None
             /\ HasChatSigning(subject.of) <=> PlayId("ClientboundSystemChat") # None

------------------------------------------------------------------------------
(* 1.16 to 1.18 LoginSuccess has no properties, which its reader expects; the   *)
(* short brand of 1.7 and 1.8 has no length, which the reader of plugin         *)
(* messages expects.                                                            *)
Misread(what, p) ==
    \/ what = "LoginSuccess" /\ p \in 735..758
    \/ what = "LoginStart" /\ p \in 759..760
    \/ what = "Brand" /\ p \in {5, 47}

(* What the proxy writes in the login of a version (login_packets.rs) it also   *)
(* reads in that version: the LoginSuccess and EncryptionRequest of a backend,  *)
(* the LoginStart of a client, a brand; the two sides dispatch on the version   *)
(* in different ways.  Exactly the cases of Misread are not read to their end.  *)
LoginBodiesAreRead ==
    subject.kind = "built" =>
        LET r == ReadAll(OwnReader(subject.of.what, subject.of.ver), bytes)
        IN  Misread(subject.of.what, subject.of.ver) <=>
                ~(r.res = "ok" /\ (r.rest = <<>> \/ subject.of.what = "EncryptionRequest"))

------------------------------------------------------------------------------
(* 1.17 and 1.18 are served by the packets of 1.16, which have no chunk.        *)
WithoutChunk == 755..758

(* Every client that limbo holds gets a world: what is needed to leave the      *)
(* loading screen is built for its version.  No packet is silently left out     *)
(* because its name has no id there, a bar that is added can be removed, a      *)
(* batch that is opened is closed, and a chunk comes with its centre.           *)
LimboShowsAWorld ==
    subject.kind = "number" /\ Tabled(subject.of) =>
        LET p == subject.of
        IN  /\ \A k \in {"abilities", "position", "chat", "keepalive"} : Built(limbo[k])
            /\ Built(limbo.join) \/ (Built(limbo.spawn) /\ Built(limbo.time) /\ Built(limbo.health))
            /\ p # 5 => Built(limbo.held) /\ Built(limbo.respawn)
            /\ p # 78 => Built(limbo.brand)
            /\ Built(limbo.bossAdd) <=> p >= 107
            /\ Built(limbo.bossAdd) <=> Built(limbo.bossRemove)
            /\ Built(limbo.batchStart) <=> p >= 764
            /\ Built(limbo.batchStart) <=> Built(limbo.batchEnd)
            /\ Built(limbo.chunk) <=> p >= 755 /\ p \notin WithoutChunk
            /\ Built(limbo.chunk) <=> Built(limbo.center)
            /\ p >= 761 => Built(limbo.defaultSpawn) \/ Built(limbo.waitChunks)

(* How a JoinGame refers to the dimension: after the registries up to 1.20.1,   *)
(* after eight other fields later, a number before 1.16.                        *)
JoinDimension(p, body) ==
    LET tags == {i \in DOMAIN body : body[i] = NbtBytes}
    IN  IF p < 735 THEN I32
        ELSE IF tags = {} THEN body[10]
        ELSE body[1 + CHOOSE i \in tags : \A j \in tags : i <= j]

(* Versions whose Respawn still or already refers to it in another way.         *)
DimensionDiffers == 751..758 \cup 763..765

(* The Respawn that ends limbo refers to the dimension in the form of the       *)
(* JoinGame that began it, and limbo's Respawn has the body of the one that a   *)
(* server switch sends to the same client (build_legacy_respawn).               *)
RespawnFitsJoinGame ==
    subject.kind = "number" /\ Tabled(subject.of) =>
        LET p == subject.of
        IN  /\ p >= 47 /\ p # 78 => (p \in DimensionDiffers <=>
                                JoinDimension(p, limbo.join.body) # limbo.respawn.body[1])
            /\ p \in 47..404 \ {78} => limbo.respawn = LegacyRespawn(p)

(* Versions before SystemChat that packet_builder.rs does not list.             *)
Unlisted == 107..338 \cup 393..753 \cup 755..758

(* A message or a kick has one form in a version, whichever part of the proxy   *)
(* builds it: packet_builder.rs and limbo or login_packets.rs agree, apart from *)
(* the versions of Unlisted, whose messages have no id at all.                  *)
OneFormPerMessage ==
    subject.kind = "number" /\ Tabled(subject.of) =>
        LET p == subject.of
        IN  /\ p \in Unlisted <=> SystemMessage(p).id = 255
            /\ p \notin Unlisted => SystemMessage(p) = limbo.chat
            /\ p # 78 => DisconnectMessage(p) = PlayDisconnectBuilt(p)
            /\ p # 78 => PluginMessage(p).id = limbo.brand.id
            /\ p # 78 => 255 \notin ChatPacketIds(p)

=============================================================================
