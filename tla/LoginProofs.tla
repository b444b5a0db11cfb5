---------------------------- MODULE LoginProofs ----------------------------
(***************************************************************************)
(* The session and the framing of a connection, for every version, any     *)
(* number of packets under way and any number of changes of server.        *)
(*                                                                         *)
(* A connection goes from the stages before its login is settled (Before)  *)
(* through those of a player (During) to its end.  The framing changes     *)
(* only on the way from the first to the second, where few packets are     *)
(* under way; afterwards a step of the task takes at most one packet of    *)
(* the client and adds packets in the framing that has been settled.       *)
(***************************************************************************)
EXTENDS Login, SequenceTheorems, TLAPS

Before == {"peek", "handshake", "status", "statusPing", "loginStart", "encResponse"}
During == {"joining", "backendLogin", "fmlAnswer", "loginAck", "configAck", "config", "oneAnswer",
           "packsAnswer", "finishAck", "acking", "limboAck", "limboConfigAck", "limboFinish", "limbo",
           "worldReset", "relay"}

Frames == [enc : BOOLEAN, comp : BOOLEAN]

(* Kinds of packets; those of the proxy that leave the framing alone.      *)
SafeKinds == {"StatusResponse", "Pong", "LoginSuccess", "LoginPlugin", "LoginDisconnect", "RegistryData",
              "Finish", "KnownPacks", "ConfigPing", "Channel", "World", "Respawn", "StartConfiguration",
              "PlayDisconnect", "ResourcePack", "Chat", "LegacyDisconnect", "Motd", "Incompatible"}
ClientKinds == {"LegacyPing", "LegacyLogin", "Bedrock", "HandshakeStatus", "HandshakeLogin",
                "HandshakeOther", "StatusRequest", "LoginStart", "PingRequest", "EncryptionResponse",
                "LoginAck", "LoginPluginAnswer", "FinishAck", "KnownPacksAnswer", "ConfigPong",
                "ChannelAnswer", "ConfigurationAck", "ClientInformation", "Move"}
Kinds == SafeKinds \cup {"EncryptionRequest", "SetCompression"} \cup ClientKinds
States == {"new", "status", "login", "config", "play"} \cup Gone
Packet == [kind : Kinds, frame : Frames]
Secret == [enc |-> TRUE, comp |-> FALSE]

LoginTypes ==
  /\ setup \in [ver : Protocols, online : BOOLEAN, compress : BOOLEAN, pack : BOOLEAN]
  /\ pc \in Before \cup During \cup {"ended"}
  /\ frame \in Frames
  /\ session \in BOOLEAN /\ metric \in BOOLEAN
  /\ client \in [state : States, frame : Frames]
  /\ toClient \in Seq(Packet) /\ toProxy \in Seq(Packet)

(* Sessions: none before the login is settled, one with its metrics while  *)
(* the player is there, none after.                                        *)
SessionInv ==
  /\ LoginTypes
  /\ \A i \in DOMAIN toProxy : toProxy[i].kind = "LegacyLogin" => Legacy
  /\ pc \in Before => ~session /\ ~metric
  /\ pc \in During => /\ session /\ metric /\ conn \in {"login", "play"}
                      /\ setup.online /\ ~Legacy => frame.enc
  /\ pc = "ended" => ~session /\ (metric => conn = "login")

-----------------------------------------------------------------------------
(* Framing.  What the proxy has written is read in the framing it was      *)
(* written in: only a SetCompression at the front of the stream stands     *)
(* between the client's framing and the proxy's.                           *)
Behind == toClient # <<>> /\ toClient[1].kind = "SetCompression"

InStep ==
  /\ \A i \in DOMAIN toClient :
       /\ toClient[i].kind # "EncryptionRequest"
       /\ toClient[i].kind = "SetCompression" => i = 1
       /\ toClient[i].kind # "SetCompression" => toClient[i].frame = frame
  /\ Behind => /\ client.state \notin {"config", "play"} /\ toClient[1].frame = client.frame
               /\ frame = [client.frame EXCEPT !.comp = TRUE]
  /\ ~Behind => client.frame = frame

(* The client has been asked to encrypt and has not read it, or has.       *)
Asked ==
  /\ frame = Plain /\ client.frame = Plain
  /\ Len(toClient) = 1 /\ toClient[1].kind = "EncryptionRequest" /\ toClient[1].frame = Plain
Answered ==
  /\ frame = Plain /\ client.frame = Secret
  /\ \A i \in DOMAIN toClient : toClient[i].kind = "LoginDisconnect"

FrameInv ==
  /\ LoginTypes
  /\ client.state \notin Gone => InStep \/ ((Asked \/ Answered) /\ pc \in {"encResponse", "ended"})
  /\ pc # "ended" => \A i \in DOMAIN toProxy : toProxy[i].frame = frame
  /\ pc \in Before => frame = Plain /\ conn # "play"
  /\ Legacy => pc \notin Before \ {"peek"}
  /\ Legacy /\ pc = "peek" => \A i \in DOMAIN toProxy : toProxy[i].kind \in {"LegacyPing", "LegacyLogin"}
  /\ client.state \notin Gone /\ pc \in Before => client.state \notin {"config", "play"}
  /\ client.state \notin Gone /\ pc \in {"peek", "handshake", "loginStart"} => toClient = <<>>
  /\ client.state \notin Gone /\ pc = "encResponse" =>
       (Asked /\ toProxy = <<>>) \/ (Answered /\ toClient = <<>>)
  /\ client.state \notin Gone /\ pc \in {"status", "statusPing"} =>
       \A i \in DOMAIN toClient : toClient[i].kind = "StatusResponse"
  /\ client.state = "new" => pc = "ended" \/ (pc = "peek" /\ toProxy = <<>>)
  /\ pc \in {"peek", "handshake"} => Len(toProxy) <= 2
  /\ pc \in {"loginStart", "encResponse"} => Len(toProxy) <= 1

-----------------------------------------------------------------------------
(* Packets put into a framing, and added to a stream.                      *)
LEMMA FramedIs ==
  ASSUME NEW kinds \in Seq(Kinds), NEW f \in Frames
  PROVE  /\ Framed(kinds, f) \in Seq(Packet) /\ Len(Framed(kinds, f)) = Len(kinds)
         /\ \A i \in 1..Len(kinds) : /\ Framed(kinds, f)[i].kind = kinds[i]
                                     /\ Framed(kinds, f)[i].frame = f
  <1>1. DOMAIN kinds = 1..Len(kinds) /\ Len(kinds) \in Nat
    BY LenProperties
  <1>2. \A i \in 1..Len(kinds) : kinds[i] \in Kinds
    BY ElementOfSeq
  <1>3. \A i \in 1..Len(kinds) : [kind |-> kinds[i], frame |-> f] \in Packet
    BY <1>2 DEF Packet
  <1>4. Framed(kinds, f) = [i \in 1..Len(kinds) |-> [kind |-> kinds[i], frame |-> f]]
    BY <1>1 DEF Framed
  <1> HIDE DEF Packet
  <1>5. Framed(kinds, f) \in Seq(Packet)
    BY <1>1, <1>3, <1>4, IsASeq
  <1>6. Len(Framed(kinds, f)) = Len(kinds)
    BY <1>1, <1>4, <1>5, LenProperties
  <1> QED
    BY <1>4, <1>5, <1>6

LEMMA StreamGrows ==
  ASSUME NEW s \in Seq(Packet), NEW S \in SUBSET Kinds, NEW kinds \in Seq(S), NEW f \in Frames
  PROVE  /\ s \o Framed(kinds, f) \in Seq(Packet)
         /\ Len(s \o Framed(kinds, f)) = Len(s) + Len(kinds)
         /\ \A i \in 1..Len(s) : (s \o Framed(kinds, f))[i] = s[i]
         /\ \A i \in 1..(Len(s) + Len(kinds)) : i > Len(s) =>
              /\ (s \o Framed(kinds, f))[i].frame = f
              /\ (s \o Framed(kinds, f))[i].kind \in S
              /\ (s \o Framed(kinds, f))[i].kind = kinds[i - Len(s)]
  <1>1. kinds \in Seq(Kinds) /\ \A i \in 1..Len(kinds) : kinds[i] \in S
    BY SeqMonotonic, ElementOfSeq
  <1> DEFINE t == Framed(kinds, f)
  <1>2. /\ t \in Seq(Packet) /\ Len(t) = Len(kinds)
        /\ \A i \in 1..Len(kinds) : t[i].kind = kinds[i] /\ t[i].frame = f
    BY <1>1, FramedIs
  <1> HIDE DEF t
  <1>3. Len(s) \in Nat /\ Len(kinds) \in Nat
    BY LenProperties
  <1>4. /\ s \o t \in Seq(Packet) /\ Len(s \o t) = Len(s) + Len(t)
        /\ \A i \in 1..(Len(s) + Len(t)) :
             (s \o t)[i] = IF i <= Len(s) THEN s[i] ELSE t[i - Len(s)]
    <2>1. s \in Seq(Packet) /\ t \in Seq(Packet)
      BY <1>2
    <2> QED
      BY ONLY <2>1, ConcatProperties, Zenon
  <1>5. ASSUME NEW i \in 1..(Len(s) + Len(kinds)), i > Len(s)
        PROVE  (s \o t)[i].frame = f /\ (s \o t)[i].kind \in S /\ (s \o t)[i].kind = kinds[i - Len(s)]
    <2>1. i - Len(s) \in 1..Len(kinds) /\ ~(i <= Len(s))
      BY <1>3, <1>5
    <2>2. (s \o t)[i] = t[i - Len(s)]
      BY <1>2, <1>4, <2>1
    <2> QED
      BY <1>1, <1>2, <2>1, <2>2
  <1>6. \A i \in 1..Len(s) : (s \o t)[i] = s[i]
    BY <1>2, <1>3, <1>4
  <1> QED
    BY <1>2, <1>4, <1>5, <1>6 DEF t

LEMMA NothingAdded ==
  ASSUME NEW s \in Seq(Packet), NEW f \in Frames
  PROVE  s \o Framed(<<>>, f) = s
  <1>1. <<>> \in Seq(Kinds) /\ Len(<<>>) = 0
    BY EmptySeq
  <1>2. Framed(<<>>, f) \in Seq(Packet) /\ Len(Framed(<<>>, f)) = 0
    BY <1>1, FramedIs, Zenon
  <1>3. Framed(<<>>, f) = <<>>
    BY <1>2, EmptySeq
  <1> QED
    BY <1>3, ConcatEmptySeq

(* A packet taken from a stream.                                           *)
LEMMA StreamShrinks ==
  ASSUME NEW s \in Seq(Packet), s # <<>>
  PROVE  /\ Head(s) = s[1] /\ Head(s) \in Packet /\ Len(s) >= 1 /\ Len(s) \in Nat
         /\ Tail(s) \in Seq(Packet) /\ Len(Tail(s)) = Len(s) - 1
         /\ \A i \in 1..Len(Tail(s)) : Tail(s)[i] = s[i + 1] /\ i + 1 \in 1..Len(s)
  <1> HIDE DEF Packet
  <1>1. Len(s) \in Nat /\ Len(s) # 0 /\ DOMAIN s = 1..Len(s)
    BY LenProperties, EmptySeq
  <1>2. s[1] \in Packet
    BY <1>1, ElementOfSeq
  <1> QED
    BY <1>1, <1>2, HeadTailProperties

-----------------------------------------------------------------------------
(* A step of the task for a player: it takes at most one packet of the     *)
(* client, writes packets that leave the framing alone, and ends with the  *)
(* session removed if it ends.                                             *)
Writes == \E kinds \in Seq(SafeKinds) : toClient' = toClient \o Framed(kinds, frame)
Reads == toProxy' = toProxy \/ (toProxy # <<>> /\ toProxy' = Tail(toProxy))

PlayerStep ==
  /\ pc \in During /\ UNCHANGED <<setup, frame, client>>
  /\ Writes /\ Reads
  /\ \/ pc' \in During /\ UNCHANGED <<session, metric>> /\ conn' \in {conn, "play"}
     \/ /\ pc' = "ended" /\ conn' = conn
        /\ session' = FALSE /\ metric' \in {FALSE, metric /\ conn = "login"}

LEMMA KindsJoin ==
  ASSUME NEW a \in Seq(SafeKinds), NEW b \in Seq(SafeKinds)
  PROVE  a \o b \in Seq(SafeKinds)
  BY ConcatProperties

LEMMA ShortLists ==
  ASSUME NEW S
  PROVE  /\ <<>> \in Seq(S)
         /\ \A x \in S : <<x>> \in Seq(S)
         /\ \A x, y \in S : <<x, y>> \in Seq(S)
  OBVIOUS

LEMMA SafeLists ==
  /\ <<>> \in Seq(SafeKinds) /\ <<"World">> \in Seq(SafeKinds) /\ <<"Respawn">> \in Seq(SafeKinds)
  /\ <<"StartConfiguration">> \in Seq(SafeKinds) /\ LimboConfig \in Seq(SafeKinds)
  /\ <<"Chat">> \in Seq(SafeKinds) /\ <<"Finish">> \in Seq(SafeKinds)
  /\ <<"RegistryData">> \in Seq(SafeKinds) /\ <<"LoginPlugin">> \in Seq(SafeKinds)
  /\ <<"ConfigPing">> \in Seq(SafeKinds) /\ <<"Channel">> \in Seq(SafeKinds)
  /\ <<"KnownPacks">> \in Seq(SafeKinds) /\ <<"Respawn", "Respawn">> \in Seq(SafeKinds)
  /\ \A x : <<Disconnect(x)>> \in Seq(SafeKinds)
  <1>1. {"World", "Respawn", "StartConfiguration", "Chat", "Finish", "RegistryData", "LoginPlugin",
         "ConfigPing", "Channel", "KnownPacks", "LegacyDisconnect", "LoginDisconnect",
         "PlayDisconnect"} \subseteq SafeKinds
    BY DEF SafeKinds
  <1>2. \A x : Disconnect(x) \in SafeKinds
    BY <1>1 DEF Disconnect
  <1> QED
    BY <1>1, <1>2, ShortLists DEF LimboConfig

LEMMA KickIsSafe ==
  ASSUME NEW err
  PROVE  GracefulKick(err) \in Seq(SafeKinds)
  <1>1. <<"LegacyDisconnect">> \in Seq(SafeKinds)
    BY ShortLists DEF SafeKinds
  <1> QED
    BY <1>1, SafeLists DEF GracefulKick

LEMMA UnchangedWrites ==
  ASSUME LoginTypes, toClient' = toClient
  PROVE  Writes
  BY SafeLists, NothingAdded, Zenon DEF LoginTypes, Writes

LEMMA EndWrites ==
  ASSUME NEW kinds \in Seq(SafeKinds), NEW err, End(kinds, err)
  PROVE  Writes /\ pc' = "ended"
  <1>1. kinds \o GracefulKick(err) \in Seq(SafeKinds)
    BY KickIsSafe, KindsJoin
  <1> QED
    BY <1>1, Zenon DEF End, Write, Writes

LEMMA GiveUpIsStep ==
  ASSUME LoginTypes, pc \in During, Reads,
         NEW kinds \in Seq(SafeKinds), NEW err, GiveUp(kinds, err)
  PROVE  PlayerStep
  <1> DEFINE told == IF err \in Silent \cup {"ok"} THEN <<>> ELSE <<Disconnect("play")>>
  <1>1. told \in Seq(SafeKinds)
    BY SafeLists
  <1> HIDE DEF told
  <1>2. kinds \o told \in Seq(SafeKinds)
    BY <1>1, KindsJoin
  <1>3. End(kinds \o told, err)
    BY DEF GiveUp, told
  <1>4. Writes /\ pc' = "ended"
    BY <1>2, <1>3, EndWrites, Zenon
  <1> QED
    BY <1>4 DEF GiveUp, PlayerStep

LEMMA EnterLimboWrites ==
  ASSUME NEW play, NEW kinds \in Seq(SafeKinds), EnterLimbo(play, kinds)
  PROVE  Writes /\ pc' \in During
  <1>1. /\ kinds \o <<"World">> \in Seq(SafeKinds)
        /\ kinds \o <<"StartConfiguration">> \in Seq(SafeKinds)
        /\ kinds \o LimboConfig \in Seq(SafeKinds)
    BY SafeLists, KindsJoin
  <1> QED
    BY <1>1, Zenon DEF EnterLimbo, Write, Writes, During

LEMMA BackendLostIsStep ==
  ASSUME LoginTypes, pc \in During, Reads, NEW err, BackendLost(err)
  PROVE  PlayerStep
  <1>1. CASE inPlay
    BY <1>1, SafeLists, GiveUpIsStep, Zenon DEF BackendLost
  <1>2. CASE ~inPlay
    <2>1. /\ EnterLimbo(FALSE, <<>>)
          /\ UNCHANGED <<setup, conn, acked, frame, buffered, session, metric, client>>
      BY <1>2, Zenon DEF BackendLost
    <2>2. Writes /\ pc' \in During
      BY <2>1, SafeLists, EnterLimboWrites, Zenon
    <2> QED
      BY <2>1, <2>2 DEF PlayerStep
  <1> QED
    BY <1>1, <1>2

(* Packets that are written as they stand.                                 *)
LEMMA WriteWrites ==
  ASSUME NEW kinds \in Seq(SafeKinds), Write(kinds)
  PROVE  Writes
  BY ZenonT(60) DEF Write, Writes

(* Steps that keep the session.                                            *)
LEMMA KeepsIsStep ==
  ASSUME LoginTypes, pc \in During, pc' \in During, Reads, Writes,
         UNCHANGED <<setup, frame, session, metric, client>>, conn' \in {conn, "play"}
  PROVE  PlayerStep
  BY DEF PlayerStep

LEMMA TaskSteps ==
  ASSUME LoginTypes, Task, pc \notin Before
  PROVE  PlayerStep
  <1>0. (UNCHANGED toClient => Writes) /\ (Take => Reads) /\ (UNCHANGED toProxy => Reads)
    BY UnchangedWrites DEF Take, Reads
  <1>1. CASE Join
    <2>1. pc \in During /\ Reads
      BY <1>0, <1>1 DEF Join, During
    <2>2. CASE GiveUp(<<>>, "auth")
      BY <2>1, <2>2, SafeLists, GiveUpIsStep, Zenon
    <2>3. CASE /\ pc' = "backendLogin" /\ inPlay' = FALSE
               /\ UNCHANGED <<setup, conn, acked, frame, drained, buffered, session, metric, spoilt,
                              client, toClient>>
      BY <1>0, <2>1, <2>3, KeepsIsStep DEF During
    <2>4. CASE /\ EnterLimbo(FALSE, <<>>)
               /\ UNCHANGED <<setup, conn, acked, frame, buffered, session, metric, client>>
      <3>1. Writes /\ pc' \in During
        BY <2>4, SafeLists, EnterLimboWrites, Zenon
      <3> QED
        BY <2>1, <2>4, <3>1, KeepsIsStep
    <2> QED
      BY <1>1, <2>2, <2>3, <2>4, Zenon DEF Join
  <1>2. CASE ReadAnswer
    <2>1. pc \in During /\ pc' \in During
      BY <1>2 DEF ReadAnswer, During
    <2> QED
      BY <1>0, <1>2, <2>1, KeepsIsStep DEF ReadAnswer, proxy
  <1>a. CASE AnswerLost
    <2>1. pc \in During /\ BackendLost("io") /\ Take
      BY <1>a DEF AnswerLost, During
    <2> QED
      BY <1>0, <2>1, BackendLostIsStep
  <1>3. CASE ReadLoginAck
    BY <1>0, <1>3, KeepsIsStep DEF ReadLoginAck, During
  <1>4. CASE ReadConfigAck
    <2>1. pc \in During /\ pc' \in During
      BY <1>4 DEF ReadConfigAck, During
    <2> QED
      BY <1>0, <1>4, <2>1, KeepsIsStep DEF ReadConfigAck
  <1>5. CASE ReadFinishAck
    <2>1. pc \in During /\ pc' \in During
      BY <1>5 DEF ReadFinishAck, During
    <2> QED
      BY <1>0, <1>5, <2>1, KeepsIsStep DEF ReadFinishAck, proxy
  <1>6. CASE AcknowledgeBackend
    BY <1>0, <1>6, KeepsIsStep DEF AcknowledgeBackend, Relays, During
  <1>7. CASE LimboReadsAck
    <2>1. Writes
      BY <1>7, SafeLists, WriteWrites DEF LimboReadsAck
    <2> QED
      BY <1>0, <1>7, <2>1, KeepsIsStep DEF LimboReadsAck, proxy, During
  <1>8. CASE LimboReadsConfigAck
    <2>1. Writes
      BY <1>0, <1>8, SafeLists, WriteWrites DEF LimboReadsConfigAck
    <2>2. pc \in During /\ pc' \in During
      BY <1>8 DEF LimboReadsConfigAck, During
    <2> QED
      BY <1>0, <1>8, <2>1, <2>2, KeepsIsStep DEF LimboReadsConfigAck, proxy
  <1>9. CASE LimboReadsFinishAck
    <2>1. Writes
      BY <1>0, <1>9, SafeLists, WriteWrites, Zenon DEF LimboReadsFinishAck
    <2>2. pc \in During /\ pc' \in During
      BY <1>9 DEF LimboReadsFinishAck, During
    <2> QED
      BY <1>0, <1>9, <2>1, <2>2, KeepsIsStep DEF LimboReadsFinishAck
  <1>10. CASE LimboReads
    BY <1>0, <1>10, KeepsIsStep DEF LimboReads, proxy, During
  <1>11. CASE TimedOut
    <2>1. pc \in During /\ BackendLost("io") /\ UNCHANGED toProxy
      BY <1>11 DEF TimedOut, Before, During
    <2> QED
      BY <1>0, <2>1, BackendLostIsStep
  <1>12. CASE NoticesClosed
    <2>1. pc \in During
      BY <1>12 DEF NoticesClosed, ReadsClient, Before, During
    <2>2. \/ GiveUp(<<>>, "closed") /\ UNCHANGED toProxy
          \/ BackendLost("closed") /\ UNCHANGED toProxy
      BY <1>12 DEF NoticesClosed, Before
    <2> QED
      BY <1>0, <2>1, <2>2, SafeLists, GiveUpIsStep, BackendLostIsStep, Zenon
  <1>13. ~(Peek \/ ReadHandshake \/ HandleStatus \/ ReadLoginStart \/ ReadEncryptionResponse)
    BY DEF Peek, ReadHandshake, HandleStatus, ReadLoginStart, ReadEncryptionResponse, Before
  <1> QED
    BY <1>1, <1>2, <1>3, <1>4, <1>5, <1>6, <1>7, <1>8, <1>9, <1>10, <1>11, <1>12, <1>13,
       <1>a DEF Task

LEMMA BackendSteps ==
  ASSUME LoginTypes,
         \/ Backend \/ BackendConfigures \/ RelayEnds \/ Switch \/ LimboLeaves \/ LimboShutdown
  PROVE  PlayerStep
  <1>0. (UNCHANGED toClient => Writes) /\ (UNCHANGED toProxy => Reads)
    BY UnchangedWrites DEF Reads
  <1>1. CASE BackendFails
    <2>1. pc \in During /\ UNCHANGED toProxy
      BY <1>1 DEF BackendFails, BackendStages, During
    <2> QED
      BY <1>0, <1>1, <2>1, BackendLostIsStep DEF BackendFails
  <1>2. CASE BackendSuccess
    <2>1. CASE Relays /\ UNCHANGED toClient
      BY <1>0, <1>2, <2>1, KeepsIsStep DEF BackendSuccess, Relays, During
    <2>2. CASE /\ pc' = "configAck" /\ Write(<<"StartConfiguration">>)
               /\ UNCHANGED <<setup, proxy, client, left>>
      <3>1. Writes
        BY <2>2, SafeLists, WriteWrites, Zenon
      <3> QED
        BY <1>0, <1>2, <2>2, <3>1, KeepsIsStep DEF BackendSuccess, During, proxy
    <2>3. CASE pc' = "loginAck" /\ UNCHANGED <<setup, proxy, client, toClient, left>>
      BY <1>0, <1>2, <2>3, KeepsIsStep DEF BackendSuccess, During, proxy
    <2>4. CASE pc' = "worldReset" /\ UNCHANGED <<setup, proxy, client, toClient, left>>
      BY <1>0, <1>2, <2>4, KeepsIsStep DEF BackendSuccess, During, proxy
    <2> QED
      BY <1>2, <2>1, <2>2, <2>3, <2>4 DEF BackendSuccess
  <1>3. CASE BackendAsks
    <2>1. /\ pc \in During /\ pc' \in During
          /\ UNCHANGED <<setup, proxy, client, toProxy>>
          /\ \E k \in {"LoginPlugin", "ConfigPing", "Channel", "KnownPacks"} : Write(<<k>>)
      BY <1>3 DEF BackendAsks, Asks, During
    <2>2. Writes
      BY <2>1, SafeLists, WriteWrites, ZenonT(60)
    <2> QED
      BY <1>0, <2>1, <2>2, KeepsIsStep DEF proxy
  <1>4. CASE BackendFinishes
    <2> DEFINE kinds == (IF buffered THEN <<"RegistryData">> ELSE <<>>) \o <<"Finish">>
    <2>1. (IF buffered THEN <<"RegistryData">> ELSE <<>>) \in Seq(SafeKinds)
      BY SafeLists
    <2>2. kinds \in Seq(SafeKinds)
      BY <2>1, SafeLists, KindsJoin
    <2>3. Write(kinds)
      BY <1>4 DEF BackendFinishes
    <2> HIDE DEF kinds
    <2>4. Writes
      BY <2>2, <2>3, WriteWrites
    <2> QED
      BY <1>0, <1>4, <2>4, KeepsIsStep DEF BackendFinishes, During
  <1>5. CASE BackendConfigures
    BY <1>0, <1>5, KeepsIsStep DEF BackendConfigures, During
  <1>6. CASE RelayEnds
    BY <1>0, <1>6 DEF RelayEnds, PlayerStep, During
  <1>7. CASE Switch
    <2>1. PICK kinds \in {<<>>, <<"Chat">>} : EnterLimbo(TRUE, kinds)
      BY <1>7, Zenon DEF Switch
    <2>2. Writes /\ pc' \in During
      BY <2>1, SafeLists, EnterLimboWrites, Zenon
    <2> QED
      BY <1>0, <1>7, <2>2, KeepsIsStep DEF Switch, During
  <1>8. CASE LimboLeaves
    <2>1. Writes
      BY <1>8, SafeLists, WriteWrites, Zenon DEF LimboLeaves
    <2> QED
      BY <1>0, <1>8, <2>1, KeepsIsStep DEF LimboLeaves, During
  <1>9. CASE LimboShutdown
    <2>1. pc \in During /\ UNCHANGED toProxy /\ GiveUp(<<Disconnect("play")>>, "closed")
      BY <1>9 DEF LimboShutdown, During
    <2> QED
      BY <1>0, <2>1, SafeLists, GiveUpIsStep, Zenon
  <1>10. CASE WorldReset
    <2>1. PICK kinds \in {<<>>, <<"Respawn">>, <<"Respawn", "Respawn">>, <<"Chat">>} : Write(kinds)
      BY <1>10, Zenon DEF WorldReset
    <2>2. Writes
      BY <2>1, SafeLists, WriteWrites, Zenon
    <2>3. pc = "worldReset" /\ Relays /\ UNCHANGED toProxy
      BY <1>10 DEF WorldReset
    <2> QED
      BY <1>0, <2>2, <2>3, KeepsIsStep DEF Relays, During
  <1> QED
    BY <1>1, <1>2, <1>3, <1>4, <1>5, <1>6, <1>7, <1>8, <1>9, <1>10 DEF Backend

-----------------------------------------------------------------------------
(* What the end of the login writes: the packets sent before the framing   *)
(* changes from b to a, and packets that leave it alone.                   *)
Opening(s, sent, b, a) ==
  /\ s \in Seq(Packet) /\ Len(s) >= Len(sent)
  /\ \A i \in 1..Len(s) : IF i <= Len(sent) THEN s[i].kind = sent[i] /\ s[i].frame = b
                          ELSE s[i].kind \in SafeKinds /\ s[i].frame = a

LEMMA OpeningStarts ==
  ASSUME NEW sent \in Seq(Kinds), NEW b \in Frames, NEW a \in Frames
  PROVE  Opening(Framed(sent, b), sent, b, a)
  BY FramedIs, LenProperties DEF Opening

LEMMA OpeningGrows ==
  ASSUME NEW s, NEW sent \in Seq(Kinds), NEW b \in Frames, NEW a \in Frames, Opening(s, sent, b, a),
         NEW kinds \in Seq(SafeKinds)
  PROVE  Opening(s \o Framed(kinds, a), sent, b, a)
  <1>1. SafeKinds \in SUBSET Kinds
    BY DEF Kinds
  <1>2. s \in Seq(Packet) /\ Len(s) \in Nat /\ Len(sent) \in Nat /\ Len(kinds) \in Nat
    BY LenProperties DEF Opening
  <1> DEFINE t == s \o Framed(kinds, a)
  <1>3. /\ t \in Seq(Packet) /\ Len(t) = Len(s) + Len(kinds)
        /\ \A i \in 1..Len(s) : t[i] = s[i]
        /\ \A i \in 1..(Len(s) + Len(kinds)) : i > Len(s) => t[i].frame = a /\ t[i].kind \in SafeKinds
    BY <1>1, <1>2, StreamGrows, ZenonT(60)
  <1> HIDE DEF t
  <1>4. ASSUME NEW i \in 1..Len(t)
        PROVE  IF i <= Len(sent) THEN t[i].kind = sent[i] /\ t[i].frame = b
               ELSE t[i].kind \in SafeKinds /\ t[i].frame = a
    <2>1. CASE i \in 1..Len(s)
      BY <1>3, <2>1 DEF Opening
    <2>2. CASE i > Len(s)
      <3>1. ~(i <= Len(sent)) /\ i \in 1..(Len(s) + Len(kinds))
        BY <1>2, <1>3, <2>2 DEF Opening
      <3> QED
        BY <1>3, <2>2, <3>1
    <2> QED
      BY <1>2, <2>1, <2>2
  <1>5. Len(t) >= Len(sent)
    BY <1>2, <1>3 DEF Opening
  <1>6. Opening(t, sent, b, a)
    BY <1>3, <1>4, <1>5 DEF Opening
  <1> QED
    BY <1>6 DEF t

LEMMA FinaliseIs ==
  ASSUME LoginTypes, NEW sent \in Seq(Kinds), NEW b \in Frames, NEW a \in Frames,
         Finalise(sent, [before |-> b, after |-> a])
  PROVE  /\ conn' = "login" /\ frame' = a /\ toClient' \in Seq(Packet)
         /\ toClient = <<>> => Opening(toClient', sent, b, a)
         /\ \/ pc' = "ended" /\ UNCHANGED <<session, metric>>
            \/ pc' = "joining" /\ session' = TRUE /\ metric' = TRUE
  <1> DEFINE first == Framed(sent, b)
             success == first \o Framed(<<"LoginSuccess">>, a)
             refusal == first \o Framed(<<Disconnect("login"), Disconnect("login")>>, a)
             packs == IF setup.pack THEN <<"ResourcePack">> ELSE <<>>
             pack == Framed(packs, a)
  <1>1. /\ <<"LoginSuccess">> \in Seq(SafeKinds) /\ packs \in Seq(SafeKinds)
        /\ <<Disconnect("login"), Disconnect("login")>> \in Seq(SafeKinds)
    <2>1. {"LoginSuccess", "ResourcePack", Disconnect("login")} \subseteq SafeKinds
      BY DEF SafeKinds, Disconnect
    <2> QED
      BY <2>1, ShortLists
  <1>2. /\ conn' = "login" /\ frame' = a
        /\ \/ /\ pc' = "ended" /\ UNCHANGED <<session, metric>>
              /\ toClient' = toClient \o refusal
           \/ /\ pc' = "joining" /\ session' = TRUE /\ metric' = TRUE
              /\ toClient' = toClient \o success \o pack
    BY Zenon DEF Finalise
  <1>3. /\ Opening(success, sent, b, a) /\ Opening(refusal, sent, b, a)
        /\ Opening(success \o pack, sent, b, a)
    <2> HIDE DEF packs
    <2>1. Opening(first, sent, b, a)
      BY OpeningStarts
    <2>2. Opening(success, sent, b, a) /\ Opening(refusal, sent, b, a)
      BY <1>1, <2>1, OpeningGrows, Zenon
    <2> HIDE DEF success
    <2> QED
      BY <1>1, <2>2, OpeningGrows
  <1>4. pack \in Seq(Packet)
    <2>1. packs \in Seq(Kinds)
      BY ShortLists, Zenon DEF Kinds, SafeKinds
    <2> HIDE DEF packs
    <2> QED
      BY <2>1, FramedIs
  <1>5. success \in Seq(Packet) /\ refusal \in Seq(Packet) /\ toClient \in Seq(Packet)
    BY <1>3 DEF Opening, LoginTypes
  <1> HIDE DEF success, refusal, pack
  <1>6. toClient \o refusal \in Seq(Packet) /\ (toClient \o success) \o pack \in Seq(Packet)
    BY <1>4, <1>5, ConcatProperties
  <1>7. ASSUME toClient = <<>>
        PROVE  toClient \o refusal = refusal /\ toClient \o success = success
    BY <1>5, <1>7, ConcatEmptySeq
  <1> QED
    BY <1>2, <1>3, <1>6, <1>7, Zenon

-----------------------------------------------------------------------------
(* A step of the task before the login is settled, other than the end of   *)
(* the login.                                                              *)
EarlyStep ==
  /\ pc \in Before /\ UNCHANGED <<setup, frame, session, metric, client>>
  /\ \/ /\ pc = "peek" /\ pc' = "handshake" /\ toProxy # <<>>
        /\ Received \notin {"LegacyPing", "LegacyLogin"} /\ UNCHANGED <<conn, toClient, toProxy>>
     \/ /\ pc = "handshake" /\ pc' \in {"status", "loginStart"} /\ conn' # "play"
        /\ Take /\ UNCHANGED toClient
     \/ /\ pc = "status" /\ pc' = "statusPing" /\ UNCHANGED conn
        /\ Take /\ Write(<<"StatusResponse">>)
     \/ /\ pc = "loginStart" /\ pc' = "encResponse" /\ UNCHANGED conn
        /\ Take /\ Write(<<"EncryptionRequest">>)
     \/ /\ pc' = "ended" /\ Reads
        /\ \E kinds \in Seq(SafeKinds) :
             /\ Write(kinds)
             /\ pc = "encResponse" /\ ~Legacy /\ conn # "play" =>
                  kinds = <<>> \/ (Take /\ kinds \in Seq({"LoginDisconnect"}))

(* The end of the login, with the framing b before SetCompression and a    *)
(* after it.                                                               *)
Settles(sent, b, a) ==
  /\ pc \in Before /\ UNCHANGED <<setup, client>> /\ Take
  /\ Finalise(sent, [before |-> b, after |-> a])

LEMMA EarlyEnd ==
  ASSUME LoginTypes, pc \in Before, Reads, NEW kinds \in Seq(SafeKinds), NEW err, End(kinds, err),
         pc = "encResponse" => \/ kinds = <<>> /\ err \in Silent
                               \/ Take /\ kinds \in Seq({"LoginDisconnect"}),
         UNCHANGED <<setup, frame, session, metric, client>>
  PROVE  EarlyStep
  <1>1. kinds \o GracefulKick(err) \in Seq(SafeKinds)
    BY KickIsSafe, KindsJoin
  <1>2. ASSUME pc = "encResponse", ~Legacy, conn # "play"
        PROVE  \/ kinds \o GracefulKick(err) = <<>>
               \/ Take /\ kinds \o GracefulKick(err) \in Seq({"LoginDisconnect"})
    <2>1. CASE kinds = <<>> /\ err \in Silent
      <3>1. GracefulKick(err) = <<>>
        BY <1>2, <2>1 DEF GracefulKick
      <3> QED
        BY <2>1, <3>1, ConcatEmptySeq
    <2>2. CASE Take /\ kinds \in Seq({"LoginDisconnect"})
      <3>1. GracefulKick(err) \in Seq({"LoginDisconnect"})
        BY <1>2, ShortLists, Zenon DEF GracefulKick, Disconnect
      <3> QED
        BY <2>2, <3>1, ConcatProperties
    <2> QED
      BY <1>2, <2>1, <2>2
  <1> QED
    BY <1>1, <1>2, Zenon DEF End, EarlyStep

LEMMA EarlyLists ==
  /\ <<>> \in Seq(SafeKinds) /\ <<"Motd">> \in Seq(SafeKinds) /\ <<"Incompatible">> \in Seq(SafeKinds)
  /\ <<"Pong">> \in Seq(SafeKinds) /\ <<"LoginDisconnect">> \in Seq(SafeKinds)
  /\ <<"LegacyDisconnect">> \in Seq(SafeKinds)
  /\ <<>> \in Seq({"LoginDisconnect"}) /\ <<"LoginDisconnect">> \in Seq({"LoginDisconnect"})
  <1>1. {"Motd", "Incompatible", "Pong", "LoginDisconnect", "LegacyDisconnect"} \subseteq SafeKinds
    BY DEF SafeKinds
  <1> QED
    BY <1>1, ShortLists

LEMMA EarlySteps ==
  ASSUME LoginTypes, Task, pc \in Before
  PROVE  \/ EarlyStep
         \/ pc = "peek" /\ Received = "LegacyLogin" /\ Settles(<<>>, frame, frame)
         \/ /\ pc = "loginStart" /\ ~setup.online
            /\ Settles(SetCompression, frame, Compressed(frame))
         \/ /\ pc = "encResponse"
            /\ Settles(SetCompression, [frame EXCEPT !.enc = TRUE], Compressed([frame EXCEPT !.enc = TRUE]))
  <1>0. (Take => Reads) /\ (UNCHANGED toProxy => Reads)
    BY DEF Take, Reads
  <1>1. CASE Peek
    <2>0. pc = "peek" /\ UNCHANGED <<setup, client>>
      BY <1>1 DEF Peek
    <2>1. CASE HandleLegacyPing
      BY <1>0, <2>0, <2>1, EarlyLists, EarlyEnd, Zenon DEF HandleLegacyPing, proxy
    <2>2. CASE HandleBedrock
      BY <1>0, <2>0, <2>2, EarlyLists, EarlyEnd, Zenon DEF HandleBedrock, proxy
    <2>3. CASE HandleLegacyLogin
      <3>1. Received = "LegacyLogin" /\ Take
        BY <2>3 DEF HandleLegacyLogin
      <3>2. CASE /\ pc' = "ended" /\ Write(<<"LegacyDisconnect">>)
                 /\ UNCHANGED <<acked, inPlay, frame, drained, buffered, session, metric, spoilt>>
        BY <1>0, <2>0, <3>1, <3>2, EarlyLists, Zenon DEF EarlyStep
      <3>3. CASE Finalise(<<>>, [before |-> frame, after |-> frame])
        BY <2>0, <3>1, <3>3 DEF Settles
      <3> QED
        BY <2>3, <3>2, <3>3 DEF HandleLegacyLogin
    <2>4. CASE PushPrefix
      BY <1>1, <2>0, <2>4 DEF Peek, PushPrefix, EarlyStep, Before, proxy
    <2> QED
      BY <1>1, <2>1, <2>2, <2>3, <2>4 DEF Peek
  <1>2. CASE ReadHandshake
    <2>0. /\ pc = "handshake" /\ Take
          /\ UNCHANGED <<setup, acked, inPlay, frame, drained, buffered, session, metric, spoilt, client, left>>
      BY <1>2 DEF ReadHandshake
    <2>1. CASE End(<<>>, "closed")
      BY <1>0, <2>0, <2>1, EarlyLists, EarlyEnd, Zenon
    <2>2. CASE pc' \in {"status", "loginStart"} /\ conn' # "play" /\ UNCHANGED toClient
      BY <2>0, <2>2 DEF EarlyStep, Before
    <2> QED
      BY <1>2, <2>1, <2>2 DEF ReadHandshake
  <1>3. CASE HandleStatus
    <2>0. Take /\ UNCHANGED <<setup, proxy, client, left>>
      BY <1>3 DEF HandleStatus
    <2>1. CASE pc = "statusPing" /\ End(<<"Pong">>, "ok")
      BY <1>0, <2>0, <2>1, EarlyLists, EarlyEnd, Zenon DEF proxy
    <2>2. CASE pc = "status" /\ pc' = "statusPing" /\ Write(<<"StatusResponse">>)
      BY <2>0, <2>2 DEF EarlyStep, Before, proxy
    <2> QED
      BY <1>3, <2>1, <2>2 DEF HandleStatus
  <1>4. CASE ReadLoginStart
    <2>0. pc = "loginStart" /\ Take /\ UNCHANGED <<setup, client, left>>
      BY <1>4 DEF ReadLoginStart
    <2>1. CASE End(<<"LoginDisconnect">>, "auth") /\ UNCHANGED proxy
      BY <1>0, <2>0, <2>1, EarlyLists, EarlyEnd, Zenon DEF proxy
    <2>2. CASE pc' = "encResponse" /\ Write(<<"EncryptionRequest">>) /\ UNCHANGED proxy
      BY <2>0, <2>2 DEF EarlyStep, Before, proxy
    <2>3. CASE ~setup.online /\ Finalise(SetCompression, [before |-> frame, after |-> Compressed(frame)])
      BY <2>0, <2>3 DEF Settles
    <2> QED
      BY <1>4, <2>1, <2>2, <2>3 DEF ReadLoginStart
  <1>5. CASE ReadEncryptionResponse
    <2>0. pc = "encResponse" /\ Take /\ UNCHANGED <<setup, client, left>>
      BY <1>5 DEF ReadEncryptionResponse
    <2>1. CASE End(<<"LoginDisconnect">>, "auth") /\ UNCHANGED proxy
      BY <1>0, <2>0, <2>1, EarlyLists, EarlyEnd, Zenon DEF proxy
    <2>2. CASE Finalise(SetCompression, [before |-> [frame EXCEPT !.enc = TRUE],
                                         after |-> Compressed([frame EXCEPT !.enc = TRUE])])
      BY <2>0, <2>2 DEF Settles
    <2> QED
      BY <1>5, <2>1, <2>2 DEF ReadEncryptionResponse
  <1>6. CASE TimedOut
    <2>1. Fail(<<>>, "io")
      BY <1>6 DEF TimedOut, Before
    <2> QED
      BY <1>0, <2>1, EarlyLists, EarlyEnd, Zenon DEF Fail, proxy, Silent
  <1>7. CASE NoticesClosed
    <2>1. Fail(<<>>, "closed")
      BY <1>7 DEF NoticesClosed, Before
    <2> QED
      BY <1>0, <2>1, EarlyLists, EarlyEnd, Zenon DEF Fail, proxy, Silent
  <1>8. ~\/ Join \/ ReadAnswer \/ AnswerLost \/ ReadLoginAck \/ ReadConfigAck \/ ReadFinishAck \/ AcknowledgeBackend
         \/ LimboReadsAck \/ LimboReadsConfigAck \/ LimboReadsFinishAck \/ LimboReads
    BY Zenon DEF Join, ReadAnswer, AnswerLost, ReadLoginAck, ReadConfigAck, ReadFinishAck, AcknowledgeBackend,
           LimboReadsAck, LimboReadsConfigAck, LimboReadsFinishAck, LimboReads, Before
  <1> QED
    BY <1>1, <1>2, <1>3, <1>4, <1>5, <1>6, <1>7, <1>8 DEF Task

-----------------------------------------------------------------------------
(* Steps of the client.                                                    *)
Replies == ClientKinds \ {"LegacyPing", "LegacyLogin"}

LEMMA AnswerIs ==
  ASSUME NEW kind
  PROVE  Answer(kind) \in Seq(Replies)
  <1>1. {"PingRequest", "EncryptionResponse", "LoginAck", "LoginPluginAnswer", "FinishAck",
         "KnownPacksAnswer", "ConfigPong", "ChannelAnswer", "ConfigurationAck"} \subseteq Replies
    BY DEF Replies, ClientKinds
  <1>2. /\ <<>> \in Seq(Replies) /\ <<"PingRequest">> \in Seq(Replies)
        /\ <<"EncryptionResponse">> \in Seq(Replies) /\ <<"LoginAck">> \in Seq(Replies)
        /\ <<"LoginPluginAnswer">> \in Seq(Replies) /\ <<"FinishAck">> \in Seq(Replies)
        /\ <<"KnownPacksAnswer">> \in Seq(Replies) /\ <<"ConfigPong">> \in Seq(Replies)
        /\ <<"ChannelAnswer">> \in Seq(Replies) /\ <<"ConfigurationAck">> \in Seq(Replies)
    BY <1>1, ShortLists
  <1> QED
    BY <1>2 DEF Answer

LEMMA TakenIs ==
  ASSUME LoginTypes, NEW kind
  PROVE  /\ Taken(kind) \in [state : States, frame : Frames]
         /\ kind \notin {"EncryptionRequest", "SetCompression"} => Taken(kind).frame = client.frame
         /\ kind = "EncryptionRequest" => Taken(kind).frame = [client.frame EXCEPT !.enc = TRUE]
         /\ kind = "SetCompression" => Taken(kind).frame = [client.frame EXCEPT !.comp = TRUE]
  <1>1. client.state \in States /\ client.frame \in Frames
    BY DEF LoginTypes
  <1>2. /\ [client.frame EXCEPT !.enc = TRUE] \in Frames
        /\ [client.frame EXCEPT !.comp = TRUE] \in Frames
    BY <1>1, Zenon DEF Frames
  <1> DEFINE f == Taken(kind).frame
             st == Taken(kind).state
  <1>3. Taken(kind) = [state |-> st, frame |-> f]
    BY DEF Taken
  <1>4. f = CASE kind = "EncryptionRequest" -> [client.frame EXCEPT !.enc = TRUE]
              [] kind = "SetCompression" -> [client.frame EXCEPT !.comp = TRUE]
              [] OTHER -> client.frame
    BY DEF Taken
  <1>5. st \in States
    BY <1>1 DEF Taken, States, Gone
  <1> HIDE DEF f, st
  <1>6. f \in Frames
    BY <1>1, <1>2, <1>4
  <1> QED
    BY <1>3, <1>4, <1>5, <1>6

LEMMA OpeningKinds ==
  ASSUME NEW o \in Openings, NEW kinds,
         kinds = CASE o = "HandshakeStatus" -> <<o, "StatusRequest">>
                   [] o = "HandshakeLogin" -> <<o, "LoginStart">>
                   [] OTHER -> <<o>>
  PROVE  /\ kinds \in Seq(ClientKinds) /\ Len(kinds) <= 2
         /\ Legacy => kinds \in Seq({"LegacyPing", "LegacyLogin"})
         /\ ~Legacy => kinds \in Seq(Replies)
  <1>1. /\ Legacy => o \in {"LegacyPing", "LegacyLogin"}
        /\ ~Legacy => o \in Replies
        /\ o \in ClientKinds /\ "StatusRequest" \in Replies /\ "LoginStart" \in Replies
    BY DEF Openings, Replies, ClientKinds
  <1>2. kinds = <<o, "StatusRequest">> \/ kinds = <<o, "LoginStart">> \/ kinds = <<o>>
    OBVIOUS
  <1>3. Legacy => kinds = <<o>>
    BY DEF Openings
  <1>4. kinds \in Seq(ClientKinds) /\ (~Legacy => kinds \in Seq(Replies))
    BY <1>1, <1>2, ShortLists, Zenon DEF Replies
  <1>5. Legacy => kinds \in Seq({"LegacyPing", "LegacyLogin"})
    BY <1>1, <1>3, ShortLists
  <1>6. Len(kinds) <= 2
    BY <1>2
  <1> QED
    BY <1>4, <1>5, <1>6

LEMMA ClientTypes ==
  ASSUME LoginTypes, ClientReads \/ ClientOpens \/ ClientChats \/ ClientLeaves
  PROVE  /\ UNCHANGED <<setup, pc, proxy>> /\ LoginTypes'
         /\ \A i \in 1..Len(toProxy') : toProxy'[i].kind = "LegacyLogin" =>
              Legacy \/ (i \in 1..Len(toProxy) /\ toProxy[i].kind = "LegacyLogin")
  <1>0. /\ toClient \in Seq(Packet) /\ toProxy \in Seq(Packet) /\ Len(toProxy) \in Nat
        /\ client \in [state : States, frame : Frames] /\ client.frame \in Frames
    BY LenProperties DEF LoginTypes
  <1>k. Replies \in SUBSET Kinds /\ ClientKinds \in SUBSET Kinds /\ "LegacyLogin" \notin Replies
    BY DEF Replies, Kinds
  <1>s. ASSUME client' \in [state : States, frame : Frames], toClient' \in Seq(Packet),
               toProxy' \in Seq(Packet), UNCHANGED <<setup, pc, proxy>>
        PROVE  LoginTypes'
    BY <1>s DEF LoginTypes, proxy
  <1>g. ASSUME NEW kinds \in Seq(Replies), NEW f \in Frames, toProxy' = toProxy \o Framed(kinds, f)
        PROVE  /\ toProxy' \in Seq(Packet)
               /\ \A i \in 1..Len(toProxy') : toProxy'[i].kind = "LegacyLogin" =>
                    i \in 1..Len(toProxy) /\ toProxy[i].kind = "LegacyLogin"
    <2>1. /\ toProxy' \in Seq(Packet) /\ Len(toProxy') = Len(toProxy) + Len(kinds)
          /\ \A i \in 1..Len(toProxy) : toProxy'[i] = toProxy[i]
          /\ \A i \in 1..(Len(toProxy) + Len(kinds)) : i > Len(toProxy) => toProxy'[i].kind \in Replies
      <3> DEFINE t == toProxy \o Framed(kinds, f)
      <3>1. toProxy \in Seq(Packet) /\ Replies \in SUBSET Kinds
        BY <1>0, <1>k
      <3>2. /\ t \in Seq(Packet) /\ Len(t) = Len(toProxy) + Len(kinds)
            /\ \A i \in 1..Len(toProxy) : t[i] = toProxy[i]
            /\ \A i \in 1..(Len(toProxy) + Len(kinds)) : i > Len(toProxy) => t[i].kind \in Replies
        BY <3>1, StreamGrows
      <3>3. toProxy' = t
        BY <1>g
      <3> HIDE DEF t
      <3> QED
        BY <3>2, <3>3
    <2>2. Len(kinds) \in Nat
      BY LenProperties
    <2> QED
      BY <1>0, <1>k, <2>1, <2>2
  <1>1. CASE ClientReads
    <2>1. /\ UNCHANGED <<setup, pc, proxy>> /\ toClient' \in Seq(Packet)
      BY <1>0, <1>1, StreamShrinks DEF ClientReads
    <2>2. CASE Readable(Head(toClient))
      <3>1. client' = Taken(Head(toClient).kind)
            /\ toProxy' = toProxy \o Framed(Answer(Head(toClient).kind), client.frame)
        BY <1>1, <2>2 DEF ClientReads
      <3> QED
        BY <1>0, <1>g, <1>s, <2>1, <3>1, AnswerIs, TakenIs, Zenon
    <2>3. CASE ~Readable(Head(toClient))
      <3>1. client' = [client EXCEPT !.state = "broken"] /\ UNCHANGED toProxy
        BY <1>1, <2>3 DEF ClientReads
      <3>2. client' \in [state : States, frame : Frames]
        BY <1>0, <3>1 DEF States, Gone
      <3> QED
        BY <1>0, <1>s, <2>1, <3>1, <3>2
    <2> QED
      BY <2>2, <2>3
  <1>2. CASE ClientOpens
    <2>1. PICK o \in Openings :
            /\ client' = [client EXCEPT !.state = IF o = "HandshakeStatus" THEN "status" ELSE "login"]
            /\ toProxy' = Framed(CASE o = "HandshakeStatus" -> <<o, "StatusRequest">>
                                   [] o = "HandshakeLogin" -> <<o, "LoginStart">>
                                   [] OTHER -> <<o>>, Plain)
      BY <1>2 DEF ClientOpens
    <2> DEFINE kinds == CASE o = "HandshakeStatus" -> <<o, "StatusRequest">>
                          [] o = "HandshakeLogin" -> <<o, "LoginStart">>
                          [] OTHER -> <<o>>
    <2>2. kinds \in Seq(ClientKinds) /\ (~Legacy => kinds \in Seq(Replies))
      BY OpeningKinds, Zenon
    <2> HIDE DEF kinds
    <2>3. kinds \in Seq(Kinds) /\ Plain \in Frames
      BY <1>k, <2>2, SeqMonotonic DEF Plain, Frames
    <2>4. toProxy' = Framed(kinds, Plain)
      BY <2>1 DEF kinds
    <2>5. /\ toProxy' \in Seq(Packet) /\ Len(toProxy') = Len(kinds)
          /\ \A i \in 1..Len(kinds) : toProxy'[i].kind = kinds[i]
      BY <2>3, <2>4, FramedIs
    <2>6. ASSUME ~Legacy, NEW i \in 1..Len(kinds) PROVE kinds[i] \in Replies
      BY <2>2, <2>6, ElementOfSeq
    <2>7. client' \in [state : States, frame : Frames]
      BY <1>0, <2>1 DEF States, Gone
    <2>8. UNCHANGED <<setup, pc, proxy, toClient>>
      BY <1>2 DEF ClientOpens
    <2> QED
      BY <1>0, <1>k, <1>s, <2>5, <2>6, <2>7, <2>8
  <1>3. CASE ClientChats
    <2> DEFINE kind == IF client.state = "config" THEN "ClientInformation" ELSE "Move"
    <2>1. <<kind>> \in Seq(Replies)
      BY ShortLists DEF Replies, ClientKinds
    <2>2. toProxy' = toProxy \o Framed(<<kind>>, client.frame) /\ UNCHANGED <<setup, pc, proxy, client, toClient>>
      BY <1>3 DEF ClientChats
    <2> HIDE DEF kind
    <2> QED
      BY <1>0, <1>g, <1>s, <2>1, <2>2, Zenon
  <1>4. CASE ClientLeaves
    <2>1. client' \in [state : States, frame : Frames]
      BY <1>0, <1>4 DEF ClientLeaves, States, Gone
    <2> QED
      BY <1>0, <1>4, <1>s, <2>1 DEF ClientLeaves
  <1> QED
    BY <1>1, <1>2, <1>3, <1>4

-----------------------------------------------------------------------------
(* Types after a step of the task.                                         *)
LEMMA ReadsKeep ==
  ASSUME LoginTypes, Reads
  PROVE  /\ toProxy' \in Seq(Packet) /\ Len(toProxy') <= Len(toProxy)
         /\ Len(toProxy) \in Nat /\ Len(toProxy') \in Nat
         /\ \A i \in 1..Len(toProxy') : \E j \in 1..Len(toProxy) : toProxy'[i] = toProxy[j]
  <1>0. toProxy \in Seq(Packet) /\ Len(toProxy) \in Nat
    BY LenProperties DEF LoginTypes
  <1>1. CASE toProxy' = toProxy
    BY <1>0, <1>1
  <1>2. CASE toProxy # <<>> /\ toProxy' = Tail(toProxy)
    <2>1. /\ toProxy' \in Seq(Packet) /\ Len(toProxy') = Len(toProxy) - 1 /\ Len(toProxy) >= 1
          /\ \A i \in 1..Len(toProxy') : toProxy'[i] = toProxy[i + 1] /\ i + 1 \in 1..Len(toProxy)
      BY <1>0, <1>2, StreamShrinks
    <2> QED
      BY <1>0, <2>1
  <1> QED
    BY <1>1, <1>2 DEF Reads

LEMMA TakeIsRead ==
  ASSUME LoginTypes, Take
  PROVE  Reads /\ Len(toProxy') = Len(toProxy) - 1 /\ Len(toProxy) >= 1 /\ Received = toProxy[1].kind
  BY StreamShrinks DEF LoginTypes, Take, Reads, Received

LEMMA WriteKeeps ==
  ASSUME LoginTypes, NEW kinds \in Seq(Kinds), Write(kinds)
  PROVE  toClient' \in Seq(Packet)
  <1>1. toClient \in Seq(Packet) /\ frame \in Frames /\ Kinds \in SUBSET Kinds
    BY DEF LoginTypes
  <1> QED
    BY <1>1, StreamGrows DEF Write

LEMMA SafeIsKind ==
  /\ \A k \in Seq(SafeKinds) : k \in Seq(Kinds)
  /\ <<"StatusResponse">> \in Seq(Kinds) /\ <<"EncryptionRequest">> \in Seq(Kinds)
  <1>1. SafeKinds \subseteq Kinds /\ "StatusResponse" \in Kinds /\ "EncryptionRequest" \in Kinds
    BY DEF Kinds, SafeKinds
  <1> QED
    BY <1>1, SeqMonotonic, ShortLists

LEMMA PlayerTypes ==
  ASSUME LoginTypes, PlayerStep
  PROVE  LoginTypes'
  <1>1. toProxy' \in Seq(Packet)
    BY ReadsKeep DEF PlayerStep
  <1>2. toClient' \in Seq(Packet)
    BY WriteKeeps, SafeIsKind DEF PlayerStep, Writes, Write
  <1>3. pc' \in During \cup {"ended"} /\ session' \in BOOLEAN /\ metric' \in BOOLEAN
    BY Zenon DEF PlayerStep, LoginTypes
  <1>4. UNCHANGED <<setup, frame, client>>
    BY DEF PlayerStep
  <1> QED
    BY <1>1, <1>2, <1>3, <1>4 DEF LoginTypes

LEMMA EarlyTypes ==
  ASSUME LoginTypes, EarlyStep
  PROVE  LoginTypes' /\ Reads
  <1>0. Reads
    BY DEF EarlyStep, Take, Reads
  <1>1. toProxy' \in Seq(Packet)
    BY <1>0, ReadsKeep
  <1>2. toClient' \in Seq(Packet)
    <2>1. \/ UNCHANGED toClient \/ Write(<<"StatusResponse">>) \/ Write(<<"EncryptionRequest">>)
          \/ \E kinds \in Seq(SafeKinds) : Write(kinds)
      BY DEF EarlyStep
    <2> QED
      BY <2>1, WriteKeeps, SafeIsKind, Zenon DEF LoginTypes
  <1>3. pc' \in Before \cup {"ended"}
    BY DEF EarlyStep, Before
  <1>4. UNCHANGED <<setup, frame, session, metric, client>>
    BY DEF EarlyStep
  <1> QED
    BY <1>0, <1>1, <1>2, <1>3, <1>4 DEF LoginTypes

LEMMA SettledTypes ==
  ASSUME LoginTypes, NEW sent \in Seq(Kinds), NEW b \in Frames, NEW a \in Frames, Settles(sent, b, a)
  PROVE  LoginTypes'
  <1>1. /\ frame' = a /\ toClient' \in Seq(Packet)
        /\ \/ pc' = "ended" /\ UNCHANGED <<session, metric>>
           \/ pc' = "joining" /\ session' = TRUE /\ metric' = TRUE
    BY FinaliseIs, Zenon DEF Settles
  <1>2. toProxy' \in Seq(Packet)
    BY TakeIsRead, ReadsKeep DEF Settles
  <1>3. UNCHANGED <<setup, client>> /\ pc' \in During \cup {"ended"}
    BY <1>1 DEF Settles, During
  <1>4. session' \in BOOLEAN /\ metric' \in BOOLEAN
    BY <1>1, Zenon DEF LoginTypes
  <1> QED
    BY <1>1, <1>2, <1>3, <1>4 DEF LoginTypes

(* The three ways to settle a login.                                       *)
LEMMA SettlingFrames ==
  ASSUME LoginTypes
  PROVE  /\ <<>> \in Seq(Kinds) /\ SetCompression \in Seq(Kinds) /\ frame \in Frames
         /\ \A b \in Frames : /\ Compressed(b) \in Frames /\ Compressed(b).enc = b.enc
                              /\ SetCompression = <<>> /\ b.comp = FALSE => Compressed(b) = b
                              /\ SetCompression # <<>> => Compressed(b) = [b EXCEPT !.comp = TRUE]
         /\ SetCompression = <<>> \/ SetCompression = <<"SetCompression">>
         /\ [frame EXCEPT !.enc = TRUE] \in Frames /\ [frame EXCEPT !.enc = TRUE].enc = TRUE
  <1>1. <<>> \in Seq(Kinds) /\ <<"SetCompression">> \in Seq(Kinds) /\ <<"SetCompression">> # <<>>
    BY ShortLists DEF Kinds
  <1>2. frame \in Frames
    BY DEF LoginTypes
  <1>3. [frame EXCEPT !.enc = TRUE] \in Frames /\ [frame EXCEPT !.enc = TRUE].enc = TRUE
    BY <1>2, Zenon DEF Frames
  <1>4. ASSUME NEW b \in Frames
        PROVE  /\ Compressed(b) \in Frames /\ Compressed(b).enc = b.enc
               /\ SetCompression = <<>> /\ b.comp = FALSE => Compressed(b) = b
               /\ SetCompression # <<>> => Compressed(b) = [b EXCEPT !.comp = TRUE]
    <2>1. CASE setup.compress /\ HasCompression
      <3>1. Compressed(b) = [b EXCEPT !.comp = TRUE] /\ SetCompression # <<>>
        BY <1>1, <2>1, Zenon DEF Compressed, SetCompression
      <3> QED
        BY <3>1, Zenon DEF Frames
    <2>2. CASE ~(setup.compress /\ HasCompression)
      <3>1. Compressed(b) = [b EXCEPT !.comp = FALSE] /\ SetCompression = <<>>
        BY <2>2, Zenon DEF Compressed, SetCompression
      <3> QED
        BY <3>1, ZenonT(60) DEF Frames
    <2> QED
      BY <2>1, <2>2, Zenon
  <1> QED
    BY <1>1, <1>2, <1>3, <1>4, Zenon DEF SetCompression

-----------------------------------------------------------------------------
(* Sessions.                                                               *)
LEMMA TypesHoldFirst == LoginInit => LoginTypes
  <1> SUFFICES ASSUME LoginInit PROVE LoginTypes
    OBVIOUS
  <1>1. Plain \in Frames
    BY DEF Plain, Frames
  <1>2. client \in [state : States, frame : Frames]
    BY <1>1 DEF LoginInit, States
  <1>3. toClient \in Seq(Packet) /\ toProxy \in Seq(Packet)
    BY EmptySeq DEF LoginInit
  <1>4. pc \in Before
    BY DEF LoginInit, Before
  <1> QED
    BY <1>1, <1>2, <1>3, <1>4, Zenon DEF LoginInit, LoginTypes

LEMMA SessionHoldsFirst == LoginInit => SessionInv
  <1> SUFFICES ASSUME LoginInit PROVE SessionInv
    OBVIOUS
  <1>1. LoginTypes
    BY TypesHoldFirst
  <1>2. pc \in Before /\ pc \notin During /\ pc # "ended" /\ DOMAIN toProxy = {} /\ ~session /\ ~metric
    BY DEF LoginInit, Before, During
  <1> QED
    BY <1>1, <1>2 DEF SessionInv

LEMMA StagesApart == Before \cap During = {} /\ "ended" \notin Before \cup During
  BY DEF Before, During

LEMMA SessionStep == SessionInv /\ [LoginNext]_vars => SessionInv'
  <1> SUFFICES ASSUME SessionInv, [LoginNext]_vars PROVE SessionInv'
    OBVIOUS
  <1>0. LoginTypes /\ DOMAIN toProxy = 1..Len(toProxy)
    BY LenProperties DEF SessionInv, LoginTypes
  <1>r. ASSUME Reads, UNCHANGED setup
        PROVE  \A i \in DOMAIN toProxy' : toProxy'[i].kind = "LegacyLogin" => Legacy'
    <2>1. /\ DOMAIN toProxy' = 1..Len(toProxy') /\ Legacy' = Legacy
          /\ \A i \in 1..Len(toProxy') : \E j \in 1..Len(toProxy) : toProxy'[i] = toProxy[j]
      BY <1>0, <1>r, ReadsKeep, LenProperties DEF Legacy
    <2> QED
      BY <1>0, <2>1 DEF SessionInv
  <1>1. CASE ClientReads \/ ClientOpens \/ ClientChats \/ ClientLeaves
    <2>1. /\ UNCHANGED <<setup, pc, proxy>> /\ LoginTypes'
          /\ \A i \in 1..Len(toProxy') : toProxy'[i].kind = "LegacyLogin" =>
               Legacy \/ (i \in 1..Len(toProxy) /\ toProxy[i].kind = "LegacyLogin")
      BY <1>0, <1>1, ClientTypes
    <2>2. DOMAIN toProxy' = 1..Len(toProxy') /\ Legacy' = Legacy
      BY <2>1, LenProperties DEF LoginTypes, Legacy
    <2>3. \A i \in DOMAIN toProxy' : toProxy'[i].kind = "LegacyLogin" => Legacy'
      BY <1>0, <2>1, <2>2 DEF SessionInv
    <2>4. UNCHANGED <<setup, pc, conn, frame, session, metric>>
      BY <2>1 DEF proxy
    <2> QED
      BY <2>1, <2>2, <2>3, <2>4 DEF SessionInv
  <1>2. CASE PlayerStep
    <2>1. LoginTypes' /\ Reads /\ UNCHANGED <<setup, frame>> /\ pc \in During
      BY <1>0, <1>2, PlayerTypes, Zenon DEF PlayerStep
    <2>2. Legacy' = Legacy /\ session /\ metric /\ conn \in {"login", "play"}
          /\ (setup.online /\ ~Legacy => frame.enc)
      BY <2>1 DEF SessionInv, Legacy
    <2>3. CASE pc' \in During /\ UNCHANGED <<session, metric>> /\ conn' \in {conn, "play"}
      <3>1. pc' \notin Before /\ pc' # "ended"
        BY <2>3, StagesApart
      <3>2. session' /\ metric' /\ conn' \in {"login", "play"} /\ (setup'.online /\ ~Legacy' => frame'.enc)
        BY <2>1, <2>2, <2>3
      <3> QED
        BY <1>r, <2>1, <3>1, <3>2 DEF SessionInv
    <2>4. CASE /\ pc' = "ended" /\ conn' = conn /\ session' = FALSE
               /\ metric' \in {FALSE, metric /\ conn = "login"}
      <3>1. pc' \notin Before /\ pc' \notin During
        BY <2>4, StagesApart
      <3>2. ~session' /\ (metric' => conn' = "login")
        BY <2>4, Zenon
      <3> QED
        BY <1>r, <2>1, <3>1, <3>2 DEF SessionInv
    <2> QED
      BY <1>2, <2>3, <2>4, Zenon DEF PlayerStep
  <1>3. CASE EarlyStep
    <2>1. LoginTypes' /\ Reads /\ UNCHANGED <<setup, session, metric>> /\ pc \in Before
      BY <1>0, <1>3, EarlyTypes DEF EarlyStep
    <2>2. ~session' /\ ~metric'
      BY <2>1 DEF SessionInv
    <2>3. pc' \notin During
      BY <1>3, StagesApart DEF EarlyStep, Before, During
    <2> QED
      BY <1>r, <2>1, <2>2, <2>3 DEF SessionInv
  <1>4. ASSUME NEW sent \in Seq(Kinds), NEW b \in Frames, NEW a \in Frames, Settles(sent, b, a),
               setup.online /\ ~Legacy => a.enc
        PROVE  SessionInv'
    <2>1. LoginTypes' /\ Reads /\ UNCHANGED setup /\ pc \in Before /\ Legacy' = Legacy
      BY <1>0, <1>4, SettledTypes, TakeIsRead DEF Settles, Legacy
    <2>2. /\ conn' = "login" /\ frame' = a
          /\ \/ pc' = "ended" /\ UNCHANGED <<session, metric>>
             \/ pc' = "joining" /\ session' = TRUE /\ metric' = TRUE
      BY <1>0, <1>4, FinaliseIs, Zenon DEF Settles
    <2>3. ~session /\ ~metric
      BY <2>1 DEF SessionInv
    <2>4. pc' \notin Before /\ (pc' \in During => pc' = "joining")
      BY <2>2 DEF Before, During
    <2>5. pc' \in During => /\ session' /\ metric' /\ conn' \in {"login", "play"}
                            /\ setup'.online /\ ~Legacy' => frame'.enc
      BY <1>4, <2>1, <2>2, <2>4
    <2>6. pc' = "ended" => ~session' /\ (metric' => conn' = "login")
      BY <2>2, <2>3
    <2> QED
      BY <1>r, <2>1, <2>4, <2>5, <2>6 DEF SessionInv
  <1>5. CASE Task /\ pc \in Before
    <2>1. CASE pc = "peek" /\ Received = "LegacyLogin" /\ Settles(<<>>, frame, frame)
      <3>1. Legacy
        <4>1. toProxy[1].kind = "LegacyLogin" /\ 1 \in DOMAIN toProxy
          BY <1>0, <2>1, TakeIsRead, LenProperties, SMTT(60) DEF Settles, LoginTypes
        <4> QED
          BY <4>1 DEF SessionInv
      <3> QED
        BY <1>0, <1>4, <2>1, <3>1, SettlingFrames, Zenon
    <2>2. CASE ~setup.online /\ Settles(SetCompression, frame, Compressed(frame))
      BY <1>0, <1>4, <2>2, SettlingFrames, Zenon
    <2>3. CASE Settles(SetCompression, [frame EXCEPT !.enc = TRUE], Compressed([frame EXCEPT !.enc = TRUE]))
      <3>1. Compressed([frame EXCEPT !.enc = TRUE]).enc = TRUE
        BY <1>0, SettlingFrames, Zenon
      <3> QED
        BY <1>0, <1>4, <2>3, <3>1, SettlingFrames, Zenon
    <2> QED
      BY <1>0, <1>3, <1>5, <2>1, <2>2, <2>3, EarlySteps
  <1>6. CASE UNCHANGED vars
    <2>1. UNCHANGED <<setup, pc, conn, frame, session, metric, client, toClient, toProxy>>
      BY <1>6 DEF vars, proxy
    <2> QED
      BY <2>1 DEF SessionInv, LoginTypes, Legacy
  <1> QED
    BY <1>0, <1>1, <1>2, <1>5, <1>6, TaskSteps, BackendSteps DEF LoginNext

(* Whichever way a connection ends - a kick, a refusal, a closed socket, a *)
(* time-out, the limbo's shutdown - its session is gone, no session comes  *)
(* before its login, and the metrics stay exactly when it ends between the *)
(* login and the relay (connection.rs, finalise_login).                    *)
THEOREM SessionsEnd == LoginSpec => []EndLeavesNoSession
  <1>1. SessionInv => EndLeavesNoSession
    BY StagesApart DEF SessionInv, EndLeavesNoSession, LoginTypes
  <1> QED
    BY <1>1, SessionHoldsFirst, SessionStep, PTL DEF LoginSpec

-----------------------------------------------------------------------------
(* Framing.                                                                *)
LEMMA WritesInStep ==
  ASSUME LoginTypes, InStep, NEW kinds \in Seq(SafeKinds), Write(kinds), UNCHANGED <<frame, client>>
  PROVE  InStep'
  <1>0. /\ toClient \in Seq(Packet) /\ frame \in Frames /\ SafeKinds \in SUBSET Kinds
        /\ Len(toClient) \in Nat /\ Len(kinds) \in Nat /\ DOMAIN toClient = 1..Len(toClient)
    BY LenProperties DEF LoginTypes, Kinds
  <1>1. /\ toClient' \in Seq(Packet) /\ Len(toClient') = Len(toClient) + Len(kinds)
        /\ \A i \in 1..Len(toClient) : toClient'[i] = toClient[i]
        /\ \A i \in 1..(Len(toClient) + Len(kinds)) : i > Len(toClient) =>
             toClient'[i].frame = frame /\ toClient'[i].kind \in SafeKinds
    <2> DEFINE t == toClient \o Framed(kinds, frame)
    <2>1. /\ t \in Seq(Packet) /\ Len(t) = Len(toClient) + Len(kinds)
          /\ \A i \in 1..Len(toClient) : t[i] = toClient[i]
          /\ \A i \in 1..(Len(toClient) + Len(kinds)) : i > Len(toClient) =>
               t[i].frame = frame /\ t[i].kind \in SafeKinds
      BY <1>0, StreamGrows, ZenonT(60)
    <2>2. toClient' = t
      BY DEF Write
    <2> HIDE DEF t
    <2> QED
      BY <2>1, <2>2
  <1>2. DOMAIN toClient' = 1..Len(toClient')
    BY <1>1, LenProperties
  <1>3. "EncryptionRequest" \notin SafeKinds /\ "SetCompression" \notin SafeKinds
    BY DEF SafeKinds
  <1>4. Behind' <=> Behind
    <2>1. CASE toClient = <<>>
      <3>1. Len(toClient) = 0
        BY <2>1
      <3>2. toClient' # <<>> => 1 \in 1..(Len(toClient) + Len(kinds))
        BY <1>0, <1>1, EmptySeq
      <3> QED
        BY <1>0, <1>1, <1>3, <2>1, <3>1, <3>2 DEF Behind
    <2>2. CASE toClient # <<>>
      <3>1. 1 \in 1..Len(toClient) /\ Len(toClient') # 0
        BY <1>0, <1>1, <2>2, EmptySeq
      <3> QED
        BY <1>1, <2>2, <3>1 DEF Behind
    <2> QED
      BY <2>1, <2>2
  <1>5. ASSUME NEW i \in DOMAIN toClient'
        PROVE  /\ toClient'[i].kind # "EncryptionRequest"
               /\ toClient'[i].kind = "SetCompression" => i = 1
               /\ toClient'[i].kind # "SetCompression" => toClient'[i].frame = frame'
    <2>1. CASE i \in 1..Len(toClient)
      BY <1>0, <1>1, <2>1 DEF InStep
    <2>2. CASE i > Len(toClient)
      BY <1>0, <1>1, <1>2, <1>3, <2>2
    <2> QED
      BY <1>0, <1>1, <1>2, <2>1, <2>2
  <1>6. Behind' => 1 \in 1..Len(toClient)
    BY <1>0, <1>4, EmptySeq DEF Behind
  <1> QED
    BY <1>1, <1>4, <1>5, <1>6 DEF InStep

(* The client reads: what it answers is in the proxy's framing.            *)
LEMMA ReadsInStep ==
  ASSUME LoginTypes, InStep, ClientReads
  PROVE  /\ client'.state \notin Gone => InStep'
         /\ \E kinds \in Seq(Replies) : toProxy' = toProxy \o Framed(kinds, frame)
  <1>0. /\ toClient \in Seq(Packet) /\ toClient # <<>> /\ toClient' = Tail(toClient)
        /\ frame \in Frames /\ client.frame \in Frames /\ UNCHANGED frame
        /\ DOMAIN toClient = 1..Len(toClient)
    BY LenProperties DEF LoginTypes, ClientReads, proxy
  <1>1. /\ Head(toClient) = toClient[1] /\ Len(toClient) \in Nat /\ Len(toClient) >= 1
        /\ toClient' \in Seq(Packet) /\ Len(toClient') = Len(toClient) - 1
        /\ \A i \in 1..Len(toClient') : toClient'[i] = toClient[i + 1] /\ i + 1 \in 1..Len(toClient)
    BY <1>0, StreamShrinks
  <1>2. DOMAIN toClient' = 1..Len(toClient')
    BY <1>1, LenProperties
  <1> DEFINE k == toClient[1].kind
  <1>3. CASE ~Readable(Head(toClient))
    <2>1. client' = [client EXCEPT !.state = "broken"] /\ toProxy' = toProxy
      BY <1>3 DEF ClientReads
    <2>2. client'.state \in Gone
      BY <2>1 DEF LoginTypes, Gone
    <2>3. <<>> \in Seq(Replies) /\ toProxy' = toProxy \o Framed(<<>>, frame)
      BY <1>0, <2>1, ShortLists, NothingAdded DEF LoginTypes
    <2> QED
      BY <2>2, <2>3, Zenon
  <1>4. CASE Readable(Head(toClient))
    <2>1. client' = Taken(k) /\ toProxy' = toProxy \o Framed(Answer(k), client.frame)
      BY <1>1, <1>4 DEF ClientReads
    <2>2. \A i \in 1..Len(toClient') :
            /\ toClient'[i].kind \notin {"EncryptionRequest", "SetCompression"}
            /\ toClient'[i].frame = frame
      BY <1>0, <1>1 DEF InStep
    <2>3. ~Behind'
      BY <1>1, <2>2, EmptySeq DEF Behind
    <2>4. k # "EncryptionRequest"
      BY <1>0, <1>1 DEF InStep
    <2>5. client'.frame = frame
      <3>1. CASE k = "SetCompression"
        <4>1. frame = [client.frame EXCEPT !.comp = TRUE]
          BY <1>0, <3>1 DEF InStep, Behind
        <4> QED
          BY <2>1, <3>1, <4>1, TakenIs, Zenon
      <3>2. CASE k # "SetCompression"
        <4>1. client.frame = frame
          BY <1>0, <3>2 DEF InStep, Behind
        <4> QED
          BY <2>1, <2>4, <3>2, <4>1, TakenIs
      <3> QED
        BY <3>1, <3>2
    <2>6. InStep'
      BY <1>0, <1>2, <2>2, <2>3, <2>5 DEF InStep
    <2>7. \E kinds \in Seq(Replies) : toProxy' = toProxy \o Framed(kinds, frame)
      <3>1. CASE k = "SetCompression"
        <4>1. Answer(k) = <<>> /\ <<>> \in Seq(Replies)
          BY <3>1, ShortLists DEF Answer
        <4>2. Framed(<<>>, client.frame) = Framed(<<>>, frame)
          BY DEF Framed
        <4> QED
          BY <2>1, <4>1, <4>2, Zenon
      <3>2. CASE k # "SetCompression"
        <4>1. client.frame = frame
          BY <1>0, <3>2 DEF InStep, Behind
        <4> QED
          BY <2>1, <4>1, AnswerIs
      <3> QED
        BY <3>1, <3>2
    <2> QED
      BY <2>6, <2>7, ZenonT(60)
  <1> QED
    BY <1>3, <1>4, ZenonT(60)

(* The first packets of a login that has been settled.                     *)
LEMMA OpeningInStep ==
  ASSUME NEW sent \in Seq(Kinds), NEW b \in Frames, NEW a \in Frames,
         Opening(toClient', sent, b, a), frame' = a, client'.frame = b,
         client'.state \notin {"config", "play"},
         (sent = <<>> /\ a = b) \/ (sent = <<"SetCompression">> /\ a = [b EXCEPT !.comp = TRUE])
  PROVE  InStep'
  <1>0. toClient' \in Seq(Packet) /\ Len(toClient') \in Nat /\ DOMAIN toClient' = 1..Len(toClient')
    BY LenProperties DEF Opening
  <1>1. "EncryptionRequest" \notin SafeKinds /\ "SetCompression" \notin SafeKinds
    BY DEF SafeKinds
  <1>2. CASE sent = <<>> /\ a = b
    <2>1. \A i \in 1..Len(toClient') : toClient'[i].kind \in SafeKinds /\ toClient'[i].frame = a
      BY <1>0, <1>2 DEF Opening
    <2>2. ~Behind'
      BY <1>0, <1>1, <2>1, EmptySeq DEF Behind
    <2> QED
      BY <1>0, <1>1, <1>2, <2>1, <2>2 DEF InStep
  <1>3. CASE sent = <<"SetCompression">> /\ a = [b EXCEPT !.comp = TRUE]
    <2>1. Len(sent) = 1 /\ sent[1] = "SetCompression"
      BY <1>3
    <2>2. /\ Len(toClient') >= 1 /\ toClient'[1].kind = "SetCompression" /\ toClient'[1].frame = b
          /\ \A i \in 1..Len(toClient') : i > 1 => toClient'[i].kind \in SafeKinds /\ toClient'[i].frame = a
      BY <1>0, <2>1 DEF Opening
    <2>3. Behind'
      BY <1>0, <2>2, EmptySeq DEF Behind
    <2> QED
      <3>1. frame' = [client'.frame EXCEPT !.comp = TRUE] /\ toClient'[1].frame = client'.frame
        BY <1>3, <2>2
      <3>2. \A i \in DOMAIN toClient' :
              /\ toClient'[i].kind # "EncryptionRequest"
              /\ toClient'[i].kind = "SetCompression" => i = 1
              /\ toClient'[i].kind # "SetCompression" => toClient'[i].frame = frame'
        BY <1>0, <1>1, <2>2
      <3> QED
        BY <2>3, <3>1, <3>2, Zenon DEF InStep
  <1> QED
    BY <1>2, <1>3

LEMMA FrameHoldsFirst == LoginInit => FrameInv
  <1> SUFFICES ASSUME LoginInit PROVE FrameInv
    OBVIOUS
  <1>1. LoginTypes
    BY TypesHoldFirst
  <1>2. /\ pc = "peek" /\ conn = "handshaking" /\ frame = Plain /\ client.state = "new"
        /\ client.frame = Plain /\ toClient = <<>> /\ toProxy = <<>> /\ Len(toProxy) = 0
        /\ DOMAIN toClient = {} /\ DOMAIN toProxy = {}
    BY DEF LoginInit
  <1>3. InStep
    BY <1>2, SMTT(60) DEF InStep, Behind
  <1> QED
    BY <1>1, <1>2, <1>3 DEF FrameInv

(* A player's steps.                                                       *)
LEMMA FramePlayer ==
  ASSUME FrameInv, PlayerStep
  PROVE  FrameInv'
  <1>0. LoginTypes /\ LoginTypes' /\ UNCHANGED <<frame, client>> /\ pc \in During /\ Reads
    BY PlayerTypes, Zenon DEF FrameInv, PlayerStep
  <1>1. pc \notin Before /\ pc # "ended" /\ pc \notin {"encResponse", "peek"}
    BY <1>0 DEF Before, During
  <1>2. pc' \in During \cup {"ended"}
    BY DEF PlayerStep
  <1>3. pc' \notin Before
    BY <1>2, StagesApart
  <1>4. client'.state \notin Gone => InStep'
    BY <1>0, <1>1, WritesInStep DEF FrameInv, PlayerStep, Writes, Write
  <1>5. \A i \in DOMAIN toProxy' : toProxy'[i].frame = frame'
    <2>1. /\ DOMAIN toProxy = 1..Len(toProxy) /\ DOMAIN toProxy' = 1..Len(toProxy')
          /\ \A i \in 1..Len(toProxy') : \E j \in 1..Len(toProxy) : toProxy'[i] = toProxy[j]
      BY <1>0, ReadsKeep, LenProperties, Zenon DEF LoginTypes
    <2> QED
      BY <1>0, <1>1, <2>1, SMTT(60) DEF FrameInv
  <1>6. client'.state # "new"
    BY <1>0, <1>1 DEF FrameInv
  <1>7. pc' \notin {"peek", "handshake", "loginStart", "encResponse", "status", "statusPing"}
    BY <1>3 DEF Before
  <1> QED
    BY <1>0, <1>3, <1>4, <1>5, <1>6, <1>7, SMTT(60) DEF FrameInv

(* The end of a login.                                                     *)
LEMMA FrameSettles ==
  ASSUME FrameInv, NEW sent \in Seq(Kinds), NEW b \in Frames, NEW a \in Frames, Settles(sent, b, a),
         (sent = <<>> /\ a = b) \/ (sent = <<"SetCompression">> /\ a = [b EXCEPT !.comp = TRUE]),
         \/ pc = "peek" /\ b = frame /\ a = frame
         \/ pc = "loginStart" /\ b = frame
         \/ pc = "encResponse" /\ b = Secret
  PROVE  FrameInv'
  <1>0. LoginTypes /\ LoginTypes' /\ UNCHANGED <<setup, client>> /\ pc \in Before /\ Take
    BY SettledTypes DEF FrameInv, Settles
  <1>1. /\ frame' = a /\ pc' \in {"ended", "joining"}
        /\ toClient = <<>> => Opening(toClient', sent, b, a)
    BY <1>0, FinaliseIs, Zenon DEF Settles
  <1>2. /\ Reads /\ Len(toProxy') = Len(toProxy) - 1 /\ Len(toProxy) >= 1
    BY <1>0, TakeIsRead
  <1>3. ASSUME client.state \notin Gone
        PROVE  toClient = <<>> /\ client.frame = b /\ client.state \notin {"config", "play"}
    <2>1. client.state \notin {"config", "play"}
      BY <1>0, <1>3 DEF FrameInv
    <2>2. CASE pc \in {"peek", "loginStart"}
      <3>1. toClient = <<>> /\ InStep /\ b = frame
        BY <1>3, <2>2 DEF FrameInv
      <3>2. client.frame = frame
        BY <3>1 DEF InStep, Behind
      <3> QED
        BY <2>1, <3>1, <3>2
    <2>3. CASE pc = "encResponse"
      <3>1. toProxy # <<>>
        BY <1>0 DEF Take
      <3>2. Answered /\ toClient = <<>> /\ b = Secret
        BY <1>3, <2>3, <3>1 DEF FrameInv
      <3> QED
        BY <2>1, <3>2 DEF Answered
    <2> QED
      BY <2>2, <2>3
  <1>4. client'.state \notin Gone => InStep'
    BY <1>0, <1>1, <1>3, OpeningInStep, Zenon
  <1>5. \A i \in DOMAIN toProxy' : toProxy'[i].frame = frame'
    <2>0. /\ DOMAIN toProxy = 1..Len(toProxy) /\ DOMAIN toProxy' = 1..Len(toProxy')
          /\ \A i \in 1..Len(toProxy') : \E j \in 1..Len(toProxy) : toProxy'[i] = toProxy[j]
      BY <1>0, <1>2, ReadsKeep, LenProperties DEF LoginTypes
    <2>1. CASE pc = "peek"
      BY <1>1, <2>0, <2>1 DEF FrameInv
    <2>2. CASE pc \in {"loginStart", "encResponse"}
      <3>1. Len(toProxy) <= 1 /\ Len(toProxy) \in Nat
        BY <1>0, <2>2, LenProperties DEF FrameInv, LoginTypes
      <3>2. Len(toProxy') = 0
        BY <1>2, <3>1
      <3> QED
        BY <2>0, <3>2
    <2> QED
      BY <2>1, <2>2
  <1>6. pc' \notin Before
    BY <1>1 DEF Before
  <1>7. pc' \notin {"peek", "handshake", "loginStart", "encResponse", "status", "statusPing"}
    BY <1>1
  <1>8. client'.state # "new"
    <2>1. toProxy # <<>> /\ pc # "ended"
      BY <1>0 DEF Take, Before
    <2> QED
      BY <1>0, <2>1 DEF FrameInv
  <1> QED
    BY <1>0, <1>4, <1>5, <1>6, <1>7, <1>8 DEF FrameInv

(* Steps before the login is settled.                                      *)
LEMMA FrameEarly ==
  ASSUME FrameInv, EarlyStep
  PROVE  FrameInv'
  <1>0. LoginTypes /\ LoginTypes' /\ UNCHANGED <<setup, frame, client>> /\ pc \in Before /\ Reads
        /\ Legacy' = Legacy
    BY EarlyTypes DEF FrameInv, EarlyStep, Legacy
  <1>1. frame = Plain /\ conn # "play" /\ pc # "ended"
    BY <1>0, SMTT(60) DEF FrameInv, Before
  <1>2. /\ DOMAIN toProxy = 1..Len(toProxy) /\ DOMAIN toProxy' = 1..Len(toProxy')
        /\ Len(toProxy) \in Nat /\ Len(toProxy') \in Nat
        /\ \A i \in 1..Len(toProxy') : \E j \in 1..Len(toProxy) : toProxy'[i] = toProxy[j]
    BY <1>0, ReadsKeep, LenProperties, Zenon DEF LoginTypes
  <1>3. \A i \in DOMAIN toProxy' : toProxy'[i].frame = frame'
    BY <1>0, <1>1, <1>2 DEF FrameInv
  <1>4. client'.state \notin Gone => client'.state \notin {"config", "play"}
    BY <1>0 DEF FrameInv
  <1>5. Take => Len(toProxy') = Len(toProxy) - 1 /\ Len(toProxy) >= 1 /\ toProxy # <<>>
    BY <1>0, TakeIsRead, SMTT(60) DEF Take
  <1>6. toProxy # <<>> => client.state # "new"
    BY <1>0, <1>1, SMTT(60) DEF FrameInv
  <1>7. CASE /\ pc = "peek" /\ pc' = "handshake" /\ toProxy # <<>>
             /\ Received \notin {"LegacyPing", "LegacyLogin"} /\ UNCHANGED <<conn, toClient, toProxy>>
    <2>1. 1 \in DOMAIN toProxy /\ Received = toProxy[1].kind
      BY <1>0, <1>2, <1>7, StreamShrinks DEF LoginTypes, Received
    <2>2. ~Legacy
      BY <1>7, <2>1 DEF FrameInv
    <2>3. client.state \notin Gone => toClient' = <<>> /\ InStep'
      BY <1>0, <1>7 DEF FrameInv, InStep, Behind
    <2>4. Len(toProxy') <= 2
      BY <1>7, SMTT(60) DEF FrameInv
    <2> QED
      BY <1>0, <1>1, <1>3, <1>4, <1>6, <1>7, <2>2, <2>3, <2>4, SMTT(60) DEF FrameInv
  <1>8. CASE /\ pc = "handshake" /\ pc' \in {"status", "loginStart"} /\ conn' # "play"
             /\ Take /\ UNCHANGED toClient
    <2>1. ~Legacy /\ Len(toProxy) <= 2
      BY <1>8 DEF FrameInv, Before
    <2>2. client.state \notin Gone => toClient' = <<>> /\ InStep' /\ DOMAIN toClient' = {}
      BY <1>0, <1>8 DEF FrameInv, InStep, Behind
    <2>3. Len(toProxy') <= 1 /\ client'.state # "new"
      BY <1>0, <1>2, <1>5, <1>6, <1>8, <2>1, SMTT(60)
    <2> QED
      BY <1>0, <1>1, <1>3, <1>4, <1>8, <2>1, <2>2, <2>3, SMTT(60) DEF FrameInv
  <1>9. CASE /\ pc = "status" /\ pc' = "statusPing" /\ UNCHANGED conn
             /\ Take /\ Write(<<"StatusResponse">>)
    <2>1. ~Legacy /\ client'.state # "new"
      BY <1>0, <1>5, <1>6, <1>9 DEF FrameInv, Before
    <2>2. <<"StatusResponse">> \in Seq(SafeKinds) /\ <<"StatusResponse">> \in Seq({"StatusResponse"})
      BY ShortLists DEF SafeKinds
    <2>3. ASSUME client.state \notin Gone
          PROVE  InStep' /\ \A i \in DOMAIN toClient' : toClient'[i].kind = "StatusResponse"
      <3>1. InStep /\ \A i \in DOMAIN toClient : toClient[i].kind = "StatusResponse"
        BY <1>9, <2>3 DEF FrameInv
      <3>2. InStep'
        BY <1>0, <1>9, <2>2, <3>1, WritesInStep, Zenon
      <3> DEFINE S == {"StatusResponse"}
                 ks == <<"StatusResponse">>
                 t == toClient \o Framed(ks, frame)
      <3>3. toClient \in Seq(Packet) /\ frame \in Frames /\ S \in SUBSET Kinds /\ ks \in Seq(S)
        BY <1>0, <2>2 DEF LoginTypes, Kinds, SafeKinds
      <3>5. toClient' = t
        BY <1>9 DEF Write
      <3> HIDE DEF S, ks
      <3>4. /\ t \in Seq(Packet) /\ Len(t) = Len(toClient) + Len(ks)
            /\ \A i \in 1..Len(toClient) : t[i] = toClient[i]
            /\ \A i \in 1..(Len(toClient) + Len(ks)) : i > Len(toClient) => t[i].kind \in S
        BY <3>3, StreamGrows
      <3> HIDE DEF t
      <3>6. DOMAIN toClient = 1..Len(toClient) /\ DOMAIN toClient' = 1..Len(toClient') /\ Len(toClient) \in Nat
        BY <3>3, <3>4, <3>5, LenProperties
      <3>7. ASSUME NEW i \in DOMAIN toClient' PROVE toClient'[i].kind = "StatusResponse"
        <4>1. CASE i \in 1..Len(toClient)
          BY <3>1, <3>4, <3>5, <3>6, <4>1
        <4>2. CASE i > Len(toClient)
          BY <3>4, <3>5, <3>6, <4>2, ZenonT(60) DEF S
        <4> QED
          BY <3>6, <4>1, <4>2
      <3> QED
        BY <3>2, <3>7
    <2> QED
      BY <1>0, <1>1, <1>3, <1>4, <1>9, <2>1, <2>3, SMTT(60) DEF FrameInv
  <1>10. CASE /\ pc = "loginStart" /\ pc' = "encResponse" /\ UNCHANGED conn
              /\ Take /\ Write(<<"EncryptionRequest">>)
    <2>1. ~Legacy /\ client'.state # "new" /\ Len(toProxy) <= 1
      BY <1>0, <1>5, <1>6, <1>10 DEF FrameInv, Before
    <2>2. Len(toProxy') = 0 /\ toProxy' = <<>>
      <3>1. Len(toProxy') = 0
        BY <1>2, <1>5, <1>10, <2>1, SMTT(60)
      <3> QED
        BY <1>0, <3>1, EmptySeq DEF LoginTypes
    <2>3. ASSUME client.state \notin Gone
          PROVE  Asked'
      <3>1. toClient = <<>> /\ InStep
        BY <1>10, <2>3 DEF FrameInv
      <3>2. client.frame = Plain
        BY <1>1, <3>1 DEF InStep, Behind
      <3>3. toClient' = Framed(<<"EncryptionRequest">>, Plain)
        <4>1. Framed(<<"EncryptionRequest">>, Plain) \in Seq(Packet)
          BY <1>0, <1>1, SafeIsKind, FramedIs, Zenon DEF LoginTypes
        <4> QED
          BY <1>1, <1>10, <3>1, <4>1, ConcatEmptySeq, SMTT(60) DEF Write
      <3>4. Len(toClient') = 1 /\ toClient'[1].kind = "EncryptionRequest" /\ toClient'[1].frame = Plain
        BY <3>3 DEF Framed
      <3> QED
        BY <1>0, <1>1, <3>2, <3>4, SMTT(60) DEF Asked
    <2> QED
      BY <1>0, <1>1, <1>3, <1>4, <1>10, <2>1, <2>2, <2>3, SMTT(60) DEF FrameInv
  <1>11. CASE /\ pc' = "ended"
              /\ \E kinds \in Seq(SafeKinds) :
                   /\ Write(kinds)
                   /\ pc = "encResponse" /\ ~Legacy /\ conn # "play" =>
                        kinds = <<>> \/ (Take /\ kinds \in Seq({"LoginDisconnect"}))
    <2>1. PICK kinds \in Seq(SafeKinds) :
            /\ Write(kinds)
            /\ pc = "encResponse" /\ ~Legacy /\ conn # "play" =>
                 kinds = <<>> \/ (Take /\ kinds \in Seq({"LoginDisconnect"}))
      BY <1>11
    <2>2. ASSUME client.state \notin Gone
          PROVE  InStep' \/ Asked' \/ Answered'
      <3>1. CASE InStep
        BY <1>0, <2>1, <3>1, WritesInStep
      <3>2. CASE ~InStep
        <4>1. pc = "encResponse" /\ ~Legacy
          BY <1>0, <1>1, <2>2, <3>2, SMTT(60) DEF FrameInv, Before
        <4>2. CASE kinds = <<>>
          <5>1. toClient' = toClient
            BY <1>0, <2>1, <4>2, NothingAdded, SMTT(60) DEF Write, LoginTypes
          <5>2. Asked \/ Answered
            BY <2>2, <3>2 DEF FrameInv
          <5> QED
            BY <1>0, <5>1, <5>2 DEF Asked, Answered
        <4>3. CASE Take /\ kinds \in Seq({"LoginDisconnect"})
          <5>1. Answered /\ toClient = <<>>
            BY <1>5, <2>2, <4>1, <4>3 DEF FrameInv
          <5>2. /\ kinds \in Seq(Kinds) /\ frame \in Frames
                /\ \A i \in 1..Len(kinds) : kinds[i] = "LoginDisconnect"
            BY <1>0, <4>3, SafeIsKind, ElementOfSeq DEF LoginTypes
          <5>3. /\ Framed(kinds, frame) \in Seq(Packet) /\ Len(Framed(kinds, frame)) = Len(kinds)
                /\ \A i \in 1..Len(kinds) : Framed(kinds, frame)[i].kind = kinds[i]
            BY <5>2, FramedIs
          <5>4. toClient' = Framed(kinds, frame)
            BY <2>1, <5>1, <5>3, ConcatEmptySeq, ZenonT(60) DEF Write
          <5>5. \A i \in DOMAIN toClient' : toClient'[i].kind = "LoginDisconnect"
            BY <5>2, <5>3, <5>4, LenProperties
          <5> QED
            BY <1>0, <5>1, <5>5 DEF Answered
        <4> QED
          BY <1>1, <2>1, <4>1, <4>2, <4>3, SMTT(60)
      <3> QED
        BY <3>1, <3>2
    <2> QED
      BY <1>0, <1>11, <2>2 DEF FrameInv, Before
  <1> QED
    BY <1>7, <1>8, <1>9, <1>10, <1>11, ZenonT(60) DEF EarlyStep

(* The client's packets keep the framing that the proxy expects.           *)
LEMMA RepliesInFrame ==
  ASSUME LoginTypes, \A i \in DOMAIN toProxy : toProxy[i].frame = frame,
         NEW kinds \in Seq(Replies), toProxy' = toProxy \o Framed(kinds, frame)
  PROVE  \A i \in DOMAIN toProxy' : toProxy'[i].frame = frame
  <1>0. /\ toProxy \in Seq(Packet) /\ frame \in Frames /\ Replies \in SUBSET Kinds
        /\ DOMAIN toProxy = 1..Len(toProxy) /\ Len(toProxy) \in Nat /\ Len(kinds) \in Nat
    BY LenProperties DEF LoginTypes, Replies, Kinds
  <1> DEFINE t == toProxy \o Framed(kinds, frame)
  <1>1. /\ t \in Seq(Packet) /\ Len(t) = Len(toProxy) + Len(kinds)
        /\ \A i \in 1..Len(toProxy) : t[i] = toProxy[i]
        /\ \A i \in 1..(Len(toProxy) + Len(kinds)) : i > Len(toProxy) => t[i].frame = frame
    BY <1>0, StreamGrows, ZenonT(60)
  <1> HIDE DEF t
  <1>2. DOMAIN t = 1..Len(t)
    BY <1>1, LenProperties
  <1>3. \A i \in 1..Len(t) : t[i].frame = frame
    <2> SUFFICES ASSUME NEW i \in 1..Len(t) PROVE t[i].frame = frame
      OBVIOUS
    <2>1. CASE i \in 1..Len(toProxy)
      BY <1>0, <1>1, <2>1, Zenon
    <2>2. CASE i > Len(toProxy)
      BY <1>1, <2>2
    <2> QED
      BY <1>0, <1>1, <2>1, <2>2
  <1> QED
    BY <1>2, <1>3 DEF t

(* The client reads the request to encrypt.                                *)
LEMMA ReadsRequest ==
  ASSUME LoginTypes, Asked, ClientReads
  PROVE  /\ client'.state \notin Gone => Answered' /\ client'.state = client.state
         /\ toClient' = <<>>
         /\ toProxy = <<>> =>
              Len(toProxy') <= 1 /\ \A i \in DOMAIN toProxy' : toProxy'[i].frame = Plain
  <1>0. /\ toClient \in Seq(Packet) /\ toProxy \in Seq(Packet) /\ toClient # <<>>
        /\ toClient' = Tail(toClient) /\ UNCHANGED frame /\ client \in [state : States, frame : Frames]
    BY DEF LoginTypes, ClientReads, proxy
  <1>1. /\ Head(toClient) = toClient[1] /\ toClient' \in Seq(Packet) /\ Len(toClient') = 0
    BY <1>0, StreamShrinks DEF Asked
  <1>2. toClient' = <<>> /\ DOMAIN toClient' = {}
    BY <1>1, EmptySeq
  <1>3. CASE ~Readable(Head(toClient))
    <2>1. client' = [client EXCEPT !.state = "broken"] /\ toProxy' = toProxy
      BY <1>3 DEF ClientReads
    <2>2. client'.state \in Gone
      BY <1>0, <2>1 DEF Gone
    <2>3. toProxy = <<>> => Len(toProxy') <= 1 /\ DOMAIN toProxy' = {}
      BY <2>1
    <2> QED
      BY <1>2, <2>2, <2>3
  <1>4. CASE Readable(Head(toClient))
    <2>1. /\ client' = Taken("EncryptionRequest")
          /\ toProxy' = toProxy \o Framed(<<"EncryptionResponse">>, Plain)
      BY <1>1, <1>4, Zenon DEF ClientReads, Asked, Answer
    <2>2. client'.frame = Secret
      <3>1. client'.frame = [Plain EXCEPT !.enc = TRUE]
        BY <2>1, TakenIs, Zenon DEF Asked
      <3> QED
        BY <3>1, Zenon DEF Plain, Secret
    <2>3. client'.state = client.state
      BY <2>1 DEF Taken, Ends
    <2>4. toProxy = <<>> => Len(toProxy') <= 1 /\ \A i \in DOMAIN toProxy' : toProxy'[i].frame = Plain
      <3> DEFINE ks == <<"EncryptionResponse">>
                 t == Framed(ks, Plain)
      <3>1. ks \in Seq(Kinds) /\ Plain \in Frames /\ Len(ks) = 1
        BY ShortLists DEF Kinds, ClientKinds, Plain, Frames
      <3>2. toProxy' = toProxy \o t
        BY <2>1, SMTT(60)
      <3> HIDE DEF ks
      <3>3. t \in Seq(Packet) /\ Len(t) = 1 /\ t[1].frame = Plain
        BY <3>1, FramedIs
      <3> HIDE DEF t
      <3>4. DOMAIN t = {1}
        BY <3>3, LenProperties
      <3>5. toProxy = <<>> => toProxy' = t
        BY <3>2, <3>3, ConcatEmptySeq
      <3>6. Len(t) <= 1 /\ \A i \in DOMAIN t : t[i].frame = Plain
        BY <3>3, <3>4
      <3> QED
        BY ONLY <3>5, <3>6, Zenon
    <2> QED
      BY <1>0, <1>2, <2>2, <2>3, <2>4, SMTT(60) DEF Answered, Asked
  <1> QED
    BY <1>3, <1>4

LEMMA FrameReads ==
  ASSUME FrameInv, ClientReads
  PROVE  FrameInv'
  <1>0. LoginTypes /\ LoginTypes' /\ UNCHANGED <<setup, pc, conn, frame>> /\ Legacy' = Legacy
    BY ClientTypes DEF FrameInv, proxy, Legacy
  <1>1. client.state \notin Gone /\ toClient # <<>> /\ toClient' = Tail(toClient)
    BY DEF ClientReads
  <1>2. pc \notin {"peek", "handshake", "loginStart"}
    BY <1>1 DEF FrameInv
  <1>3. client'.state = "new" => client.state = "new"
    BY <1>0, SMTT(60) DEF ClientReads, Taken, LoginTypes
  <1>4. CASE pc = "encResponse"
    <2>1. Asked /\ toProxy = <<>>
      BY <1>1, <1>4 DEF FrameInv
    <2>2. /\ client'.state \notin Gone => Answered' /\ client'.state = client.state
          /\ toClient' = <<>> /\ Len(toProxy') <= 1 /\ \A i \in DOMAIN toProxy' : toProxy'[i].frame = Plain
      BY <1>0, <2>1, ReadsRequest, SMTT(60)
    <2>3. client.state \notin {"config", "play", "new"} /\ frame = Plain /\ ~Legacy /\ conn # "play"
      BY <1>1, <1>4, ZenonT(60) DEF FrameInv, Before
    <2> QED
      BY <1>0, <1>3, <1>4, <2>2, <2>3, SMTT(60) DEF FrameInv
  <1>5. CASE pc \in {"status", "statusPing"}
    <2>1. InStep /\ \A i \in DOMAIN toClient : toClient[i].kind = "StatusResponse"
      BY <1>1, <1>5 DEF FrameInv
    <2>2. /\ client'.state \notin Gone => InStep'
          /\ \E kinds \in Seq(Replies) : toProxy' = toProxy \o Framed(kinds, frame)
      BY <1>0, <2>1, ReadsInStep, SMTT(60)
    <2>3. /\ frame = Plain /\ conn # "play" /\ ~Legacy
          /\ client.state \notin {"config", "play", "new"}
          /\ \A i \in DOMAIN toProxy : toProxy[i].frame = frame
      BY <1>1, <1>5 DEF FrameInv, Before
    <2>4. \A i \in DOMAIN toProxy' : toProxy'[i].frame = frame
      BY <1>0, <2>2, <2>3, RepliesInFrame, ZenonT(60)
    <2>5. /\ Head(toClient) = toClient[1] /\ toClient[1].kind = "StatusResponse"
          /\ \A i \in DOMAIN toClient' : toClient'[i].kind = "StatusResponse"
      <3>1. /\ toClient \in Seq(Packet) /\ DOMAIN toClient = 1..Len(toClient)
            /\ DOMAIN toClient' = 1..Len(toClient')
        BY <1>0, LenProperties DEF LoginTypes
      <3>2. /\ Head(toClient) = toClient[1] /\ Len(toClient) >= 1 /\ Len(toClient) \in Nat
            /\ \A i \in 1..Len(toClient') : toClient'[i] = toClient[i + 1] /\ i + 1 \in 1..Len(toClient)
        BY <1>1, <3>1, StreamShrinks
      <3> QED
        BY <2>1, <3>1, <3>2
    <2>6. client'.state \notin {"config", "play", "new"}
      BY <1>0, <2>3, <2>5, ZenonT(60) DEF ClientReads, Taken, Ends, LoginTypes
    <2> QED
      BY <1>0, <1>5, <2>2, <2>3, <2>4, <2>5, <2>6, SMTT(60) DEF FrameInv
  <1>6. CASE pc \in During
    <2>1. pc \notin Before /\ pc # "ended" /\ pc # "encResponse"
      BY <1>6, SMTT(60) DEF Before, During
    <2>2. InStep /\ client.state # "new" /\ \A i \in DOMAIN toProxy : toProxy[i].frame = frame
      BY <1>1, <1>2, <2>1 DEF FrameInv
    <2>3. /\ client'.state \notin Gone => InStep'
          /\ \E kinds \in Seq(Replies) : toProxy' = toProxy \o Framed(kinds, frame)
      BY <1>0, <2>2, ReadsInStep
    <2>4. \A i \in DOMAIN toProxy' : toProxy'[i].frame = frame
      BY <1>0, <2>2, <2>3, RepliesInFrame, ZenonT(60)
    <2> QED
      BY <1>0, <1>3, <2>1, <2>2, <2>3, <2>4 DEF FrameInv, Before
  <1>7. CASE pc = "ended"
    <2>1. client'.state \notin Gone => InStep' \/ Asked' \/ Answered'
      <3>1. CASE InStep
        BY <1>0, <3>1, ReadsInStep
      <3>2. CASE Asked
        BY <1>0, <3>2, ReadsRequest
      <3>3. CASE Answered
        <4>1. Head(toClient) = toClient[1] /\ 1 \in DOMAIN toClient
          BY <1>0, <1>1, StreamShrinks, LenProperties DEF LoginTypes
        <4>2. Head(toClient).kind = "LoginDisconnect"
          BY <3>3, <4>1 DEF Answered
        <4>3. client' = Taken("LoginDisconnect") \/ client' = [client EXCEPT !.state = "broken"]
          BY <4>2 DEF ClientReads
        <4>4. client'.state \in Gone
          BY <1>0, <4>3 DEF Taken, Ends, Gone, LoginTypes
        <4> QED
          BY <4>4
      <3> QED
        BY <1>1, <3>1, <3>2, <3>3 DEF FrameInv
    <2> QED
      BY <1>0, <1>7, <2>1, ZenonT(60) DEF FrameInv, Before
  <1> QED
    BY <1>0, <1>2, <1>4, <1>5, <1>6, <1>7, ZenonT(60) DEF LoginTypes, Before

LEMMA FrameClient ==
  ASSUME FrameInv, ClientOpens \/ ClientChats \/ ClientLeaves
  PROVE  FrameInv'
  <1>0. LoginTypes /\ LoginTypes' /\ UNCHANGED <<setup, pc, conn, frame>> /\ Legacy' = Legacy
        /\ UNCHANGED toClient
    BY ClientTypes, Zenon DEF FrameInv, proxy, Legacy, ClientOpens, ClientChats, ClientLeaves
  <1>1. CASE ClientOpens
    <2>1. client.state = "new" /\ client.state \notin Gone
      BY <1>1 DEF ClientOpens, Gone
    <2>2. PICK o \in Openings :
            /\ client' = [client EXCEPT !.state = IF o = "HandshakeStatus" THEN "status" ELSE "login"]
            /\ toProxy' = Framed(CASE o = "HandshakeStatus" -> <<o, "StatusRequest">>
                                   [] o = "HandshakeLogin" -> <<o, "LoginStart">>
                                   [] OTHER -> <<o>>, Plain)
      BY <1>1 DEF ClientOpens
    <2>3. client'.state \in {"status", "login"} /\ client'.frame = client.frame
      BY <1>0, <2>2 DEF LoginTypes
    <2>4. client'.state \notin Gone \cup {"new", "config", "play"}
      BY <2>3 DEF Gone
    <2>5. (InStep => InStep') /\ (Asked => Asked') /\ (Answered => Answered')
      BY <1>0, <2>3, ZenonT(60) DEF InStep, Behind, Asked, Answered
    <2>6. CASE pc = "ended"
      BY <1>0, <2>1, <2>4, <2>5, <2>6, ZenonT(60) DEF FrameInv, Before
    <2>7. CASE pc = "peek"
      <3> DEFINE kinds == CASE o = "HandshakeStatus" -> <<o, "StatusRequest">>
                            [] o = "HandshakeLogin" -> <<o, "LoginStart">>
                            [] OTHER -> <<o>>
      <3>1. /\ kinds \in Seq(ClientKinds) /\ Len(kinds) <= 2
            /\ Legacy => kinds \in Seq({"LegacyPing", "LegacyLogin"})
        BY OpeningKinds, ZenonT(60)
      <3>2. toProxy' = Framed(kinds, Plain)
        BY <2>2
      <3> HIDE DEF kinds
      <3>3. kinds \in Seq(Kinds) /\ Plain \in Frames
        BY <3>1, SeqMonotonic DEF Kinds, Plain, Frames
      <3>4. /\ toProxy' \in Seq(Packet) /\ Len(toProxy') = Len(kinds)
            /\ \A i \in 1..Len(kinds) : toProxy'[i].kind = kinds[i] /\ toProxy'[i].frame = Plain
        BY <3>2, <3>3, FramedIs
      <3>5. DOMAIN toProxy' = 1..Len(kinds)
        BY <3>4, LenProperties
      <3>6. Legacy => \A i \in 1..Len(kinds) : kinds[i] \in {"LegacyPing", "LegacyLogin"}
        BY <3>1, ElementOfSeq, SMTT(60)
      <3>7. frame = Plain /\ conn # "play" /\ toClient = <<>> /\ InStep
        BY <2>1, <2>7 DEF FrameInv, Before
      <3> QED
        BY <1>0, <2>4, <2>5, <2>7, <3>1, <3>4, <3>5, <3>6, <3>7 DEF FrameInv
    <2> QED
      BY <2>1, <2>6, <2>7, Zenon DEF FrameInv
  <1>2. CASE ClientChats
    <2>1. client.state \in {"config", "play"} /\ UNCHANGED client
      BY <1>2, SMTT(60) DEF ClientChats
    <2>2. client.state \notin Gone /\ client.state # "new" /\ pc \notin Before
      BY <2>1 DEF FrameInv, Gone
    <2>3. (InStep => InStep') /\ (Asked => Asked') /\ (Answered => Answered')
      BY <1>0, <2>1, ZenonT(60) DEF InStep, Behind, Asked, Answered
    <2>4. CASE pc = "ended"
      BY <1>0, <2>1, <2>2, <2>3, <2>4, ZenonT(60) DEF FrameInv, Before
    <2>5. CASE pc # "ended"
      <3>1. InStep /\ \A i \in DOMAIN toProxy : toProxy[i].frame = frame
        BY <2>2, <2>5 DEF FrameInv, Before
      <3>2. client.frame = frame
        BY <2>1, <3>1 DEF InStep
      <3> DEFINE kind == IF client.state = "config" THEN "ClientInformation" ELSE "Move"
      <3>3. <<kind>> \in Seq(Replies)
        BY ShortLists DEF Replies, ClientKinds
      <3>4. toProxy' = toProxy \o Framed(<<kind>>, frame)
        BY <1>2, <3>2, SMTT(60) DEF ClientChats
      <3> HIDE DEF kind
      <3>5. \A i \in DOMAIN toProxy' : toProxy'[i].frame = frame
        BY <1>0, <3>1, <3>3, <3>4, RepliesInFrame, Zenon
      <3> QED
        BY <1>0, <2>1, <2>2, <2>3, <3>1, <3>5, ZenonT(60) DEF FrameInv, Before
    <2> QED
      BY <2>4, <2>5
  <1>3. CASE ClientLeaves
    <2>1. client'.state \in Gone /\ client'.state # "new" /\ UNCHANGED toProxy
      BY <1>0, <1>3 DEF ClientLeaves, Gone, LoginTypes
    <2> QED
      BY <1>0, <2>1 DEF FrameInv
  <1> QED
    BY <1>1, <1>2, <1>3, SMTT(60)

LEMMA FrameStep == FrameInv /\ [LoginNext]_vars => FrameInv'
  <1> SUFFICES ASSUME FrameInv, [LoginNext]_vars PROVE FrameInv'
    OBVIOUS
  <1>0. LoginTypes
    BY DEF FrameInv
  <1>1. CASE Task /\ pc \in Before
    <2>0. /\ <<>> \in Seq(Kinds) /\ SetCompression \in Seq(Kinds) /\ frame = Plain /\ Plain \in Frames
          /\ [frame EXCEPT !.enc = TRUE] = Secret /\ Secret \in Frames
      <3>1. frame = Plain
        BY <1>1 DEF FrameInv
      <3>2. <<>> \in Seq(Kinds) /\ SetCompression \in Seq(Kinds)
        BY <1>0, SettlingFrames
      <3>3. Plain \in Frames /\ Secret \in Frames
        BY DEF Plain, Secret, Frames
      <3>4. ASSUME NEW f, f = [Plain EXCEPT !.enc = TRUE] PROVE f = Secret
        BY <3>4, Zenon DEF Plain, Secret
      <3> QED
        BY <3>1, <3>2, <3>3, <3>4, Zenon
    <2>s. ASSUME NEW b \in Frames, b.comp = FALSE
          PROVE  /\ Compressed(b) \in Frames
                 /\ \/ SetCompression = <<>> /\ Compressed(b) = b
                    \/ SetCompression = <<"SetCompression">> /\ Compressed(b) = [b EXCEPT !.comp = TRUE]
      <3>1. SetCompression # <<>> => SetCompression = <<"SetCompression">>
        BY <1>0, SettlingFrames
      <3> QED
        BY <1>0, <2>s, <3>1, SettlingFrames, Zenon
    <2>1. CASE pc = "peek" /\ Settles(<<>>, frame, frame)
      BY <2>0, <2>1, FrameSettles, Zenon
    <2>2. CASE pc = "loginStart" /\ Settles(SetCompression, frame, Compressed(frame))
      <3>1. frame.comp = FALSE
        BY <2>0 DEF Plain
      <3> QED
        BY <2>0, <2>2, <2>s, <3>1, FrameSettles, Zenon
    <2>3. CASE /\ pc = "encResponse"
               /\ Settles(SetCompression, [frame EXCEPT !.enc = TRUE], Compressed([frame EXCEPT !.enc = TRUE]))
      <3>1. Secret.comp = FALSE
        BY DEF Secret
      <3>2. Settles(SetCompression, Secret, Compressed(Secret))
        BY <2>0, <2>3, Zenon
      <3> QED
        BY <2>0, <2>3, <2>s, <3>1, <3>2, FrameSettles, Zenon
    <2> QED
      BY <1>0, <1>1, <2>1, <2>2, <2>3, EarlySteps, FrameEarly
  <1>2. CASE UNCHANGED vars
    <2>1. UNCHANGED <<setup, pc, conn, frame, session, metric, client, toClient, toProxy>>
      BY <1>2 DEF vars, proxy
    <2>2. UNCHANGED <<LoginTypes, InStep, Asked, Answered, Legacy>>
      BY <2>1, SMTT(60) DEF LoginTypes, InStep, Behind, Asked, Answered, Legacy
    <2> QED
      BY <2>1, <2>2 DEF FrameInv
  <1> QED
    BY <1>0, <1>1, <1>2, TaskSteps, BackendSteps, FramePlayer, FrameReads, FrameClient, ZenonT(60) DEF LoginNext

(* Each side reads a packet with the encryption and the compression it was *)
(* written with, although the proxy and the client switch at different     *)
(* moments (handle_login and the authentication pipeline), but for the     *)
(* refusal that is sent in the clear after the client's answer.            *)
THEOREM FramesAgree == LoginSpec => []FramingAgrees
  <1>1. FrameInv => FramingAgrees
    <2> SUFFICES ASSUME FrameInv PROVE FramingAgrees
      BY SMTT(60)
    <2>1. ASSUME Waiting
          PROVE  \/ First.frame = client.frame
                 \/ First.kind = "LoginDisconnect" /\ client.frame.enc /\ ~frame.enc
      <3>1. toClient \in Seq(Packet) /\ toClient # <<>> /\ client.state \notin Gone
        BY <2>1 DEF Waiting, FrameInv, LoginTypes
      <3>2. First = toClient[1] /\ 1 \in DOMAIN toClient
        BY <3>1, StreamShrinks, LenProperties, SMTT(60) DEF First
      <3>3. CASE InStep
        <4>1. CASE Behind
          BY <3>2, <3>3, <4>1 DEF InStep
        <4>2. CASE ~Behind
          BY <3>1, <3>2, <3>3, <4>2 DEF InStep, Behind
        <4> QED
          BY <4>1, <4>2
      <3>4. CASE Asked
        BY <3>2, <3>4, SMTT(60) DEF Asked
      <3>5. CASE Answered
        BY <3>2, <3>5, SMTT(60) DEF Answered, Plain, Secret
      <3> QED
        BY <3>1, <3>3, <3>4, <3>5, SMTT(60) DEF FrameInv
    <2>2. ASSUME toProxy # <<>>, pc # "ended"
          PROVE  Head(toProxy).frame = frame
      <3>1. Head(toProxy) = toProxy[1] /\ 1 \in DOMAIN toProxy
        BY <2>2, StreamShrinks, LenProperties, SMTT(60) DEF FrameInv, LoginTypes
      <3> QED
        BY <2>2, <3>1, SMTT(60) DEF FrameInv
    <2> QED
      BY <2>1, <2>2 DEF FramingAgrees
  <1> QED
    BY <1>1, FrameHoldsFirst, FrameStep, PTL DEF LoginSpec
=============================================================================
