------------------------------- MODULE Login -------------------------------
(* One client from its first byte to the relay, and back through limbo when it  *)
(* changes servers: net/connection.rs, net/limbo.rs and auth/src/pipeline.rs.   *)
(* The client is an unmodified game; it is external and keeps a protocol state  *)
(* and a framing of its own.  The two only agree if the proxy sends each packet *)
(* at the right time.  The backend is what the reads from its socket return.    *)
EXTENDS Naturals, Sequences, Versions

CONSTANTS
    Protocols,          \* protocol numbers of the clients
    MAX_CONFIG_PACKETS, \* packets that limbo drains while it waits for an acknowledgement (8)
    MaxChatter,         \* bound: packets that the client sends unasked
    MaxAsked,           \* bound: questions of backends that are passed on to the client
    MaxSwitches         \* bound: changes of server

ASSUME LoginAssumption == Protocols \subseteq Known /\ MAX_CONFIG_PACKETS \in Nat \ {0}

VARIABLES
    setup,    \* protocol of the client and the options of the proxy; fixed
    pc,       \* what the task of the connection waits for
    conn,     \* conn_state
    acked,    \* client_login_acked
    inPlay,   \* client_in_play, the argument of limbo and complete_backend_login
    frame,    \* the proxy's side of the encryption and the compression
    drained,  \* passes of limbo's loop for the acknowledgement
    buffered, \* buffered_for_client is not empty
    session,  \* the session map has the player
    metric,   \* player_metrics has the player
    spoilt,   \* history: limbo began after a backend's FinishConfiguration was passed on
    client,   \* external: protocol state and framing of the client
    toClient, \* packets under way, each with the framing it was written in
    toProxy,
    left      \* what remains of the three bounds

proxy == <<conn, acked, inPlay, frame, drained, buffered, session, metric, spoilt>>
vars == <<setup, pc, proxy, client, toClient, toProxy, left>>

Plain == [enc |-> FALSE, comp |-> FALSE]
Legacy == IsPreNetty(setup.ver)

LoginInit ==
    /\ setup \in [ver : Protocols, online : BOOLEAN, compress : BOOLEAN, pack : BOOLEAN]
    /\ pc = "peek" /\ conn = "handshaking"
    /\ acked = FALSE /\ inPlay = FALSE /\ frame = Plain /\ drained = 0 /\ buffered = FALSE
    /\ session = FALSE /\ metric = FALSE /\ spoilt = FALSE
    /\ client = [state |-> "new", frame |-> Plain]
    /\ toClient = <<>> /\ toProxy = <<>>
    /\ left = [chat |-> MaxChatter, ask |-> MaxAsked, switch |-> MaxSwitches]

------------------------------------------------------------------------------
(* The client.                                                                  *)

Gone == {"left", "told", "broken"}

(* The protocol state in which a packet of the proxy is read; a disconnect of   *)
(* the pre-netty protocol, which has no states, is read in all of them.         *)
StateOf(kind) ==
    CASE kind \in {"StatusResponse", "Pong"} -> "status"
      [] kind \in {"EncryptionRequest", "SetCompression", "LoginSuccess", "LoginPlugin",
                   "LoginDisconnect"} -> "login"
      [] kind \in {"RegistryData", "Finish", "KnownPacks", "ConfigPing", "Channel"} -> "config"
      [] kind \in {"World", "Respawn", "StartConfiguration", "PlayDisconnect", "ResourcePack",
                   "Chat"} -> "play"
      [] OTHER -> "any"

Ends == {"LegacyDisconnect", "LoginDisconnect", "PlayDisconnect", "Motd", "Incompatible", "Pong"}

(* The answer to a packet, none for most.                                       *)
Answer(kind) ==
    CASE kind = "StatusResponse" -> <<"PingRequest">>
      [] kind = "EncryptionRequest" -> <<"EncryptionResponse">>
      [] kind = "LoginSuccess" -> IF HasConfigurationPhase(setup.ver) THEN <<"LoginAck">> ELSE <<>>
      [] kind = "LoginPlugin" -> <<"LoginPluginAnswer">>
      [] kind = "Finish" -> <<"FinishAck">>
      [] kind = "KnownPacks" -> <<"KnownPacksAnswer">>
      [] kind = "ConfigPing" -> <<"ConfigPong">>
      [] kind = "Channel" -> <<"ChannelAnswer">>
      [] kind = "StartConfiguration" -> <<"ConfigurationAck">>
      [] OTHER -> <<>>

(* State and framing after a packet that was read.                              *)
Taken(kind) ==
    [state |-> CASE kind \in Ends -> "told"
                 [] kind = "LoginSuccess" -> IF HasConfigurationPhase(setup.ver) THEN "config" ELSE "play"
                 [] kind = "Finish" -> "play"
                 [] kind = "StartConfiguration" -> "config"
                 [] OTHER -> client.state,
     frame |-> CASE kind = "EncryptionRequest" -> [client.frame EXCEPT !.enc = TRUE]
                 [] kind = "SetCompression" -> [client.frame EXCEPT !.comp = TRUE]
                 [] OTHER -> client.frame]

Framed(kinds, f) == [i \in DOMAIN kinds |-> [kind |-> kinds[i], frame |-> f]]
Readable(p) == p.frame = client.frame /\ StateOf(p.kind) \in {client.state, "any"}

ClientReads ==
    /\ toClient # <<>> /\ client.state \notin Gone
    /\ LET p == Head(toClient)
       IN  IF Readable(p)
           THEN /\ client' = Taken(p.kind)
                /\ toProxy' = toProxy \o Framed(Answer(p.kind), client.frame)
           ELSE /\ client' = [client EXCEPT !.state = "broken"]
                /\ UNCHANGED toProxy
    /\ toClient' = Tail(toClient)
    /\ UNCHANGED <<setup, pc, proxy, left>>

(* The first packets: a ping, a join of the epoch, or something else.           *)
Openings ==
    IF Legacy THEN {"LegacyPing", "LegacyLogin"}
    ELSE {"Bedrock", "HandshakeStatus", "HandshakeLogin", "HandshakeOther"}

ClientOpens ==
    /\ client.state = "new"
    /\ \E o \in Openings :
         /\ client' = [client EXCEPT !.state = IF o = "HandshakeStatus" THEN "status" ELSE "login"]
         /\ toProxy' = Framed(CASE o = "HandshakeStatus" -> <<o, "StatusRequest">>
                                [] o = "HandshakeLogin" -> <<o, "LoginStart">>
                                [] OTHER -> <<o>>, Plain)
    /\ UNCHANGED <<setup, pc, proxy, toClient, left>>

ClientChats ==
    /\ client.state \in {"config", "play"} /\ ~Legacy /\ left.chat > 0
    /\ toProxy' = toProxy \o Framed(<<IF client.state = "config" THEN "ClientInformation" ELSE "Move">>,
                                    client.frame)
    /\ left' = [left EXCEPT !.chat = @ - 1]
    /\ UNCHANGED <<setup, pc, proxy, client, toClient>>

ClientLeaves ==
    /\ client.state \notin Gone
    /\ client' = [client EXCEPT !.state = "left"]
    /\ UNCHANGED <<setup, pc, proxy, toClient, toProxy, left>>

------------------------------------------------------------------------------
(* Writing, reading and ending.                                                 *)

Write(kinds) == toClient' = toClient \o Framed(kinds, frame)
Received == Head(toProxy).kind
Take == toProxy # <<>> /\ toProxy' = Tail(toProxy)

(* ConnectionError::Closed and Io: nobody is told.                              *)
Silent == {"closed", "io"}

(* Disconnect packets of the login and the play state; the pre-netty protocol   *)
(* has one for both.                                                            *)
Disconnect(state) ==
    IF Legacy THEN "LegacyDisconnect" ELSE IF state = "login" THEN "LoginDisconnect" ELSE "PlayDisconnect"

(* send_graceful_kick goes by conn_state; handle_legacy_login kicks on any      *)
(* error itself.                                                                *)
GracefulKick(err) ==
    CASE Legacy /\ err # "ok" /\ conn # "handshaking" -> <<"LegacyDisconnect">>
      [] ~Legacy /\ err \notin Silent \cup {"ok"} /\ conn \in {"login", "play"} -> <<Disconnect(conn)>>
      [] OTHER -> <<>>

(* run: the task ends, writing what the failing step writes and the kick.       *)
End(kinds, err) ==
    /\ pc' = "ended"
    /\ Write(kinds \o GracefulKick(err))

Fail(kinds, err) ==
    /\ End(kinds, err)
    /\ UNCHANGED <<setup, proxy, client, toProxy, left>>

(* Faulty variant: the session of a client that is gone stays.                  *)
GiveUpKeepsSession(kinds, err) ==
    /\ session' = (session /\ err \in Silent)
    /\ metric' = (metric /\ conn = "login")
    /\ End(kinds \o (IF err \in Silent \cup {"ok"} THEN <<>> ELSE <<Disconnect("play")>>), err)
    /\ UNCHANGED <<setup, conn, acked, inPlay, frame, drained, buffered, spoilt, client>>

(* The ends of finalise_login: before the first relay an error takes the        *)
(* session away, after it the player's metrics as well, and the player is told  *)
(* unless the error is silent (twice when a change of server has failed).       *)
GiveUp(kinds, err) ==
    /\ session' = FALSE
    /\ metric' = (metric /\ conn = "login")
    /\ End(kinds \o (IF err \in Silent \cup {"ok"} THEN <<>> ELSE <<Disconnect("play")>>), err)
    /\ UNCHANGED <<setup, conn, acked, inPlay, frame, drained, buffered, spoilt, client>>

------------------------------------------------------------------------------
(* run_inner: the first byte tells the epochs apart.                            *)

HandleLegacyPing == Received = "LegacyPing" /\ Take /\ End(<<"Motd">>, "ok") /\ UNCHANGED proxy
HandleBedrock == Received = "Bedrock" /\ Take /\ End(<<"Incompatible">>, "closed") /\ UNCHANGED proxy

(* What finalise_login does up to the plugins' word, with the framing f that    *)
(* the pipeline's outbound has set up and the packets it has sent.  It rejects  *)
(* the player in maintenance, or for a bad signature of an online profile.      *)
Finalise(sent, f) ==
    LET success == Framed(sent, f.before) \o Framed(<<"LoginSuccess">>, f.after)
        refusal == Framed(sent, f.before) \o Framed(<<Disconnect("login"), Disconnect("login")>>, f.after)
        pack == Framed(IF setup.pack THEN <<"ResourcePack">> ELSE <<>>, f.after)
    IN  /\ conn' = "login" /\ frame' = f.after
        /\ \/ /\ pc' = "ended"
              /\ toClient' = toClient \o refusal
              /\ UNCHANGED <<session, metric>>
           \/ /\ pc' = "joining"
              /\ session' = TRUE /\ metric' = TRUE
              /\ toClient' = toClient \o success \o pack
        /\ UNCHANGED <<acked, inPlay, drained, buffered, spoilt>>

(* The framing before and after SetCompression, which is neither sent nor       *)
(* applied before 1.8.                                                          *)
HasCompression == EpochOf(Nearest(setup.ver)) \notin {PreNetty, V1_7}

(* Faulty variant: applied to clients that have not been told.                  *)
CompressedUntold(f) == [f EXCEPT !.comp = setup.compress]

Compressed(f) == [f EXCEPT !.comp = setup.compress /\ HasCompression]
SetCompression == IF setup.compress /\ HasCompression THEN <<"SetCompression">> ELSE <<>>

(* 1.6: identity from a lookup by name; unknown names are refused online.       *)
HandleLegacyLogin ==
    /\ Received = "LegacyLogin" /\ Take
    /\ \/ /\ setup.online
          /\ pc' = "ended" /\ Write(<<"LegacyDisconnect">>)
          /\ conn' = "login"
          /\ UNCHANGED <<acked, inPlay, frame, drained, buffered, session, metric, spoilt>>
       \/ Finalise(<<>>, [before |-> frame, after |-> frame])

(* Another first byte is pushed back for the reader of the handshake.           *)
PushPrefix ==
    /\ Received \notin {"LegacyPing", "Bedrock", "LegacyLogin"}
    /\ pc' = "handshake"
    /\ UNCHANGED <<proxy, toClient, toProxy>>

Peek ==
    /\ pc = "peek" /\ toProxy # <<>>
    /\ HandleLegacyPing \/ HandleBedrock \/ HandleLegacyLogin \/ PushPrefix
    /\ UNCHANGED <<setup, client, left>>

ReadHandshake ==
    /\ pc = "handshake" /\ Take
    /\ CASE Received = "HandshakeStatus" -> pc' = "status" /\ conn' = "status" /\ UNCHANGED toClient
         [] Received = "HandshakeLogin" -> pc' = "loginStart" /\ conn' = "login" /\ UNCHANGED toClient
         [] OTHER -> End(<<>>, "closed") /\ UNCHANGED conn
    /\ UNCHANGED <<setup, acked, inPlay, frame, drained, buffered, session, metric, spoilt, client, left>>

(* handle_status, without a time-out.                                           *)
HandleStatus ==
    /\ pc \in {"status", "statusPing"} /\ Take
    /\ IF pc = "status" THEN pc' = "statusPing" /\ Write(<<"StatusResponse">>)
       ELSE End(<<"Pong">>, "ok")
    /\ UNCHANGED <<setup, proxy, client, left>>

(* handle_login: an unsupported version, a plugin's veto at PreLogin and an     *)
(* invalid name are refused; else the pipeline asks for encryption, or is done. *)
ReadLoginStart ==
    /\ pc = "loginStart" /\ Take
    /\ \/ End(<<"LoginDisconnect">>, "auth") /\ UNCHANGED proxy
       \/ setup.online /\ pc' = "encResponse" /\ Write(<<"EncryptionRequest">>) /\ UNCHANGED proxy
       \/ ~setup.online /\ Finalise(SetCompression, [before |-> frame, after |-> Compressed(frame)])
    /\ UNCHANGED <<setup, client, left>>

(* The pipeline's second step: the token or the session server refuse, or       *)
(* encryption and compression begin.                                            *)
ReadEncryptionResponse ==
    /\ pc = "encResponse" /\ Take
    /\ \/ End(<<"LoginDisconnect">>, "auth") /\ UNCHANGED proxy
       \/ LET secret == [frame EXCEPT !.enc = TRUE]
          IN  Finalise(SetCompression, [before |-> secret, after |-> Compressed(secret)])
    /\ UNCHANGED <<setup, client, left>>

------------------------------------------------------------------------------
(* Limbo.                                                                       *)

(* The end of run_configuration_phase's writes; send_login_play and the world.  *)
LimboConfig == <<"RegistryData", "Finish">>

(* Faulty variant: a client in play is configured without being asked back.     *)
EnterLimboUnasked(play, kinds) ==
    /\ inPlay' = play
    /\ drained' = 0
    /\ spoilt' = (spoilt \/ (~play /\ pc \in {"finishAck", "acking"}))
    /\ CASE ~HasConfigurationPhase(setup.ver) -> pc' = "limbo" /\ Write(kinds \o <<"World">>)
         [] HasConfigurationPhase(setup.ver) /\ acked -> pc' = "limboFinish" /\ Write(kinds \o LimboConfig)
         [] OTHER -> pc' = "limboAck" /\ Write(kinds)

(* limbo.run with client_in_play, after the packets kinds.                      *)
EnterLimbo(play, kinds) ==
    /\ inPlay' = play
    /\ drained' = 0
    /\ spoilt' = (spoilt \/ (~play /\ pc \in {"finishAck", "acking"}))
    /\ \/ /\ ~HasConfigurationPhase(setup.ver)
          /\ pc' = "limbo" /\ Write(kinds \o <<"World">>)
       \/ /\ HasConfigurationPhase(setup.ver) /\ play
          /\ pc' = "limboConfigAck" /\ Write(kinds \o <<"StartConfiguration">>)
       \/ /\ HasConfigurationPhase(setup.ver) /\ ~play /\ acked
          /\ pc' = "limboFinish" /\ Write(kinds \o LimboConfig)
       \/ /\ HasConfigurationPhase(setup.ver) /\ ~play /\ ~acked
          /\ pc' = "limboAck" /\ Write(kinds)

(* Whatever packet comes is taken for LoginAcknowledged.                        *)
LimboReadsAck ==
    /\ pc = "limboAck" /\ Take
    /\ pc' = "limboFinish" /\ Write(LimboConfig)
    /\ UNCHANGED <<setup, proxy, client, left>>

(* transition_play_to_config: play packets under way are dropped.               *)
LimboReadsConfigAck ==
    /\ pc = "limboConfigAck" /\ Take
    /\ IF Received = "ConfigurationAck" THEN pc' = "limboFinish" /\ Write(LimboConfig)
       ELSE UNCHANGED <<pc, toClient>>
    /\ UNCHANGED <<setup, proxy, client, left>>

(* A bounded number of packets is drained, then limbo goes on in any case.      *)
LimboReadsFinishAck ==
    /\ pc = "limboFinish" /\ Take
    /\ IF Received = "FinishAck" \/ drained + 1 = MAX_CONFIG_PACKETS
       THEN pc' = "limbo" /\ Write(<<"World">>)
       ELSE UNCHANGED <<pc, toClient>>
    /\ drained' = IF Received = "FinishAck" THEN drained ELSE drained + 1
    /\ UNCHANGED <<setup, conn, acked, inPlay, frame, buffered, session, metric, spoilt, client, left>>

LimboReads ==
    /\ pc = "limbo" /\ Take
    /\ UNCHANGED <<setup, pc, proxy, client, toClient, left>>

(* A backend takes the connection: Respawn, handshake, login with the client in *)
(* play.                                                                        *)
LimboLeaves ==
    /\ pc = "limbo"
    /\ pc' = "backendLogin" /\ Write(<<"Respawn">>)
    /\ inPlay' = TRUE
    /\ UNCHANGED <<setup, conn, acked, frame, drained, buffered, session, metric, spoilt, client,
                   toProxy, left>>

LimboShutdown ==
    /\ pc = "limbo"
    /\ GiveUp(<<Disconnect("play")>>, "closed")
    /\ UNCHANGED <<toProxy, left>>

------------------------------------------------------------------------------
(* connect_to_backend and complete_backend_login.                               *)

(* Plugins may refuse a join; else a backend is dialled, or there is none.      *)
Join ==
    /\ pc = "joining"
    /\ \/ GiveUp(<<>>, "auth")
       \/ pc' = "backendLogin" /\ inPlay' = FALSE
          /\ UNCHANGED <<setup, conn, acked, frame, drained, buffered, session, metric, spoilt, client, toClient>>
       \/ EnterLimbo(FALSE, <<>>)
          /\ UNCHANGED <<setup, conn, acked, frame, buffered, session, metric, client>>
    /\ UNCHANGED <<toProxy, left>>

(* A failure on the way to a backend: limbo on the first one, the end for a     *)
(* client that was in play.                                                     *)
BackendLost(err) ==
    IF inPlay THEN GiveUp(<<>>, err)
    ELSE EnterLimbo(FALSE, <<>>)
         /\ UNCHANGED <<setup, conn, acked, frame, buffered, session, metric, client>>

(* Where the task reads from the backend or writes to it.                       *)
BackendStages == {"backendLogin", "config", "acking", "worldReset"}

(* The backend closes or refuses, or sends what cannot be decoded.              *)
BackendFails ==
    /\ pc \in BackendStages
    /\ \E err \in {"closed", "protocol"} : BackendLost(err)
    /\ UNCHANGED <<toProxy, left>>

(* The link stands: Play, and the relay begins.                                 *)
Relays ==
    /\ pc' = "relay"
    /\ conn' = "play"
    /\ UNCHANGED <<setup, acked, inPlay, frame, drained, buffered, session, metric, spoilt, client, left>>

(* A change of server of a client whose worlds have a number for a dimension.   *)
ResetsWorld == conn = "play" /\ setup.ver < 735

(* LoginSuccess of the backend.  A client that has not been in play owes its    *)
(* acknowledgement; one in play is taken back to the configuration state, or    *)
(* has its world reset.                                                         *)
BackendSuccess ==
    /\ pc = "backendLogin"
    /\ CASE ~HasConfigurationPhase(setup.ver) /\ ResetsWorld ->
                pc' = "worldReset" /\ UNCHANGED <<setup, proxy, client, toClient, left>>
         [] ~HasConfigurationPhase(setup.ver) /\ ~ResetsWorld ->
                Relays /\ UNCHANGED toClient
         [] HasConfigurationPhase(setup.ver) /\ inPlay ->
                /\ pc' = "configAck" /\ Write(<<"StartConfiguration">>)
                /\ UNCHANGED <<setup, proxy, client, left>>
         [] OTHER -> pc' = "loginAck" /\ UNCHANGED <<setup, proxy, client, toClient, left>>
    /\ UNCHANGED toProxy

(* apply_switch_world_reset: the backend's JoinGame becomes a Respawn, after    *)
(* one to another dimension if it is limbo's, or none if the protocol has no    *)
(* shape for it; a first packet that is no JoinGame is passed on.               *)
WorldReset ==
    /\ pc = "worldReset"
    /\ \E kinds \in {<<>>, <<"Respawn">>, <<"Respawn", "Respawn">>, <<"Chat">>} : Write(kinds)
    /\ Relays
    /\ UNCHANGED toProxy

(* A question of the backend is passed on; one packet of the client is taken    *)
(* for the answer: a login plugin request of FML, a ping or a mod channel.      *)
Asks(stage, kind, then) ==
    /\ pc = stage /\ left.ask > 0
    /\ pc' = then /\ Write(<<kind>>)
    /\ left' = [left EXCEPT !.ask = @ - 1]
    /\ UNCHANGED <<setup, proxy, client, toProxy>>

BackendAsks ==
    \/ Asks("backendLogin", "LoginPlugin", "fmlAnswer")
    \/ Asks("config", "ConfigPing", "oneAnswer")
    \/ Asks("config", "Channel", "oneAnswer")
    \/ setup.ver >= 766 /\ Asks("config", "KnownPacks", "packsAnswer")

ReadAnswer ==
    /\ pc \in {"fmlAnswer", "oneAnswer", "packsAnswer"} /\ Take
    /\ pc' = CASE pc = "fmlAnswer" -> "backendLogin"
               [] pc = "packsAnswer" /\ Received # "KnownPacksAnswer" -> pc
               [] OTHER -> "config"
    /\ UNCHANGED <<setup, proxy, client, toClient, left>>

(* The answer is written to the backend, which may fail.                        *)
AnswerLost ==
    /\ pc \in {"fmlAnswer", "oneAnswer", "packsAnswer"} /\ Take
    /\ BackendLost("io")
    /\ UNCHANGED left

(* Faulty variant: the acknowledgement is not noted.                            *)
ReadLoginAckUnnoted ==
    /\ pc = "loginAck" /\ Take
    /\ pc' = "config"
    /\ buffered' = FALSE
    /\ UNCHANGED <<setup, conn, acked, inPlay, frame, drained, session, metric, spoilt, client, toClient, left>>

(* Any packet counts as the acknowledgement.                                    *)
ReadLoginAck ==
    /\ pc = "loginAck" /\ Take
    /\ pc' = "config"
    /\ acked' = TRUE /\ buffered' = FALSE
    /\ UNCHANGED <<setup, conn, inPlay, frame, drained, session, metric, spoilt, client, toClient, left>>

(* transition_client_to_config.                                                 *)
ReadConfigAck ==
    /\ pc = "configAck" /\ Take
    /\ IF Received = "ConfigurationAck" THEN pc' = "config" /\ acked' = TRUE /\ buffered' = FALSE
       ELSE UNCHANGED <<pc, acked, buffered>>
    /\ UNCHANGED <<setup, conn, inPlay, frame, drained, session, metric, spoilt, client, toClient, left>>

(* Other configuration packets wait for the backend's FinishConfiguration.      *)
BackendConfigures ==
    /\ pc = "config"
    /\ buffered' = TRUE
    /\ UNCHANGED <<setup, pc, conn, acked, inPlay, frame, drained, session, metric, spoilt, client,
                   toClient, toProxy, left>>

BackendFinishes ==
    /\ pc = "config"
    /\ pc' = "finishAck"
    /\ Write((IF buffered THEN <<"RegistryData">> ELSE <<>>) \o <<"Finish">>)
    /\ buffered' = FALSE
    /\ UNCHANGED <<setup, conn, acked, inPlay, frame, drained, session, metric, spoilt, client, toProxy, left>>

(* Packets before the acknowledgement are dropped; then the backend's           *)
(* acknowledgement is written, which may fail.                                  *)
ReadFinishAck ==
    /\ pc = "finishAck" /\ Take
    /\ pc' = IF Received = "FinishAck" THEN "acking" ELSE pc
    /\ UNCHANGED <<setup, proxy, client, toClient, left>>

AcknowledgeBackend ==
    /\ pc = "acking"
    /\ Relays
    /\ UNCHANGED <<toClient, toProxy>>

------------------------------------------------------------------------------
(* The relay, time-outs and closed sockets.                                     *)

(* The player asks for another server, or the backend kicks them (with a line   *)
(* of chat): switch_to_server.                                                  *)
Switch ==
    /\ pc = "relay" /\ left.switch > 0
    /\ \E kinds \in {<<>>, <<"Chat">>} : EnterLimbo(TRUE, kinds)
    /\ left' = [left EXCEPT !.switch = @ - 1]
    /\ UNCHANGED <<setup, conn, acked, frame, buffered, session, metric, client, toProxy>>

(* The relay has the client's stream and drops it.  What finalise_login and     *)
(* send_graceful_kick write after an error goes to the empty stream that the    *)
(* relay left in its place, and reaches nobody.                                 *)
RelayEnds ==
    /\ pc = "relay"
    /\ pc' = "ended"
    /\ session' = FALSE /\ metric' = FALSE
    /\ UNCHANGED <<setup, conn, acked, inPlay, frame, drained, buffered, spoilt, client, toClient,
                   toProxy, left>>

(* Reads with a time-out: an Io error.                                          *)
TimedOut ==
    /\ pc \in {"peek", "handshake", "loginStart", "encResponse", "configAck", "packsAnswer", "finishAck"}
    /\ IF pc \in {"peek", "handshake", "loginStart", "encResponse"}
       THEN Fail(<<>>, "io")
       ELSE BackendLost("io") /\ UNCHANGED <<toProxy, left>>

(* Faulty variant: limbo's select without the branch that reads.                *)
ReadsClientNotInLimbo ==
    {"peek", "handshake", "status", "statusPing", "loginStart", "encResponse", "fmlAnswer",
     "loginAck", "configAck", "oneAnswer", "packsAnswer", "finishAck", "limboAck", "limboConfigAck",
     "limboFinish"}

(* Where the task reads from the client and so sees that its socket is closed.  *)
ReadsClient == {"peek", "handshake", "status", "statusPing", "loginStart", "encResponse", "fmlAnswer",
                "loginAck", "configAck", "oneAnswer", "packsAnswer", "finishAck", "limboAck",
                "limboConfigAck", "limboFinish", "limbo"}

NoticesClosed ==
    /\ client.state \in Gone /\ toProxy = <<>> /\ pc \in ReadsClient
    /\ CASE pc \in {"peek", "handshake", "status", "statusPing", "loginStart", "encResponse"} ->
                Fail(<<>>, "closed")
         [] pc \in {"limboAck", "limboConfigAck", "limboFinish", "limbo"} ->
                GiveUp(<<>>, "closed") /\ UNCHANGED <<toProxy, left>>
         [] OTHER -> BackendLost("closed") /\ UNCHANGED <<toProxy, left>>

Task ==
    \/ Peek \/ ReadHandshake \/ HandleStatus \/ ReadLoginStart \/ ReadEncryptionResponse
    \/ Join \/ ReadAnswer \/ AnswerLost \/ ReadLoginAck \/ ReadConfigAck \/ ReadFinishAck \/ AcknowledgeBackend
    \/ LimboReadsAck \/ LimboReadsConfigAck \/ LimboReadsFinishAck \/ LimboReads
    \/ TimedOut \/ NoticesClosed

Backend == BackendFails \/ BackendSuccess \/ BackendAsks \/ BackendFinishes \/ WorldReset

(* The relay's loops read the client's socket.                                  *)
RelaySeesClosed == client.state \in Gone /\ RelayEnds

LoginNext ==
    \/ ClientReads \/ ClientOpens \/ ClientChats \/ ClientLeaves
    \/ Task \/ Backend \/ BackendConfigures
    \/ RelayEnds \/ Switch \/ LimboLeaves \/ LimboShutdown

LoginSpec == LoginInit /\ [][LoginNext]_vars

(* The runtime polls the task, timers fire, and backends answer or close a      *)
(* login; no backend need ever come for a player in limbo.                      *)
LoginFairSpec == LoginSpec /\ WF_vars(Task) /\ WF_vars(Backend) /\ WF_vars(RelaySeesClosed)

------------------------------------------------------------------------------
Waiting == client.state \notin Gone /\ toClient # <<>>
First == Head(toClient)

(* Each side reads a packet with the encryption and compression it was written  *)
(* with, although the two sides switch at different moments and 1.7 has no      *)
(* compression (handle_login).  One packet is not read: the disconnect of a     *)
(* login that failed after the client's EncryptionResponse is sent in the       *)
(* clear, while the client has begun to encrypt.                                *)
FramingAgrees ==
    /\ Waiting => \/ First.frame = client.frame
                  \/ First.kind = "LoginDisconnect" /\ client.frame.enc /\ ~frame.enc
    /\ toProxy # <<>> /\ pc # "ended" => Head(toProxy).frame = frame

(* A packet reaches the client in the protocol state that reads it, on every    *)
(* way through login, configuration, limbo and changes of server.  Except: a    *)
(* kick, which goes by conn_state; a login plugin request of the backend and,   *)
(* from 1.20.2 on, a resource pack, which come after LoginSuccess; and limbo's  *)
(* configuration after a backend was lost that had finished its own.            *)
ArrivesInState ==
    Waiting => \/ StateOf(First.kind) \in {client.state, "any"}
               \/ First.kind \in Ends /\ pc = "ended"
               \/ First.kind = "LoginPlugin"
               \/ First.kind = "ResourcePack" /\ HasConfigurationPhase(setup.ver)
               \/ First.kind \in {"RegistryData", "Finish"} /\ spoilt

(* client_login_acked says whether the client's LoginAcknowledged was read:     *)
(* where the code takes any packet for it, it is that packet, and a fall-back   *)
(* into limbo neither reads it twice nor leaves it on the stream.               *)
AckIsReadOnce ==
    LET plugin == \E i \in DOMAIN toClient : toClient[i].kind = "LoginPlugin"
    IN  client.state \notin Gone /\ ~plugin =>
            /\ pc \in {"loginAck", "limboAck"} =>
                    IF toProxy = <<>> THEN client.state = "login" ELSE Received = "LoginAck"
            /\ acked => \A i \in DOMAIN toProxy : toProxy[i].kind # "LoginAck"

(* Whichever way a connection ends, its session is gone, and it had one only    *)
(* after its login; the player's metrics stay behind exactly when it ends       *)
(* between login and relay (finalise_login unregisters after the relay only).   *)
EndLeavesNoSession ==
    /\ pc = "ended" => ~session
    /\ session => conn \in {"login", "play"} /\ (setup.online /\ ~Legacy => frame.enc)
    /\ metric => session \/ (pc = "ended" /\ conn = "login")
    /\ session => metric

(* A client that closes its connection ends the task, wherever that waits, if   *)
(* backends answer or close; and one that says nothing is not waited for in     *)
(* handshake, login and in answer to the proxy's own requests in configuration. *)
ClientsCannotHold ==
    /\ client.state \in Gone ~> pc = "ended"
    /\ \A w \in {"peek", "handshake", "loginStart", "encResponse", "configAck", "finishAck"} :
          pc = w ~> pc # w
=============================================================================
