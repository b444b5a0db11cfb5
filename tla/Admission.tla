----------------------------- MODULE Admission -----------------------------
(***************************************************************************)
(* How a player gets onto a backend and off it again: the session          *)
(* lifecycle of net/connection.rs (finalise_login, connect_to_backend,     *)
(* run_limbo_then_connect, switch_to_server), limbo (net/limbo.rs), the    *)
(* full-server queue (net/queue.rs), the entry and exit of the relay       *)
(* (net/relay.rs) and the per-backend player counters of server.rs.        *)
(*                                                                         *)
(* Every connection is a Tokio task; they share the session map, the       *)
(* queues and the counters.  An action is what a task does between two     *)
(* points where it waits for a socket, so tasks interleave at those.       *)
(* The registry is fixed here except for the online flags, and there are   *)
(* no failover groups (see Failover).                                      *)
(***************************************************************************)
EXTENDS Naturals, Sequences, FiniteSets

CONSTANTS
  Conns,          \* client connections
  Uuid,           \* Uuid[c]: the player behind connection c
  Servers,        \* registered backends
  MaxPlayers,     \* MaxPlayers[s]: max_players, 0 = unlimited
  Probed,         \* backends the health prober may mark unhealthy
  Managed,        \* backends that report their status to the proxy
  ServerRegion,   \* ServerRegion[s]
  ClientRegion,   \* the region GeoIP gives to the clients
  DefaultServer,  \* routing.default_server
  QueueEnabled,   \* queue.enabled
  MaxQueueSize,   \* queue.max_queue_size, 0 = unlimited
  Legacy,         \* connections with a protocol version below 735
  CommandTargets, \* backends that a Connect transfer command may name
  MaxLost,        \* bound: players per backend that stay counted for good
  CountRange      \* player counters are usize: 0..CountRange-1, wrapping

ASSUME ConnsAssumption == IsFiniteSet(Conns) /\ Legacy \subseteq Conns
ASSUME CountAssumption ==
  /\ CountRange \in Nat /\ MaxLost \in Nat /\ Cardinality(Conns) + MaxLost < CountRange
  /\ CommandTargets \subseteq Servers
ASSUME NamesAssumption == Servers \cap {"unpinned", "none", ""} = {}

Players == {Uuid[c] : c \in Conns}
Unpinned == "unpinned"   \* LimboHandler::target_server = None
NoName == ""             \* unwrap_or_default() of a missing fallback
None == "none"           \* Option::None of a backend

VARIABLES
  phase,     \* phase[c]: where the task of c is
  target,    \* target[c]: limbo's target_server
  picked,    \* picked[c]: the backend the task holds across a wait
  wire,      \* wire[c]: the backend at the other end of c's backend socket
  current,   \* current[c]: the session's current_server
  moved,     \* moved[c]: the session's `transferred` flag
  sessions,  \* players with an entry in the session map
  queues,    \* queues[s]: players waiting for s
  players,   \* players[s]: player_count
  lost,      \* history: lost[s], the players counted on s whom no exit takes back
  online     \* online[s]

vars == <<phase, target, picked, wire, current, moved, sessions, queues, players, lost, online>>

Phases == {"out", "login", "joining", "limbo", "dialing", "leaving", "relogin",
           "reset", "entering", "relay"}

R == INSTANCE Routing WITH ServerGroups <- [g \in {} |-> {}]

(* The registry as routing sees it while the servers in `sick` are marked  *)
(* unhealthy.                                                              *)
Registry(sick) ==
  [s \in Servers |->
     [online |-> online[s], players |-> players[s], max |-> MaxPlayers[s],
      unhealthy |-> s \in sick, region |-> ServerRegion[s], weight |-> 1, latency |-> 0]]

Full(s) == R!IsFull(Registry({})[s])

OrNone(picks) == IF picks = {} THEN {None} ELSE picks

(* select_with_region, at a moment when the prober may have marked any of  *)
(* the probed backends; also what route_via_failover returns.              *)
JoinPicks ==
  OrNone(UNION {R!SelectWithRegion(ClientRegion, reg) : reg \in {Registry(sick) : sick \in SUBSET Probed}})

(* fetch_add and fetch_sub of a usize.                                     *)
Inc(n) == IF n = CountRange - 1 THEN 0 ELSE n + 1
Dec(n) == IF n = 0 THEN CountRange - 1 ELSE n - 1

-----------------------------------------------------------------------------

Init ==
  /\ phase = [c \in Conns |-> "out"]
  /\ target = [c \in Conns |-> Unpinned]
  /\ picked = [c \in Conns |-> None]
  /\ wire = [c \in Conns |-> None]
  /\ current = [c \in Conns |-> None]
  /\ moved = [c \in Conns |-> FALSE]
  /\ sessions = {}
  /\ queues = [s \in Servers |-> <<>>]
  /\ players = [s \in Servers |-> 0]
  /\ lost = [s \in Servers |-> 0]
  /\ online = [s \in Servers |-> TRUE]

Goto(c, p) == phase' = [phase EXCEPT ![c] = p]

(* Faulty variant: the session stays in the map.                           *)
ForgetKeepsSession(c) ==
  /\ Goto(c, "out")
  /\ target' = [target EXCEPT ![c] = Unpinned]
  /\ picked' = [picked EXCEPT ![c] = None]
  /\ wire' = [wire EXCEPT ![c] = None]
  /\ current' = [current EXCEPT ![c] = None]
  /\ moved' = [moved EXCEPT ![c] = FALSE]
  /\ UNCHANGED sessions

(* The end of the task: its locals and its session are gone.               *)
Forget(c) ==
  /\ Goto(c, "out")
  /\ target' = [target EXCEPT ![c] = Unpinned]
  /\ picked' = [picked EXCEPT ![c] = None]
  /\ wire' = [wire EXCEPT ![c] = None]
  /\ current' = [current EXCEPT ![c] = None]
  /\ moved' = [moved EXCEPT ![c] = FALSE]
  /\ sessions' = sessions \ {Uuid[c]}

(* VecDeque::retain: everybody but p stays, in order.                      *)
Without(q, p) ==
  LET kept[i \in 0..Len(q)] ==
        IF i = 0 THEN <<>> ELSE IF q[i] = p THEN kept[i - 1] ELSE Append(kept[i - 1], q[i])
  IN  kept[Len(q)]

RemoveFromAll(p) == queues' = [s \in Servers |-> Without(queues[s], p)]

(* b.player_count.fetch_add and session.current_server = Some(b).          *)
Attach(c, s) ==
  /\ current' = [current EXCEPT ![c] = s]
  /\ players' = IF s \in Servers THEN [players EXCEPT ![s] = Inc(@)] ELSE players

(* Faulty variant: the counter is not taken back.                          *)
DetachedForgotten(c) == players

Detached(c) == IF current[c] \in Servers THEN [players EXCEPT ![current[c]] = Dec(@)] ELSE players

(* A connection ends without giving back what was counted for it.          *)
StaysCounted(c) ==
  /\ current[c] \in Servers => lost[current[c]] < MaxLost
  /\ lost' = [s \in Servers |-> IF s = current[c] THEN lost[s] + 1 ELSE lost[s]]
  /\ players' = players

(* What PacketRelay::run does to the counter once its loops have ended: a  *)
(* transferred session is not taken back.                                  *)
Detach(c) ==
  IF moved[c] THEN StaysCounted(c) ELSE players' = Detached(c) /\ lost' = lost

-----------------------------------------------------------------------------
(* finalise_login and connect_to_backend.                                  *)

Login(c) ==
  /\ phase[c] = "out"
  /\ Goto(c, "login")
  /\ sessions' = sessions \cup {Uuid[c]}
  /\ UNCHANGED <<target, picked, wire, current, moved, queues, players, lost, online>>

(* A plugin answers PlayerJoin with a kick of this player.                 *)
JoinVetoed(c) ==
  /\ phase[c] = "login"
  /\ Forget(c)
  /\ UNCHANGED <<queues, players, lost, online>>

RouteJoin(c) ==
  /\ phase[c] = "login"
  /\ \E b \in JoinPicks :
       /\ Goto(c, IF b = None THEN "limbo" ELSE "joining")
       /\ picked' = [picked EXCEPT ![c] = b]
  /\ UNCHANGED <<target, wire, current, moved, sessions, queues, players, lost, online>>

JoinSucceeds(c) ==
  /\ phase[c] = "joining"
  /\ Goto(c, "entering")
  /\ Attach(c, picked[c])
  /\ wire' = [wire EXCEPT ![c] = picked[c]]
  /\ picked' = [picked EXCEPT ![c] = None]
  /\ UNCHANGED <<target, moved, sessions, queues, lost, online>>

(* Unreachable, handshake failed or login failed: into limbo, unpinned.    *)
JoinFails(c) ==
  /\ phase[c] = "joining"
  /\ Goto(c, "limbo")
  /\ picked' = [picked EXCEPT ![c] = None]
  /\ UNCHANGED <<target, wire, current, moved, sessions, queues, players, lost, online>>

-----------------------------------------------------------------------------
(* The limbo loop.                                                         *)

(* candidate_backend.                                                      *)
Candidates(c) ==
  IF target[c] = Unpinned THEN R!Select(Registry({}))
  ELSE {s \in Servers : s = target[c] /\ online[s]}

Enqueue(q, p) ==
  IF (\E i \in DOMAIN q : q[i] = p) \/ (MaxQueueSize # 0 /\ Len(q) >= MaxQueueSize)
  THEN q ELSE Append(q, p)

(* Faulty variant: the front is looked for one place further back.         *)
IsSecondOrUnqueued(s, p) == queues[s] # <<>> => Len(queues[s]) > 1 /\ queues[s][2] = p

IsFrontOrUnqueued(s, p) == queues[s] # <<>> => Head(queues[s]) = p

(* try_connect_backend up to the dial: a full candidate queues the player, *)
(* a candidate with room is dialled by the front of its queue only.        *)
PollFull(c) ==
  /\ phase[c] = "limbo" /\ QueueEnabled
  /\ \E s \in Candidates(c) :
       /\ Full(s)
       /\ queues' = [queues EXCEPT ![s] = Enqueue(@, Uuid[c])]
  /\ UNCHANGED <<phase, target, picked, wire, current, moved, sessions, players, lost, online>>

(* Faulty variant: the queue is not consulted.                             *)
MayDialOutOfTurn(c, s) == QueueEnabled => ~Full(s)

MayDial(c, s) == QueueEnabled => ~Full(s) /\ IsFrontOrUnqueued(s, Uuid[c])

PollDial(c) ==
  /\ phase[c] = "limbo"
  /\ \E s \in Candidates(c) :
       /\ MayDial(c, s)
       /\ picked' = [picked EXCEPT ![c] = s]
  /\ Goto(c, "dialing")
  /\ UNCHANGED <<target, wire, current, moved, sessions, queues, players, lost, online>>

DialSucceeds(c) ==
  /\ phase[c] = "dialing"
  /\ Goto(c, "leaving")
  /\ wire' = [wire EXCEPT ![c] = picked[c]]
  /\ queues' = IF QueueEnabled
               THEN [queues EXCEPT ![picked[c]] = Without(@, Uuid[c])] ELSE queues
  /\ UNCHANGED <<target, picked, current, moved, sessions, players, lost, online>>

DialFails(c) ==
  /\ phase[c] = "dialing"
  /\ Goto(c, "limbo")
  /\ picked' = [picked EXCEPT ![c] = None]
  /\ UNCHANGED <<target, wire, current, moved, sessions, queues, players, lost, online>>

-----------------------------------------------------------------------------
(* From limbo to the relay.  After an unpinned limbo the backend to log in *)
(* to is looked up again through routing, after a pinned one by its name.  *)

LeaveLimbo(c) ==
  /\ phase[c] = "leaving"
  /\ Goto(c, "relogin")
  /\ \E b \in (IF target[c] = Unpinned THEN JoinPicks ELSE {target[c]}) :
       picked' = [picked EXCEPT ![c] = b]
  /\ UNCHANGED <<target, wire, current, moved, sessions, queues, players, lost, online>>

(* Handshake and login on the dialled socket.  A legacy client that was    *)
(* switched still has its world to be reset.                               *)
ReloginSucceeds(c) ==
  /\ phase[c] = "relogin"
  /\ Goto(c, IF c \in Legacy /\ target[c] # Unpinned THEN "reset" ELSE "entering")
  /\ target' = [target EXCEPT ![c] = IF c \in Legacy THEN @ ELSE Unpinned]
  /\ Attach(c, picked[c])
  /\ picked' = [picked EXCEPT ![c] = None]
  /\ UNCHANGED <<wire, moved, sessions, queues, lost, online>>

WorldResetDone(c) ==
  /\ phase[c] = "reset"
  /\ Goto(c, "entering")
  /\ target' = [target EXCEPT ![c] = Unpinned]
  /\ UNCHANGED <<picked, wire, current, moved, sessions, queues, players, lost, online>>

(* The client leaves while in limbo, the proxy shuts down, or the login    *)
(* fails.  On the initial join finalise_login returns early and only drops *)
(* the session; after a switch its common exit also clears the queues.     *)
AbortJoin(c) ==
  /\ phase[c] \in {"limbo", "leaving", "relogin"}
  /\ target[c] = Unpinned
  /\ Forget(c)
  /\ UNCHANGED <<queues, players, lost, online>>

AbortSwitch(c) ==
  /\ phase[c] \in {"limbo", "leaving", "relogin"}
  /\ target[c] # Unpinned
  /\ Forget(c)
  /\ RemoveFromAll(Uuid[c])
  /\ UNCHANGED <<players, lost, online>>

(* The client is gone by the time its world is to be reset or the relay    *)
(* writes its first packet: `?` returns past the exit that takes the       *)
(* counter back.                                                           *)
AbortEntry(c) ==
  /\ phase[c] \in {"reset", "entering"}
  /\ StaysCounted(c)
  /\ Forget(c)
  /\ RemoveFromAll(Uuid[c])
  /\ UNCHANGED online

-----------------------------------------------------------------------------
(* The relay and its three exits.                                          *)

RelayStarts(c) ==
  /\ phase[c] = "entering"
  /\ Goto(c, "relay")
  /\ UNCHANGED <<target, picked, wire, current, moved, sessions, queues, players, lost, online>>

(* handle_transfer_command: the backend asks for a Connect.  The session   *)
(* and the counters move; the connection does not.                         *)
TransferCommand(c) ==
  /\ phase[c] = "relay"
  /\ \E s \in CommandTargets :
       /\ players' = [Detached(c) EXCEPT ![s] = Inc(@)]
       /\ current' = [current EXCEPT ![c] = s]
  /\ moved' = [moved EXCEPT ![c] = TRUE]
  /\ UNCHANGED <<phase, target, picked, wire, sessions, queues, lost, online>>

RelayEnds(c) ==
  /\ phase[c] = "relay"
  /\ Detach(c)
  /\ Forget(c)
  /\ RemoveFromAll(Uuid[c])
  /\ UNCHANGED online

IntoPinnedLimbo(c, name) ==
  /\ phase[c] = "relay"
  /\ Goto(c, "limbo")
  /\ Detach(c)
  /\ current' = [current EXCEPT ![c] = None]
  /\ wire' = [wire EXCEPT ![c] = None]
  /\ target' = [target EXCEPT ![c] = name]
  /\ UNCHANGED <<picked, moved, sessions, queues, online>>

(* request_switch: the server selector, /server or /hub.                   *)
Switch(c) == \E s \in Servers : online[s] /\ IntoPinnedLimbo(c, s)

(* The backend sends a Disconnect packet; the fallback is what routing     *)
(* selects at this moment, or the empty name.                              *)
BackendKicks(c) ==
  LET picks == R!Select(Registry({}))
  IN  \E name \in (IF picks = {} THEN {NoName} ELSE picks) : IntoPinnedLimbo(c, name)

(* server_management.rs::handle_status_update, the online half.            *)
SetOnline(s) ==
  /\ s \in Managed
  /\ online' = [online EXCEPT ![s] = ~@]
  /\ UNCHANGED <<phase, target, picked, wire, current, moved, sessions, queues, players, lost>>

-----------------------------------------------------------------------------

Connecting(c) ==
  \/ Login(c) \/ JoinVetoed(c) \/ RouteJoin(c) \/ JoinSucceeds(c) \/ JoinFails(c)

InLimbo(c) ==
  \/ PollFull(c) \/ PollDial(c) \/ DialSucceeds(c) \/ DialFails(c)
  \/ LeaveLimbo(c) \/ ReloginSucceeds(c) \/ WorldResetDone(c)
  \/ AbortJoin(c) \/ AbortSwitch(c) \/ AbortEntry(c)

InRelay(c) == RelayStarts(c) \/ TransferCommand(c) \/ RelayEnds(c) \/ Switch(c) \/ BackendKicks(c)

Next ==
  \/ \E c \in Conns : Connecting(c) \/ InLimbo(c) \/ InRelay(c)
  \/ \E s \in Servers : SetOnline(s)

Spec == Init /\ [][Next]_vars

(* Tasks are polled by the Tokio runtime and limbo polls on an interval,   *)
(* so a step that stays possible is taken.  A dial has a timeout; the      *)
(* login that follows has none, and backends are assumed to answer it or   *)
(* to close.  One that is dialled again and again accepts in the end.      *)
TaskStep(c) ==
  \/ RouteJoin(c) \/ JoinSucceeds(c) \/ JoinFails(c) \/ PollDial(c) \/ DialFails(c)
  \/ LeaveLimbo(c) \/ ReloginSucceeds(c) \/ WorldResetDone(c) \/ RelayStarts(c)

Fairness == \A c \in Conns : WF_vars(TaskStep(c)) /\ SF_vars(DialSucceeds(c))

FairSpec == Spec /\ Fairness

-----------------------------------------------------------------------------
(* Connections whose session names s as the current server.                *)
Attached(s) == {c \in Conns : current[c] = s}

(* The player counters balance: every way in adds one, and every way out   *)
(* takes the same one back except the exits that StaysCounted lists.  So   *)
(* the unsigned counter of server.rs never wraps below zero, and it is off *)
(* by exactly those players.                                               *)
CountsBalance == \A s \in Servers : players[s] = Cardinality(Attached(s)) + lost[s]

(* The session map has exactly the players that are somewhere between      *)
(* login and disconnect (one connection per player).                       *)
SessionWhileConnected ==
  \A c \in Conns : phase[c] # "out" <=> Uuid[c] \in sessions

Position(q, p) == {i \in DOMAIN q : q[i] = p}
Queued(s) == {queues[s][i] : i \in DOMAIN queues[s]}

(* The queue is first come, first served ("let through in arrival order",  *)
(* Usage.md): a player who stays connected leaves a queue only from its    *)
(* front, players who stay keep their order, newcomers go behind them, and *)
(* nobody is in a queue twice.                                             *)
QueueIsFair ==
  [][\A s \in Servers :
       /\ \A p \in Queued(s) \ Queued(s)' : p = Head(queues[s]) \/ p \notin sessions'
       /\ \A p \in Queued(s) \cap Queued(s)' :
            \A q \in Queued(s)' \ {p} :
              \A i \in Position(queues'[s], p), j \in Position(queues'[s], q) :
                j < i => \E k \in Position(queues[s], q) :
                           \A l \in Position(queues[s], p) : k < l
       /\ \A p \in Queued(s)' : Cardinality(Position(queues'[s], p)) = 1]_vars

Waiting(c) == phase[c] \in {"limbo", "dialing"}

(* The front of the queue of s does not poll s: its player is gone, plays  *)
(* elsewhere or is on the way there, or waits for another backend.         *)
(* connection.rs, on leaving the queues at disconnect, knows of the first: *)
(* "otherwise they'd sit there forever, blocking whoever's behind them";   *)
(* the early return of the initial join does not do it, and a successful   *)
(* dial takes the player off the queue of that one backend only.           *)
Polls(c, s) ==
  \/ phase[c] = "limbo" /\ s \in Candidates(c)
  \/ phase[c] = "dialing" /\ picked[c] = s
StaleFront(s) ==
  queues[s] # <<>> /\ \A c \in Conns : Uuid[c] = Head(queues[s]) => ~Polls(c, s)

(* What keeps a player in limbo: a target without a name, or a stale front *)
(* of the queue of their own backend.                                      *)
HeldInLimbo(c) ==
  Waiting(c) /\ (target[c] = NoName \/ \E s \in Candidates(c) : StaleFront(s))

(* limbo.rs keeps the client "polling for the backend to come back", and   *)
(* the queue lets them through "as slots free up" (Usage.md): once every   *)
(* backend stays online with room, everyone in limbo gets out of it, queue *)
(* or not, unless they are held there again and again.                     *)
LimboFindsBackend ==
  <>[](\A s \in Servers : online[s] /\ ~Full(s)) =>
    \A c \in Conns : []<>(~Waiting(c) \/ HeldInLimbo(c))

-----------------------------------------------------------------------------
(* What comments and the manual say and the code does not do.              *)

Arriving(s) == {c \in Conns : phase[c] \in {"leaving", "relogin"} /\ wire[c] = s}

(* limbo.rs: "only the queue's front player is let through, so multiple    *)
(* queued limbo pollers don't race the same slot": a player let out of the *)
(* queue finds a slot that no other arriving player is about to take.      *)
QueueAdmitsIntoFreeSlots ==
  [][\A s \in Servers :
       (\E p \in Queued(s) \ Queued(s)' : p \in sessions') =>
         players'[s] + Cardinality(Arriving(s)') <= MaxPlayers[s]]_vars
=============================================================================
