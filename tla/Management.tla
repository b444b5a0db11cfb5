----------------------------- MODULE Management -----------------------------
(***************************************************************************)
(* Tasks that change registry entries and sessions under running           *)
(* connections: the orchestration channel (services/server_management.rs), *)
(* plugin commands and configuration reload (proxy.rs), and ConnectOther   *)
(* (net/relay.rs).  They share the counters and the sessions with the      *)
(* connection tasks, so the handlers are cut where another thread can act: *)
(* a step is one lock section or one access of the registry.               *)
(*                                                                         *)
(* A connection is reduced to what meets these tasks: the entry it holds   *)
(* while it logs in to the backend, and the end of its relay.  Routing,    *)
(* limbo and queues are in Admission.                                      *)
(***************************************************************************)
EXTENDS Naturals, Sequences, FiniteSets

CONSTANTS
  People,       \* players
  Names,        \* names of backends
  Configured,   \* config.servers: a sequence of names
  Reports,      \* player counts that status messages carry
  Workers,      \* handlers that can be in progress at the same time
  MaxLogins,    \* bound: connections per player
  MaxCalls,     \* bound: messages, commands and reloads
  CountRange    \* counters are usize: 0..CountRange-1, wrapping

ASSUME MgmtAssumption ==
  /\ IsFiniteSet(People) /\ "none" \notin People \cup Names
  /\ Configured \in Seq(Names) /\ Reports \subseteq Nat
  /\ CountRange \in Nat /\ Cardinality(People) < CountRange
  /\ MaxLogins \in Nat /\ MaxCalls \in Nat

Nobody == "none"

ConfiguredNames == {Configured[i] : i \in DOMAIN Configured}

(* config.servers.first(), or "lobby".                                     *)
DefaultName == IF Configured = <<>> THEN "lobby" ELSE Head(Configured)

VARIABLES
  stage,      \* stage[p]: out, joining, counted, playing, ending, uncounted, closing,
              \* blocked: its worker thread waits for the session map
  login,      \* login[p]: how many sessions p has had; names the session object
  held,       \* held[p]: name of the entry found by routing
  stale,      \* players who hold an entry that has been replaced or removed since
  server,     \* server[p]: current_server of p's session
  flagged,    \* flagged[p]: `transferred` of p's session
  leaving,    \* leaving[p]: the name the end of the relay has read
  entries,    \* names in the registry
  count,      \* count[s]: player_count of the current entry
  op,         \* op[w]: the handler in progress; op[w].read is the count or session it has read
  kicks,      \* players with a Disconnect in their outbound channel
  disturbed,  \* history: one of the listed disturbances has happened
  calls,      \* calls so far
  late        \* history: late[w], players who came to `from` behind an evacuation

connVars == <<stage, login, held, stale, server, flagged, leaving>>
regVars == <<entries, count>>
mgmtVars == <<connVars, regVars, op, kicks, disturbed, calls, late>>

IdleOp == [kind |-> "idle", at |-> "start", who |-> Nobody, read |-> 0,
           from |-> Nobody, to |-> Nobody, last |-> FALSE, todo |-> {}]

MgmtInit ==
  /\ stage = [p \in People |-> "out"]
  /\ login = [p \in People |-> 0]
  /\ held = [p \in People |-> Nobody]
  /\ stale = {}
  /\ server = [p \in People |-> Nobody]
  /\ flagged = [p \in People |-> FALSE]
  /\ leaving = [p \in People |-> Nobody]
  /\ entries = ConfiguredNames
  /\ count = [s \in Names |-> 0]
  /\ op = [w \in Workers |-> IdleOp]
  /\ kicks = {}
  /\ disturbed = FALSE
  /\ calls = 0
  /\ late = [w \in Workers |-> {}]

-----------------------------------------------------------------------------
(* Counters.  An access by name finds the current entry or none.           *)

Up(cnt, s) == IF s \in entries THEN [cnt EXCEPT ![s] = (@ + 1) % CountRange] ELSE cnt
Down(cnt, s) == IF s \in entries THEN [cnt EXCEPT ![s] = (@ + CountRange - 1) % CountRange] ELSE cnt

Busy(p) == {w \in Workers : op[w].who = p}

(* Faulty variant: the read guard lives on while the name is written.      *)
ReadLockedAcrossWrite(p) ==
  \/ \E w \in Busy(p) : op[w].kind = "transfer" /\ op[w].at \in {"old", "name"}
  \/ stage[p] = "ending"

(* A transfer holds a guard of the session map until it is done, across    *)
(* the awaits in between.  The session's read lock is held by a transfer   *)
(* while it gives the player back on the old server, and by the end of the *)
(* relay while it does.                                                    *)
Guarded(p) == \E w \in Busy(p) : op[w].kind = "transfer"
ReadLocked(p) ==
  \/ \E w \in Busy(p) : op[w].kind = "transfer" /\ op[w].at = "old"
  \/ stage[p] = "ending"

Note(b) == disturbed' = (disturbed \/ b)

(* Another message, command or reload.                                     *)
Called == calls < MaxCalls /\ calls' = calls + 1

(* Players who get `s` as their server while `s` is being evacuated.       *)
Arrives(p, s) ==
  late' = [w \in Workers |->
             IF op[w].kind = "evacuate" /\ op[w].last /\ op[w].from = s THEN late[w] \cup {p} ELSE late[w]]

-----------------------------------------------------------------------------
(* The connection task.                                                    *)

(* finalise_login and routing: a new session; routing returns an entry.    *)
Enter(p) ==
  /\ stage[p] = "out" /\ login[p] < MaxLogins
  /\ \E s \in entries : held' = [held EXCEPT ![p] = s]
  /\ stale' = stale \ {p}
  /\ stage' = [stage EXCEPT ![p] = "joining"]
  /\ login' = [login EXCEPT ![p] = @ + 1]
  /\ server' = [server EXCEPT ![p] = Nobody]
  /\ flagged' = [flagged EXCEPT ![p] = FALSE]
  /\ leaving' = [leaving EXCEPT ![p] = Nobody]
  /\ kicks' = kicks \ {p}
  /\ UNCHANGED <<regVars, op, disturbed, late, calls>>

(* connect_to_backend: the entry that was found before the login on the    *)
(* backend is counted after it, even if the name has a newer one.          *)
CountJoin(p) ==
  /\ stage[p] = "joining"
  /\ count' = IF p \in stale THEN count ELSE Up(count, held[p])
  /\ stage' = [stage EXCEPT ![p] = "counted"]
  /\ UNCHANGED <<login, held, stale, server, flagged, leaving, entries, op, kicks, disturbed, late, calls>>

NameJoin(p) ==
  /\ stage[p] = "counted" /\ ~ReadLocked(p)
  /\ stage' = [stage EXCEPT ![p] = "playing"]
  /\ server' = [server EXCEPT ![p] = held[p]]
  /\ held' = [held EXCEPT ![p] = Nobody]
  /\ stale' = stale \ {p}
  /\ Arrives(p, held[p])
  /\ UNCHANGED <<login, flagged, leaving, regVars, op, kicks, disturbed, calls>>

(* The end of PacketRelay::run: the flag and the name are read, the entry  *)
(* of that name gives the player back, the name is cleared; the outer      *)
(* connection code then drops the session: `remove` of the map is no await *)
(* but a lock, which blocks the worker thread while a guard is held.       *)
EndRelay(p) ==
  /\ stage[p] = "playing"
  /\ stage' = [stage EXCEPT ![p] = "ending"]
  /\ leaving' = [leaving EXCEPT ![p] = IF flagged[p] THEN Nobody ELSE server[p]]
  /\ kicks' = kicks \ {p}
  /\ Note(Busy(p) # {} \/ (flagged[p] /\ server[p] \in entries))
  /\ UNCHANGED <<login, held, stale, server, flagged, regVars, op, late, calls>>

(* Faulty variant: the relay does not give the player back.                *)
GiveBackForgotten(p) ==
  /\ stage[p] = "ending"
  /\ stage' = [stage EXCEPT ![p] = "uncounted"]
  /\ leaving' = [leaving EXCEPT ![p] = Nobody]
  /\ UNCHANGED <<login, held, stale, server, flagged, regVars, op, kicks, disturbed, late, calls>>

GiveBack(p) ==
  /\ stage[p] = "ending"
  /\ stage' = [stage EXCEPT ![p] = "uncounted"]
  /\ count' = Down(count, leaving[p])
  /\ leaving' = [leaving EXCEPT ![p] = Nobody]
  /\ UNCHANGED <<login, held, stale, server, flagged, entries, op, kicks, disturbed, late, calls>>

ClearName(p) ==
  /\ stage[p] = "uncounted" /\ ~ReadLocked(p)
  /\ stage' = [stage EXCEPT ![p] = "closing"]
  /\ server' = [server EXCEPT ![p] = Nobody]
  /\ UNCHANGED <<login, held, stale, flagged, leaving, regVars, op, kicks, disturbed, late, calls>>


WaitForMap(p) ==
  /\ stage[p] = "closing" /\ Guarded(p)
  /\ stage' = [stage EXCEPT ![p] = "blocked"]
  /\ UNCHANGED <<login, held, stale, server, flagged, leaving, regVars, op, kicks, disturbed, late, calls>>

DropSession(p) ==
  /\ stage[p] \in {"closing", "blocked"} /\ ~Guarded(p)
  /\ stage' = [stage EXCEPT ![p] = "out"]
  /\ UNCHANGED <<login, held, stale, server, flagged, leaving, regVars, op, kicks, disturbed, late, calls>>

Connection(p) ==
  Enter(p) \/ CountJoin(p) \/ NameJoin(p) \/ EndRelay(p) \/ GiveBack(p) \/ ClearName(p)
    \/ WaitForMap(p) \/ DropSession(p)

-----------------------------------------------------------------------------
(* Handlers that change the registry in one go.                            *)

Attached(s) == {p \in People : server[p] = s}

(* Tasks that will still add to or take from the counter of s.             *)
Pending(s) ==
  \/ \E p \in People : held[p] = s \/ leaving[p] = s
  \/ \E w \in Workers : op[w].who # Nobody /\ s \in {op[w].from, op[w].to}

(* The entries of these names are no longer the ones that tasks hold.      *)
Outdate(ss) == stale' = stale \cup {p \in People : held[p] \in ss}

(* handle_registration and RegisterServer: a fresh entry, nobody on it.    *)
Register(s) ==
  /\ Called
  /\ entries' = entries \cup {s}
  /\ Outdate({s})
  /\ count' = [count EXCEPT ![s] = 0]
  /\ Note(Attached(s) # {} \/ Pending(s))
  /\ UNCHANGED <<stage, login, held, server, flagged, leaving, op, kicks, late>>

(* handle_status_update with a player_count.                               *)
StatusCount(s) ==
  /\ Called
  /\ s \in entries
  /\ \E n \in Reports :
       /\ count' = [count EXCEPT ![s] = n]
       /\ Note(n # count[s])
  /\ UNCHANGED <<connVars, entries, op, kicks, late>>

(* reload_servers: an entry whose settings changed is replaced by one with *)
(* the count that was read before; servers that the configuration does not *)
(* list, the ones registered at run time, are removed.                     *)
ReloadReads(w) ==
  /\ Called
  /\ op[w].kind = "idle"
  /\ \E s \in entries :
       /\ s \in ConfiguredNames
       /\ op' = [op EXCEPT ![w] = [IdleOp EXCEPT !.kind = "reload", !.from = s, !.read = count[s]]]
  /\ UNCHANGED <<connVars, regVars, kicks, disturbed, late>>

ReloadReplaces(w) ==
  /\ op[w].kind = "reload" /\ op[w].at = "start"
  /\ LET s == op[w].from
     IN  /\ Outdate({s})
         /\ count' = [count EXCEPT ![s] = op[w].read]
         /\ Note(count[s] # op[w].read \/ s \notin entries \/ Pending(s))
         /\ entries' = entries \cup {s}
  /\ op' = [op EXCEPT ![w].at = "prune"]
  /\ UNCHANGED <<stage, login, held, server, flagged, leaving, kicks, late, calls>>

ReloadPrunes(w) ==
  /\ op[w].kind = "reload" /\ op[w].at = "prune"
  /\ Outdate(entries \ ConfiguredNames)
  /\ entries' = entries \cap ConfiguredNames
  /\ op' = [op EXCEPT ![w] = IdleOp]
  /\ UNCHANGED <<stage, login, held, server, flagged, leaving, count, kicks, disturbed, late, calls>>

-----------------------------------------------------------------------------
(* A transfer by the channel, a plugin or ConnectOther.  All but the       *)
(* plugin's set `transferred`.                                             *)

TransferStarts(w) ==
  /\ Called
  /\ op[w].kind = "idle"
  /\ \E p \in People, to \in Names, marks \in BOOLEAN :
       /\ stage[p] # "out"
       /\ op' = [op EXCEPT ![w] = [IdleOp EXCEPT !.kind = "transfer", !.at = "old", !.who = p,
                                     !.from = server[p], !.to = to,
                                     !.last = marks]]
       /\ Note(stage[p] # "playing" \/ Busy(p) # {})
  /\ UNCHANGED <<connVars, regVars, kicks, late>>

TransferTakes(w) ==
  /\ op[w].kind = "transfer" /\ op[w].at = "old"
  /\ count' = Down(count, op[w].from)
  /\ op' = [op EXCEPT ![w].at = "new"]
  /\ UNCHANGED <<connVars, entries, kicks, disturbed, late, calls>>

TransferAdds(w) ==
  /\ op[w].kind = "transfer" /\ op[w].at = "new"
  /\ count' = Up(count, op[w].to)
  /\ op' = [op EXCEPT ![w].at = "name"]
  /\ UNCHANGED <<connVars, entries, kicks, disturbed, late, calls>>

TransferNames(w) ==
  /\ op[w].kind = "transfer" /\ op[w].at = "name" /\ ~ReadLocked(op[w].who)
  /\ server' = [server EXCEPT ![op[w].who] = op[w].to]
  /\ op' = [op EXCEPT ![w].at = "mark"]
  /\ Arrives(op[w].who, op[w].to)
  /\ UNCHANGED <<stage, login, held, stale, flagged, leaving, regVars, kicks, disturbed, calls>>

TransferEnds(w) ==
  /\ op[w].kind = "transfer" /\ op[w].at = "mark" /\ ~ReadLocked(op[w].who)
  /\ flagged' = [flagged EXCEPT ![op[w].who] = @ \/ op[w].last]
  /\ op' = [op EXCEPT ![w] = IdleOp]
  /\ UNCHANGED <<stage, login, held, stale, server, leaving, regVars, kicks, disturbed, late, calls>>

-----------------------------------------------------------------------------
(* evacuate_players, alone or before the removal of the server.  `todo` is *)
(* the snapshot of the session map: session objects, some of which may be  *)
(* dropped, or replaced by a newer one of the same player, when their turn *)
(* comes.                                                                  *)

EvacuationStarts(w) ==
  /\ Called
  /\ op[w].kind = "idle"
  /\ \E from \in Names, to \in Names, removes \in BOOLEAN :
       /\ removes => from \in entries /\ to = DefaultName
       /\ op' = [op EXCEPT ![w] = [IdleOp EXCEPT !.kind = "evacuate", !.from = from, !.to = to,
                                     !.last = removes,
                                     !.todo = {<<p, login[p]>> : p \in {q \in People : stage[q] # "out"}}]]
  /\ UNCHANGED <<connVars, regVars, kicks, disturbed, late>>

(* Is the session object of this turn still the player's?                  *)
Alive(p, l) == login[p] = l /\ stage[p] # "out"

EvacuationReads(w) ==
  /\ op[w].kind = "evacuate" /\ op[w].who = Nobody
  /\ \E e \in op[w].todo :
       LET onIt == Alive(e[1], e[2]) /\ server[e[1]] = op[w].from
       IN  /\ op' = [op EXCEPT ![w].todo = @ \ {e},
                                 ![w].who = IF onIt THEN e[1] ELSE Nobody,
                                 ![w].read = IF onIt THEN e[2] ELSE 0,
                                 ![w].at = IF onIt THEN "name" ELSE "start"]
           /\ Note(onIt /\ (stage[e[1]] # "playing" \/ Busy(e[1]) # {}))
  /\ UNCHANGED <<connVars, regVars, kicks, late, calls>>

EvacuationNames(w) ==
  /\ op[w].kind = "evacuate" /\ op[w].who # Nobody /\ op[w].at = "name"
  /\ ~ReadLocked(op[w].who)
  /\ IF Alive(op[w].who, op[w].read)
     THEN /\ server' = [server EXCEPT ![op[w].who] = op[w].to]
          /\ Arrives(op[w].who, op[w].to)
     ELSE UNCHANGED <<server, late>>
  /\ op' = [op EXCEPT ![w].at = "count"]
  /\ UNCHANGED <<stage, login, held, stale, flagged, leaving, regVars, kicks, disturbed, calls>>

EvacuationTakes(w) ==
  /\ op[w].kind = "evacuate" /\ op[w].who # Nobody /\ op[w].at = "count"
  /\ count' = Down(count, op[w].from)
  /\ op' = [op EXCEPT ![w].at = "add"]
  /\ UNCHANGED <<connVars, entries, kicks, disturbed, calls, late>>

(* The kick goes to whoever is connected under that uuid by now.           *)
EvacuationAdds(w) ==
  /\ op[w].kind = "evacuate" /\ op[w].who # Nobody /\ op[w].at = "add"
  /\ count' = Up(count, op[w].to)
  /\ kicks' = IF stage[op[w].who] = "playing" THEN kicks \cup {op[w].who} ELSE kicks
  /\ op' = [op EXCEPT ![w].who = Nobody, ![w].read = 0, ![w].at = "start"]
  /\ UNCHANGED <<connVars, entries, disturbed, calls, late>>

(* Faulty variant: the removal does not wait for the evacuation.           *)
EvacuationNotAwaited(w) ==
  /\ op[w].kind = "evacuate" /\ op[w].who = Nobody
  /\ entries' = IF op[w].last THEN entries \ {op[w].from} ELSE entries
  /\ IF op[w].last THEN Outdate({op[w].from}) ELSE UNCHANGED stale
  /\ op' = [op EXCEPT ![w] = IdleOp]
  /\ late' = [late EXCEPT ![w] = {}]
  /\ UNCHANGED <<stage, login, held, server, flagged, leaving, count, kicks, disturbed, calls>>

EvacuationEnds(w) ==
  /\ op[w].kind = "evacuate" /\ op[w].who = Nobody /\ op[w].todo = {}
  /\ entries' = IF op[w].last THEN entries \ {op[w].from} ELSE entries
  /\ IF op[w].last THEN Outdate({op[w].from}) ELSE UNCHANGED stale
  /\ op' = [op EXCEPT ![w] = IdleOp]
  /\ late' = [late EXCEPT ![w] = {}]
  /\ UNCHANGED <<stage, login, held, server, flagged, leaving, count, kicks, disturbed, calls>>

Continues(w) ==
  \/ TransferTakes(w) \/ TransferAdds(w) \/ TransferNames(w) \/ TransferEnds(w)
  \/ EvacuationReads(w) \/ EvacuationNames(w) \/ EvacuationTakes(w) \/ EvacuationAdds(w)
  \/ EvacuationEnds(w) \/ ReloadReplaces(w) \/ ReloadPrunes(w)

Handler(w) ==
  TransferStarts(w) \/ EvacuationStarts(w) \/ ReloadReads(w) \/ Continues(w)

MgmtNext ==
  \/ \E p \in People : Connection(p)
  \/ \E s \in Names : Register(s) \/ StatusCount(s)
  \/ \E w \in Workers : Handler(w)

MgmtSpec == MgmtInit /\ [][MgmtNext]_mgmtVars

(* The runtime polls every task that can go on, as long as no worker       *)
(* thread is blocked: the task that a thread woke last waits in a slot of  *)
(* that thread, from which no other thread takes it.  A connection that    *)
(* blocks in `remove` has just released the session's lock, and so may     *)
(* have woken the very transfer whose guard it waits for, or an evacuation *)
(* that the transfer waits for.                                            *)
MgmtFairness ==
  /\ \A p \in People : WF_mgmtVars(GiveBack(p) \/ ClearName(p) \/ WaitForMap(p) \/ DropSession(p))
  /\ \A w \in Workers :
       WF_mgmtVars((\A p \in People : stage[p] # "blocked") /\ Continues(w))

-----------------------------------------------------------------------------
Settled == (\A w \in Workers : op[w].kind = "idle") /\ (\A p \in People : stage[p] \in {"out", "playing"})

(* When no handler and no connection is half way, the counter of every     *)
(* registered server is the number of players on it, unless one of these   *)
(* has happened: an entry was made or replaced while someone was counted   *)
(* or about to be counted under its name, a status message stored another  *)
(* number, a player marked `transferred` left, a reload wrote back a count *)
(* that had moved on, or two tasks worked on one player at a time.         *)
CountsExactUnlessDisturbed ==
  Settled /\ ~disturbed => \A s \in entries : count[s] = Cardinality(Attached(s))

(* "Evacuate any remaining players ... before removing": who is still on a *)
(* server when its deregistration removes it came after the evacuation had *)
(* looked at them.  (Players of the default server are evacuated to it.)   *)
OnlyLateArrivalsStay ==
  [][\A w \in Workers :
       op[w].kind = "evacuate" /\ op'[w].kind = "idle" /\ op[w].last /\ op[w].from # op[w].to =>
         {p \in Attached(op[w].from) : stage[p] = "playing"} \subseteq late[w]]_mgmtVars

(* Handlers and the connections they meet wait for each other's locks and  *)
(* guards.  Every handler comes to its end, unless a connection stays      *)
(* blocked in `remove` of the session map (server_management.rs, relay.rs  *)
(* and proxy.rs keep a guard of that map across their awaits).             *)
HandlersFinish ==
  \A w \in Workers :
    \/ \E p \in People : <>[](stage[p] = "blocked")
    \/ op[w].kind # "idle" ~> op[w].kind = "idle"

=============================================================================
