------------------------------ MODULE Registry ------------------------------
(***************************************************************************)
(* The server registry (server.rs) under the hands of everyone who writes  *)
(* it: the management API and the plugins register and remove backends, a  *)
(* reload of the configuration puts entries back, backends report their    *)
(* status, sessions count themselves in and out, and the health prober     *)
(* leaves its verdict.  Routing reads it at any moment, so what routing    *)
(* promises is an invariant here.                                          *)
(***************************************************************************)
EXTENDS Routing, FiniteSets

CONSTANTS
  Names,          \* names a backend can have
  Regions,        \* values of region in the configuration
  Sections,       \* Sections[s]: the [[servers]] sections the configuration may
                  \* hold for s, now and after edits: [max, region, weight, probed]
  Registrable,    \* names that may be registered at run time
  Limits,         \* values of max_players in a registration
  MaxCount,       \* the largest player count (usize::MAX)
  Latencies,      \* round trips a probe may measure, in ms
  ClientRegions,  \* regions GeoIP may give to a client
  RuleTargets     \* targets, in order, of the rules that may match a player

VARIABLE reg

Strategies == {"least_connections", "latency", "weighted"}

Section == [max : Nat, region : Regions \cup {""}, weight : Nat, probed : BOOLEAN]

ASSUME ConfigAssumption ==
  /\ DOMAIN Sections \subseteq Names
  /\ \A s \in DOMAIN Sections : Sections[s] \subseteq Section
  /\ Registrable \subseteq Names /\ Limits \subseteq Nat /\ MaxCount \in Nat
  /\ Latencies \subseteq 0..(UnknownLatency - 1)
ASSUME GroupsAssumption ==
  \A g \in DOMAIN ServerGroups :
    ServerGroups[g].members \in Seq(Names) /\ ServerGroups[g].strategy \in Strategies
ASSUME RulesAssumption ==
  \A targets \in RuleTargets : DOMAIN targets = 1..Len(targets) /\ Len(targets) \in Nat

Entry ==
  [online : BOOLEAN, players : Nat, max : Nat, unhealthy : BOOLEAN, probed : BOOLEAN,
   region : Regions \cup {""}, weight : Nat, latency : 0..(UnknownLatency - 1)]

RegistryTypes == DOMAIN reg \subseteq Names /\ reg \in [DOMAIN reg -> Entry]

-----------------------------------------------------------------------------
FreshEntry(c) ==
  [online |-> TRUE, players |-> 0, max |-> c.max, unhealthy |-> FALSE, probed |-> c.probed,
   region |-> c.region, weight |-> c.weight, latency |-> 0]

(* DashMap::insert: an entry of that name is replaced.                     *)
Insert(s, e) == reg' = [t \in DOMAIN reg \cup {s} |-> IF t = s THEN e ELSE reg[t]]

Init ==
  reg \in {r \in [DOMAIN Sections -> {FreshEntry(c) : c \in UNION {Sections[s] : s \in DOMAIN Sections}}] :
            \A s \in DOMAIN r : \E c \in Sections[s] : r[s] = FreshEntry(c)}

(* handle_registration: a new entry, also for a name that has one, and one *)
(* the prober leaves alone.                                                *)
Registered(max) == [max |-> max, region |-> "", weight |-> 1, probed |-> FALSE]

Register(s) == s \in Registrable /\ \E max \in Limits : Insert(s, FreshEntry(Registered(max)))

(* By a deregistration, by a reload without the name, and for a moment     *)
(* while a registration replaces an entry.                                 *)
Deregister(s) == s \in DOMAIN reg /\ reg' = [t \in DOMAIN reg \ {s} |-> reg[t]]

(* reload_servers: a changed entry keeps its player count and online flag. *)
Reload(s) ==
  /\ s \in DOMAIN Sections
  /\ \E c \in Sections[s] :
       Insert(s, IF s \in DOMAIN reg
                 THEN [FreshEntry(c) EXCEPT !.players = reg[s].players, !.online = reg[s].online]
                 ELSE FreshEntry(c))

(* handle_status_update; a report without a count leaves it as it is.      *)
Status(s) ==
  /\ s \in DOMAIN reg
  /\ \E n \in 0..MaxCount, b \in BOOLEAN :
       reg' = [reg EXCEPT ![s].players = n, ![s].online = b]

(* A session is counted in or out: fetch_add and fetch_sub wrap.           *)
Count(s) ==
  /\ s \in DOMAIN reg
  /\ \E n \in {reg[s].players - 1, reg[s].players + 1} :
       reg' = [reg EXCEPT ![s].players = n % (MaxCount + 1)]

(* A probe that gets an answer, and the one that reaches the threshold of  *)
(* failures; an interval of 0 opts a server out.                           *)
ProbeSucceeds(s) ==
  /\ s \in DOMAIN reg /\ reg[s].probed
  /\ \E l \in Latencies : reg' = [reg EXCEPT ![s].latency = l, ![s].unhealthy = FALSE]

ProbeFails(s) ==
  s \in DOMAIN reg /\ reg[s].probed /\ reg' = [reg EXCEPT ![s].unhealthy = TRUE]

Next ==
  \E s \in Names :
    \/ Register(s) \/ Deregister(s) \/ Reload(s) \/ Status(s) \/ Count(s)
    \/ ProbeSucceeds(s) \/ ProbeFails(s)

Spec == Init /\ [][Next]_reg

-----------------------------------------------------------------------------
(* The last resort never fails and never overshoots: select, select_for    *)
(* and select_with_region return a server exactly when one is online, and  *)
(* only servers that are online.                                           *)
RoutesExactlyWhenOnline ==
  \A picks \in {Select(reg)}
                 \cup {SelectFor(targets, reg) : targets \in RuleTargets}
                 \cup {SelectWithRegion(region, reg) : region \in ClientRegions} :
    /\ picks \subseteq Online(reg)
    /\ picks = {} <=> Online(reg) = {}

(* weighted_pick: "each candidate's chance is proportional to its weight", *)
(* "A member with weight == 0 is never picked": the rolls that select a    *)
(* candidate are as many as its weight.                                    *)
WeightedIsProportional ==
  \A g \in DOMAIN ServerGroups :
    LET candidates == EligibleMembers(ServerGroups[g], reg)
        w == Weights(candidates, reg)
    IN  TotalWeight(w) > 0 =>
          \A i \in DOMAIN w :
            Cardinality({r \in 0..(TotalWeight(w) - 1) : Walk(w, r) = i}) = w[i]

(* The registered members of a group that select_from_group may pick.      *)
Open(group) ==
  {group.members[i] : i \in DOMAIN group.members}
    \cap {s \in DOMAIN reg : reg[s].online /\ ~IsFull(reg[s])}

(* A group hands out a member only while it is online and has room, finds  *)
(* one whenever there is one, takes the fewest players for                 *)
(* "least_connections" and prefers measured members for "latency".         *)
GroupPicksHaveRoom ==
  \A g \in DOMAIN ServerGroups :
    LET group == ServerGroups[g]
        picks == SelectFromGroup(group, reg)
    IN  /\ picks \subseteq Open(group)
        /\ picks = {} <=> Open(group) = {}
        /\ group.strategy = "least_connections" =>
             \A s \in picks, t \in Open(group) : reg[s].players <= reg[t].players
        /\ group.strategy = "latency" =>
             \A s \in picks, t \in Open(group) :
               reg[t].latency # 0 => reg[s].latency \in 1..reg[t].latency

(* While no registered server is offline, a client is only sent to an      *)
(* unhealthy server if all are unhealthy, and leaves its own region only   *)
(* if that region has no healthy server (region_selector.rs: "Pick the     *)
(* lobby with the fewest players in the preferred region").                *)
RegionPicksAreHealthy ==
  Online(reg) = DOMAIN reg =>
    \A region \in ClientRegions :
      \A s \in SelectWithRegion(region, reg) :
        /\ reg[s].unhealthy => HealthyServers(reg) = {}
        /\ reg[s].region # region => region = "global" \/ InRegion(region, reg) = {}
=============================================================================
