------------------------------ MODULE Failover ------------------------------
(***************************************************************************)
(* Backend health probes (health_probe.rs), the active-passive failover    *)
(* manager (failover.rs) and the failover-aware routing step of            *)
(* proxy.rs::route_via_failover.                                           *)
(*                                                                         *)
(* Two background tasks run for the lifetime of the proxy.  The prober     *)
(* takes a snapshot of the registry every 10 s and probes its servers one  *)
(* after the other, storing the failure count and the flag of each in two  *)
(* steps; the monitor takes a snapshot of the group names every  *)
(* 5 s and checks the groups one after the other, each under the write     *)
(* lock.  Neither waits for the other, so every step of one may fall       *)
(* between two steps of the other, and the registry may change at any time *)
(* (server management protocol, plugin commands, configuration reload).    *)
(***************************************************************************)
EXTENDS Naturals, Sequences

CONSTANTS
  Servers,        \* names a backend server may have
  Groups,         \* names of the [[failover_groups]]
  Primary,        \* Primary[g]: the group's primary
  Standbys,       \* Standbys[g]: its standbys, in configuration order
  AutoFailback,   \* AutoFailback[g]: the auto_failback flag
  Probed,         \* servers configured with health_probe_interval_secs # 0
  Managed,        \* servers announced over the management protocol or by plugins
  Threshold       \* Threshold[s]: health_probe_fail_threshold

ASSUME GroupsAssumption ==
  /\ Primary \in [Groups -> Servers]
  /\ Standbys \in [Groups -> Seq(Servers)]
  /\ AutoFailback \in [Groups -> BOOLEAN]

ASSUME ProbeAssumption ==
  /\ Probed \subseteq Servers /\ Managed \subseteq Servers
  /\ Threshold \in [Servers -> Nat]

VARIABLES
  up,          \* up[s]: a TCP connect to s succeeds within the probe timeout
  registered,  \* names that have an entry in the ServerRegistry
  online,      \* the entry's online flag
  failCount,   \* the entry's health_fail_count
  unhealthy,   \* the entry's health_unhealthy
  probed,      \* names whose entry has health_probe_interval_secs # 0
  toProbe,     \* entries of the prober's snapshot it has not probed yet
  marking,     \* the entry, if any, whose count the prober has stored, its flag not yet
  active,      \* active[g]: the group's current_active
  toCheck      \* groups of the monitor's snapshot it has not checked yet

registryVars == <<registered, online, failCount, unhealthy, probed>>
proberVars == <<toProbe, marking>>
vars == <<up, registered, online, failCount, unhealthy, probed, toProbe, marking, active, toCheck>>

StandbySet(g) == {Standbys[g][i] : i \in DOMAIN Standbys[g]}
Members(g) == {Primary[g]} \cup StandbySet(g)

-----------------------------------------------------------------------------
(* Start-up: the configured servers are registered online with clean       *)
(* health flags, and load_groups points every group at its primary.        *)

Init ==
  /\ up \in [Servers -> BOOLEAN]
  /\ registered \in SUBSET Servers
  /\ online = [s \in Servers |-> TRUE]
  /\ failCount = [s \in Servers |-> 0]
  /\ unhealthy = [s \in Servers |-> FALSE]
  /\ probed = Probed
  /\ toProbe = {}
  /\ marking = {}
  /\ active = Primary
  /\ toCheck = {}

(* The environment: a backend process stops or starts accepting.           *)

Crash(s) ==
  /\ up[s]
  /\ up' = [up EXCEPT ![s] = FALSE]
  /\ UNCHANGED <<registryVars, proberVars, active, toCheck>>

Recover(s) ==
  /\ ~up[s]
  /\ up' = [up EXCEPT ![s] = TRUE]
  /\ UNCHANGED <<registryVars, proberVars, active, toCheck>>

(* ServerRegistry::register replaces the whole entry, health flags         *)
(* included.  A probe still to come from the prober's snapshot, or a flag  *)
(* still to be stored, then works on the replaced entry, which nothing     *)
(* reads any more: it is dropped from toProbe and marking.                 *)

Forget(s) == toProbe' = toProbe \ {s} /\ marking' = marking \ {s}

(* Faulty variant: the probe counter survives a new registration.          *)
RegisterKeepsCount(s) ==
  /\ s \in Managed
  /\ registered' = registered \cup {s}
  /\ online' = [online EXCEPT ![s] = TRUE]
  /\ unhealthy' = [unhealthy EXCEPT ![s] = FALSE]
  /\ probed' = probed \ {s}
  /\ Forget(s)
  /\ UNCHANGED <<up, failCount, active, toCheck>>

(* A server announces itself, or a plugin does it: the new entry is not    *)
(* probed, whatever the configuration says about that name.                *)
Register(s) ==
  /\ s \in Managed
  /\ registered' = registered \cup {s}
  /\ online' = [online EXCEPT ![s] = TRUE]
  /\ failCount' = [failCount EXCEPT ![s] = 0]
  /\ unhealthy' = [unhealthy EXCEPT ![s] = FALSE]
  /\ probed' = probed \ {s}
  /\ Forget(s)
  /\ UNCHANGED <<up, active, toCheck>>

(* A configuration reload that adds s or changes its entry.                *)
ReloadServer(s) ==
  /\ registered' = registered \cup {s}
  /\ online' = [online EXCEPT ![s] = @ \/ s \notin registered]
  /\ failCount' = [failCount EXCEPT ![s] = 0]
  /\ unhealthy' = [unhealthy EXCEPT ![s] = FALSE]
  /\ probed' = (probed \ {s}) \cup (Probed \cap {s})
  /\ Forget(s)
  /\ UNCHANGED <<up, active, toCheck>>

(* The entry goes with its flags; a name without an entry is kept with the *)
(* fields of a fresh one, which nothing reads.                             *)
Deregister(s) ==
  /\ s \in registered
  /\ registered' = registered \ {s}
  /\ online' = [online EXCEPT ![s] = TRUE]
  /\ failCount' = [failCount EXCEPT ![s] = 0]
  /\ unhealthy' = [unhealthy EXCEPT ![s] = FALSE]
  /\ probed' = (probed \ {s}) \cup (Probed \cap {s})
  /\ Forget(s)
  /\ UNCHANGED <<up, active, toCheck>>

StatusUpdate(s) ==
  /\ s \in registered \cap Managed
  /\ \E b \in BOOLEAN : online' = [online EXCEPT ![s] = b]
  /\ UNCHANGED <<up, registered, failCount, unhealthy, probed, proberVars, active, toCheck>>

-----------------------------------------------------------------------------
(* The prober: one task, which finishes with an entry before it probes the *)
(* next one.  The count and the flag of an entry are two atomics, stored   *)
(* one after the other: whoever reads the flag in between sees the old one. *)

ProbeTick ==
  /\ toProbe = {} /\ marking = {}
  /\ toProbe' = registered \cap probed
  /\ UNCHANGED <<up, registryVars, marking, active, toCheck>>

ProbeSucceeds(s) ==
  /\ s \in toProbe /\ marking = {}
  /\ up[s]
  /\ toProbe' = toProbe \ {s}
  /\ failCount' = [failCount EXCEPT ![s] = 0]
  /\ marking' = {s}
  /\ UNCHANGED <<up, registered, online, unhealthy, probed, active, toCheck>>

(* The count is compared with the threshold only after a failure, so that  *)
(* a threshold of 0, which the configuration accepts, acts as 1.           *)
Needed(s) == IF Threshold[s] = 0 THEN 1 ELSE Threshold[s]

(* The count saturates at Needed: the code tells apart only counts below   *)
(* the threshold from counts that have reached it.                         *)
CountFailure(s) == IF failCount[s] < Needed(s) THEN failCount[s] + 1 ELSE Needed(s)

ProbeFails(s) ==
  /\ s \in toProbe /\ marking = {}
  /\ ~up[s]
  /\ toProbe' = toProbe \ {s}
  /\ failCount' = [failCount EXCEPT ![s] = CountFailure(s)]
  /\ marking' = {s}
  /\ UNCHANGED <<up, registered, online, unhealthy, probed, active, toCheck>>

Probe(s) == ProbeSucceeds(s) \/ ProbeFails(s)

(* The second half.  Only a success leaves the count at 0.                 *)
MarkHealthy(s) ==
  /\ s \in marking
  /\ failCount[s] = 0
  /\ marking' = marking \ {s}
  /\ unhealthy' = [unhealthy EXCEPT ![s] = FALSE]
  /\ UNCHANGED <<up, registered, online, failCount, probed, toProbe, active, toCheck>>

MarkUnhealthy(s) ==
  /\ s \in marking
  /\ failCount[s] > 0
  /\ marking' = marking \ {s}
  /\ unhealthy' = [unhealthy EXCEPT ![s] = @ \/ failCount[s] >= Threshold[s]]
  /\ UNCHANGED <<up, registered, online, failCount, probed, toProbe, active, toCheck>>

Mark(s) == MarkHealthy(s) \/ MarkUnhealthy(s)

-----------------------------------------------------------------------------
(* The failover monitor.                                                   *)

Healthy(s) == s \in registered /\ ~unhealthy[s]
CurrentUnhealthy(g) == active[g] \in registered /\ unhealthy[active[g]]

(* Faulty variant: the walk starts one place too far.                      *)
FailoverPositionsSkipFirst(g) ==
  IF active[g] = Primary[g]
  THEN {i \in DOMAIN Standbys[g] : i = 2}
  ELSE {i \in DOMAIN Standbys[g] :
          \E j \in 1..(i - 1) : Standbys[g][j] = active[g]}

(* Positions in the standby list the monitor is willing to move to: only   *)
(* the first one from the primary, only later ones from a standby.         *)
FailoverPositions(g) ==
  IF active[g] = Primary[g]
  THEN {i \in DOMAIN Standbys[g] : i = 1}
  ELSE {i \in DOMAIN Standbys[g] :
          \E j \in 1..(i - 1) : Standbys[g][j] = active[g]}

(* Faulty variant: standbys are taken without looking at their health.     *)
HealthyPositionsUnfiltered(g) == FailoverPositions(g)

HealthyPositions(g) == {i \in FailoverPositions(g) : Healthy(Standbys[g][i])}

MonitorTick ==
  /\ toCheck = {}
  /\ toCheck' = Groups
  /\ UNCHANGED <<up, registryVars, proberVars, active>>

FailOver(g) ==
  /\ CurrentUnhealthy(g)
  /\ \E i \in HealthyPositions(g) :
       /\ \A j \in HealthyPositions(g) : i <= j
       /\ active' = [active EXCEPT ![g] = Standbys[g][i]]

NowhereToFail(g) ==
  /\ CurrentUnhealthy(g)
  /\ HealthyPositions(g) = {}
  /\ UNCHANGED active

(* Faulty variant: auto_failback is not consulted.                         *)
FailBackAlways(g) ==
  /\ ~CurrentUnhealthy(g)
  /\ active[g] # Primary[g] /\ Healthy(Primary[g])
  /\ active' = [active EXCEPT ![g] = Primary[g]]

(* Faulty variant: auto_failback is read the wrong way round.              *)
FailBackInverted(g) ==
  /\ ~CurrentUnhealthy(g)
  /\ ~AutoFailback[g] /\ active[g] # Primary[g] /\ Healthy(Primary[g])
  /\ active' = [active EXCEPT ![g] = Primary[g]]

FailBack(g) ==
  /\ ~CurrentUnhealthy(g)
  /\ AutoFailback[g] /\ active[g] # Primary[g] /\ Healthy(Primary[g])
  /\ active' = [active EXCEPT ![g] = Primary[g]]

KeepActive(g) ==
  /\ ~CurrentUnhealthy(g)
  /\ ~(AutoFailback[g] /\ active[g] # Primary[g] /\ Healthy(Primary[g]))
  /\ UNCHANGED active

CheckGroupFailover(g) ==
  /\ g \in toCheck
  /\ toCheck' = toCheck \ {g}
  /\ FailOver(g) \/ NowhereToFail(g) \/ FailBack(g) \/ KeepActive(g)
  /\ UNCHANGED <<up, registryVars, proberVars>>

-----------------------------------------------------------------------------
(* proxy.rs::route_via_failover for a routing candidate c: the backends it *)
(* may return.  A server listed by two groups is looked up in a HashMap,   *)
(* whose iteration order is arbitrary.                                     *)

GroupsOf(c) == {g \in Groups : c \in Members(g)}

(* Faulty variant: an offline active server is swapped in.                 *)
SwappableOffline(g) == active[g] \in registered

Swappable(g) == active[g] \in registered /\ online[active[g]]

RouteViaFailover(c) ==
  IF GroupsOf(c) = {} THEN {c}
  ELSE {IF Swappable(g) THEN active[g] ELSE c : g \in GroupsOf(c)}

-----------------------------------------------------------------------------

Environment(s) ==
  \/ Crash(s) \/ Recover(s)
  \/ Register(s) \/ ReloadServer(s) \/ Deregister(s) \/ StatusUpdate(s)

Next ==
  \/ \E s \in Servers : Environment(s)
  \/ ProbeTick
  \/ \E s \in Servers : Probe(s) \/ Mark(s)
  \/ MonitorTick
  \/ \E g \in Groups : CheckGroupFailover(g)

Spec == Init /\ [][Next]_vars

(* Both loops are spawned at start-up, sleep on a tokio interval and never *)
(* exit, and a probe is bounded by its timeout: each keeps taking steps.   *)
Fairness ==
  /\ WF_vars(ProbeTick)
  /\ \A s \in Servers : WF_vars(Probe(s)) /\ WF_vars(Mark(s))
  /\ WF_vars(MonitorTick)
  /\ \A g \in Groups : WF_vars(CheckGroupFailover(g))

FairSpec == Spec /\ Fairness

-----------------------------------------------------------------------------
(* Types.  The fields of every registry entry and the two snapshots.       *)
TypeOK ==
  /\ up \in [Servers -> BOOLEAN]
  /\ registered \in SUBSET Servers
  /\ online \in [Servers -> BOOLEAN]
  /\ failCount \in [Servers -> Nat]
  /\ unhealthy \in [Servers -> BOOLEAN]
  /\ probed \in SUBSET Servers /\ toProbe \in SUBSET Servers
  /\ marking \in SUBSET Servers
  /\ active \in [Groups -> Servers]
  /\ toCheck \in SUBSET Groups

(* The flag of a registry entry follows its count (health_probe.rs keeps   *)
(* them in two atomics, stored one after the other).  A flag that is set   *)
(* means a run of at least the threshold of failures, unless the prober is *)
(* about to clear it after a success; a count at the threshold means a set *)
(* flag, unless the prober is about to set it.  So the flag is wrong only  *)
(* between the two stores of the entry in the prober's hand, and neither a *)
(* re-registration nor a reload in that window makes it wrong for good.    *)
FlagFollowsCount ==
  \A s \in Servers :
    /\ unhealthy[s] => failCount[s] >= Needed(s) \/ (s \in marking /\ failCount[s] = 0)
    /\ failCount[s] >= Needed(s) => unhealthy[s] \/ s \in marking

(* current_active always names the primary or a standby of its own group,  *)
(* and whatever route_via_failover returns for an online candidate is a    *)
(* registered online server: the candidate itself or a member of one of    *)
(* the candidate's groups (proxy.rs: "a better failure mode than silently  *)
(* routing to a different group entirely").                                *)
RouteStaysInGroup ==
  /\ \A g \in Groups : active[g] \in Members(g)
  /\ \A c \in registered : online[c] =>
       \A r \in RouteViaFailover(c) :
         /\ r \in registered /\ online[r]
         /\ r = c \/ \E g \in GroupsOf(c) : r \in Members(g)

(* Order of a group's members: the primary, then the standbys as listed.   *)
Rank(g, s) ==
  IF s = Primary[g] THEN 0 ELSE CHOOSE i \in DOMAIN Standbys[g] : Standbys[g][i] = s

(* A configuration that lists no member of a group twice.                  *)
DistinctMembers ==
  \A g \in Groups :
    /\ Primary[g] \notin StandbySet(g)
    /\ \A i, j \in DOMAIN Standbys[g] : Standbys[g][i] = Standbys[g][j] => i = j

(* Without auto_failback a failover sticks (config/lib.rs: "the failover   *)
(* sticks until an operator resets it manually"): whatever the probes      *)
(* report and whatever a configuration reload does, the active member only *)
(* ever moves down the list, and so no member that was left becomes active *)
(* again.  (A comment in failover.rs expects a reload to start again at    *)
(* the primary; the reload never calls load_groups.)                       *)
StickyWithoutFailback ==
  [][\A g \in Groups : ~AutoFailback[g] => Rank(g, active[g]) <= Rank(g, active'[g])]_vars

(* A group never hands new sessions to a member whose registry entry is    *)
(* flagged unhealthy at the moment of the swap, and leaves a member that   *)
(* is not flagged only to return to the primary.                           *)
SwapsAreJustified ==
  [][\A g \in Groups : active'[g] # active[g] =>
       /\ Healthy(active'[g])
       /\ CurrentUnhealthy(g) \/ active'[g] = Primary[g]]_vars

-----------------------------------------------------------------------------
(* Liveness, under FairSpec.                                               *)

(* From some point on no entry is replaced.  (Replacing an entry whose     *)
(* count is 0 and whose flag is about to be cleared looks like the store   *)
(* that clears it, and is one.)                                            *)
RegistrationsStop ==
  <>[][\A s \in Servers : Register(s) \/ ReloadServer(s) => MarkHealthy(s)]_vars

AllProbed(g) == Members(g) \subseteq registered \cap probed

(* When the primary stays down and the first standby stays up, the group   *)
(* leaves the primary for good.                                            *)
FirstStandbyTakesOver ==
  RegistrationsStop =>
    \A g \in Groups :
      Standbys[g] # <<>> =>
        (<>[](AllProbed(g) /\ ~up[Primary[g]] /\ up[Standbys[g][1]])
           => <>[](active[g] # Primary[g]))

(* With auto_failback, when every member stays up the traffic is back on   *)
(* the primary and stays there.                                            *)
FailsBackWhenAllRecover ==
  RegistrationsStop =>
    \A g \in Groups :
      AutoFailback[g] =>
        (<>[](AllProbed(g) /\ \A s \in Members(g) : up[s])
           => <>[](active[g] = Primary[g]))

(* config/lib.rs on standbys: "The monitor walks the list top-to-bottom    *)
(* when the active server fails; the first healthy entry wins."  When some *)
(* standby stays up while everything else stays as it is, the group must   *)
(* end up on a member that is up.                                          *)
FirstHealthyStandbyWins ==
  RegistrationsStop =>
    \A g \in Groups :
      \A h \in [Members(g) -> BOOLEAN] :
        ((\E s \in StandbySet(g) : h[s])
           /\ <>[](AllProbed(g) /\ \A s \in Members(g) : up[s] = h[s]))
          => <>[](up[active[g]])
=============================================================================
