--------------------------- MODULE ServicesProofs ---------------------------
(***************************************************************************)
(* Two services beside the connections.                                    *)
(*                                                                         *)
(* The failover monitor, for any number of servers, groups, standbys and   *)
(* any thresholds.                                                         *)
(*                                                                         *)
(* The token bucket bounds the connections of an address over every        *)
(* stretch of time, for every capacity, rate and ban that                  *)
(* ThrottleAssumption admits, and any number of addresses and records.     *)
(***************************************************************************)
EXTENDS Failover, Throttle, SequenceTheorems, TLAPS

-----------------------------------------------------------------------------
(* Failover.                                                               *)

(* Every step of the probes, the monitor and the registry keeps the types. *)
THEOREM TypeCorrect == Spec => []TypeOK
<1>1. Init => TypeOK
  BY GroupsAssumption, ProbeAssumption DEF Init, TypeOK
<1>2. TypeOK /\ [Next]_vars => TypeOK'
  <2> SUFFICES ASSUME TypeOK, [Next]_vars PROVE TypeOK'
    OBVIOUS
  <2> USE DEF TypeOK
  <2>1. ASSUME NEW s \in Servers, Environment(s) PROVE TypeOK'
    <3>0. CASE Crash(s)
      BY <3>0 DEF Crash, registryVars, proberVars
    <3>1. CASE Recover(s)
      BY <3>1 DEF Recover, registryVars, proberVars
    <3>2. CASE Register(s)
      BY <3>2 DEF Register, Forget
    <3>3. CASE Deregister(s)
      BY <3>3, ProbeAssumption DEF Deregister, Forget
    <3>4. CASE StatusUpdate(s)
      BY <3>4 DEF StatusUpdate, proberVars
    <3>5. CASE ReloadServer(s)
      <4>1. (online[s] \/ s \notin registered) \in BOOLEAN
        OBVIOUS
      <4>2. online' \in [Servers -> BOOLEAN]
        BY <3>5, <4>1, Zenon DEF ReloadServer
      <4>3. QED
        BY <3>5, <4>2, ProbeAssumption DEF ReloadServer, Forget
    <3>6. QED
      BY <2>1, <3>0, <3>1, <3>2, <3>3, <3>4, <3>5 DEF Environment
  <2>2. CASE ProbeTick
    BY <2>2, ProbeAssumption DEF ProbeTick, registryVars
  <2>3. ASSUME NEW s \in Servers, Probe(s) PROVE TypeOK'
    <3>1. CountFailure(s) \in Nat
      BY ProbeAssumption DEF CountFailure, Needed
    <3>2. CASE ProbeSucceeds(s)
      BY <3>2 DEF ProbeSucceeds
    <3>3. CASE ProbeFails(s)
      BY <3>1, <3>3 DEF ProbeFails
    <3>4. QED
      BY <2>3, <3>2, <3>3 DEF Probe
  <2>8. ASSUME NEW s \in Servers, Mark(s) PROVE TypeOK'
    <3>1. CASE MarkHealthy(s)
      BY <3>1 DEF MarkHealthy
    <3>2. CASE MarkUnhealthy(s)
      <4>1. (unhealthy[s] \/ failCount[s] >= Threshold[s]) \in BOOLEAN
        OBVIOUS
      <4>2. unhealthy' \in [Servers -> BOOLEAN]
        BY <3>2, <4>1, Zenon DEF MarkUnhealthy
      <4>3. QED
        BY <3>2, <4>2 DEF MarkUnhealthy
    <3>3. QED
      BY <2>8, <3>1, <3>2 DEF Mark
  <2>4. CASE MonitorTick
    BY <2>4 DEF MonitorTick, registryVars, proberVars
  <2>5. ASSUME NEW g \in Groups, CheckGroupFailover(g) PROVE TypeOK'
    <3>1. active' \in [Groups -> Servers]
      <4>1. CASE FailOver(g)
        <5>1. \A i \in HealthyPositions(g) : Standbys[g][i] \in Servers
          BY GroupsAssumption DEF HealthyPositions, FailoverPositions
        <5>2. QED
          BY <4>1, <5>1 DEF FailOver
      <4>2. CASE FailBack(g)
        BY <4>2, GroupsAssumption, Zenon DEF FailBack
      <4>3. CASE NowhereToFail(g) \/ KeepActive(g)
        BY <4>3 DEF NowhereToFail, KeepActive
      <4>4. QED
        BY <2>5, <4>1, <4>2, <4>3 DEF CheckGroupFailover
    <3>2. QED
      BY <2>5, <3>1 DEF CheckGroupFailover, registryVars, proberVars
  <2>6. CASE UNCHANGED vars
    BY <2>6 DEF vars
  <2>7. QED
    BY <2>1, <2>2, <2>3, <2>4, <2>5, <2>6, <2>8 DEF Next
<1>3. QED
  BY <1>1, <1>2, PTL DEF Spec

(* The two health atomics of an entry disagree only while the prober is    *)
(* between their stores, and then the flag is the one that lags.           *)
THEOREM HealthFlagFollows == Spec => []FlagFollowsCount
<1> DEFINE Follows(s) ==
      /\ unhealthy[s] => failCount[s] >= Needed(s) \/ (s \in marking /\ failCount[s] = 0)
      /\ failCount[s] >= Needed(s) => unhealthy[s] \/ s \in marking
<1>1. Init => FlagFollowsCount
  <2> SUFFICES ASSUME Init, NEW s \in Servers PROVE Follows(s)
    BY Zenon DEF FlagFollowsCount
  <2>1. ~unhealthy[s]
    BY DEF Init
  <2>2. ~(failCount[s] >= Needed(s))
    BY ProbeAssumption DEF Init, Needed
  <2>3. QED
    BY <2>1, <2>2
<1>2. TypeOK /\ FlagFollowsCount /\ [Next]_vars => FlagFollowsCount'
  <2> SUFFICES ASSUME TypeOK, FlagFollowsCount, [Next]_vars, NEW t \in Servers
               PROVE  Follows(t)'
    BY Zenon DEF FlagFollowsCount
  <2>0. /\ unhealthy \in [Servers -> BOOLEAN]
        /\ failCount \in [Servers -> Nat]
        /\ Threshold[t] \in Nat
        /\ Needed(t) \in Nat \ {0}
        /\ Follows(t)
    BY ProbeAssumption DEF TypeOK, FlagFollowsCount, Needed
  <2>1. ASSUME NEW s \in Servers, Register(s) \/ ReloadServer(s) \/ Deregister(s)
        PROVE  Follows(t)'
    <3>1. CASE s = t
      <4>1. ~unhealthy'[t] /\ failCount'[t] = 0
        BY <2>0, <2>1, <3>1 DEF Register, ReloadServer, Deregister
      <4>2. QED
        BY <2>0, <4>1 DEF Needed
    <3>2. CASE s # t
      <4>1. /\ unhealthy'[t] = unhealthy[t]
            /\ failCount'[t] = failCount[t]
            /\ t \in marking' <=> t \in marking
        BY <2>0, <2>1, <3>2 DEF Register, ReloadServer, Deregister, Forget
      <4>2. QED
        BY <2>0, <4>1 DEF Needed
    <3>3. QED
      BY <3>1, <3>2
  <2>2. ASSUME NEW s \in Servers, Probe(s)
        PROVE  Follows(t)'
    <3>1. marking = {} /\ marking' = {s} /\ unhealthy' = unhealthy
      BY <2>2 DEF Probe, ProbeSucceeds, ProbeFails
    <3>2. CASE s # t
      <4>1. failCount'[t] = failCount[t]
        BY <2>0, <2>2, <3>2 DEF Probe, ProbeSucceeds, ProbeFails
      <4>2. QED
        BY <2>0, <3>1, <3>2, <4>1 DEF Needed
    <3>3. CASE s = t /\ ProbeSucceeds(s)
      <4>1. failCount'[t] = 0
        BY <2>0, <3>3 DEF ProbeSucceeds
      <4>2. QED
        BY <2>0, <3>1, <3>3, <4>1 DEF Needed
    <3>4. CASE s = t /\ ProbeFails(s)
      <4>1. failCount'[t] = CountFailure(t)
        BY <2>0, <3>4 DEF ProbeFails
      <4>2. unhealthy[t] => CountFailure(t) >= Needed(t)
        BY <2>0, <3>1 DEF CountFailure
      <4>3. QED
        BY <2>0, <3>1, <3>4, <4>1, <4>2 DEF Needed
    <3>5. QED
      BY <2>2, <3>2, <3>3, <3>4 DEF Probe
  <2>3. ASSUME NEW s \in Servers, Mark(s)
        PROVE  Follows(t)'
    <3>1. failCount' = failCount /\ marking' = marking \ {s} /\ s \in marking
      BY <2>3 DEF Mark, MarkHealthy, MarkUnhealthy
    <3>2. CASE s # t
      <4>1. unhealthy'[t] = unhealthy[t]
        BY <2>0, <2>3, <3>2, Zenon DEF Mark, MarkHealthy, MarkUnhealthy
      <4>2. QED
        BY <2>0, <3>1, <3>2, <4>1 DEF Needed
    <3>3. CASE s = t /\ MarkHealthy(s)
      <4>1. ~unhealthy'[t] /\ failCount[t] = 0
        BY <2>0, <3>3 DEF MarkHealthy
      <4>2. QED
        BY <2>0, <3>1, <4>1 DEF Needed
    <3>4. CASE s = t /\ MarkUnhealthy(s)
      <4>1. unhealthy'[t] <=> (unhealthy[t] \/ failCount[t] >= Threshold[t])
        BY <2>0, <3>4, Zenon DEF MarkUnhealthy
      <4>2. failCount[t] > 0
        BY <3>4 DEF MarkUnhealthy
      <4>3. failCount[t] >= Threshold[t] <=> failCount[t] >= Needed(t)
        BY <2>0, <4>2 DEF Needed
      <4>4. unhealthy'[t] <=> failCount[t] >= Needed(t)
        BY <2>0, <4>1, <4>2, <4>3
      <4>5. QED
        BY <3>1, <4>4 DEF Needed
    <3>5. QED
      BY <2>3, <3>2, <3>3, <3>4 DEF Mark
  <2>4. CASE UNCHANGED <<failCount, unhealthy, marking>>
    BY <2>0, <2>4 DEF Needed
  <2>5. QED
    BY <2>1, <2>2, <2>3, <2>4
    DEF Next, Environment, Crash, Recover, StatusUpdate,
        ProbeTick, MonitorTick, CheckGroupFailover, registryVars, proberVars, vars
<1>3. QED
  BY <1>1, <1>2, TypeCorrect, PTL DEF Spec

(* What one pass of the monitor over a group can do to current_active.     *)
LEMMA CheckStep ==
  ASSUME TypeOK, NEW g \in Groups, CheckGroupFailover(g)
  PROVE  /\ \A h \in Groups : h # g => active'[h] = active[h]
         /\ \/ active'[g] = active[g]
            \/ AutoFailback[g] /\ ~CurrentUnhealthy(g)
                 /\ Healthy(Primary[g]) /\ active'[g] = Primary[g]
            \/ \E i \in HealthyPositions(g) :
                 CurrentUnhealthy(g) /\ active'[g] = Standbys[g][i]
<1>1. CASE FailOver(g)
  BY <1>1 DEF FailOver, TypeOK
<1>2. CASE FailBack(g)
  BY <1>2 DEF FailBack, TypeOK
<1>3. CASE NowhereToFail(g) \/ KeepActive(g)
  BY <1>3 DEF NowhereToFail, KeepActive
<1>4. QED
  BY <1>1, <1>2, <1>3 DEF CheckGroupFailover

(* Only the monitor moves current_active.                                  *)
LEMMA OnlyChecksMove ==
  ASSUME [Next]_vars
  PROVE  (\E g \in Groups : CheckGroupFailover(g)) \/ UNCHANGED active
BY DEF Next, vars, Environment, Crash, Recover, Register, ReloadServer, Deregister, StatusUpdate,
       ProbeTick, Probe, ProbeSucceeds, ProbeFails, Mark, MarkHealthy, MarkUnhealthy, MonitorTick

(* New sessions are never routed outside the groups of the server the      *)
(* routing rules picked, nor to an unregistered or offline backend.        *)
THEOREM RoutingStaysInGroup == Spec => []RouteStaysInGroup
<1> DEFINE ActiveMember == \A g \in Groups : active[g] \in Members(g)
<1>1. Init => ActiveMember
  BY DEF Init, Members
<1>2. TypeOK /\ ActiveMember /\ [Next]_vars => ActiveMember'
  <2> SUFFICES ASSUME TypeOK, ActiveMember, [Next]_vars, NEW h \in Groups
               PROVE  active'[h] \in Members(h)
    BY DEF Members, StandbySet
  <2>1. ASSUME NEW g \in Groups, CheckGroupFailover(g)
        PROVE  active'[h] \in Members(h)
    <3>1. \A i \in HealthyPositions(g) : Standbys[g][i] \in Members(g)
      BY DEF HealthyPositions, FailoverPositions, Members, StandbySet
    <3>2. Primary[g] \in Members(g)
      BY DEF Members
    <3>3. QED
      BY <2>1, <3>1, <3>2, CheckStep
  <2>2. CASE UNCHANGED active
    BY <2>2
  <2>3. QED
    BY <2>1, <2>2, OnlyChecksMove
<1>3. ActiveMember => RouteStaysInGroup
  <2> SUFFICES ASSUME ActiveMember,
                      NEW c \in registered, online[c], NEW r \in RouteViaFailover(c)
               PROVE  /\ r \in registered /\ online[r]
                      /\ r = c \/ \E g \in GroupsOf(c) : r \in Members(g)
    BY DEF RouteStaysInGroup
  <2>1. CASE r = c
    BY <2>1
  <2>2. CASE r # c
    <3>1. PICK g \in GroupsOf(c) : Swappable(g) /\ r = active[g]
      BY <2>2 DEF RouteViaFailover
    <3>2. QED
      BY <3>1 DEF Swappable, GroupsOf
  <2>3. QED
    BY <2>1, <2>2
<1>4. QED
  BY <1>1, <1>2, <1>3, TypeCorrect, PTL DEF Spec

(* A swap always goes to a member that is healthy at that moment, and only *)
(* a return to the primary leaves a member that is not flagged.            *)
THEOREM SwapsJustified == Spec => SwapsAreJustified
<1>1. TypeOK /\ [Next]_vars =>
        [\A g \in Groups : active'[g] # active[g] =>
           /\ Healthy(active'[g])
           /\ CurrentUnhealthy(g) \/ active'[g] = Primary[g]]_vars
  <2> SUFFICES ASSUME TypeOK, [Next]_vars, NEW h \in Groups, active'[h] # active[h]
               PROVE  /\ Healthy(active'[h])
                      /\ CurrentUnhealthy(h) \/ active'[h] = Primary[h]
    OBVIOUS
  <2>1. PICK g \in Groups : CheckGroupFailover(g)
    BY OnlyChecksMove
  <2>2. h = g
    BY <2>1, CheckStep
  <2>3. QED
    BY <2>1, <2>2, CheckStep DEF HealthyPositions
<1>2. QED
  BY <1>1, TypeCorrect, PTL DEF Spec, SwapsAreJustified

(* In a configuration without repeated members the rank of a standby is    *)
(* its position in the list.                                               *)
LEMMA RankOfStandby ==
  ASSUME DistinctMembers, NEW g \in Groups, NEW i \in DOMAIN Standbys[g]
  PROVE  Rank(g, Standbys[g][i]) = i
<1>1. Standbys[g][i] # Primary[g]
  BY DEF DistinctMembers, StandbySet
<1>2. \A j \in DOMAIN Standbys[g] : Standbys[g][j] = Standbys[g][i] => j = i
  BY DEF DistinctMembers
<1>3. QED
  BY <1>1, <1>2 DEF Rank

(* Without auto_failback a group never moves back up its member list, for  *)
(* any number of standbys and any history of probes.                       *)
THEOREM FailoverSticks == DistinctMembers => (Spec => StickyWithoutFailback)
<1> SUFFICES ASSUME DistinctMembers PROVE Spec => StickyWithoutFailback
  OBVIOUS
<1>1. TypeOK /\ RouteStaysInGroup /\ [Next]_vars =>
        [\A g \in Groups : ~AutoFailback[g] => Rank(g, active[g]) <= Rank(g, active'[g])]_vars
  <2> SUFFICES ASSUME TypeOK, RouteStaysInGroup, [Next]_vars,
                      NEW h \in Groups, ~AutoFailback[h]
               PROVE  Rank(h, active[h]) <= Rank(h, active'[h])
    OBVIOUS
  <2>0. Rank(h, active[h]) \in Nat
    <3>1. active[h] \in Members(h)
      BY DEF RouteStaysInGroup
    <3>2. CASE active[h] = Primary[h]
      BY <3>2 DEF Rank
    <3>3. CASE \E i \in DOMAIN Standbys[h] : active[h] = Standbys[h][i]
      BY <3>3, RankOfStandby, GroupsAssumption
    <3>4. QED
      BY <3>1, <3>2, <3>3 DEF Members, StandbySet
  <2>1. CASE active'[h] = active[h]
    BY <2>0, <2>1
  <2>2. CASE active'[h] # active[h]
    <3>1. PICK g \in Groups : CheckGroupFailover(g)
      BY <2>2, OnlyChecksMove
    <3>2. h = g
      BY <2>2, <3>1, CheckStep
    <3>3. PICK i \in HealthyPositions(h) : active'[h] = Standbys[h][i]
      BY <2>2, <3>1, <3>2, CheckStep
    <3>4. i \in DOMAIN Standbys[h] /\ i \in Nat \ {0}
      BY GroupsAssumption DEF HealthyPositions, FailoverPositions
    <3>5. Rank(h, active'[h]) = i
      BY <3>3, <3>4, RankOfStandby
    <3>6. CASE active[h] = Primary[h]
      <4>1. Rank(h, active[h]) = 0
        BY <3>6 DEF Rank
      <4>2. QED
        BY <3>4, <3>5, <4>1
    <3>7. CASE active[h] # Primary[h]
      <4>1. PICK j \in 1..(i - 1) : Standbys[h][j] = active[h]
        BY <3>7 DEF HealthyPositions, FailoverPositions
      <4>2. j \in DOMAIN Standbys[h] /\ j < i
        BY <3>4, <4>1, GroupsAssumption
      <4>3. Rank(h, active[h]) = j
        BY <4>1, <4>2, RankOfStandby
      <4>4. QED
        BY <3>4, <3>5, <4>2, <4>3
    <3>8. QED
      BY <3>6, <3>7
  <2>3. QED
    BY <2>1, <2>2
<1>2. QED
  BY <1>1, TypeCorrect, RoutingStaysInGroup, PTL DEF Spec, StickyWithoutFailback

-----------------------------------------------------------------------------
(* The throttle.                                                           *)

(* A record is never full, because check_ip takes from it or bans at once, *)
(* and a ban starts when the record is last updated.                       *)
RecordOk(r) ==
  /\ r.tokens \in Nat /\ r.tokens < Capacity
  /\ r.last \in Nat /\ r.last <= now
  /\ r.until = 0 \/ r.until = r.last + BanTime

(* What is left in the bucket and what has been taken since the i-th       *)
(* connection is covered by one full bucket and the refill since then.     *)
Covered(r, times) ==
  \A i \in 1..Len(times) :
    /\ times[i] <= r.last
    /\ (Len(times) - i + 1) * Cost + r.tokens <= Capacity + (r.last - times[i]) * Refill

Within(times) ==
  \A i \in 1..Len(times) : \A j \in i..Len(times) :
    (j - i + 1) * Cost <= Capacity + (times[j] - times[i]) * Refill

(* Who has been accepted has a record: records are not evicted while they  *)
(* are not full.                                                           *)
BudgetInv ==
  /\ now \in Nat
  /\ accepted \in [Addresses -> Seq(Nat)]
  /\ records = [a \in DOMAIN records |-> records[a]]
  /\ \A a \in DOMAIN records : RecordOk(records[a])
  /\ \A a \in Addresses : Within(accepted[a])
  /\ \A a \in Addresses : accepted[a] # <<>> => a \in DOMAIN records /\ Covered(records[a], accepted[a])

-----------------------------------------------------------------------------
LEMMA EvictsNothing == BudgetInv => Retained = records
  <1> SUFFICES ASSUME BudgetInv PROVE Retained = records
    OBVIOUS
  <1>1. {b \in DOMAIN records : Keeps(records[b])} = DOMAIN records
    BY Zenon DEF BudgetInv, RecordOk, Keeps
  <1> QED
    BY <1>1 DEF Retained, BudgetInv

LEMMA InitEstablishes == ThrottleInit => BudgetInv
  <1> SUFFICES ASSUME ThrottleInit PROVE BudgetInv
    OBVIOUS
  <1>1. accepted \in [Addresses -> Seq(Nat)] /\ \A a \in Addresses : accepted[a] = <<>>
    BY EmptySeq DEF ThrottleInit
  <1>2. \A a \in Addresses : Len(accepted[a]) = 0
    BY <1>1, EmptySeq
  <1>3. \A a \in Addresses : Within(accepted[a])
    BY <1>2 DEF Within
  <1> QED
    BY <1>1, <1>3 DEF ThrottleInit, BudgetInv

(* Arithmetic.                                                             *)
LEMMA LongerGap ==
  ASSUME NEW x \in Nat, NEW y \in Nat, NEW k \in Nat, x >= y
  PROVE  x * k \in Nat /\ y * k \in Nat /\ x * k >= y * k
  <1>1. x * k \in Nat /\ y * k \in Nat
    OBVIOUS
  <1>2. (x - y) * k \in Nat
    <2>1. x - y \in Nat
      OBVIOUS
    <2> QED
      BY <2>1
  <1>3. (x - y) * k = x * k - y * k
    OBVIOUS
  <1> QED
    BY <1>1, <1>2, <1>3

LEMMA AtMost ==
  ASSUME NEW x \in Nat, NEW y \in Nat
  PROVE  Least(x, y) \in Nat /\ Least(x, y) <= x /\ Least(x, y) <= y
  BY DEF Least

LEMMA Chain ==
  ASSUME NEW p \in Nat, NEW q \in Nat, NEW t \in Nat, NEW u \in Nat, NEW g \in Nat, NEW c \in Nat,
         p + t <= c + q, u <= t + g
  PROVE  p + u <= c + (q + g)
  OBVIOUS

LEMMA Spread ==
  ASSUME NEW a \in Nat, NEW b \in Nat, NEW c \in Nat, NEW k \in Nat
  PROVE  (c - a) * k = (b - a) * k + (c - b) * k
  BY SMTT(60)

LEMMA DropTerm ==
  ASSUME NEW p \in Nat, NEW t \in Nat, NEW c \in Nat, NEW q \in Nat, p + t <= c + q
  PROVE  p <= c + q
  OBVIOUS

(* The bucket at the moment of an attempt that is not banned: at most      *)
(* full, and no more than what was left and has been refilled; a ban that  *)
(* is over has lasted long enough to fill it.                              *)
LEMMA RefillBounded ==
  ASSUME NEW r, now \in Nat, RecordOk(r), ~Banned(r)
  PROVE  /\ Refilled(r) \in Nat /\ Refilled(r) <= Capacity
         /\ (now - r.last) * Refill \in Nat
         /\ Refilled(r) <= r.tokens + (now - r.last) * Refill
  <1> DEFINE gap == now - r.last
             G == gap * Refill
  <1>0. /\ Capacity \in Nat /\ Refill \in Nat /\ BanTime \in Nat
        /\ BanTime * Refill >= Capacity
    BY ThrottleAssumption
  <1>1. /\ r.tokens \in Nat /\ r.tokens < Capacity /\ r.last \in Nat /\ r.last <= now
        /\ r.until = 0 \/ r.until = r.last + BanTime
    BY DEF RecordOk
  <1>2. gap \in Nat
    BY <1>1
  <1>3. G \in Nat
    BY <1>0, <1>2
  <1>4. Refilled(r) = Least((IF r.until # 0 THEN Capacity ELSE r.tokens) + G, Capacity)
    BY DEF Refilled
  <1>5. CASE r.until = 0
    <2>1. Refilled(r) = Least(r.tokens + G, Capacity)
      BY <1>4, <1>5
    <2>2. r.tokens + G \in Nat
      BY <1>1, <1>3
    <2> QED
      BY <1>0, <1>3, <2>1, <2>2, AtMost, SMTT(60)
  <1>6. CASE r.until # 0
    <2>1. Refilled(r) = Least(Capacity + G, Capacity)
      BY <1>4, <1>6
    <2> HIDE DEF G
    <2>2. Capacity + G \in Nat
      BY <1>0, <1>3
    <2>3. Refilled(r) \in Nat /\ Refilled(r) <= Capacity
      BY <1>0, <2>1, <2>2, AtMost, SMTT(60)
    <2>4. gap >= BanTime
      BY <1>0, <1>1, <1>6 DEF Banned
    <2>5. G >= BanTime * Refill
      BY <1>0, <1>2, <2>4, LongerGap, SMTT(60) DEF G
    <2>6. BanTime * Refill \in Nat
      BY <1>0
    <2>7. G >= Capacity
      BY <1>0, <1>3, <2>5, <2>6, SMTT(60)
    <2>8. Refilled(r) <= r.tokens + G
      BY <1>0, <1>1, <1>3, <2>3, <2>7, SMTT(60)
    <2> QED
      BY <1>3, <2>3, <2>8 DEF G
  <1> QED
    BY <1>1, <1>5, <1>6

LEMMA RefillCovers ==
  ASSUME NEW r, now \in Nat, RecordOk(r), ~Banned(r),
         NEW times \in Seq(Nat), Covered(r, times), NEW i \in 1..Len(times)
  PROVE  /\ times[i] \in Nat /\ times[i] <= now
         /\ (Len(times) - i + 1) * Cost + Refilled(r) <= Capacity + (now - times[i]) * Refill
  <1>0. Capacity \in Nat /\ Refill \in Nat /\ Cost \in Nat
    BY ThrottleAssumption
  <1>1. r.tokens \in Nat /\ r.last \in Nat /\ r.last <= now
    BY DEF RecordOk
  <1>2. times[i] \in Nat /\ Len(times) \in Nat /\ times[i] <= r.last
    BY ElementOfSeq, LenProperties DEF Covered
  <1>3. (Len(times) - i + 1) * Cost + r.tokens <= Capacity + (r.last - times[i]) * Refill
    BY DEF Covered
  <1>4. (Len(times) - i + 1) * Cost \in Nat
    <2>1. Len(times) - i + 1 \in Nat
      BY <1>2
    <2> QED
      BY <1>0, <2>1
  <1>5. (r.last - times[i]) * Refill \in Nat
    <2>1. r.last - times[i] \in Nat
      BY <1>1, <1>2
    <2> QED
      BY <1>0, <2>1
  <1>6. (now - times[i]) * Refill = (r.last - times[i]) * Refill + (now - r.last) * Refill
    BY <1>0, <1>1, <1>2, Spread, SMTT(60)
  <1>7. (Len(times) - i + 1) * Cost + Refilled(r)
          <= Capacity + ((r.last - times[i]) * Refill + (now - r.last) * Refill)
    BY <1>0, <1>1, <1>3, <1>4, <1>5, RefillBounded, Chain, Zenon
  <1>8. (Len(times) - i + 1) * Cost + Refilled(r) <= Capacity + (now - times[i]) * Refill
    BY ONLY <1>6, <1>7, Zenon
  <1>9. times[i] <= now
    BY <1>1, <1>2
  <1> QED
    BY <1>2, <1>8, <1>9, SMTT(60)

-----------------------------------------------------------------------------
(* A bucket of T that covers the connections so far, at this moment.       *)
Covers(T, times) ==
  /\ T \in Nat /\ T <= Capacity
  /\ \A i \in 1..Len(times) :
       /\ times[i] \in Nat /\ times[i] <= now
       /\ (Len(times) - i + 1) * Cost + T <= Capacity + (now - times[i]) * Refill

(* An accepted connection.                                                 *)
LEMMA TakenIsCovered ==
  ASSUME now \in Nat, NEW T, NEW times \in Seq(Nat), Covers(T, times), Cost <= T, Within(times)
  PROVE  /\ T - Cost \in Nat /\ T - Cost < Capacity
         /\ Within(Append(times, now))
         /\ Covered([tokens |-> T - Cost, last |-> now, until |-> 0], Append(times, now))
  <1> DEFINE n == Len(times)
             more == Append(times, now)
  <1>0. Capacity \in Nat /\ Refill \in Nat /\ Cost \in Nat /\ Cost >= 1
    BY ThrottleAssumption
  <1>1. T \in Nat /\ T <= Capacity /\ n \in Nat
    BY LenProperties DEF Covers
  <1>2. /\ Len(more) = n + 1 /\ more[n + 1] = now
        /\ \A i \in 1..n : more[i] = times[i]
    BY AppendProperties
  <1>3. T - Cost \in Nat /\ T - Cost < Capacity
    BY <1>0, <1>1
  <1>a. \A i \in 1..n : more[i] \in Nat /\ more[i] <= now
    BY <1>2 DEF Covers
  <1>4. ASSUME NEW i \in 1..n
        PROVE  /\ more[i] \in Nat /\ more[i] <= now
               /\ (n + 1 - i + 1) * Cost + (T - Cost) <= Capacity + (now - more[i]) * Refill
               /\ (n + 1 - i + 1) * Cost \in Nat
    <2>1. times[i] \in Nat /\ times[i] <= now
      BY DEF Covers
    <2>2. (n - i + 1) * Cost + T <= Capacity + (now - times[i]) * Refill
      BY DEF Covers
    <2>3. (n - i + 1) * Cost \in Nat /\ (n + 1 - i + 1) * Cost \in Nat
      <3>1. n - i + 1 \in Nat /\ n + 1 - i + 1 \in Nat
        BY <1>1
      <3> QED
        BY <1>0, <3>1
    <2>4. (n + 1 - i + 1) * Cost = (n - i + 1) * Cost + Cost
      BY <1>0, <1>1
    <2>5. (n + 1 - i + 1) * Cost + (T - Cost) = (n - i + 1) * Cost + T
      BY <1>0, <1>1, <2>3, <2>4, SMTT(60)
    <2> QED
      BY <1>2, <2>1, <2>2, <2>3, <2>5, SMTT(60)
  <1>5. /\ (n + 1 - (n + 1) + 1) * Cost = Cost
        /\ (now - now) * Refill = 0
    BY <1>0, <1>1
  <1>6. Covered([tokens |-> T - Cost, last |-> now, until |-> 0], more)
    <2> SUFFICES ASSUME NEW i \in 1..(n + 1)
                 PROVE  /\ more[i] <= now
                        /\ (n + 1 - i + 1) * Cost + (T - Cost) <= Capacity + (now - more[i]) * Refill
      BY <1>2 DEF Covered
    <2>1. CASE i \in 1..n
      BY <1>4, <2>1
    <2>2. CASE i = n + 1
      BY <1>0, <1>1, <1>2, <1>5, <2>2, SMTT(60)
    <2> QED
      BY <1>1, <2>1, <2>2, SMTT(60)
  <1>7. Within(more)
    <2> SUFFICES ASSUME NEW i \in 1..(n + 1), NEW j \in i..(n + 1)
                 PROVE  (j - i + 1) * Cost <= Capacity + (more[j] - more[i]) * Refill
      BY <1>2 DEF Within
    <2>1. CASE j \in 1..n
      <3>1. i \in 1..n /\ j \in i..n
        BY <1>1, <2>1, SMTT(60)
      <3> QED
        BY <1>2, <3>1 DEF Within
    <2>2. CASE j = n + 1 /\ i \in 1..n
      <3>1. /\ (n + 1 - i + 1) * Cost + (T - Cost) <= Capacity + (now - more[i]) * Refill
            /\ (n + 1 - i + 1) * Cost \in Nat
        BY <1>4, <2>2
      <3>2. (now - more[i]) * Refill \in Nat
        <4>1. now - more[i] \in Nat
          BY <1>a, <2>2
        <4> QED
          BY <1>0, <4>1, SMTT(60)
      <3>3. (n + 1 - i + 1) * Cost <= Capacity + (now - more[i]) * Refill
        BY <1>0, <1>3, <3>1, <3>2, DropTerm, Zenon
      <3>4. more[j] = now
        BY <1>2, <2>2
      <3> QED
        BY <2>2, <3>3, <3>4, SMTT(60)
    <2>3. CASE j = n + 1 /\ i = n + 1
      <3>1. (j - i + 1) * Cost = Cost /\ (more[j] - more[i]) * Refill = 0
        BY <1>2, <1>5, <2>3
      <3>2. Cost <= Capacity + 0
        BY <1>0, <1>1
      <3> QED
        BY <3>1, <3>2
    <2> QED
      BY <1>1, <2>1, <2>2, <2>3, SMTT(60)
  <1> QED
    BY <1>3, <1>6, <1>7

(* A refused connection: the bucket is brought up to date.                 *)
LEMMA BanIsCovered ==
  ASSUME now \in Nat, NEW T, NEW times \in Seq(Nat), Covers(T, times), NEW u
  PROVE  Covered([tokens |-> T, last |-> now, until |-> u], times)
  BY DEF Covers, Covered

(* The bucket that check_ip finds, or makes.                               *)
Found(a) == IF a \in DOMAIN records THEN records[a] ELSE Fresh

LEMMA FoundCovers ==
  ASSUME BudgetInv, NEW a \in Addresses, ~Banned(Found(a))
  PROVE  Covers(Refilled(Found(a)), accepted[a])
  <1>0. Capacity \in Nat /\ Refill \in Nat /\ now \in Nat
    BY ThrottleAssumption DEF BudgetInv
  <1>1. accepted[a] \in Seq(Nat)
    BY DEF BudgetInv
  <1>2. CASE a \in DOMAIN records
    <2>1. Found(a) = records[a] /\ RecordOk(records[a]) /\ ~Banned(records[a])
      BY <1>2, SMTT(60) DEF Found, BudgetInv
    <2>2. Refilled(records[a]) \in Nat /\ Refilled(records[a]) <= Capacity
      BY <1>0, <2>1, RefillBounded, SMTT(60)
    <2>3. CASE accepted[a] = <<>>
      <3>1. Len(accepted[a]) = 0
        BY <2>3, EmptySeq, SMTT(60)
      <3> QED
        BY <2>1, <2>2, <3>1 DEF Covers
    <2>4. CASE accepted[a] # <<>>
      <3>1. Covered(records[a], accepted[a])
        BY <2>4 DEF BudgetInv
      <3> QED
        BY <1>0, <1>1, <2>1, <2>2, <3>1, RefillCovers, SMTT(60) DEF Covers
    <2> QED
      BY <2>3, <2>4
  <1>3. CASE a \notin DOMAIN records
    <2>1. accepted[a] = <<>>
      BY <1>3 DEF BudgetInv
    <2>2. Len(accepted[a]) = 0
      BY <2>1, EmptySeq
    <2>3. Found(a) = Fresh
      BY <1>3 DEF Found
    <2>4. (now - now) * Refill = 0
      BY <1>0
    <2>5. Refilled(Fresh) = Least(Capacity + 0, Capacity)
      BY <2>4 DEF Refilled, Fresh
    <2>6. Refilled(Fresh) \in Nat /\ Refilled(Fresh) <= Capacity
      BY <1>0, <2>5, AtMost, SMTT(60)
    <2> QED
      BY <2>2, <2>3, <2>6, SMTT(60) DEF Covers
  <1> QED
    BY <1>2, <1>3

(* One address has a new record, and perhaps a new connection.             *)
LEMMA UpdateKeeps ==
  ASSUME BudgetInv, NEW a \in Addresses, NEW r, NEW times \in Seq(Nat),
         RecordOk(r), Within(times), Covered(r, times),
         records' = With(records, a, r), accepted' = [accepted EXCEPT ![a] = times], now' = now
  PROVE  BudgetInv'
  <1>1. now' \in Nat /\ accepted' \in [Addresses -> Seq(Nat)]
    BY DEF BudgetInv
  <1>2. /\ DOMAIN records' = DOMAIN records \cup {a}
        /\ records' = [b \in DOMAIN records' |-> records'[b]]
        /\ records'[a] = r
        /\ \A b \in DOMAIN records \ {a} : records'[b] = records[b]
    BY DEF With
  <1>3. (\A b \in DOMAIN records : RecordOk(records[b]))'
    BY <1>2 DEF BudgetInv, RecordOk
  <1>4. accepted'[a] = times /\ \A b \in Addresses \ {a} : accepted'[b] = accepted[b]
    BY DEF BudgetInv
  <1>5. (\A b \in Addresses : Within(accepted[b]))'
    BY <1>4, ZenonT(60) DEF BudgetInv, Within
  <1>6. ASSUME NEW b \in Addresses, accepted'[b] # <<>>
        PROVE  b \in DOMAIN records' /\ Covered(records'[b], accepted'[b])
    <2>1. CASE b = a
      BY <1>2, <1>4, <2>1, SMTT(60)
    <2>2. CASE b # a
      BY <1>2, <1>4, <1>6, <2>2, SMTT(60) DEF BudgetInv
    <2> QED
      BY <2>1, <2>2, SMTT(60)
  <1>7. (\A b \in Addresses : accepted[b] # <<>> => b \in DOMAIN records /\ Covered(records[b], accepted[b]))'
    BY <1>6, SMTT(60) DEF Covered
  <1> QED
    BY <1>1, <1>2, <1>3, <1>5, <1>7, SMTT(60) DEF BudgetInv

LEMMA NothingChanges ==
  ASSUME BudgetInv, records' = records, accepted' = accepted, now' \in Nat, now' >= now
  PROVE  BudgetInv'
  <1>1. (\A a \in DOMAIN records : RecordOk(records[a]))'
    BY DEF BudgetInv, RecordOk
  <1> QED
    BY <1>1 DEF BudgetInv, Within, Covered

LEMMA CheckKeeps ==
  ASSUME BudgetInv, NEW a \in Addresses, CheckIp(a), now' = now
  PROVE  BudgetInv'
  <1> DEFINE r == Found(a)
             T == Refilled(r)
             times == accepted[a]
  <1>0. /\ Capacity \in Nat /\ Cost \in Nat /\ Cost >= 1 /\ Cost <= Capacity /\ BanTime \in Nat
        /\ now \in Nat /\ times \in Seq(Nat) /\ Within(times)
    BY ThrottleAssumption, SMTT(60) DEF BudgetInv
  <1>1. \/ records' = records /\ accepted' = accepted
        \/ /\ ~Banned(r) /\ T < Cost /\ accepted' = accepted
           /\ records' = With(records, a, [tokens |-> T, last |-> now, until |-> now + BanTime])
        \/ /\ ~Banned(r) /\ ~(T < Cost) /\ Accept(a)
           /\ records' = With(records, a, [tokens |-> T - Cost, last |-> now, until |-> 0])
    BY EvictsNothing DEF CheckIp, Found
  <1>2. CASE records' = records /\ accepted' = accepted
    BY <1>0, <1>2, NothingChanges
  <1>3. CASE /\ ~Banned(r) /\ T < Cost /\ accepted' = accepted
             /\ records' = With(records, a, [tokens |-> T, last |-> now, until |-> now + BanTime])
    <2> DEFINE banned == [tokens |-> T, last |-> now, until |-> now + BanTime]
    <2>1. Covers(T, times)
      BY <1>3, FoundCovers, SMTT(60)
    <2>2. Covered(banned, times)
      BY <1>0, <2>1, BanIsCovered, SMTT(60)
    <2>3. T \in Nat
      BY <2>1, SMTT(60) DEF Covers
    <2>4. RecordOk(banned)
      BY <1>0, <1>3, <2>3, SMTT(60) DEF RecordOk
    <2>5. accepted' = [accepted EXCEPT ![a] = times]
      BY <1>3 DEF BudgetInv
    <2> QED
      BY <1>0, <1>3, <2>2, <2>4, <2>5, UpdateKeeps, Zenon
  <1>4. CASE /\ ~Banned(r) /\ ~(T < Cost) /\ Accept(a)
             /\ records' = With(records, a, [tokens |-> T - Cost, last |-> now, until |-> 0])
    <2> DEFINE taken == [tokens |-> T - Cost, last |-> now, until |-> 0]
               more == Append(times, now)
    <2>1. Covers(T, times)
      BY <1>4, FoundCovers, SMTT(60)
    <2>2. Cost <= T
      <3>1. PICK t \in Nat : t = T
        BY <2>1, Zenon DEF Covers
      <3>2. Cost \in Nat
        BY <1>0
      <3>3. ~(t < Cost)
        BY <1>4, <3>1, Zenon
      <3>4. Cost <= t
        BY ONLY t \in Nat, <3>2, <3>3
      <3> QED
        BY ONLY <3>1, <3>4, Zenon
    <2>3. T - Cost \in Nat /\ T - Cost < Capacity /\ Within(more) /\ Covered(taken, more)
      BY <1>0, <2>1, <2>2, TakenIsCovered, SMTT(60)
    <2>4. RecordOk(taken)
      BY <1>0, <2>3 DEF RecordOk
    <2>5. more \in Seq(Nat)
      BY <1>0, AppendProperties, SMTT(60)
    <2>6. accepted' = [accepted EXCEPT ![a] = more]
      BY <1>4 DEF Accept
    <2> QED
      BY <1>4, <2>3, <2>4, <2>5, <2>6, UpdateKeeps, Zenon
  <1> QED
    BY <1>1, <1>2, <1>3, <1>4, SMTT(60)

LEMMA StepKeeps == BudgetInv /\ [ThrottleNext]_throttleVars => BudgetInv'
  <1> SUFFICES ASSUME BudgetInv, [ThrottleNext]_throttleVars PROVE BudgetInv'
    OBVIOUS
  <1>0. now \in Nat
    BY DEF BudgetInv
  <1>1. CASE TimePasses
    BY <1>0, <1>1, NothingChanges, SMTT(60) DEF TimePasses
  <1>2. CASE EvictStale
    BY <1>0, <1>2, NothingChanges, EvictsNothing, SMTT(60) DEF EvictStale
  <1>3. ASSUME NEW a \in Addresses, Connects(a) PROVE BudgetInv'
    BY <1>0, <1>3, NothingChanges, CheckKeeps, SMTT(60) DEF Connects
  <1>4. CASE UNCHANGED throttleVars
    BY <1>0, <1>4, NothingChanges, SMTT(60) DEF throttleVars
  <1> QED
    BY <1>1, <1>2, <1>3, <1>4, SMTT(60) DEF ThrottleNext

(* AcceptsWithinBudget for every run of the throttle: no order of          *)
(* attempts, bans and evictions lets an address through more often than    *)
(* its bucket and the refill allow, in any stretch of time.                *)
THEOREM ThrottleBoundsConnections == ThrottleSpec => []AcceptsWithinBudget
  <1>1. BudgetInv => AcceptsWithinBudget
    BY LenProperties, Zenon DEF BudgetInv, Within, AcceptsWithinBudget
  <1> QED
    BY <1>1, InitEstablishes, StepKeeps, PTL DEF ThrottleSpec
=============================================================================
