------------------------------ MODULE Routing ------------------------------
(***************************************************************************)
(* Backend selection (routing.rs) and region-aware lobby selection         *)
(* (region_selector.rs).                                                   *)
(*                                                                         *)
(* Selection is a pure function of the server registry, so this module has *)
(* no state.  A registry `reg` is a function from the registered names to  *)
(* entries [online, players, max, unhealthy, region, weight, latency].     *)
(* The registry is a DashMap, whose iteration order is arbitrary, and      *)
(* weighted selection rolls a die: an operator returns the SET of servers  *)
(* the code may return.  {} stands for None.                               *)
(***************************************************************************)
EXTENDS Integers, Sequences

CONSTANTS
  DefaultServer,  \* routing.default_server
  ServerGroups    \* [[server_groups]]: name -> [members, strategy]

IsFull(e) == e.max # 0 /\ e.players >= e.max

-----------------------------------------------------------------------------
(* Group selection.                                                        *)

(* Iterator::filter: the entries of seq that are in S, in their order.     *)
Those(seq, S) ==
  LET kept[i \in 0..Len(seq)] ==
        IF i = 0 THEN <<>>
        ELSE IF seq[i] \in S THEN Append(kept[i - 1], seq[i]) ELSE kept[i - 1]
  IN  kept[Len(seq)]

(* Faulty variant: full members are not skipped.                           *)
EligibleMembersFull(group, reg) ==
  Those(group.members, {s \in DOMAIN reg : reg[s].online})

EligibleMembers(group, reg) ==
  Those(group.members, {s \in DOMAIN reg : reg[s].online /\ ~IsFull(reg[s])})

(* Iterator::min_by_key: of the elements with the smallest key, the first. *)
FirstMin(seq, key(_)) ==
  {seq[i] : i \in {i \in DOMAIN seq :
     /\ \A j \in DOMAIN seq : key(seq[i]) <= key(seq[j])
     /\ \A j \in 1..(i - 1) : key(seq[j]) # key(seq[i])}}

(* An unmeasured latency (0) counts as u64::MAX; the largest integer of    *)
(* TLC plays that part.                                                    *)
UnknownLatency == 2147483647
LatencyKey(e) == IF e.latency = 0 THEN UnknownLatency ELSE e.latency

(* The sum of the first i of the weights w, for every i.                   *)
WeightUpTo(w) ==
  LET sum[i \in 0..Len(w)] == IF i = 0 THEN 0 ELSE sum[i - 1] + w[i]
  IN  sum

TotalWeight(w) == WeightUpTo(w)[Len(w)]

(* The loop of weighted_pick: what is left of the roll once the first i    *)
(* weights are subtracted, and the first place where that is below the     *)
(* weight, or the last place.                                              *)
LeftOfRoll(w, roll) ==
  LET left[i \in 0..Len(w)] == IF i = 0 THEN roll ELSE left[i - 1] - w[i]
  IN  left

(* Faulty variant: a roll on the boundary stays with the earlier server.   *)
WalkInclusive(w, roll) ==
  LET stops == {i \in DOMAIN w : LeftOfRoll(w, roll)[i - 1] <= w[i] \/ i = Len(w)}
  IN  CHOOSE i \in stops : \A j \in stops : i <= j

Walk(w, roll) ==
  LET stops == {i \in DOMAIN w : LeftOfRoll(w, roll)[i - 1] < w[i] \/ i = Len(w)}
  IN  CHOOSE i \in stops : \A j \in stops : i <= j

Weights(candidates, reg) == [i \in DOMAIN candidates |-> reg[candidates[i]].weight]

WeightedPick(candidates, reg) ==
  LET w == Weights(candidates, reg)
  IN  IF candidates = <<>> THEN {}
      ELSE IF TotalWeight(w) = 0 THEN {candidates[1]}
      ELSE {candidates[Walk(w, roll)] : roll \in 0..(TotalWeight(w) - 1)}

SelectFromGroup(group, reg) ==
  LET candidates == EligibleMembers(group, reg)
  IN  CASE group.strategy = "least_connections" ->
             FirstMin(candidates, LAMBDA s : reg[s].players)
        [] group.strategy = "latency" ->
             FirstMin(candidates, LAMBDA s : LatencyKey(reg[s]))
        [] group.strategy = "weighted" -> WeightedPick(candidates, reg)

-----------------------------------------------------------------------------
(* RoutingRules.                                                           *)

Online(reg) == {s \in DOMAIN reg : reg[s].online}

ResolveTarget(name, reg) ==
  IF name \in DOMAIN ServerGroups
  THEN SelectFromGroup(ServerGroups[name], reg)
  ELSE {name} \cap Online(reg)

Select(reg) ==
  IF ResolveTarget(DefaultServer, reg) # {}
  THEN ResolveTarget(DefaultServer, reg)
  ELSE Online(reg)

(* select_for: `targets` are the targets of the rules that match the       *)
(* player, in rule order.                                                  *)
SelectFor(targets, reg) ==
  LET usable == {i \in DOMAIN targets : ResolveTarget(targets[i], reg) # {}}
      first == CHOOSE i \in usable : \A j \in usable : i <= j
  IN  IF usable # {} THEN ResolveTarget(targets[first], reg) ELSE Select(reg)

-----------------------------------------------------------------------------
(* Region-aware lobby selection.                                           *)

Fallbacks(region) ==
  CASE region = "us-east" -> <<"us-west", "eu-west", "asia">>
    [] region = "us-west" -> <<"us-east", "eu-west", "asia">>
    [] region = "eu-west" -> <<"us-east", "asia", "us-west">>
    [] region = "asia"    -> <<"us-east", "eu-west", "us-west">>
    [] OTHER              -> <<"us-east", "eu-west", "asia">>

HealthyServers(reg) == {s \in DOMAIN reg : ~reg[s].unhealthy}
(* Faulty variant: health is not looked at.                                *)
InRegionUnhealthy(region, reg) ==
  {s \in DOMAIN reg : region = "global" \/ reg[s].region = region}

InRegion(region, reg) == {s \in HealthyServers(reg) : region = "global" \/ reg[s].region = region}

FewestPlayers(S, reg) == {s \in S : \A t \in S : reg[s].players <= reg[t].players}

(* The early returns of select_lobby_by_region: the first tier with a      *)
(* healthy server in it, which is the region, its fallbacks in turn, or    *)
(* the whole registry.                                                     *)
OrElse(S, T) == IF S # {} THEN S ELSE T

LobbyTier(region, reg) ==
  LET fallback(i) == {s \in HealthyServers(reg) : reg[s].region = Fallbacks(region)[i]}
  IN  OrElse(InRegion(region, reg),
        OrElse(fallback(1), OrElse(fallback(2), OrElse(fallback(3), HealthyServers(reg)))))

(* The fewest players win inside a tier; any server at all is the last     *)
(* resort.                                                                 *)
SelectLobbyByRegion(region, reg) ==
  OrElse(FewestPlayers(LobbyTier(region, reg), reg), DOMAIN reg)

(* select_with_region, for a client of the given region: an offline lobby  *)
(* sends the client to Select.                                             *)
(* Faulty variant: an offline lobby is returned.                           *)
SelectWithRegionUnchecked(region, reg) ==
  SelectLobbyByRegion(region, reg)

SelectWithRegion(region, reg) ==
  LET lobbies == SelectLobbyByRegion(region, reg)
  IN  (lobbies \cap Online(reg))
        \cup (IF lobbies \subseteq Online(reg) /\ lobbies # {} THEN {} ELSE Select(reg))
=============================================================================
