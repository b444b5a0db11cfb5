--------------------------- MODULE AdmissionProofs ---------------------------
(* Machine-checked proofs about Admission, for any number of connections,  *)
(* backends and limits.                                                    *)
EXTENDS Admission, FiniteSetTheorems, WellFoundedInduction, TLAPS

Attachable == {"reset", "entering", "relay"}

(* The strengthening of CountsBalance: only a connection on its way into   *)
(* the relay or in it has a current server, so an arrival never overwrites *)
(* one that is counted.                                                    *)
CountInv ==
  /\ phase \in [Conns -> Phases]
  /\ current = [c \in Conns |-> current[c]]
  /\ players \in [Servers -> Nat]
  /\ lost \in [Servers -> 0..MaxLost]
  /\ \A c \in Conns : phase[c] \notin Attachable => current[c] = None
  /\ CountsBalance

(* None is no backend.                                                     *)
LEMMA NoneIsNoServer == None \notin Servers
  BY NamesAssumption, Zenon DEF None

(* The connections attached to a backend are finitely many.                *)
LEMMA AttachedFinite ==
  ASSUME NEW s \in Servers
  PROVE  /\ IsFiniteSet(Attached(s))
         /\ Cardinality(Attached(s)) \in Nat
         /\ Cardinality(Attached(s)) <= Cardinality(Conns)
<1>1. Attached(s) \subseteq Conns
  BY DEF Attached
<1>2. QED
  BY <1>1, ConnsAssumption, FS_Subset, FS_CardinalityType

(* The bounds leave room to count one more.                                *)
LEMMA RoomToCount ==
  ASSUME CountInv, NEW s \in Servers
  PROVE  /\ lost[s] \in Nat /\ players[s] \in Nat
         /\ players[s] = Cardinality(Attached(s)) + lost[s]
         /\ players[s] < CountRange
<1>1. lost[s] \in 0..MaxLost /\ players[s] = Cardinality(Attached(s)) + lost[s]
  BY DEF CountInv, CountsBalance
<1>2. Cardinality(Conns) \in Nat
  BY ConnsAssumption, FS_CardinalityType
<1>3. players[s] \in Nat
  BY DEF CountInv
<1>4. QED
  BY <1>1, <1>2, <1>3, AttachedFinite, CountAssumption

(* Adding a connection to a backend's crowd, or taking one out.            *)
LEMMA OneMore ==
  ASSUME CountInv, NEW s \in Servers, NEW c \in Conns, c \notin Attached(s)
  PROVE  /\ Cardinality(Attached(s) \cup {c}) = Cardinality(Attached(s)) + 1
         /\ Inc(players[s]) = players[s] + 1
<1>1. /\ IsFiniteSet(Attached(s) \cup {c})
      /\ Cardinality(Attached(s) \cup {c}) = Cardinality(Attached(s)) + 1
  BY AttachedFinite, FS_AddElement
<1>2. Attached(s) \cup {c} \subseteq Conns
  BY DEF Attached
<1>3. Cardinality(Attached(s)) + 1 <= Cardinality(Conns)
  BY <1>1, <1>2, ConnsAssumption, FS_Subset
<1>4. lost[s] \in 0..MaxLost
  BY DEF CountInv
<1>5. players[s] + 1 < CountRange
  BY <1>3, <1>4, RoomToCount, AttachedFinite, ConnsAssumption, FS_CardinalityType, CountAssumption
<1>6. QED
  BY <1>1, <1>5, RoomToCount, CountAssumption DEF Inc

(* A relay that ends takes one player off a counter that holds at least    *)
(* its own increment, so fetch_sub does not wrap.                          *)
LEMMA OneLess ==
  ASSUME CountInv, NEW s \in Servers, NEW c \in Conns, c \in Attached(s)
  PROVE  /\ Cardinality(Attached(s) \ {c}) = Cardinality(Attached(s)) - 1
         /\ Dec(players[s]) = players[s] - 1
         /\ players[s] - 1 \in Nat
<1>1. /\ IsFiniteSet(Attached(s) \ {c})
      /\ Cardinality(Attached(s) \ {c}) = Cardinality(Attached(s)) - 1
  BY AttachedFinite, FS_RemoveElement
<1>2. Cardinality(Attached(s)) - 1 \in Nat
  BY <1>1, FS_CardinalityType
<1>3. players[s] - 1 \in Nat
  BY <1>2, RoomToCount, AttachedFinite
<1>4. QED
  BY <1>1, <1>3, RoomToCount DEF Dec

(* Attaching a detached connection to a backend keeps the balance.         *)
LEMMA AttachKeepsBalance ==
  ASSUME NEW c \in Conns, NEW b, CountInv,
         current[c] = None, Attach(c, b), lost' = lost
  PROVE  CountsBalance' /\ players' \in [Servers -> Nat]
<1>1. ASSUME NEW s \in Servers, s = b
      PROVE  players'[s] \in Nat /\ players'[s] = Cardinality(Attached(s)') + lost'[s]
  <2>1. c \notin Attached(s)
    BY NoneIsNoServer DEF Attached
  <2>2. Attached(s)' = Attached(s) \cup {c}
    BY <1>1 DEF Attached, Attach, CountInv
  <2>3. players'[s] = Inc(players[s])
    BY <1>1 DEF Attach, CountInv
  <2>4. /\ players[s] \in Nat /\ lost[s] \in Nat /\ Cardinality(Attached(s)) \in Nat
        /\ players[s] = Cardinality(Attached(s)) + lost[s]
    BY RoomToCount, AttachedFinite
  <2>5. /\ players'[s] = players[s] + 1
        /\ Cardinality(Attached(s)') = Cardinality(Attached(s)) + 1
    BY <2>1, <2>2, <2>3, OneMore
  <2>6. QED
    BY <2>4, <2>5
<1>2. ASSUME NEW s \in Servers, s # b
      PROVE  players'[s] \in Nat /\ players'[s] = Cardinality(Attached(s)') + lost'[s]
  <2>1. players'[s] = players[s]
    BY <1>2 DEF Attach, CountInv
  <2>2. Attached(s)' = Attached(s)
    BY <1>2, NoneIsNoServer DEF Attached, Attach, CountInv
  <2>3. QED
    BY <2>1, <2>2, RoomToCount
<1>3. CountsBalance'
  BY <1>1, <1>2 DEF CountsBalance
<1>4. players' = [s \in Servers |-> players'[s]]
  BY Zenon DEF Attach, CountInv
<1>5. QED
  BY <1>1, <1>2, <1>3, <1>4

(* Detaching one takes back exactly what was counted for it.               *)
LEMMA DetachedKeepsBalance ==
  ASSUME NEW c \in Conns, CountInv, players' = Detached(c), lost' = lost,
         current' = [current EXCEPT ![c] = None]
  PROVE  CountsBalance' /\ players' \in [Servers -> Nat]
<1>1. ASSUME NEW s \in Servers, s = current[c]
      PROVE  players'[s] \in Nat /\ players'[s] = Cardinality(Attached(s)') + lost'[s]
  <2>1. c \in Attached(s)
    BY <1>1 DEF Attached
  <2>2. Attached(s)' = Attached(s) \ {c}
    BY <1>1, NoneIsNoServer DEF Attached, CountInv
  <2>3. players'[s] = Dec(players[s])
    BY <1>1 DEF Detached, CountInv
  <2>4. /\ players[s] \in Nat /\ lost[s] \in Nat /\ Cardinality(Attached(s)) \in Nat
        /\ players[s] = Cardinality(Attached(s)) + lost[s]
    BY RoomToCount, AttachedFinite
  <2>5. /\ players'[s] = players[s] - 1 /\ players[s] - 1 \in Nat
        /\ Cardinality(Attached(s)') = Cardinality(Attached(s)) - 1
    BY <2>1, <2>2, <2>3, OneLess
  <2>6. QED
    BY <2>4, <2>5
<1>2. ASSUME NEW s \in Servers, s # current[c]
      PROVE  players'[s] \in Nat /\ players'[s] = Cardinality(Attached(s)') + lost'[s]
  <2>1. players'[s] = players[s]
    BY <1>2 DEF Detached, CountInv
  <2>2. Attached(s)' = Attached(s)
    BY <1>2, NoneIsNoServer DEF Attached, CountInv
  <2>3. QED
    BY <2>1, <2>2, RoomToCount
<1>3. CountsBalance'
  BY <1>1, <1>2 DEF CountsBalance
<1>4. players' = [s \in Servers |-> players'[s]]
  BY Zenon DEF Detached, CountInv
<1>5. QED
  BY <1>1, <1>2, <1>3, <1>4

(* A connection that stays counted is one of the lost.                     *)
LEMMA StaysCountedKeepsBalance ==
  ASSUME NEW c \in Conns, CountInv, StaysCounted(c),
         current' = [current EXCEPT ![c] = None]
  PROVE  CountsBalance' /\ players' \in [Servers -> Nat] /\ lost' \in [Servers -> 0..MaxLost]
<1>1. ASSUME NEW s \in Servers, s = current[c]
      PROVE  lost'[s] \in 0..MaxLost /\ players'[s] = Cardinality(Attached(s)') + lost'[s]
  <2>1. c \in Attached(s)
    BY <1>1 DEF Attached
  <2>2. Attached(s)' = Attached(s) \ {c}
    BY <1>1, NoneIsNoServer DEF Attached, CountInv
  <2>3. lost'[s] = lost[s] + 1 /\ lost[s] < MaxLost /\ players'[s] = players[s]
    BY <1>1 DEF StaysCounted
  <2>4. QED
    BY <2>1, <2>2, <2>3, OneLess, RoomToCount, AttachedFinite, CountAssumption
<1>2. ASSUME NEW s \in Servers, s # current[c]
      PROVE  lost'[s] \in 0..MaxLost /\ players'[s] = Cardinality(Attached(s)') + lost'[s]
  <2>1. players'[s] = players[s] /\ lost'[s] = lost[s]
    BY <1>2 DEF StaysCounted
  <2>2. Attached(s)' = Attached(s)
    BY <1>2, NoneIsNoServer DEF Attached, CountInv
  <2>3. lost[s] \in 0..MaxLost
    BY DEF CountInv
  <2>4. QED
    BY <2>1, <2>2, <2>3, RoomToCount
<1>3. CountsBalance'
  BY <1>1, <1>2 DEF CountsBalance
<1>4. players' \in [Servers -> Nat]
  BY DEF StaysCounted, CountInv
<1>5. lost' = [s \in Servers |-> lost'[s]]
  BY DEF StaysCounted
<1>6. QED
  BY <1>1, <1>2, <1>3, <1>4, <1>5

(* A step that touches neither counters nor current servers.               *)
LEMMA OtherStepsKeepInv ==
  ASSUME NEW c \in Conns, NEW p \in Phases, CountInv, Goto(c, p),
         phase[c] \in Attachable => p \in Attachable,
         players' = players, lost' = lost, current' = current
  PROVE  CountInv'
<1>1. CountsBalance'
  BY DEF CountInv, CountsBalance, Attached
<1>2. phase' \in [Conns -> Phases]
  BY DEF CountInv, Goto
<1>3. \A d \in Conns : phase'[d] \notin Attachable => current'[d] = None
  BY DEF CountInv, Goto
<1>4. QED
  BY <1>1, <1>2, <1>3 DEF CountInv

(* A step that leaves phases, counters and current servers alone.          *)
LEMMA SameStateKeepsInv ==
  ASSUME CountInv, phase' = phase, players' = players, lost' = lost, current' = current
  PROVE  CountInv'
  BY DEF CountInv, CountsBalance, Attached

(* The end of a task that was not attached.                                *)
LEMMA ForgetKeepsInv ==
  ASSUME NEW c \in Conns, CountInv, phase[c] \notin Attachable, Forget(c),
         players' = players, lost' = lost
  PROVE  CountInv'
<1>1. current' = current
  BY DEF Forget, CountInv
<1>2. Goto(c, "out") /\ "out" \in Phases
  BY DEF Forget, Phases
<1>3. QED
  BY <1>1, <1>2, OtherStepsKeepInv

(* An arrival, from the initial join or from limbo.                        *)
LEMMA ArrivalKeepsInv ==
  ASSUME NEW c \in Conns, NEW b, NEW p \in Attachable, CountInv,
         phase[c] \notin Attachable, Goto(c, p), Attach(c, b), lost' = lost
  PROVE  CountInv'
<1>1. CountsBalance' /\ players' \in [Servers -> Nat]
  BY AttachKeepsBalance DEF CountInv
<1>2. current' = [d \in Conns |-> current'[d]]
  BY DEF CountInv, Attach
<1>3. phase' \in [Conns -> Phases]
  BY DEF CountInv, Goto, Phases, Attachable
<1>4. \A d \in Conns : phase'[d] \notin Attachable => current'[d] = None
  BY DEF CountInv, Goto, Attach
<1>5. lost' \in [Servers -> 0..MaxLost]
  BY DEF CountInv
<1>6. QED
  BY <1>1, <1>2, <1>3, <1>4, <1>5 DEF CountInv

(* A departure, whether or not the counter is given back.                  *)
LEMMA DepartureKeepsInv ==
  ASSUME NEW c \in Conns, NEW p \in Phases, CountInv, Goto(c, p),
         StaysCounted(c) \/ (players' = Detached(c) /\ lost' = lost),
         current' = [current EXCEPT ![c] = None]
  PROVE  CountInv'
<1>1. CountsBalance' /\ players' \in [Servers -> Nat] /\ lost' \in [Servers -> 0..MaxLost]
  <2>1. CASE StaysCounted(c)
    BY <2>1, StaysCountedKeepsBalance, Zenon
  <2>2. CASE players' = Detached(c) /\ lost' = lost
    BY <2>2, DetachedKeepsBalance DEF CountInv
  <2>3. QED
    BY <2>1, <2>2
<1>2. current' = [d \in Conns |-> current'[d]]
  BY DEF CountInv
<1>3. phase' \in [Conns -> Phases]
  BY DEF CountInv, Goto
<1>4. \A d \in Conns : phase'[d] \notin Attachable => current'[d] = None
  BY DEF CountInv, Goto
<1>5. QED
  BY <1>1, <1>2, <1>3, <1>4 DEF CountInv

(* A transfer command moves one player from backend to backend.            *)
LEMMA TransferKeepsInv ==
  ASSUME NEW c \in Conns, CountInv, TransferCommand(c)
  PROVE  CountInv'
<1>1. PICK b \in Servers : /\ players' = [Detached(c) EXCEPT ![b] = Inc(@)]
                           /\ current' = [current EXCEPT ![c] = b]
  BY CountAssumption, Zenon DEF TransferCommand
<1> DEFINE old == current[c]
<1>2. ASSUME NEW s \in Servers
      PROVE  players'[s] \in Nat /\ players'[s] = Cardinality(Attached(s)') + lost[s]
  <2>0. Detached(c) = [t \in Servers |-> IF t = old THEN Dec(players[t]) ELSE players[t]]
    BY Zenon DEF Detached, CountInv
  <2>1. CASE s = b /\ s = old
    <3>1. c \in Attached(s) /\ Attached(s)' = Attached(s)
      BY <1>1, <2>1 DEF Attached, CountInv
    <3>2. players'[s] = Inc(Dec(players[s]))
      BY <1>1, <2>0, <2>1
    <3>3. Inc(players[s] - 1) = players[s]
      BY <3>1, OneLess, RoomToCount, CountAssumption DEF Inc
    <3>4. QED
      BY <3>1, <3>2, <3>3, OneLess, RoomToCount, Zenon
  <2>2. CASE s = b /\ s # old
    <3>1. c \notin Attached(s) /\ Attached(s)' = Attached(s) \cup {c}
      BY <1>1, <2>2 DEF Attached, CountInv
    <3>2. players'[s] = Inc(players[s])
      BY <1>1, <2>0, <2>2
    <3>3. /\ players[s] \in Nat /\ lost[s] \in Nat /\ Cardinality(Attached(s)) \in Nat
          /\ players[s] = Cardinality(Attached(s)) + lost[s]
      BY RoomToCount, AttachedFinite
    <3>4. /\ players'[s] = players[s] + 1
          /\ Cardinality(Attached(s)') = Cardinality(Attached(s)) + 1
      BY <3>1, <3>2, OneMore
    <3>5. QED
      BY <3>3, <3>4
  <2>3. CASE s # b /\ s = old
    <3>1. c \in Attached(s) /\ Attached(s)' = Attached(s) \ {c}
      BY <1>1, <2>3 DEF Attached, CountInv
    <3>2. players'[s] = Dec(players[s])
      BY <1>1, <2>0, <2>3
    <3>3. QED
      BY <3>1, <3>2, OneLess, RoomToCount, AttachedFinite
  <2>4. CASE s # b /\ s # old
    <3>1. Attached(s)' = Attached(s)
      BY <1>1, <2>4 DEF Attached, CountInv
    <3>2. players'[s] = players[s]
      BY <1>1, <2>0, <2>4
    <3>3. QED
      BY <3>1, <3>2, RoomToCount
  <2>5. QED
    BY <2>1, <2>2, <2>3, <2>4
<1>3. lost' = lost /\ phase' = phase /\ phase[c] = "relay"
  BY DEF TransferCommand
<1>4. CountsBalance'
  BY <1>2, <1>3 DEF CountsBalance
<1>5. players' \in [Servers -> Nat]
  <2>1. players' = [s \in Servers |-> players'[s]]
    BY <1>1, Zenon DEF Detached, CountInv
  <2>2. QED
    BY <1>2, <2>1
<1>6. \A d \in Conns : phase'[d] \notin Attachable => current'[d] = None
  BY <1>1, <1>3 DEF CountInv, Attachable
<1>7. current' = [d \in Conns |-> current'[d]]
  BY <1>1 DEF CountInv
<1>8. QED
  BY <1>3, <1>4, <1>5, <1>6, <1>7 DEF CountInv

(* player_count is the number of attached players plus those that an exit  *)
(* forgets, for every number of connections and backends: finalise_login,  *)
(* switch_to_server, handle_transfer_command and PacketRelay::run balance, *)
(* and the unsigned counters never wrap.                                   *)
THEOREM CountsCorrect == Spec => []CountsBalance
<1>1. Init => CountInv
  <2> SUFFICES ASSUME Init PROVE CountInv
    OBVIOUS
  <2>1. \A s \in Servers : Attached(s) = {}
    BY NoneIsNoServer DEF Init, Attached
  <2>2. CountsBalance
    <3>1. \A s \in Servers : Cardinality(Attached(s)) = 0
      BY <2>1, FS_EmptySet
    <3>2. QED
      BY <3>1 DEF CountsBalance, Init
  <2>3. lost \in [Servers -> 0..MaxLost]
    BY CountAssumption DEF Init
  <2>4. QED
    BY <2>2, <2>3 DEF CountInv, Init, Phases
<1>2. CountInv /\ [Next]_vars => CountInv'
  <2> SUFFICES ASSUME CountInv, [Next]_vars PROVE CountInv'
    OBVIOUS
  <2>1. ASSUME NEW c \in Conns, Connecting(c) PROVE CountInv'
    <3>1. CASE Login(c)
      BY <3>1, OtherStepsKeepInv DEF Login, Phases, Attachable
    <3>2. CASE JoinVetoed(c)
      BY <3>2, ForgetKeepsInv DEF JoinVetoed, Attachable
    <3>3. CASE RouteJoin(c)
      <4>1. PICK p \in {"limbo", "joining"} : Goto(c, p)
        BY <3>3 DEF RouteJoin
      <4>2. QED
        BY <3>3, <4>1, OtherStepsKeepInv DEF RouteJoin, Phases, Attachable
    <3>4. CASE JoinSucceeds(c)
      BY <3>4, ArrivalKeepsInv DEF JoinSucceeds, Attachable
    <3>5. CASE JoinFails(c)
      BY <3>5, OtherStepsKeepInv DEF JoinFails, Phases, Attachable
    <3>6. QED
      BY <2>1, <3>1, <3>2, <3>3, <3>4, <3>5 DEF Connecting
  <2>2. ASSUME NEW c \in Conns, InLimbo(c) PROVE CountInv'
    <3>1. CASE PollFull(c)
      BY <3>1, SameStateKeepsInv DEF PollFull
    <3>2. CASE PollDial(c)
      BY <3>2, OtherStepsKeepInv DEF PollDial, Phases, Attachable
    <3>3. CASE DialSucceeds(c)
      BY <3>3, OtherStepsKeepInv DEF DialSucceeds, Phases, Attachable
    <3>4. CASE DialFails(c)
      BY <3>4, OtherStepsKeepInv DEF DialFails, Phases, Attachable
    <3>5. CASE LeaveLimbo(c)
      BY <3>5, OtherStepsKeepInv DEF LeaveLimbo, Phases, Attachable
    <3>6. CASE ReloginSucceeds(c)
      <4>1. PICK p \in Attachable : Goto(c, p)
        BY <3>6 DEF ReloginSucceeds, Attachable
      <4>2. QED
        BY <3>6, <4>1, ArrivalKeepsInv DEF ReloginSucceeds, Attachable
    <3>7. CASE WorldResetDone(c)
      BY <3>7, OtherStepsKeepInv DEF WorldResetDone, Phases, Attachable
    <3>8. CASE AbortJoin(c)
      BY <3>8, ForgetKeepsInv DEF AbortJoin, Attachable
    <3>9. CASE AbortSwitch(c)
      BY <3>9, ForgetKeepsInv DEF AbortSwitch, Attachable
    <3>10. CASE AbortEntry(c)
      BY <3>10, DepartureKeepsInv, Zenon DEF AbortEntry, Forget, Phases
    <3>11. QED
      BY <2>2, <3>1, <3>2, <3>3, <3>4, <3>5, <3>6, <3>7, <3>8, <3>9, <3>10, ZenonT(60) DEF InLimbo
  <2>3. ASSUME NEW c \in Conns, InRelay(c) PROVE CountInv'
    <3>1. CASE RelayStarts(c)
      BY <3>1, OtherStepsKeepInv DEF RelayStarts, Phases, Attachable
    <3>2. CASE TransferCommand(c)
      BY <3>2, TransferKeepsInv
    <3>3. CASE RelayEnds(c)
      BY <3>3, DepartureKeepsInv, Zenon DEF RelayEnds, Detach, Forget, Phases
    <3>4. ASSUME NEW name, IntoPinnedLimbo(c, name) PROVE CountInv'
      BY <3>4, DepartureKeepsInv, Zenon DEF IntoPinnedLimbo, Detach, Phases
    <3>5. CASE Switch(c)
      BY <3>4, <3>5 DEF Switch
    <3>6. CASE BackendKicks(c)
      BY <3>4, <3>6 DEF BackendKicks
    <3>7. QED
      BY <2>3, <3>1, <3>2, <3>3, <3>5, <3>6 DEF InRelay
  <2>4. ASSUME NEW s \in Servers, SetOnline(s) PROVE CountInv'
    BY <2>4, SameStateKeepsInv DEF SetOnline
  <2>5. CASE UNCHANGED vars
    BY <2>5, SameStateKeepsInv DEF vars
  <2>6. QED
    BY <2>1, <2>2, <2>3, <2>4, <2>5 DEF Next
<1>3. CountInv => CountsBalance
  BY DEF CountInv
<1>4. QED
  BY <1>1, <1>2, <1>3, PTL DEF Spec

-----------------------------------------------------------------------------
(* No player has two connections.  With two, the cleanup of the first      *)
(* takes the session of the second out of the map.                         *)
OneConnectionEach == \A c, d \in Conns : Uuid[c] = Uuid[d] => c = d

SessionInv == phase \in [Conns -> Phases] /\ SessionWhileConnected

(* A task that goes on keeps its session.                                  *)
LEMMA GoingOnKeepsSessions ==
  ASSUME NEW c \in Conns, NEW p \in Phases \ {"out"}, SessionInv, phase[c] # "out",
         Goto(c, p), sessions' = sessions
  PROVE  SessionInv'
  BY DEF SessionInv, SessionWhileConnected, Goto

(* A task that ends takes its session and nobody else's.                   *)
LEMMA ForgetKeepsSessions ==
  ASSUME NEW c \in Conns, OneConnectionEach, SessionInv, Forget(c)
  PROVE  SessionInv'
<1>1. phase' = [phase EXCEPT ![c] = "out"] /\ sessions' = sessions \ {Uuid[c]}
  BY DEF Forget, Goto
<1>2. phase' \in [Conns -> Phases]
  BY <1>1 DEF SessionInv, Phases
<1>3. SessionWhileConnected'
  BY <1>1 DEF SessionInv, SessionWhileConnected, OneConnectionEach
<1>4. QED
  BY <1>2, <1>3 DEF SessionInv

(* Every way out of finalise_login, from limbo, from a failed switch and   *)
(* from the relay, drops the session, and no other step does.              *)
THEOREM SessionsCorrect == OneConnectionEach => (Spec => []SessionWhileConnected)
<1> SUFFICES ASSUME OneConnectionEach PROVE Spec => []SessionWhileConnected
  OBVIOUS
<1>1. Init => SessionInv
  BY DEF Init, SessionInv, SessionWhileConnected, Phases
<1>2. SessionInv /\ [Next]_vars => SessionInv'
  <2> SUFFICES ASSUME SessionInv, [Next]_vars PROVE SessionInv'
    OBVIOUS
  <2>1. CASE UNCHANGED <<phase, sessions>>
    BY <2>1 DEF SessionInv, SessionWhileConnected
  <2>2. ASSUME NEW c \in Conns, Login(c) PROVE SessionInv'
    <3>1. phase' = [phase EXCEPT ![c] = "login"] /\ sessions' = sessions \cup {Uuid[c]}
      BY <2>2 DEF Login, Goto
    <3>2. QED
      BY <3>1 DEF SessionInv, SessionWhileConnected, OneConnectionEach, Phases
  <2>3. ASSUME NEW c \in Conns,
               \/ RouteJoin(c) \/ JoinSucceeds(c) \/ JoinFails(c)
               \/ PollDial(c) \/ DialSucceeds(c) \/ DialFails(c)
               \/ LeaveLimbo(c) \/ ReloginSucceeds(c) \/ WorldResetDone(c) \/ RelayStarts(c)
        PROVE  SessionInv'
    <3>1. sessions' = sessions /\ phase[c] # "out" /\ \E p \in Phases \ {"out"} : Goto(c, p)
      BY <2>3 DEF RouteJoin, JoinSucceeds, JoinFails, PollDial, DialSucceeds, DialFails,
         LeaveLimbo, ReloginSucceeds, WorldResetDone, RelayStarts, Phases
    <3>2. QED
      BY <3>1, GoingOnKeepsSessions, SMTT(60)
  <2>4. ASSUME NEW c \in Conns, NEW name, IntoPinnedLimbo(c, name) PROVE SessionInv'
    BY <2>4, GoingOnKeepsSessions, SMTT(60) DEF IntoPinnedLimbo, Phases
  <2>5. ASSUME NEW c \in Conns,
               JoinVetoed(c) \/ AbortJoin(c) \/ AbortSwitch(c) \/ AbortEntry(c) \/ RelayEnds(c)
        PROVE  SessionInv'
    BY <2>5, ForgetKeepsSessions DEF JoinVetoed, AbortJoin, AbortSwitch, AbortEntry, RelayEnds
  <2>6. ASSUME NEW c \in Conns, PollFull(c) \/ TransferCommand(c) PROVE SessionInv'
    BY <2>1, <2>6 DEF PollFull, TransferCommand
  <2>7. ASSUME NEW s \in Servers, SetOnline(s) PROVE SessionInv'
    BY <2>1, <2>7 DEF SetOnline
  <2>8. CASE UNCHANGED vars
    BY <2>1, <2>8 DEF vars
  <2>9. CASE Next
    BY <2>2, <2>3, <2>4, <2>5, <2>6, <2>7, <2>9, SMTT(60)
       DEF Next, Connecting, InLimbo, InRelay, Switch, BackendKicks
  <2>10. QED
    BY <2>8, <2>9
<1>3. SessionInv => SessionWhileConnected
  BY DEF SessionInv
<1>4. QED
  BY <1>1, <1>2, <1>3, PTL DEF Spec
-----------------------------------------------------------------------------
(* Induction.  A set of numbers that is not empty has a least one, so a    *)
(* set with 0 that is closed under successor has them all.                 *)

LEMMA LeastNumber ==
  ASSUME NEW T \in SUBSET Nat, T # {}
  PROVE  \E n \in T : \A m \in T : n <= m
<1>1. PICK n \in T : \A m \in T : ~ (<<m, n>> \in OpToRel(<, Nat))
  BY NatLessThanWellFounded, WFMin, Zenon
<1>2. ASSUME NEW m \in T PROVE n <= m
  <2>1. <<m, n>> \notin OpToRel(<, Nat)
    BY <1>1, Zenon
  <2>2. <<m, n>> \notin {pair \in Nat \X Nat : pair[1] < pair[2]}
    BY <2>1 DEF OpToRel
  <2> QED BY <2>2
<1> QED BY <1>2

LEMMA NumbersByInduction ==
  ASSUME NEW S, 0 \in S, \A n \in Nat : n \in S => n + 1 \in S
  PROVE  Nat \subseteq S
<1> SUFFICES ASSUME Nat \ S # {} PROVE FALSE
  OBVIOUS
<1>1. PICK n \in Nat \ S : \A m \in Nat \ S : n <= m
  BY LeastNumber, Zenon
<1>2. n # 0 /\ n - 1 \in Nat
  BY <1>1
<1>3. n - 1 \in S
  BY <1>1, <1>2
<1> QED BY <1>1, <1>2, <1>3

(* f is what the loop of Without has kept of the first n places of q.      *)
KeptUpTo(n, q, p, f) ==
  f = [i \in 0..n |->
         IF i = 0 THEN <<>> ELSE IF q[i] = p THEN f[i - 1] ELSE Append(f[i - 1], q[i])]

LEMMA KeptExists ==
  ASSUME NEW T, NEW q \in Seq(T), NEW p
  PROVE  \A n \in 0..Len(q) : \E f : KeptUpTo(n, q, p, f)
<1> DEFINE S == {n \in Nat : n <= Len(q) => \E f : KeptUpTo(n, q, p, f)}
<1>1. 0 \in S
  <2>1. KeptUpTo(0, q, p, [i \in 0..0 |-> <<>>])
    BY DEF KeptUpTo
  <2> QED BY <2>1
<1>2. ASSUME NEW n \in Nat, n \in S PROVE n + 1 \in S
  <2> SUFFICES ASSUME n + 1 <= Len(q) PROVE \E f : KeptUpTo(n + 1, q, p, f)
    OBVIOUS
  <2>1. PICK f : KeptUpTo(n, q, p, f)
    BY <1>2
  <2>2. \A i \in 0..n : f[i] = IF i = 0 THEN <<>> ELSE
                               IF q[i] = p THEN f[i - 1] ELSE Append(f[i - 1], q[i])
    BY <2>1, Zenon DEF KeptUpTo
  <2> DEFINE g == [i \in 0..(n + 1) |->
                     IF i <= n THEN f[i]
                     ELSE IF q[n + 1] = p THEN f[n] ELSE Append(f[n], q[n + 1])]
  <2>3. ASSUME NEW i \in 0..(n + 1)
        PROVE  g[i] = IF i = 0 THEN <<>> ELSE
                      IF q[i] = p THEN g[i - 1] ELSE Append(g[i - 1], q[i])
    <3>1. CASE i <= n
      <4>1. g[i] = f[i] /\ (i # 0 => g[i - 1] = f[i - 1])
        BY <3>1
      <4> QED BY <2>2, <3>1, <4>1
    <3>2. CASE i = n + 1
      BY <3>2
    <3> QED BY <3>1, <3>2, SMTT(60)
  <2>4. KeptUpTo(n + 1, q, p, g)
    BY <2>3 DEF KeptUpTo
  <2> QED BY <2>4
<1>3. Nat \subseteq S
  BY <1>1, <1>2, NumbersByInduction, Zenon
<1> QED BY <1>3

LEMMA WithoutIsKept ==
  ASSUME NEW T, NEW q \in Seq(T), NEW p
  PROVE  \E f : KeptUpTo(Len(q), q, p, f) /\ Without(q, p) = f[Len(q)]
<1> DEFINE f == CHOOSE f : KeptUpTo(Len(q), q, p, f)
<1>1. Len(q) \in 0..Len(q)
  OBVIOUS
<1>2. KeptUpTo(Len(q), q, p, f)
  BY <1>1, KeptExists, Zenon
<1>3. Without(q, p) = f[Len(q)]
  BY DEF Without, KeptUpTo
<1> QED BY <1>2, <1>3, Zenon

(* w is what is left of the first n places of q without p: h says at which *)
(* place of q each entry of w was, in the same order.                      *)
LeftOver(h, w, n, q, p) ==
  /\ h \in [1..Len(w) -> 1..n]
  /\ \A i, j \in 1..Len(w) : i < j => h[i] < h[j]
  /\ \A i \in 1..Len(w) : w[i] = q[h[i]] /\ q[h[i]] # p
  /\ \A j \in 1..n : q[j] # p => \E i \in 1..Len(w) : h[i] = j

(* Without takes p out of a queue and leaves the others in their order.    *)
LEMMA WithoutKeepsOrder ==
  ASSUME NEW T, NEW q \in Seq(T), NEW p
  PROVE  Without(q, p) \in Seq(T) /\ \E h : LeftOver(h, Without(q, p), Len(q), q, p)
<1>1. PICK f : KeptUpTo(Len(q), q, p, f) /\ Without(q, p) = f[Len(q)]
  BY WithoutIsKept
<1>2. \A i \in 0..Len(q) : f[i] = IF i = 0 THEN <<>> ELSE
                                  IF q[i] = p THEN f[i - 1] ELSE Append(f[i - 1], q[i])
  BY <1>1, Zenon DEF KeptUpTo
<1> DEFINE S == {n \in Nat : n <= Len(q) => f[n] \in Seq(T) /\ \E h : LeftOver(h, f[n], n, q, p)}
<1>3. 0 \in S
  <2>1. f[0] = <<>>
    BY <1>2
  <2> DEFINE h == [i \in 1..0 |-> i]
  <2>2. LeftOver(h, f[0], 0, q, p)
    BY <2>1 DEF LeftOver
  <2>3. \E g : LeftOver(g, f[0], 0, q, p)
    BY <2>2
  <2>4. f[0] \in Seq(T)
    BY <2>1
  <2> QED BY <2>3, <2>4
<1>4. ASSUME NEW n \in Nat, n \in S PROVE n + 1 \in S
  <2> SUFFICES ASSUME n + 1 <= Len(q)
               PROVE  f[n + 1] \in Seq(T) /\ \E h : LeftOver(h, f[n + 1], n + 1, q, p)
    OBVIOUS
  <2>1. f[n] \in Seq(T)
    BY <1>4
  <2>2. PICK h : LeftOver(h, f[n], n, q, p)
    BY <1>4
  <2>3. n + 1 \in 0..Len(q) /\ n + 1 # 0 /\ q[n + 1] \in T /\ Len(f[n]) \in Nat
    BY <2>1
  <2>4. f[n + 1] = IF q[n + 1] = p THEN f[n] ELSE Append(f[n], q[n + 1])
    BY <1>2, <2>3
  <2>5. CASE q[n + 1] = p
    <3>a. h \in [1..Len(f[n]) -> 1..n] /\ \A j \in 1..(n + 1) : j \in 1..n \/ j = n + 1
      BY <2>2 DEF LeftOver
    <3>b. h \in [1..Len(f[n]) -> 1..(n + 1)]
      BY <3>a
    <3>1. LeftOver(h, f[n], n + 1, q, p)
      BY <2>2, <2>5, <3>a, <3>b, ZenonT(60) DEF LeftOver
    <3> QED BY <2>1, <2>4, <2>5, <3>1, SMTT(60)
  <2>6. CASE q[n + 1] # p
    <3> DEFINE w == f[n]
               v == Append(w, q[n + 1])
               g == [i \in 1..(Len(w) + 1) |-> IF i <= Len(w) THEN h[i] ELSE n + 1]
    <3>1. v \in Seq(T) /\ Len(v) = Len(w) + 1 /\ v[Len(w) + 1] = q[n + 1]
          /\ \A i \in 1..Len(w) : v[i] = w[i]
      BY <2>1, <2>3
    <3>2. g[Len(w) + 1] = n + 1 /\ \A i \in 1..Len(w) : g[i] = h[i]
      BY <2>3
    <3>3. g \in [1..Len(v) -> 1..(n + 1)]
      BY <2>2, <2>3, <3>1 DEF LeftOver
    <3> HIDE DEF g, v, w
    <3>a. /\ Len(v) = Len(w) + 1 /\ Len(w) \in Nat
          /\ \A i \in 1..Len(v) : i \in 1..Len(w) \/ i = Len(w) + 1
          /\ \A i \in 1..Len(w) : i \in 1..Len(v)
          /\ Len(w) + 1 \in 1..Len(v)
      BY <2>3, <3>1, SMTT(60) DEF w
    <3>b. /\ \A i \in 1..Len(w) : g[i] = h[i] /\ h[i] \in 1..n /\ v[i] = q[h[i]] /\ q[h[i]] # p
          /\ \A i, j \in 1..Len(w) : i < j => h[i] < h[j]
          /\ \A j \in 1..n : q[j] # p => \E i \in 1..Len(w) : h[i] = j
      BY <2>2, <3>1, <3>2, Zenon DEF LeftOver, w
    <3>4. ASSUME NEW i \in 1..Len(v), NEW j \in 1..Len(v), i < j PROVE g[i] < g[j]
      <4>1. CASE j \in 1..Len(w)
        BY <3>4, <3>a, <3>b, <4>1, SMTT(60)
      <4>2. CASE j = Len(w) + 1
        BY <3>2, <3>4, <3>a, <3>b, <4>2, SMTT(60)
      <4> QED BY <3>a, <4>1, <4>2
    <3>5. ASSUME NEW i \in 1..Len(v) PROVE v[i] = q[g[i]] /\ q[g[i]] # p
      BY <2>6, <3>1, <3>2, <3>a, <3>b, ZenonT(60)
    <3>6. ASSUME NEW j \in 1..(n + 1), q[j] # p PROVE \E i \in 1..Len(v) : g[i] = j
      <4>1. CASE j = n + 1
        BY <3>2, <3>a, <4>1
      <4>2. CASE j \in 1..n
        <5>1. PICK i \in 1..Len(w) : h[i] = j
          BY <3>6, <3>b, <4>2, SMTT(60)
        <5> QED BY <3>a, <3>b, <5>1, SMTT(60)
      <4> QED BY <4>1, <4>2
    <3>7. LeftOver(g, v, n + 1, q, p)
      BY <3>3, <3>4, <3>5, <3>6, SMTT(60) DEF LeftOver
    <3>8. f[n + 1] = v
      BY <2>4, <2>6 DEF v, w
    <3> QED BY <3>1, <3>7, <3>8
  <2> QED BY <2>5, <2>6
<1>5. Nat \subseteq S
  BY <1>3, <1>4, NumbersByInduction, Zenon
<1>6. Len(q) \in S
  BY <1>5, SMTT(60)
<1> QED BY <1>1, <1>6

-----------------------------------------------------------------------------
(* The queue is first come, first served.                                  *)

Entries(q) == {q[i] : i \in DOMAIN q}
NoRepeats(q) == \A i, j \in DOMAIN q : q[i] = q[j] => i = j

(* What QueueIsFair needs of the states: nobody is in a queue twice, and a *)
(* player whose task dials a backend it queues for is at the front, where  *)
(* PollDial saw it, and stays there while the dial lasts.                  *)
QueueInv ==
  /\ phase \in [Conns -> Phases]
  /\ picked = [c \in Conns |-> picked[c]]
  /\ queues \in [Servers -> Seq(Players)]
  /\ \A s \in Servers : NoRepeats(queues[s])
  /\ ~QueueEnabled => \A s \in Servers : queues[s] = <<>>
  /\ \A c \in Conns :
       /\ phase[c] = "dialing" /\ picked[c] \in Servers
       /\ Uuid[c] \in Entries(queues[picked[c]])
       => Uuid[c] = queues[picked[c]][1]

(* Those in v who were in q before are behind nobody who was not already   *)
(* in front of them.                                                       *)
KeepsOrder(q, v) ==
  \A i, j \in DOMAIN v : \A l \in DOMAIN q :
    j < i /\ q[l] = v[i] => \E k \in DOMAIN q : q[k] = v[j] /\ k < l

LEMMA WithoutFacts ==
  ASSUME NEW T, NEW q \in Seq(T), NEW p, NoRepeats(q)
  PROVE  /\ Without(q, p) \in Seq(T)
         /\ NoRepeats(Without(q, p))
         /\ Entries(Without(q, p)) = Entries(q) \ {p}
         /\ KeepsOrder(q, Without(q, p))
         /\ q # <<>> /\ q[1] # p => Without(q, p)[1] = q[1]
         /\ q = <<>> => Without(q, p) = <<>>
<1> DEFINE w == Without(q, p)
<1>1. w \in Seq(T) /\ \E h : LeftOver(h, w, Len(q), q, p)
  BY WithoutKeepsOrder
<1> HIDE DEF w
<1>2. PICK h : LeftOver(h, w, Len(q), q, p)
  BY <1>1
<1>a. Len(w) \in Nat /\ DOMAIN w = 1..Len(w) /\ Len(q) \in Nat /\ DOMAIN q = 1..Len(q)
  BY <1>1
<1>3. /\ Len(w) \in Nat /\ DOMAIN w = 1..Len(w) /\ Len(q) \in Nat /\ DOMAIN q = 1..Len(q)
      /\ \A i \in DOMAIN w : h[i] \in DOMAIN q /\ w[i] = q[h[i]] /\ q[h[i]] # p
      /\ \A i, j \in DOMAIN w : i < j => h[i] < h[j]
      /\ \A j \in DOMAIN q : q[j] # p => \E i \in DOMAIN w : h[i] = j
  BY <1>2, <1>a, ZenonT(60) DEF LeftOver
<1>4. ASSUME NEW i \in DOMAIN w, NEW j \in DOMAIN w, w[i] = w[j] PROVE i = j
  <2>1. h[i] = h[j]
    BY <1>3, <1>4 DEF NoRepeats
  <2>2. h[i] \in Nat /\ i \in Nat /\ j \in Nat
    BY <1>3
  <2> QED BY <1>3, <2>1, <2>2, SMTT(60)
<1>5. Entries(w) = Entries(q) \ {p}
  <2>1. ASSUME NEW i \in DOMAIN w PROVE w[i] \in Entries(q) \ {p}
    BY <1>3 DEF Entries
  <2>2. ASSUME NEW j \in DOMAIN q, q[j] # p PROVE q[j] \in Entries(w)
    <3>1. PICK i \in DOMAIN w : h[i] = j
      BY <1>3, <2>2
    <3> QED BY <1>3, <3>1 DEF Entries
  <2> QED BY <2>1, <2>2 DEF Entries
<1>6. ASSUME NEW i \in DOMAIN w, NEW j \in DOMAIN w, NEW l \in DOMAIN q, j < i, q[l] = w[i]
      PROVE  \E k \in DOMAIN q : q[k] = w[j] /\ k < l
  <2>1. h[i] = l
    BY <1>3, <1>6 DEF NoRepeats
  <2>2. h[j] \in DOMAIN q /\ q[h[j]] = w[j] /\ h[j] < l
    BY <1>3, <1>6, <2>1, SMTT(60)
  <2> QED BY <2>2
<1>7. ASSUME q # <<>>, q[1] # p PROVE w[1] = q[1]
  <2>1. 1 \in DOMAIN q
    BY <1>3, <1>7
  <2>2. PICK i \in DOMAIN w : h[i] = 1
    BY <1>3, <1>7, <2>1
  <2>3. i \in Nat /\ i >= 1 /\ 1 \in DOMAIN w
    BY <1>3
  <2>4. h[1] \in Nat /\ h[1] >= 1
    BY <1>3, <2>3
  <2>5. i = 1
    BY <1>3, <2>2, <2>3, <2>4, SMTT(60)
  <2> QED BY <1>3, <2>2, <2>5
<1>8. NoRepeats(w) /\ KeepsOrder(q, w)
  BY <1>4, <1>6 DEF NoRepeats, KeepsOrder
<1>9. q = <<>> => w = <<>>
  BY <1>1, <1>3, SMTT(60)
<1> QED BY <1>1, <1>5, <1>7, <1>8, <1>9, SMTT(60) DEF w

LEMMA EnqueueFacts ==
  ASSUME NEW T, NEW q \in Seq(T), NEW p \in T, NoRepeats(q)
  PROVE  /\ Enqueue(q, p) \in Seq(T)
         /\ NoRepeats(Enqueue(q, p))
         /\ Entries(q) \subseteq Entries(Enqueue(q, p))
         /\ Entries(Enqueue(q, p)) \subseteq Entries(q) \cup {p}
         /\ KeepsOrder(q, Enqueue(q, p))
         /\ q # <<>> => Enqueue(q, p)[1] = q[1]
<1>1. CASE Enqueue(q, p) = q
  <2>1. KeepsOrder(q, q)
    BY DEF KeepsOrder, NoRepeats
  <2> QED BY <1>1, <2>1
<1>2. CASE Enqueue(q, p) = Append(q, p) /\ \A i \in DOMAIN q : q[i] # p
  <2> DEFINE v == Append(q, p)
  <2>1. /\ v \in Seq(T) /\ Len(q) \in Nat /\ DOMAIN q = 1..Len(q)
        /\ DOMAIN v = 1..(Len(q) + 1) /\ v[Len(q) + 1] = p
        /\ \A i \in DOMAIN q : v[i] = q[i]
    OBVIOUS
  <2> HIDE DEF v
  <2>2. NoRepeats(v)
    BY <1>2, <2>1, SMTT(60) DEF NoRepeats
  <2>3. Entries(q) \subseteq Entries(v) /\ Entries(v) \subseteq Entries(q) \cup {p}
    BY <2>1 DEF Entries
  <2>4. KeepsOrder(q, v)
    <3> SUFFICES ASSUME NEW i \in DOMAIN v, NEW j \in DOMAIN v, NEW l \in DOMAIN q,
                        j < i, q[l] = v[i]
                 PROVE  \E k \in DOMAIN q : q[k] = v[j] /\ k < l
      BY DEF KeepsOrder
    <3>1. i \in DOMAIN q /\ i = l
      BY <1>2, <2>1 DEF NoRepeats
    <3>2. j \in DOMAIN q /\ q[j] = v[j] /\ j < l
      BY <2>1, <3>1
    <3> QED BY <3>2
  <2>5. q # <<>> => v[1] = q[1]
    BY <2>1, SMTT(60)
  <2> QED BY <1>2, <2>1, <2>2, <2>3, <2>4, <2>5, SMTT(60) DEF v
<1> QED BY <1>1, <1>2 DEF Enqueue

(* What a step does to the queues, in the terms of the lemmas above.       *)
QueueStep ==
  \A s \in Servers :
    /\ KeepsOrder(queues[s], queues'[s])
    /\ \A p \in Entries(queues[s]) \ Entries(queues'[s]) :
         p = queues[s][1] \/ p \notin sessions'

FairStep ==
  \A s \in Servers :
    /\ \A p \in Queued(s) \ Queued(s)' : p = Head(queues[s]) \/ p \notin sessions'
    /\ \A p \in Queued(s) \cap Queued(s)' :
         \A q \in Queued(s)' \ {p} :
           \A i \in Position(queues'[s], p), j \in Position(queues'[s], q) :
             j < i => \E k \in Position(queues[s], q) :
                        \A l \in Position(queues[s], p) : k < l
    /\ \A p \in Queued(s)' : Cardinality(Position(queues'[s], p)) = 1

LEMMA StepIsFair ==
  ASSUME QueueInv, QueueInv', QueueStep
  PROVE  FairStep
<1> SUFFICES ASSUME NEW s \in Servers
             PROVE  /\ \A p \in Queued(s) \ Queued(s)' : p = Head(queues[s]) \/ p \notin sessions'
                    /\ \A p \in Queued(s) \cap Queued(s)' :
                         \A q \in Queued(s)' \ {p} :
                           \A i \in Position(queues'[s], p), j \in Position(queues'[s], q) :
                             j < i => \E k \in Position(queues[s], q) :
                                        \A l \in Position(queues[s], p) : k < l
                    /\ \A p \in Queued(s)' : Cardinality(Position(queues'[s], p)) = 1
  BY ZenonT(60) DEF FairStep
<1>1. /\ queues[s] \in Seq(Players) /\ NoRepeats(queues[s])
      /\ queues'[s] \in Seq(Players) /\ NoRepeats(queues'[s])
  BY DEF QueueInv
<1>2. Queued(s) = Entries(queues[s]) /\ Queued(s)' = Entries(queues'[s])
  BY DEF Queued, Entries
<1>3. ASSUME NEW p \in Queued(s) \ Queued(s)' PROVE p = Head(queues[s]) \/ p \notin sessions'
  <2>1. queues[s] # <<>>
    BY <1>1, <1>2, <1>3, SMTT(60) DEF Entries
  <2>2. Head(queues[s]) = queues[s][1]
    BY <1>1, <2>1, SMTT(60)
  <2> QED BY <1>2, <1>3, <2>2 DEF QueueStep
<1>4. ASSUME NEW p \in Queued(s) \cap Queued(s)', NEW q \in Queued(s)' \ {p},
             NEW i \in Position(queues'[s], p), NEW j \in Position(queues'[s], q), j < i
      PROVE  \E k \in Position(queues[s], q) : \A l \in Position(queues[s], p) : k < l
  <2>1. PICK l \in DOMAIN queues[s] : queues[s][l] = p
    BY <1>2 DEF Entries
  <2>2. i \in DOMAIN queues'[s] /\ queues'[s][i] = p /\ j \in DOMAIN queues'[s] /\ queues'[s][j] = q
    BY DEF Position
  <2>3. PICK k \in DOMAIN queues[s] : queues[s][k] = q /\ k < l
    BY <1>4, <2>1, <2>2, SMTT(60) DEF QueueStep, KeepsOrder
  <2>4. \A m \in Position(queues[s], p) : m = l
    BY <1>1, <2>1, SMTT(60) DEF Position, NoRepeats
  <2>5. k \in Position(queues[s], q)
    BY <2>3 DEF Position
  <2> QED BY <2>3, <2>4, <2>5, SMTT(60)
<1>5. ASSUME NEW p \in Queued(s)' PROVE Cardinality(Position(queues'[s], p)) = 1
  <2>1. PICK i \in DOMAIN queues'[s] : queues'[s][i] = p
    BY <1>2 DEF Entries
  <2>2. Position(queues'[s], p) = {i}
    BY <1>1, <2>1 DEF Position, NoRepeats
  <2> QED BY <2>2, FS_Singleton
<1> QED BY <1>3, <1>4, <1>5, SMTT(60)

(* Steps that leave the queues alone.                                      *)
LEMMA QueuesLeftAlone ==
  ASSUME QueueInv, queues' = queues
  PROVE  QueueStep
<1>1. ASSUME NEW s \in Servers PROVE KeepsOrder(queues[s], queues[s])
  BY SMTT(60) DEF QueueInv, NoRepeats, KeepsOrder
<1> QED BY <1>1 DEF QueueStep

LEMMA NotDialing ==
  ASSUME QueueInv, queues' = queues, NEW c \in Conns, NEW p \in Phases \ {"dialing"},
         phase' = [phase EXCEPT ![c] = p],
         picked' = picked \/ \E b : picked' = [picked EXCEPT ![c] = b]
  PROVE  QueueInv' /\ QueueStep
<1>1. phase' \in [Conns -> Phases] /\ phase'[c] = p /\ p # "dialing"
      /\ \A d \in Conns \ {c} : phase'[d] = phase[d]
  BY DEF QueueInv
<1>2. picked' = [d \in Conns |-> picked'[d]] /\ \A d \in Conns \ {c} : picked'[d] = picked[d]
  BY DEF QueueInv
<1>3. ASSUME NEW d \in Conns, phase'[d] = "dialing", picked'[d] \in Servers,
             Uuid[d] \in Entries(queues'[picked'[d]])
      PROVE  Uuid[d] = queues'[picked'[d]][1]
  <2>1. d # c /\ phase[d] = "dialing" /\ picked'[d] = picked[d]
    BY <1>1, <1>2, <1>3
  <2> QED BY <1>3, <2>1 DEF QueueInv
<1> QED BY <1>1, <1>2, <1>3, QueuesLeftAlone, SMTT(60) DEF QueueInv

(* A full backend: the player goes to the end of its queue.  Whoever dials *)
(* is somebody else, and stays at the front.                               *)
LEMMA PollFullIsFair ==
  ASSUME OneConnectionEach, QueueInv, NEW c \in Conns, PollFull(c)
  PROVE  QueueInv' /\ QueueStep
<1>1. phase' = phase /\ picked' = picked /\ phase[c] = "limbo" /\ QueueEnabled
  BY DEF PollFull
<1>2. PICK s : queues' = [queues EXCEPT ![s] = Enqueue(@, Uuid[c])]
  BY Zenon DEF PollFull
<1>3. CASE s \notin Servers
  <2>1. queues' = queues
    BY <1>2, <1>3 DEF QueueInv
  <2> QED BY <1>1, <2>1, QueuesLeftAlone DEF QueueInv
<1>4. CASE s \in Servers
  <2> DEFINE q == queues[s]
             v == Enqueue(q, Uuid[c])
  <2>1. q \in Seq(Players) /\ NoRepeats(q) /\ Uuid[c] \in Players
    BY <1>4, SMTT(60) DEF QueueInv, Players
  <2>2. /\ v \in Seq(Players) /\ NoRepeats(v) /\ KeepsOrder(q, v)
        /\ Entries(q) \subseteq Entries(v) /\ Entries(v) \subseteq Entries(q) \cup {Uuid[c]}
        /\ q # <<>> => v[1] = q[1]
    <3> HIDE DEF q
    <3>1. q \in Seq(Players) /\ NoRepeats(q) /\ Uuid[c] \in Players
      BY <2>1, ZenonT(60)
    <3> QED BY <3>1, EnqueueFacts
  <2> HIDE DEF v
  <2>3. /\ queues' \in [Servers -> Seq(Players)] /\ queues'[s] = v
        /\ \A t \in Servers \ {s} : queues'[t] = queues[t]
    BY <1>2, <1>4, <2>2, SMTT(60) DEF QueueInv, v
  <2>4. \A t \in Servers : NoRepeats(queues'[t])
    BY <2>2, <2>3, ZenonT(60) DEF QueueInv
  <2>5. ASSUME NEW d \in Conns, phase[d] = "dialing", picked[d] \in Servers,
               Uuid[d] \in Entries(queues'[picked[d]])
        PROVE  Uuid[d] = queues'[picked[d]][1]
    <3>1. Uuid[d] # Uuid[c]
      BY <1>1, <2>5, ZenonT(60) DEF OneConnectionEach
    <3>2. CASE picked[d] = s
      <4>1. Uuid[d] \in Entries(q)
        BY <2>2, <2>3, <2>5, <3>1, <3>2, SMTT(60)
      <4>2. Uuid[d] = q[1]
        BY <2>5, <3>2, <4>1, SMTT(60) DEF QueueInv
      <4>3. q # <<>>
        BY <2>1, <4>1, SMTT(60) DEF Entries
      <4> QED BY <2>2, <2>3, <3>2, <4>2, <4>3, ZenonT(60)
    <3>3. CASE picked[d] # s
      BY <2>3, <2>5, <3>3, SMTT(60) DEF QueueInv
    <3> QED BY <3>2, <3>3
  <2>6. QueueInv'
    BY <1>1, <2>3, <2>4, <2>5, SMTT(60) DEF QueueInv
  <2>7. ASSUME NEW t \in Servers \ {s} PROVE KeepsOrder(queues[t], queues'[t])
    BY <2>3, SMTT(60) DEF QueueInv, NoRepeats, KeepsOrder
  <2>8. QueueStep
    BY <2>2, <2>3, <2>7, ZenonT(60) DEF QueueStep
  <2> QED BY <2>6, <2>8
<1> QED BY <1>3, <1>4, SMTT(60)

(* A backend with room: only the front of its queue goes on to dial it.    *)
LEMMA PollDialIsFair ==
  ASSUME QueueInv, NEW c \in Conns, PollDial(c)
  PROVE  QueueInv' /\ QueueStep
<1>1. phase' = [phase EXCEPT ![c] = "dialing"] /\ queues' = queues
  BY DEF PollDial, Goto
<1>2. PICK s : MayDial(c, s) /\ picked' = [picked EXCEPT ![c] = s]
  BY Zenon DEF PollDial
<1>3. phase' \in [Conns -> Phases] /\ \A d \in Conns \ {c} : phase'[d] = phase[d]
  BY <1>1 DEF QueueInv, Phases
<1>4. /\ picked' = [d \in Conns |-> picked'[d]] /\ picked'[c] = s
      /\ \A d \in Conns \ {c} : picked'[d] = picked[d]
  BY <1>2 DEF QueueInv
<1>5. ASSUME s \in Servers, Uuid[c] \in Entries(queues[s]) PROVE Uuid[c] = queues[s][1]
  <2>1. queues[s] \in Seq(Players) /\ queues[s] # <<>>
    BY <1>5 DEF QueueInv, Entries
  <2>2. QueueEnabled
    BY <1>5, <2>1 DEF QueueInv
  <2>3. Head(queues[s]) = Uuid[c]
    BY <1>2, <2>1, <2>2, SMTT(60) DEF MayDial, IsFrontOrUnqueued
  <2> QED BY <2>1, <2>3
<1>6. ASSUME NEW d \in Conns, phase'[d] = "dialing", picked'[d] \in Servers,
             Uuid[d] \in Entries(queues'[picked'[d]])
      PROVE  Uuid[d] = queues'[picked'[d]][1]
  <2>1. CASE d = c
    BY <1>1, <1>4, <1>5, <1>6, <2>1, SMTT(60)
  <2>2. CASE d # c
    BY <1>1, <1>3, <1>4, <1>6, <2>2, ZenonT(60) DEF QueueInv
  <2> QED BY <2>1, <2>2
<1> QED BY <1>1, <1>3, <1>4, <1>6, QueuesLeftAlone, SMTT(60) DEF QueueInv

(* A player goes out of some queues, `from`: those of the backends it is   *)
(* the front of, or all of them when its session has ended.                *)
LEMMA LeavingIsFair ==
  ASSUME OneConnectionEach, QueueInv, NEW c \in Conns, NEW from \in SUBSET Servers,
         NEW p \in Phases \ {"dialing"},
         phase' = [phase EXCEPT ![c] = p],
         picked' = picked \/ \E b : picked' = [picked EXCEPT ![c] = b],
         queues' = [s \in Servers |-> IF s \in from THEN Without(queues[s], Uuid[c]) ELSE queues[s]],
         \A s \in from : Uuid[c] \in Entries(queues[s]) =>
           Uuid[c] = queues[s][1] \/ Uuid[c] \notin sessions'
  PROVE  QueueInv' /\ QueueStep
<1> DEFINE u == Uuid[c]
<1>1. phase' \in [Conns -> Phases] /\ phase'[c] # "dialing"
      /\ \A d \in Conns \ {c} : phase'[d] = phase[d]
  BY DEF QueueInv
<1>2. picked' = [d \in Conns |-> picked'[d]] /\ \A d \in Conns \ {c} : picked'[d] = picked[d]
  BY SMTT(60) DEF QueueInv
<1>3. ASSUME NEW s \in Servers
      PROVE  /\ queues'[s] \in Seq(Players) /\ NoRepeats(queues'[s])
             /\ KeepsOrder(queues[s], queues'[s])
             /\ Entries(queues'[s]) \subseteq Entries(queues[s])
             /\ Entries(queues[s]) \ Entries(queues'[s]) \subseteq {u}
             /\ s \notin from => queues'[s] = queues[s]
             /\ queues[s] # <<>> /\ queues[s][1] # u => queues'[s][1] = queues[s][1]
             /\ queues[s] = <<>> => queues'[s] = <<>>
  <2>1. queues[s] \in Seq(Players) /\ NoRepeats(queues[s])
    BY ZenonT(60) DEF QueueInv
  <2>2. CASE s \in from
    <3>1. queues'[s] = Without(queues[s], u)
      BY <2>2, ZenonT(60)
    <3> DEFINE v == Without(queues[s], u)
    <3>2. /\ v \in Seq(Players) /\ NoRepeats(v) /\ Entries(v) = Entries(queues[s]) \ {u}
          /\ KeepsOrder(queues[s], v)
          /\ queues[s] # <<>> /\ queues[s][1] # u => v[1] = queues[s][1]
          /\ queues[s] = <<>> => v = <<>>
      BY <2>1, WithoutFacts, SMTT(60)
    <3> HIDE DEF v
    <3>3. queues'[s] = v
      BY <3>1 DEF v
    <3> QED BY <2>2, <3>2, <3>3, Zenon
  <2>3. CASE s \notin from
    <3>1. queues'[s] = queues[s]
      BY <2>3, SMTT(60)
    <3>2. KeepsOrder(queues[s], queues[s])
      BY <2>1, ZenonT(60) DEF NoRepeats, KeepsOrder
    <3> QED BY <2>1, <2>3, <3>1, <3>2, ZenonT(60)
  <2> QED BY <2>2, <2>3, Zenon
<1>4. queues' \in [Servers -> Seq(Players)]
  BY <1>3, ZenonT(60)
<1>5. ASSUME NEW d \in Conns, phase'[d] = "dialing", picked'[d] \in Servers,
             Uuid[d] \in Entries(queues'[picked'[d]])
      PROVE  Uuid[d] = queues'[picked'[d]][1]
  <2>1. d # c /\ phase[d] = "dialing" /\ picked'[d] = picked[d] /\ Uuid[d] # u
    BY <1>1, <1>2, <1>5, SMTT(60) DEF OneConnectionEach
  <2>2. picked[d] \in Servers /\ Uuid[d] \in Entries(queues[picked[d]])
    BY <1>3, <1>5, <2>1, ZenonT(60)
  <2>3. Uuid[d] = queues[picked[d]][1]
    BY <2>1, <2>2, SMTT(60) DEF QueueInv
  <2>4. queues[picked[d]] # <<>>
    BY <2>2, SMTT(60) DEF QueueInv, Entries
  <2> QED BY <1>3, <2>1, <2>2, <2>3, <2>4, ZenonT(60)
<1>6. QueueInv'
  BY <1>1, <1>2, <1>3, <1>4, <1>5, SMTT(60) DEF QueueInv
<1>7. QueueStep
  BY <1>3, ZenonT(60) DEF QueueStep
<1> QED BY <1>6, <1>7, SMTT(60)

(* Queued players are let through in arrival order: a player who stays     *)
(* connected leaves a queue only from its front, nobody overtakes, and     *)
(* nobody is queued twice, however many connections, backends and queue    *)
(* places there are.                                                       *)
THEOREM QueuesAreFair == OneConnectionEach => (Spec => QueueIsFair)
<1> SUFFICES ASSUME OneConnectionEach PROVE Spec => QueueIsFair
  OBVIOUS
<1>1. Init => QueueInv
  BY DEF Init, QueueInv, NoRepeats, Entries, Phases
<1>2. ASSUME QueueInv, [Next]_vars PROVE QueueInv' /\ QueueStep
  <2>1. CASE UNCHANGED <<phase, picked, queues>>
    BY <1>2, <2>1, QueuesLeftAlone DEF QueueInv
  <2>2. ASSUME NEW c \in Conns,
               \/ Login(c) \/ JoinVetoed(c) \/ RouteJoin(c) \/ JoinSucceeds(c) \/ JoinFails(c)
               \/ DialFails(c) \/ LeaveLimbo(c) \/ ReloginSucceeds(c) \/ WorldResetDone(c)
               \/ AbortJoin(c) \/ RelayStarts(c) \/ Switch(c) \/ BackendKicks(c)
        PROVE  QueueInv' /\ QueueStep
    <3>1. queues' = queues /\ (picked' = picked \/ \E b : picked' = [picked EXCEPT ![c] = b])
      BY <2>2, ZenonT(60) DEF Login, JoinVetoed, RouteJoin, JoinSucceeds, JoinFails, DialFails, LeaveLimbo,
         ReloginSucceeds, WorldResetDone, AbortJoin, RelayStarts, Switch, BackendKicks,
         IntoPinnedLimbo, Forget
    <3>2. \E p \in Phases \ {"dialing"} : phase' = [phase EXCEPT ![c] = p]
      BY <2>2, Zenon DEF Login, JoinVetoed, RouteJoin, JoinSucceeds, JoinFails, DialFails, LeaveLimbo,
         ReloginSucceeds, WorldResetDone, AbortJoin, RelayStarts, Switch, BackendKicks,
         IntoPinnedLimbo, Forget, Goto, Phases
    <3> QED BY <1>2, <3>1, <3>2, NotDialing, ZenonT(60)
  <2>3. ASSUME NEW c \in Conns, DialSucceeds(c) PROVE QueueInv' /\ QueueStep
    <3>1. /\ phase[c] = "dialing" /\ phase' = [phase EXCEPT ![c] = "leaving"] /\ picked' = picked
          /\ queues' = IF QueueEnabled
                       THEN [queues EXCEPT ![picked[c]] = Without(@, Uuid[c])] ELSE queues
      BY <2>3 DEF DialSucceeds, Goto
    <3>2. "leaving" \in Phases \ {"dialing"}
      BY SMTT(60) DEF Phases
    <3>3. CASE QueueEnabled /\ picked[c] \in Servers
      <4>1. PICK from \in SUBSET Servers : from = {picked[c]}
        BY <3>3, Zenon
      <4>2. queues' = [s \in Servers |-> IF s \in from THEN Without(queues[s], Uuid[c])
                                         ELSE queues[s]]
        BY <1>2, <3>1, <3>3, <4>1, Zenon DEF QueueInv
      <4>3. \A s \in from : Uuid[c] \in Entries(queues[s]) => Uuid[c] = queues[s][1]
        BY <1>2, <3>1, <3>3, <4>1 DEF QueueInv
      <4> QED BY <1>2, <3>1, <3>2, <4>2, <4>3, LeavingIsFair, Zenon
    <3>4. CASE ~(QueueEnabled /\ picked[c] \in Servers)
      <4>1. queues' = queues
        BY <1>2, <3>1, <3>4, SMTT(60) DEF QueueInv
      <4> QED BY <1>2, <3>1, <3>2, <4>1, NotDialing, Zenon
    <3> QED BY <3>3, <3>4, SMTT(60)
  <2>4. ASSUME NEW c \in Conns, AbortSwitch(c) \/ AbortEntry(c) \/ RelayEnds(c)
        PROVE  QueueInv' /\ QueueStep
    <3>1. Forget(c) /\ RemoveFromAll(Uuid[c])
      BY <2>4 DEF AbortSwitch, AbortEntry, RelayEnds
    <3>2. /\ phase' = [phase EXCEPT ![c] = "out"] /\ picked' = [picked EXCEPT ![c] = None]
          /\ sessions' = sessions \ {Uuid[c]}
      BY <3>1 DEF Forget, Goto
    <3>3. queues' = [s \in Servers |-> IF s \in Servers THEN Without(queues[s], Uuid[c])
                                       ELSE queues[s]]
      BY <3>1 DEF RemoveFromAll
    <3>4. "out" \in Phases \ {"dialing"} /\ Uuid[c] \notin sessions'
      BY <3>2 DEF Phases
    <3> QED BY <1>2, <3>2, <3>3, <3>4, LeavingIsFair, Zenon
  <2>5. ASSUME NEW c \in Conns, TransferCommand(c) PROVE UNCHANGED <<phase, picked, queues>>
    BY <2>5 DEF TransferCommand
  <2>6. ASSUME NEW s \in Servers, SetOnline(s) PROVE UNCHANGED <<phase, picked, queues>>
    BY <2>6 DEF SetOnline
  <2>7. CASE UNCHANGED vars
    BY <2>1, <2>7, SMTT(60) DEF vars
  <2>8. CASE \E c \in Conns : Connecting(c) \/ InLimbo(c) \/ InRelay(c)
    BY <1>2, <2>1, <2>2, <2>3, <2>4, <2>5, <2>8, PollFullIsFair, PollDialIsFair, ZenonT(60)
       DEF Connecting, InLimbo, InRelay
  <2> QED BY <1>2, <2>1, <2>6, <2>7, <2>8 DEF Next
<1>3. QueueInv /\ [Next]_vars => QueueInv' /\ (FairStep \/ UNCHANGED vars)
  BY <1>2, StepIsFair
<1>4. QueueIsFair <=> [][FairStep]_vars
  BY DEF QueueIsFair, FairStep
<1> QED BY <1>1, <1>3, <1>4, PTL DEF Spec
=============================================================================
