-------------------------- MODULE ManagementProofs --------------------------
(***************************************************************************)
(* Deregistration of a server leaves nobody behind but late arrivals, for  *)
(* any number of players, servers and handlers at work at the same time.   *)
(*                                                                         *)
(* The evacuation works through a snapshot of the session map, one player  *)
(* at a time, while others join, leave and are moved.  The invariant says  *)
(* where a player on the server can be: still in the snapshot under the    *)
(* same session, in the evacuation's hands, or noted as late.              *)
(*                                                                         *)
(* And the counters are exact when everything has settled, unless one of   *)
(* the known disturbances came: in between, a counter is ahead of or       *)
(* behind the sessions only by the players in the hands of a handler.      *)
(***************************************************************************)
EXTENDS Management, FiniteSetTheorems, TLAPS

OpSet ==
  [kind : {"idle", "reload", "transfer", "evacuate"},
   at : {"start", "old", "new", "name", "mark", "count", "add", "prune"},
   who : People \cup {Nobody}, read : Nat,
   from : Names \cup {Nobody}, to : Names \cup {Nobody},
   last : BOOLEAN, todo : SUBSET (People \X Nat)]

Stages == {"out", "joining", "counted", "playing", "ending", "uncounted", "closing", "blocked"}

(* Types of what the argument needs.                                       *)
MgmtTypes ==
  /\ stage \in [People -> Stages] /\ login \in [People -> Nat]
  /\ held \in [People -> Names \cup {Nobody}] /\ server \in [People -> Names \cup {Nobody}]
  /\ entries \subseteq Names /\ count \in [Names -> Nat]
  /\ op \in [Workers -> OpSet]
  /\ \A w \in Workers : /\ op[w].kind \in {"evacuate", "reload"} => op[w].from \in Names
                        /\ op[w].kind = "transfer" => op[w].who \in People
  /\ late \in [Workers -> SUBSET People]

(* A deregistration whose evacuation goes somewhere else.                  *)
Removing(w) == op[w].kind = "evacuate" /\ op[w].last /\ op[w].from # op[w].to

On(p, s) == server[p] = s /\ stage[p] # "out"
InHands(w, p) == op[w].who = p /\ op[w].at = "name" /\ op[w].read = login[p]

Accounted(w) ==
  Removing(w) =>
    \A p \in People : On(p, op[w].from) =>
      p \in late[w] \/ <<p, login[p]>> \in op[w].todo \/ InHands(w, p)

MgmtInv == MgmtTypes /\ \A w \in Workers : Accounted(w)

(* A counter lags behind a player's server between two steps of a handler: *)
(* a transfer counts first, an evacuation names first, and each takes from *)
(* one server before it adds to the other.                                 *)
Between(w, p) ==
  op[w].who = p /\ op[w].at \in IF op[w].kind = "transfer" THEN {"new", "name"} ELSE {"count", "add"}

CountedAt(w) ==
  IF op[w].at \in {"new", "add"} THEN Nobody
  ELSE IF op[w].kind = "transfer" THEN op[w].to ELSE op[w].from

CountedOn(p, s) ==
  \/ stage[p] = "counted" /\ held[p] = s
  \/ stage[p] = "ending" /\ leaving[p] = s
  \/ /\ stage[p] = "playing" /\ server[p] = s
     /\ \A w \in Workers : ~Between(w, p)
  \/ /\ stage[p] = "playing"
     /\ \E w \in Workers : Between(w, p) /\ s = CountedAt(w)

CountedPlayers(s) == {p \in People : CountedOn(p, s)}

Exact == \A s \in entries : count[s] = Cardinality(CountedPlayers(s))

(* A handler at work on a player is alone with them, and they play.        *)
WorksAlone(w) ==
  /\ op[w].kind \in {"idle", "reload"} => op[w].who = Nobody
  /\ op[w].who \in People =>
       /\ stage[op[w].who] = "playing"
       /\ \A v \in Workers : op[v].who = op[w].who => v = w
       /\ op[w].kind = "transfer" =>
            \/ op[w].at \in {"old", "new", "name"} /\ server[op[w].who] = op[w].from
            \/ op[w].at = "mark" /\ server[op[w].who] = op[w].to
       /\ op[w].kind = "evacuate" =>
            \/ op[w].at = "name" /\ server[op[w].who] = op[w].from /\ op[w].read = login[op[w].who]
            \/ op[w].at \in {"count", "add"} /\ server[op[w].who] = op[w].to

(* Who is not on a server has none, and who holds an entry that was        *)
(* replaced or removed holds one whose name is out of the registry.        *)
Consistent(p) ==
  /\ stage[p] \in {"out", "joining", "counted", "closing", "blocked"} => server[p] = Nobody
  /\ p \in stale => held[p] \notin entries

Calm ==
  /\ \A w \in Workers : WorksAlone(w)
  /\ \A p \in People : Consistent(p)
  /\ Exact

CountInv ==
  /\ leaving \in [People -> Names \cup {Nobody}] /\ disturbed \in BOOLEAN
  /\ ~disturbed => Calm

-----------------------------------------------------------------------------
(* Counters stay numbers.                                                  *)
LEMMA CountsStayNumbers ==
  ASSUME NEW cnt \in [Names -> Nat], NEW s
  PROVE  Up(cnt, s) \in [Names -> Nat] /\ Down(cnt, s) \in [Names -> Nat]
<1>1. CountRange \in Nat \ {0}
    BY MgmtAssumption, FS_CardinalityType
<1>2. \A n \in Nat : (n + 1) % CountRange \in Nat /\ (n + CountRange - 1) % CountRange \in Nat
    BY <1>1
<1> QED
    BY <1>2, Zenon DEF Up, Down

(* Nothing is evacuated at start.                                          *)
LEMMA MgmtInvHoldsFirst == MgmtInit => MgmtInv
<1> SUFFICES ASSUME MgmtInit PROVE MgmtInv
    OBVIOUS
<1>1. IdleOp \in OpSet /\ IdleOp.kind = "idle"
    BY DEF IdleOp, OpSet
<1>2. op \in [Workers -> OpSet] /\ \A w \in Workers : op[w].kind = "idle"
    BY <1>1 DEF MgmtInit
<1>3. ConfiguredNames \subseteq Names
    BY MgmtAssumption DEF ConfiguredNames
<1>4. MgmtTypes
    BY <1>2, <1>3 DEF MgmtInit, MgmtTypes, Stages
<1>5. \A w \in Workers : Accounted(w)
    BY <1>2 DEF Accounted, Removing
<1> QED
    BY <1>4, <1>5 DEF MgmtInv

(* A handler that is not at work in a step loses nobody if whoever comes   *)
(* to its server is noted and nobody on it changes session.                *)
LEMMA OthersKeepAccounts ==
  ASSUME NEW w \in Workers, Accounted(w), op'[w] = op[w], late[w] \subseteq late'[w],
         \A p \in People : Removing(w) /\ On(p, op[w].from)' =>
           p \in late'[w] \/ (On(p, op[w].from) /\ login'[p] = login[p])
  PROVE  Accounted(w)'
BY DEF Accounted, Removing, InHands, On

(* Nobody's server changes, and nobody's session begins.                   *)
LEMMA QuietStepKeepsAccounts ==
  ASSUME NEW w \in Workers, Accounted(w), op'[w] = op[w], UNCHANGED <<server, login, late>>,
         \A p \in People : stage'[p] # "out" => stage[p] # "out"
  PROVE  Accounted(w)'
BY OthersKeepAccounts DEF On

(* A player gets a server: who comes to one that is evacuated is noted.    *)
LEMMA ArrivalKeepsAccounts ==
  ASSUME MgmtTypes, NEW w \in Workers, Accounted(w), op'[w] = op[w],
         NEW p \in People, NEW s,
         server' = [server EXCEPT ![p] = s], Arrives(p, s), login' = login,
         \A q \in People \ {p} : stage'[q] = stage[q]
  PROVE  Accounted(w)'
<1>1. late'[w] = IF op[w].kind = "evacuate" /\ op[w].last /\ op[w].from = s
                 THEN late[w] \cup {p} ELSE late[w]
    BY DEF Arrives
<1>2. \A q \in People : server'[q] = IF q = p THEN s ELSE server[q]
    BY DEF MgmtTypes
<1>3. ASSUME NEW q \in People, Removing(w), On(q, op[w].from)'
      PROVE  q \in late'[w] \/ (On(q, op[w].from) /\ login'[q] = login[q])
    BY <1>1, <1>2, <1>3 DEF On, Removing
<1> QED
    BY <1>1, <1>3, OthersKeepAccounts

-----------------------------------------------------------------------------
(* The connection tasks.                                                   *)
LEMMA ConnectionKeeps ==
  ASSUME MgmtInv, NEW p \in People, Connection(p)
  PROVE  MgmtInv'
<1>1. MgmtTypes /\ op' = op /\ \A w \in Workers : Accounted(w)
    BY DEF MgmtInv, Connection, Enter, CountJoin, NameJoin, EndRelay, GiveBack, ClearName, WaitForMap, DropSession
<1>2. CASE Enter(p)
    <2>1. MgmtTypes'
        BY <1>1, <1>2 DEF Enter, MgmtTypes, Stages, regVars
    <2>2. ASSUME NEW w \in Workers PROVE Accounted(w)'
        <3>1. late' = late /\ \A q \in People \ {p} : /\ server'[q] = server[q]
                                                     /\ stage'[q] = stage[q] /\ login'[q] = login[q]
            BY <1>1, <1>2 DEF Enter, MgmtTypes
        <3>2. server'[p] = Nobody
            BY <1>1, <1>2 DEF Enter, MgmtTypes
        <3>3. Removing(w) => op[w].from # Nobody
            BY <1>1, MgmtAssumption DEF Removing, MgmtTypes, Nobody
        <3> QED
            BY <1>1, <3>1, <3>2, <3>3, OthersKeepAccounts DEF On
    <2> QED
        BY <2>1, <2>2 DEF MgmtInv
<1>3. CASE NameJoin(p)
    <2>1. MgmtTypes'
        BY <1>1, <1>3 DEF NameJoin, MgmtTypes, Stages, regVars, Arrives
    <2>2. /\ server' = [server EXCEPT ![p] = held[p]] /\ Arrives(p, held[p]) /\ login' = login
          /\ \A q \in People \ {p} : stage'[q] = stage[q]
        BY <1>1, <1>3 DEF NameJoin, MgmtTypes
    <2>3. ASSUME NEW w \in Workers PROVE Accounted(w)'
        BY <1>1, <2>2, ArrivalKeepsAccounts, Zenon
    <2> QED
        BY <2>1, <2>3 DEF MgmtInv
<1>4. CASE ClearName(p)
    <2>1. MgmtTypes'
        BY <1>1, <1>4 DEF ClearName, MgmtTypes, Stages, regVars
    <2>2. ASSUME NEW w \in Workers PROVE Accounted(w)'
        <3>1. UNCHANGED <<late, login>> /\ \A q \in People \ {p} : server'[q] = server[q] /\ stage'[q] = stage[q]
            BY <1>1, <1>4 DEF ClearName, MgmtTypes
        <3>2. server'[p] = Nobody
            BY <1>1, <1>4, SMTT(60) DEF ClearName, MgmtTypes
        <3>3. Removing(w) => op[w].from # Nobody
            BY <1>1, MgmtAssumption DEF Removing, MgmtTypes, Nobody
        <3> QED
            BY <1>1, <3>1, <3>2, <3>3, OthersKeepAccounts DEF On
    <2> QED
        BY <2>1, <2>2 DEF MgmtInv
<1>5. CASE CountJoin(p) \/ EndRelay(p) \/ GiveBack(p) \/ WaitForMap(p) \/ DropSession(p)
    <2>1. /\ UNCHANGED <<server, login, held, entries, late>>
          /\ \E st \in Stages : stage' = [stage EXCEPT ![p] = st]
          /\ stage[p] # "out"
        BY <1>5 DEF CountJoin, EndRelay, GiveBack, WaitForMap, DropSession, regVars, Stages
    <2>2. count' \in [Names -> Nat]
        BY <1>1, <1>5, CountsStayNumbers DEF CountJoin, EndRelay, GiveBack, WaitForMap, DropSession, regVars, MgmtTypes
    <2>3. MgmtTypes'
        BY <1>1, <2>1, <2>2 DEF MgmtTypes
    <2>4. \A q \in People : stage'[q] # "out" => stage[q] # "out"
        BY <1>1, <2>1 DEF MgmtTypes
    <2>5. ASSUME NEW w \in Workers PROVE Accounted(w)'
        BY <1>1, <2>1, <2>4, QuietStepKeepsAccounts
    <2> QED
        BY <2>3, <2>5 DEF MgmtInv
<1> QED
    BY <1>2, <1>3, <1>4, <1>5 DEF Connection

(* Registrations and status messages.                                      *)
LEMMA RegistryKeeps ==
  ASSUME MgmtInv, NEW s \in Names, Register(s) \/ StatusCount(s)
  PROVE  MgmtInv'
<1>1. UNCHANGED <<stage, login, held, server, op, late>>
    BY DEF Register, StatusCount, connVars
<1>2. entries' \subseteq Names /\ count' \in [Names -> Nat]
    <2>1. entries \subseteq Names /\ count \in [Names -> Nat]
        BY DEF MgmtInv, MgmtTypes
    <2>2. CASE Register(s)
        BY <2>1, <2>2 DEF Register
    <2>3. CASE StatusCount(s)
        <3>1. entries' = entries /\ \E n \in Nat : count' = [count EXCEPT ![s] = n]
            BY <2>3, MgmtAssumption, Zenon DEF StatusCount
        <3> QED
            BY <2>1, <3>1
    <2> QED
        BY <2>2, <2>3
<1>3. MgmtTypes'
    BY <1>1, <1>2 DEF MgmtInv, MgmtTypes
<1>4. ASSUME NEW w \in Workers PROVE Accounted(w)'
    BY <1>1, QuietStepKeepsAccounts DEF MgmtInv
<1> QED
    BY <1>3, <1>4 DEF MgmtInv

-----------------------------------------------------------------------------
(* A handler's step that moves nobody and is not the evacuation's.         *)
LEMMA QuietHandlerKeeps ==
  ASSUME MgmtInv, NEW w \in Workers, NEW next \in OpSet, op' = [op EXCEPT ![w] = next],
         next.kind # "evacuate", next.kind = "transfer" => next.who \in People,
         next.kind = "reload" => next.from \in Names,
         UNCHANGED <<stage, login, held, server, late>>,
         entries' \subseteq Names, count' \in [Names -> Nat]
  PROVE  MgmtInv'
<1>1. \A v \in Workers : op'[v] = IF v = w THEN next ELSE op[v]
    BY DEF MgmtInv, MgmtTypes
<1>2. MgmtTypes'
    BY <1>1 DEF MgmtInv, MgmtTypes
<1>3. ASSUME NEW v \in Workers PROVE Accounted(v)'
    <2>1. CASE v = w
        BY <1>1, <2>1 DEF Accounted, Removing
    <2>2. CASE v # w
        BY <1>1, <2>2, QuietStepKeepsAccounts DEF MgmtInv
    <2> QED
        BY <2>1, <2>2
<1> QED
    BY <1>2, <1>3 DEF MgmtInv

(* Transfers and the reload.                                               *)
LEMMA TransferAndReloadKeep ==
  ASSUME MgmtInv, NEW w \in Workers,
         \/ TransferStarts(w) \/ TransferTakes(w) \/ TransferAdds(w) \/ TransferNames(w)
         \/ TransferEnds(w) \/ ReloadReads(w) \/ ReloadReplaces(w) \/ ReloadPrunes(w)
  PROVE  MgmtInv'
<1>1. MgmtTypes /\ op[w] \in OpSet /\ \A v \in Workers : Accounted(v)
    BY DEF MgmtInv, MgmtTypes
<1>2. IdleOp \in OpSet /\ IdleOp.kind = "idle"
    BY DEF IdleOp, OpSet
<1>3. CASE TransferStarts(w)
    <2>1. PICK p \in People, to \in Names, marks \in BOOLEAN :
            op' = [op EXCEPT ![w] = [IdleOp EXCEPT !.kind = "transfer", !.at = "old", !.who = p,
                                       !.from = server[p], !.to = to, !.last = marks]]
        BY <1>3, Zenon DEF TransferStarts
    <2> DEFINE next == [IdleOp EXCEPT !.kind = "transfer", !.at = "old", !.who = p,
                                        !.from = server[p], !.to = to, !.last = marks]
    <2>2. server[p] \in Names \cup {Nobody}
        BY <1>1 DEF MgmtTypes
    <2>3. next \in OpSet /\ next.kind = "transfer" /\ next.who \in People
        BY <2>2, Zenon DEF IdleOp, OpSet
    <2>4. UNCHANGED <<stage, login, held, server, late>> /\ UNCHANGED <<entries, count>>
        BY <1>3, Zenon DEF TransferStarts, connVars, regVars
    <2> HIDE DEF next
    <2> QED
        BY <1>1, <2>1, <2>3, <2>4, QuietHandlerKeeps, Zenon DEF MgmtTypes, next
<1>4. CASE TransferTakes(w) \/ TransferAdds(w)
    <2>1. PICK at \in {"new", "name"} : op' = [op EXCEPT ![w].at = at]
        BY <1>4, Zenon DEF TransferTakes, TransferAdds
    <2> DEFINE next == [op[w] EXCEPT !.at = at]
    <2>2. op[w].kind = "transfer" /\ op[w].who \in People
        BY <1>1, <1>4 DEF TransferTakes, TransferAdds, MgmtTypes
    <2>3. next \in OpSet /\ next.kind = "transfer" /\ next.who \in People
        BY <1>1, <2>2, Zenon DEF OpSet
    <2>4. op' = [op EXCEPT ![w] = next]
        BY <1>1, <2>1 DEF MgmtTypes
    <2>5. UNCHANGED <<stage, login, held, server, late, entries>>
        BY <1>4 DEF TransferTakes, TransferAdds, connVars
    <2>6. count' \in [Names -> Nat]
        BY <1>1, <1>4, CountsStayNumbers DEF TransferTakes, TransferAdds, MgmtTypes
    <2> QED
        BY <1>1, <2>3, <2>4, <2>5, <2>6, QuietHandlerKeeps, Zenon DEF MgmtTypes
<1>5. CASE TransferNames(w)
    <2> DEFINE next == [op[w] EXCEPT !.at = "mark"]
    <2>1. next \in OpSet /\ next.kind = "transfer" /\ op[w].to \in Names \cup {Nobody} /\ next.who = op[w].who
        BY <1>1, <1>5 DEF OpSet, TransferNames
    <2>2. op' = [op EXCEPT ![w] = next] /\ \A v \in Workers \ {w} : op'[v] = op[v]
        BY <1>1, <1>5 DEF TransferNames, MgmtTypes
    <2>3. UNCHANGED <<stage, login, held, entries, count>>
        BY <1>5 DEF TransferNames, regVars
    <2>4. server' = [server EXCEPT ![op[w].who] = op[w].to] /\ Arrives(op[w].who, op[w].to)
        BY <1>5 DEF TransferNames
    <2>5. op[w].who \in People
        BY <1>1, <1>5 DEF TransferNames, MgmtTypes
    <2>6. MgmtTypes'
        BY <1>1, <2>1, <2>2, <2>3, <2>4, <2>5 DEF MgmtTypes, Arrives
    <2>7. ASSUME NEW v \in Workers PROVE Accounted(v)'
        <3>1. CASE v = w
            BY <1>1, <2>1, <2>2, <3>1 DEF Accounted, Removing, MgmtTypes
        <3>2. CASE v # w
            BY <1>1, <2>2, <2>3, <2>4, <2>5, <3>2, ArrivalKeepsAccounts, Zenon
        <3> QED
            BY <3>1, <3>2
    <2> QED
        BY <2>6, <2>7 DEF MgmtInv
<1>6. CASE TransferEnds(w)
    <2>1. op' = [op EXCEPT ![w] = IdleOp] /\ UNCHANGED <<stage, login, held, server, late, entries, count>>
        BY <1>6 DEF TransferEnds, regVars
    <2> QED
        BY <1>1, <1>2, <2>1, QuietHandlerKeeps, Zenon DEF MgmtTypes
<1>7. CASE ReloadReads(w)
    <2>1. PICK s \in entries :
            op' = [op EXCEPT ![w] = [IdleOp EXCEPT !.kind = "reload", !.from = s, !.read = count[s]]]
        BY <1>7, Zenon DEF ReloadReads
    <2> DEFINE next == [IdleOp EXCEPT !.kind = "reload", !.from = s, !.read = count[s]]
    <2>2. s \in Names /\ count[s] \in Nat
        BY <1>1 DEF MgmtTypes
    <2>3. next \in OpSet /\ next.kind = "reload" /\ next.from = s
        BY <2>2, Zenon DEF IdleOp, OpSet
    <2>4. UNCHANGED <<stage, login, held, server, late>> /\ UNCHANGED <<entries, count>>
        BY <1>7, Zenon DEF ReloadReads, connVars, regVars
    <2> HIDE DEF next
    <2> QED
        BY <1>1, <2>1, <2>2, <2>3, <2>4, QuietHandlerKeeps, Zenon DEF MgmtTypes, next
<1>8. CASE ReloadReplaces(w)
    <2> DEFINE next == [op[w] EXCEPT !.at = "prune"]
    <2>1. next \in OpSet /\ next.kind = "reload" /\ next.from = op[w].from
        BY <1>1, <1>8, Zenon DEF OpSet, ReloadReplaces, ReloadPrunes
    <2>2. op' = [op EXCEPT ![w] = next] /\ UNCHANGED <<stage, login, held, server, late>>
        BY <1>1, <1>8 DEF ReloadReplaces, MgmtTypes
    <2>3. op[w].read \in Nat /\ op[w].from \in Names
        BY <1>1, <1>8, SMTT(60) DEF OpSet, MgmtTypes, ReloadReplaces, ReloadPrunes
    <2>4. entries' \subseteq Names /\ count' \in [Names -> Nat]
        BY <1>1, <1>8, <2>3, Zenon DEF ReloadReplaces, MgmtTypes
    <2> HIDE DEF next
    <2> QED
        BY <2>1, <2>2, <2>3, <2>4, QuietHandlerKeeps, Zenon
<1>9. CASE ReloadPrunes(w)
    <2>1. /\ op' = [op EXCEPT ![w] = IdleOp] /\ UNCHANGED <<stage, login, held, server, late>>
          /\ entries' \subseteq entries /\ count' = count
        BY <1>9 DEF ReloadPrunes
    <2>2. entries' \subseteq Names /\ count' \in [Names -> Nat]
        BY <1>1, <2>1 DEF MgmtTypes
    <2> QED
        BY <1>2, <2>1, <2>2, QuietHandlerKeeps, Zenon
<1> QED
    BY <1>3, <1>4, <1>5, <1>6, <1>7, <1>8, <1>9

(* A step of an evacuation: what remains to be shown is its own account    *)
(* and that of others.                                                     *)
LEMMA EvacuationTypes ==
  ASSUME MgmtTypes, NEW w \in Workers, NEW next \in OpSet, op' = [op EXCEPT ![w] = next],
         next.kind \in {"idle", "evacuate"}, next.kind = "evacuate" => next.from \in Names,
         UNCHANGED <<stage, login, held>>, server' \in [People -> Names \cup {Nobody}],
         entries' \subseteq Names, count' \in [Names -> Nat], late' \in [Workers -> SUBSET People]
  PROVE  MgmtTypes' /\ \A v \in Workers : op'[v] = IF v = w THEN next ELSE op[v]
<1>1. \A v \in Workers : op'[v] = IF v = w THEN next ELSE op[v]
    BY DEF MgmtTypes
<1> QED
    BY <1>1, Zenon DEF MgmtTypes

(* The snapshot has everybody with a session.                              *)
LEMMA EvacuationStartsKeeps ==
  ASSUME MgmtInv, NEW w \in Workers, EvacuationStarts(w)
  PROVE  MgmtInv'
<1>1. MgmtTypes /\ \A v \in Workers : Accounted(v)
    BY SMTT(60) DEF MgmtInv
<1>2. PICK from \in Names, to \in Names, removes \in BOOLEAN :
        op' = [op EXCEPT ![w] = [IdleOp EXCEPT !.kind = "evacuate", !.from = from, !.to = to,
                                   !.last = removes,
                                   !.todo = {<<p, login[p]>> : p \in {q \in People : stage[q] # "out"}}]]
    BY ZenonT(60) DEF EvacuationStarts
<1> DEFINE all == {<<p, login[p]>> : p \in {q \in People : stage[q] # "out"}}
           next == [IdleOp EXCEPT !.kind = "evacuate", !.from = from, !.to = to,
                                    !.last = removes, !.todo = all]
<1>3. all \in SUBSET (People \X Nat)
    BY <1>1 DEF MgmtTypes
<1>4. \A p \in People : stage[p] # "out" => <<p, login[p]>> \in all
    OBVIOUS
<1> HIDE DEF all
<1>5. next \in OpSet /\ next.kind = "evacuate" /\ next.from = from /\ next.todo = all
    BY <1>3, ZenonT(60) DEF IdleOp, OpSet
<1>6. op' = [op EXCEPT ![w] = next]
    BY <1>2 DEF all
<1> HIDE DEF next
<1>7. UNCHANGED <<stage, login, held, server, entries, count, late>>
    BY DEF EvacuationStarts, connVars, regVars
<1>8. MgmtTypes' /\ \A v \in Workers : op'[v] = IF v = w THEN next ELSE op[v]
    BY <1>1, <1>5, <1>6, <1>7, EvacuationTypes, Zenon DEF MgmtTypes
<1>9. ASSUME NEW v \in Workers PROVE Accounted(v)'
    <2>1. CASE v = w
        BY <1>4, <1>5, <1>7, <1>8, <2>1, SMTT(60) DEF Accounted, On
    <2>2. CASE v # w
        BY <1>1, <1>7, <1>8, <2>2, QuietStepKeepsAccounts, SMTT(60)
    <2> QED
        BY <2>1, <2>2, SMTT(60)
<1> QED
    BY <1>8, <1>9 DEF MgmtInv

(* Whose turn it is goes from the snapshot into the evacuation's hands.    *)
LEMMA EvacuationReadsKeeps ==
  ASSUME MgmtInv, NEW w \in Workers, EvacuationReads(w)
  PROVE  MgmtInv'
<1>1. MgmtTypes /\ op[w] \in OpSet /\ \A v \in Workers : Accounted(v)
    BY SMTT(60) DEF MgmtInv, MgmtTypes
<1>2. PICK e \in op[w].todo :
        op' = [op EXCEPT ![w].todo = @ \ {e},
                 ![w].who = IF Alive(e[1], e[2]) /\ server[e[1]] = op[w].from THEN e[1] ELSE Nobody,
                 ![w].read = IF Alive(e[1], e[2]) /\ server[e[1]] = op[w].from THEN e[2] ELSE 0,
                 ![w].at = IF Alive(e[1], e[2]) /\ server[e[1]] = op[w].from THEN "name" ELSE "start"]
    BY ZenonT(60) DEF EvacuationReads
<1>3. PICK q \in People, l \in Nat : e = <<q, l>>
    BY <1>1, <1>2, SMTT(60) DEF OpSet
<1> DEFINE onIt == Alive(q, l) /\ server[q] = op[w].from
           next == [op[w] EXCEPT !.todo = @ \ {e}, !.who = IF onIt THEN q ELSE Nobody,
                                 !.read = IF onIt THEN l ELSE 0, !.at = IF onIt THEN "name" ELSE "start"]
<1>4. op' = [op EXCEPT ![w] = next]
    BY <1>1, <1>2, <1>3, ZenonT(60) DEF MgmtTypes
<1>5. /\ next \in OpSet
      /\ next.kind = "evacuate" /\ next.from = op[w].from /\ next.to = op[w].to /\ next.last = op[w].last
      /\ next.todo = op[w].todo \ {e}
      /\ onIt => next.who = q /\ next.read = l /\ next.at = "name"
    BY <1>1, <1>3, ZenonT(60) DEF OpSet, EvacuationReads
<1> HIDE DEF next
<1>6. UNCHANGED <<stage, login, held, server, entries, count, late>>
    BY DEF EvacuationReads, connVars, regVars
<1>7. MgmtTypes' /\ \A v \in Workers : op'[v] = IF v = w THEN next ELSE op[v]
    BY <1>1, <1>4, <1>5, <1>6, EvacuationTypes, ZenonT(60) DEF MgmtTypes, EvacuationReads
<1>8. Accounted(w)'
    <2> SUFFICES ASSUME Removing(w)', NEW p \in People, On(p, op[w].from)'
                 PROVE  (p \in late[w] \/ <<p, login[p]>> \in op[w].todo \/ InHands(w, p))'
        BY DEF Accounted
    <2>1. Removing(w) /\ On(p, op[w].from)
        <3>1. op'[w] = next /\ op[w].kind = "evacuate"
            BY <1>7, Zenon DEF EvacuationReads
        <3>2. Removing(w)
            BY <1>5, <3>1, Zenon DEF Removing
        <3>3. On(p, op[w].from)
            BY <1>5, <1>6, <3>1, Zenon DEF On
        <3> QED
            BY <3>2, <3>3
    <2>2. p \in late[w] \/ <<p, login[p]>> \in op[w].todo
        <3>1. ~InHands(w, p)
            BY MgmtAssumption, Zenon DEF InHands, EvacuationReads, Nobody
        <3> QED
            BY <1>1, <2>1, <3>1 DEF Accounted
    <2>3. CASE <<p, login[p]>> = e
        <3>1. p = q /\ login[p] = l
            BY <1>3, <2>3
        <3>2. onIt
            BY <2>1, <3>1, SMTT(60) DEF On, Alive
        <3> QED
            BY <1>5, <1>6, <1>7, <3>1, <3>2 DEF InHands
    <2>4. CASE <<p, login[p]>> # e
        BY <1>5, <1>6, <1>7, <2>2, <2>4, ZenonT(60)
    <2> QED
        BY <2>3, <2>4, SMTT(60)
<1>9. ASSUME NEW v \in Workers, v # w PROVE Accounted(v)'
    BY <1>1, <1>6, <1>7, <1>9, QuietStepKeepsAccounts, ZenonT(60)
<1> QED
    BY <1>7, <1>8, <1>9, SMTT(60) DEF MgmtInv

(* Who is in its hands leaves the server, unless the session is gone.      *)
LEMMA EvacuationNamesKeeps ==
  ASSUME MgmtInv, NEW w \in Workers, EvacuationNames(w)
  PROVE  MgmtInv'
<1>1. MgmtTypes /\ op[w] \in OpSet /\ \A v \in Workers : Accounted(v)
    BY DEF MgmtInv, MgmtTypes
<1> DEFINE q == op[w].who
           next == [op[w] EXCEPT !.at = "count"]
<1>2. /\ next \in OpSet /\ q \in People /\ op[w].to \in Names \cup {Nobody}
      /\ next.kind = "evacuate" /\ next.from = op[w].from /\ next.to = op[w].to
      /\ next.last = op[w].last /\ next.todo = op[w].todo /\ next.who = q
    BY <1>1, SMTT(60) DEF OpSet, EvacuationNames
<1>3. op' = [op EXCEPT ![w] = next]
    BY <1>1 DEF EvacuationNames, MgmtTypes
<1>4. UNCHANGED <<stage, login, held, entries, count>>
    BY DEF EvacuationNames, regVars
<1>5. CASE Alive(q, op[w].read)
    <2>1. server' = [server EXCEPT ![q] = op[w].to] /\ Arrives(q, op[w].to)
        BY <1>5, SMTT(60) DEF EvacuationNames
    <2>2. server' \in [People -> Names \cup {Nobody}] /\ late' \in [Workers -> SUBSET People]
        BY <1>1, <1>2, <2>1, SMTT(60) DEF Arrives, MgmtTypes
    <2>3. MgmtTypes' /\ \A v \in Workers : op'[v] = IF v = w THEN next ELSE op[v]
        BY <1>1, <1>2, <1>3, <1>4, <2>2, EvacuationTypes, ZenonT(60) DEF MgmtTypes, EvacuationNames
    <2>4. Accounted(w)'
        <3> SUFFICES ASSUME Removing(w)', NEW p \in People, On(p, op[w].from)'
                     PROVE  (p \in late[w] \/ <<p, login[p]>> \in op[w].todo \/ InHands(w, p))'
            BY ZenonT(60) DEF Accounted
        <3>1. Removing(w) /\ server'[p] = op[w].from /\ op[w].from # op[w].to
            BY <1>2, <2>3, SMTT(60) DEF Removing, On, EvacuationNames
        <3>2. p # q /\ server[p] = op[w].from
            BY <1>1, <1>2, <2>1, <3>1, SMTT(60) DEF MgmtTypes
        <3>3. On(p, op[w].from) /\ ~InHands(w, p)
            BY <1>4, <3>2, SMTT(60) DEF On, InHands
        <3>4. late[w] \subseteq late'[w]
            BY <2>1 DEF Arrives
        <3> QED
            BY <1>1, <1>2, <1>4, <2>3, <3>1, <3>3, <3>4, Zenon DEF Accounted
    <2>5. ASSUME NEW v \in Workers, v # w PROVE Accounted(v)'
        BY <1>1, <1>2, <1>4, <2>1, <2>3, <2>5, ArrivalKeepsAccounts, ZenonT(60)
    <2> QED
        BY <2>3, <2>4, <2>5, SMTT(60) DEF MgmtInv
<1>6. CASE ~Alive(q, op[w].read)
    <2>1. UNCHANGED <<server, late>>
        BY <1>6, SMTT(60) DEF EvacuationNames
    <2>2. MgmtTypes' /\ \A v \in Workers : op'[v] = IF v = w THEN next ELSE op[v]
        BY <1>1, <1>2, <1>3, <1>4, <2>1, EvacuationTypes DEF MgmtTypes, EvacuationNames
    <2>3. Accounted(w)'
        <3> SUFFICES ASSUME Removing(w)', NEW p \in People, On(p, op[w].from)'
                     PROVE  (p \in late[w] \/ <<p, login[p]>> \in op[w].todo)'
            BY SMTT(60) DEF Accounted
        <3>1. Removing(w) /\ On(p, op[w].from)
            BY <1>2, <1>4, <2>1, <2>2, SMTT(60) DEF Removing, On, EvacuationNames
        <3>2. ~InHands(w, p)
            BY <1>6, <3>1, SMTT(60) DEF InHands, Alive, On
        <3> QED
            BY <1>1, <1>2, <1>4, <2>1, <2>2, <3>1, <3>2, ZenonT(60) DEF Accounted
    <2>4. ASSUME NEW v \in Workers, v # w PROVE Accounted(v)'
        BY <1>1, <1>4, <2>1, <2>2, <2>4, QuietStepKeepsAccounts, SMTT(60)
    <2> QED
        BY <2>2, <2>3, <2>4 DEF MgmtInv
<1> QED
    BY <1>5, <1>6, SMTT(60)

(* Counting moves nobody.                                                  *)
LEMMA EvacuationCountsKeeps ==
  ASSUME MgmtInv, NEW w \in Workers, EvacuationTakes(w) \/ EvacuationAdds(w)
  PROVE  MgmtInv'
<1>1. MgmtTypes /\ op[w] \in OpSet /\ \A v \in Workers : Accounted(v)
    BY DEF MgmtInv, MgmtTypes
<1>c. op[w].kind = "evacuate" /\ op[w].at \in {"count", "add"}
    BY SMTT(60) DEF EvacuationTakes, EvacuationAdds
<1>2. PICK next \in OpSet :
        /\ op' = [op EXCEPT ![w] = next]
        /\ next.kind = "evacuate" /\ next.from = op[w].from /\ next.to = op[w].to
        /\ next.last = op[w].last /\ next.todo = op[w].todo
    <2>1. CASE EvacuationTakes(w)
        <3> DEFINE next == [op[w] EXCEPT !.at = "add"]
        <3>1. /\ next \in OpSet
              /\ next.kind = "evacuate" /\ next.from = op[w].from /\ next.to = op[w].to
              /\ next.last = op[w].last /\ next.todo = op[w].todo
            BY <1>1, <1>c, ZenonT(60) DEF OpSet
        <3>2. op' = [op EXCEPT ![w] = next]
            BY <1>1, <2>1, Zenon DEF EvacuationTakes, MgmtTypes
        <3> HIDE DEF next
        <3> QED
            BY <3>1, <3>2, Zenon
    <2>2. CASE EvacuationAdds(w)
        <3> DEFINE middle == [op[w] EXCEPT !.who = Nobody]
                   next == [middle EXCEPT !.read = 0, !.at = "start"]
        <3>1. /\ middle \in OpSet
              /\ middle.kind = "evacuate" /\ middle.from = op[w].from /\ middle.to = op[w].to
              /\ middle.last = op[w].last /\ middle.todo = op[w].todo
            BY <1>1, <1>c, ZenonT(60) DEF OpSet
        <3>2. op' = [op EXCEPT ![w] = next]
            BY <1>1, <2>2, Zenon DEF EvacuationAdds, MgmtTypes
        <3> HIDE DEF middle
        <3>3. /\ next \in OpSet
              /\ next.kind = "evacuate" /\ next.from = op[w].from /\ next.to = op[w].to
              /\ next.last = op[w].last /\ next.todo = op[w].todo
            BY <3>1, ZenonT(60) DEF OpSet
        <3> HIDE DEF next
        <3> QED
            BY <3>2, <3>3, Zenon
    <2> QED
        BY <2>1, <2>2
<1>4. UNCHANGED <<stage, login, held, server, entries, late>>
    BY SMTT(60) DEF EvacuationTakes, EvacuationAdds, connVars
<1>5. count' \in [Names -> Nat]
    BY <1>1, CountsStayNumbers, SMTT(60) DEF EvacuationTakes, EvacuationAdds, MgmtTypes
<1>a. /\ next.from \in Names /\ server' \in [People -> Names \cup {Nobody}] /\ entries' \subseteq Names
      /\ late' \in [Workers -> SUBSET People]
    BY <1>1, <1>2, <1>4, SMTT(60) DEF MgmtTypes, EvacuationTakes, EvacuationAdds
<1>6. MgmtTypes' /\ \A v \in Workers : op'[v] = IF v = w THEN next ELSE op[v]
    BY <1>1, <1>2, <1>4, <1>5, <1>a, EvacuationTypes, ZenonT(60)
<1>7. Accounted(w)'
    <2> SUFFICES ASSUME Removing(w)', NEW p \in People, On(p, op[w].from)'
                 PROVE  (p \in late[w] \/ <<p, login[p]>> \in op[w].todo)'
        BY DEF Accounted
    <2>1. Removing(w) /\ On(p, op[w].from)
        <3>1. op'[w] = next
            BY <1>6, Zenon
        <3>2. Removing(w)
            BY <1>c, <1>2, <3>1, Zenon DEF Removing
        <3>3. On(p, op[w].from)
            BY <1>2, <1>4, <3>1, Zenon DEF On
        <3> QED
            BY <3>2, <3>3
    <2>2. ~InHands(w, p)
        BY <1>c DEF InHands
    <2> QED
        BY <1>1, <1>2, <1>4, <1>6, <2>1, <2>2, ZenonT(60) DEF Accounted
<1>8. ASSUME NEW v \in Workers, v # w PROVE Accounted(v)'
    BY <1>1, <1>4, <1>6, <1>8, QuietStepKeepsAccounts, Zenon
<1> QED
    BY <1>6, <1>7, <1>8, SMTT(60) DEF MgmtInv

(* The end of an evacuation.                                               *)
LEMMA EvacuationEndsKeeps ==
  ASSUME MgmtInv, NEW w \in Workers, EvacuationEnds(w)
  PROVE  MgmtInv'
<1>1. MgmtTypes /\ \A v \in Workers : Accounted(v)
    BY DEF MgmtInv
<1>2. IdleOp \in OpSet /\ IdleOp.kind = "idle"
    BY ZenonT(60) DEF IdleOp, OpSet
<1>3. /\ op' = [op EXCEPT ![w] = IdleOp] /\ late' = [late EXCEPT ![w] = {}]
      /\ UNCHANGED <<stage, login, held, server, count>> /\ entries' \subseteq entries
    BY ZenonT(60) DEF EvacuationEnds
<1>4. late' \in [Workers -> SUBSET People] /\ entries' \subseteq Names
    BY <1>1, <1>3, SMTT(60) DEF MgmtTypes
<1>5. MgmtTypes' /\ \A v \in Workers : op'[v] = IF v = w THEN IdleOp ELSE op[v]
    BY <1>1, <1>2, <1>3, <1>4, EvacuationTypes, ZenonT(60) DEF MgmtTypes
<1>6. Accounted(w)'
    BY <1>2, <1>5, SMTT(60) DEF Accounted, Removing
<1>7. ASSUME NEW v \in Workers, v # w PROVE Accounted(v)'
    <2>1. late'[v] = late[v]
        BY <1>1, <1>3, <1>7, SMTT(60) DEF MgmtTypes
    <2> QED
        BY <1>1, <1>3, <1>5, <1>7, <2>1, OthersKeepAccounts, ZenonT(60) DEF On
<1> QED
    BY <1>5, <1>6, <1>7, Zenon DEF MgmtInv

-----------------------------------------------------------------------------
(* Every step keeps the account.                                           *)
LEMMA MgmtStepKeeps == MgmtInv /\ [MgmtNext]_mgmtVars => MgmtInv'
<1> SUFFICES ASSUME MgmtInv, [MgmtNext]_mgmtVars PROVE MgmtInv'
    OBVIOUS
<1>1. CASE \E p \in People : Connection(p)
    BY <1>1, ConnectionKeeps, SMTT(60)
<1>2. CASE \E s \in Names : Register(s) \/ StatusCount(s)
    BY <1>2, RegistryKeeps, SMTT(60)
<1>3. ASSUME NEW w \in Workers, Handler(w) PROVE MgmtInv'
    BY <1>3, TransferAndReloadKeep, EvacuationStartsKeeps, EvacuationReadsKeeps, EvacuationNamesKeeps,
       EvacuationCountsKeeps, EvacuationEndsKeeps, SMTT(60) DEF Handler, Continues
<1>4. CASE UNCHANGED mgmtVars
    <2>1. UNCHANGED <<stage, login, held, server, entries, count, op, late>>
        BY <1>4 DEF mgmtVars, connVars, regVars
    <2> QED
        BY <2>1 DEF MgmtInv, MgmtTypes, Accounted, Removing, On, InHands
<1> QED
    BY <1>1, <1>2, <1>3, <1>4, SMTT(60) DEF MgmtNext

(* An evacuation comes to its end by EvacuationEnds only.                  *)
LEMMA OnlyTheEndEnds ==
  ASSUME MgmtInv, [MgmtNext]_mgmtVars, NEW w \in Workers,
         op[w].kind = "evacuate", op'[w].kind = "idle"
  PROVE  EvacuationEnds(w)
<1>1. op \in [Workers -> OpSet]
    BY SMTT(60) DEF MgmtInv, MgmtTypes
<1>2. CASE \E p \in People : Connection(p)
    BY <1>2, ZenonT(60) DEF Connection, Enter, CountJoin, NameJoin, EndRelay, GiveBack, ClearName, WaitForMap, DropSession
<1>3. CASE \E s \in Names : Register(s) \/ StatusCount(s)
    BY <1>3, ZenonT(60) DEF Register, StatusCount
<1>4. ASSUME NEW v \in Workers, Handler(v) PROVE EvacuationEnds(w)
    <2>1. CASE v # w
        <3>1. op'[w] = op[w]
            BY <1>1, <1>4, <2>1, ZenonT(60) DEF Handler, Continues, TransferStarts, TransferTakes, TransferAdds, TransferNames, TransferEnds,
               EvacuationStarts, EvacuationReads, EvacuationNames, EvacuationTakes, EvacuationAdds, EvacuationEnds,
               ReloadReads, ReloadReplaces, ReloadPrunes, ReloadPrunes
        <3> QED
            BY <3>1, ZenonT(60)
    <2>2. CASE v = w
        <3>1. CASE EvacuationReads(w) \/ EvacuationNames(w) \/ EvacuationTakes(w) \/ EvacuationAdds(w)
                     \/ ReloadReplaces(w)
            <4>1. op[w] \in OpSet
                BY <1>1, SMTT(60)
            <4>2. CASE EvacuationReads(w)
                BY <1>1, <4>1, <4>2, SMTT(60) DEF EvacuationReads, OpSet
            <4>3. CASE EvacuationNames(w)
                BY <1>1, <4>1, <4>3, SMTT(60) DEF EvacuationNames, OpSet
            <4>4. CASE EvacuationTakes(w)
                BY <1>1, <4>1, <4>4, SMTT(60) DEF EvacuationTakes, OpSet
            <4>5. CASE EvacuationAdds(w)
                BY <1>1, <4>1, <4>5, SMTT(60) DEF EvacuationAdds, OpSet
            <4>6. CASE ReloadReplaces(w)
                BY <4>6, SMTT(60) DEF ReloadReplaces
            <4> QED
                BY <3>1, <4>2, <4>3, <4>4, <4>5, <4>6, SMTT(60)
        <3> QED
            BY <1>4, <2>2, <3>1, ZenonT(60) DEF Handler, Continues, TransferStarts, TransferTakes, TransferAdds, TransferNames, TransferEnds,
               EvacuationStarts, ReloadReads, ReloadReplaces, ReloadPrunes, ReloadPrunes
    <2> QED
        BY <2>1, <2>2, ZenonT(60)
<1>5. CASE UNCHANGED mgmtVars
    BY <1>5 DEF mgmtVars
<1> QED
    BY <1>2, <1>3, <1>4, <1>5, ZenonT(60) DEF MgmtNext

(* handle_deregister evacuates before it removes the entry: whoever plays  *)
(* on the server at its removal arrived after the evacuation's snapshot    *)
(* had been taken or after their own turn.                                 *)
THEOREM RemovalLeavesOnlyLate == MgmtSpec => OnlyLateArrivalsStay
<1>1. ASSUME MgmtInv, [MgmtNext]_mgmtVars, NEW w \in Workers,
             op[w].kind = "evacuate", op'[w].kind = "idle", op[w].last, op[w].from # op[w].to
      PROVE  {p \in Attached(op[w].from) : stage[p] = "playing"} \subseteq late[w]
    <2>1. EvacuationEnds(w)
        BY <1>1, OnlyTheEndEnds, SMTT(60)
    <2>2. op[w].todo = {} /\ op[w].who = Nobody
        BY <2>1, ZenonT(60) DEF EvacuationEnds
    <2>3. ASSUME NEW p \in People, server[p] = op[w].from, stage[p] = "playing" PROVE p \in late[w]
        <3>1. Accounted(w) /\ Removing(w) /\ On(p, op[w].from)
            BY <1>1, <2>3, ZenonT(60) DEF MgmtInv, Removing, On
        <3>2. ~InHands(w, p)
            BY <2>2, MgmtAssumption, SMTT(60) DEF InHands, Nobody
        <3> QED
            BY <2>2, <3>1, <3>2, SMTT(60) DEF Accounted
    <2> QED
        BY <2>3, SMTT(60) DEF Attached
<1>2. MgmtInv /\ [MgmtNext]_mgmtVars =>
        [\A w \in Workers :
           op[w].kind = "evacuate" /\ op'[w].kind = "idle" /\ op[w].last /\ op[w].from # op[w].to =>
             {p \in Attached(op[w].from) : stage[p] = "playing"} \subseteq late[w]]_mgmtVars
    BY <1>1, SMTT(60)
<1> QED
    BY <1>2, MgmtInvHoldsFirst, MgmtStepKeeps, PTL DEF MgmtSpec, OnlyLateArrivalsStay
-----------------------------------------------------------------------------
(* The counters of the servers.                                            *)

LEMMA CountedFinite ==
  ASSUME NEW s
  PROVE  /\ IsFiniteSet(CountedPlayers(s)) /\ Cardinality(CountedPlayers(s)) \in Nat
         /\ Cardinality(CountedPlayers(s)) <= Cardinality(People)
         /\ Cardinality(People) \in Nat
<1>1. CountedPlayers(s) \in SUBSET People
    BY DEF CountedPlayers
<1> QED
    BY <1>1, MgmtAssumption, FS_Subset, FS_CardinalityType, SMTT(60)

(* Counters that are exact do not wrap.                                    *)
LEMMA NoWrap ==
  ASSUME NEW n \in Nat, NEW m \in Nat \ {0}, n < m
  PROVE  n % m = n /\ (m + n) % m = n
BY SMTT(60)

(* Up and Down at one name.                                                *)
LEMMA UpDown ==
  ASSUME NEW cnt \in [Names -> Nat], NEW a, NEW b, NEW s \in entries, entries \subseteq Names,
         cnt[s] < CountRange,
         s = a => cnt[s] # 0,
         s = b /\ s # a => cnt[s] + 1 < CountRange
  PROVE  Up(Down(cnt, a), b)[s] =
           cnt[s] + (IF s = b /\ s # a THEN 1 ELSE IF s = a /\ s # b THEN 0 - 1 ELSE 0)
<1>1. s \in Names /\ cnt[s] \in Nat /\ CountRange \in Nat \ {0}
    BY MgmtAssumption, SMTT(60)
<1>2. Down(cnt, a) \in [Names -> Nat]
    BY CountsStayNumbers, SMTT(60)
<1>3. Down(cnt, a)[s] = IF s = a THEN cnt[s] - 1 ELSE cnt[s]
    <2>1. CASE s = a
        <3>1. Down(cnt, a)[s] = (cnt[s] + CountRange - 1) % CountRange
            BY <1>1, <2>1, SMTT(60) DEF Down
        <3>2. cnt[s] + CountRange - 1 = CountRange + (cnt[s] - 1) /\ cnt[s] - 1 \in Nat
              /\ cnt[s] - 1 < CountRange
            BY <1>1, <2>1, SMTT(60)
        <3>3. (CountRange + (cnt[s] - 1)) % CountRange = cnt[s] - 1
            BY <1>1, <3>2, NoWrap, SMTT(60)
        <3> QED
            BY <2>1, <3>1, <3>2, <3>3, SMTT(60)
    <2>2. CASE s # a
        BY <1>1, <2>2, SMTT(60) DEF Down
    <2> QED
        BY <2>1, <2>2, SMTT(60)
<1>4. ASSUME NEW c \in [Names -> Nat]
      PROVE  Up(c, b)[s] = IF s = b THEN (c[s] + 1) % CountRange ELSE c[s]
    BY <1>1, SMTT(60) DEF Up
<1>5. Up(Down(cnt, a), b)[s] = IF s = b THEN (Down(cnt, a)[s] + 1) % CountRange ELSE Down(cnt, a)[s]
    BY <1>2, <1>4, SMTT(60)
<1>6. CASE s = b /\ s = a
    <2>1. (cnt[s] - 1 + 1) % CountRange = cnt[s]
        BY <1>1, NoWrap, SMTT(60)
    <2> QED
        BY <1>3, <1>5, <1>6, <2>1, <1>1, SMTT(60)
<1>7. CASE s = b /\ s # a
    <2>1. (cnt[s] + 1) % CountRange = cnt[s] + 1
        BY <1>1, <1>7, NoWrap, SMTT(60)
    <2> QED
        BY <1>3, <1>5, <1>7, <2>1, <1>1, SMTT(60)
<1>8. CASE s # b
    BY <1>1, <1>3, <1>5, <1>8
<1> QED
    BY <1>6, <1>7, <1>8, ZenonT(60)

(* Nobody changes the server they are counted on.                          *)
LEMMA NobodyMoves ==
  ASSUME Exact, entries' \subseteq entries, \A s \in entries' : count'[s] = count[s],
         \A p \in People, s \in entries' : CountedOn(p, s)' <=> CountedOn(p, s)
  PROVE  Exact'
<1>1. ASSUME NEW s \in entries' PROVE CountedPlayers(s)' = CountedPlayers(s)
    BY SMTT(60) DEF CountedPlayers
<1> QED
    BY <1>1, SMTT(60) DEF Exact

(* One player moves from one server to another, and both counters follow.  *)
LEMMA OneMoves ==
  ASSUME MgmtTypes, Exact, NEW p \in People, NEW a, NEW b, entries' = entries,
         count' = Up(Down(count, a), b),
         \A q \in People \ {p}, s \in entries : CountedOn(q, s)' <=> CountedOn(q, s),
         \A s \in entries : CountedOn(p, s) <=> s = a,
         \A s \in entries : CountedOn(p, s)' <=> s = b
  PROVE  Exact'
<1> SUFFICES ASSUME NEW s \in entries PROVE count'[s] = Cardinality(CountedPlayers(s)')
    BY ZenonT(60) DEF Exact
<1> DEFINE S == CountedPlayers(s)
<1>1. /\ IsFiniteSet(S) /\ Cardinality(S) \in Nat /\ Cardinality(S) <= Cardinality(People)
      /\ Cardinality(People) \in Nat /\ Cardinality(People) < CountRange /\ CountRange \in Nat
    BY CountedFinite, MgmtAssumption, SMTT(60)
<1>2. count \in [Names -> Nat] /\ entries \subseteq Names /\ count[s] = Cardinality(S)
    BY DEF MgmtTypes, Exact
<1>3. p \in S <=> s = a
    BY SMTT(60) DEF CountedPlayers
<1>4. S' = (IF s = b THEN S \cup {p} ELSE S \ {p})
    BY SMTT(60) DEF CountedPlayers
<1> HIDE DEF S
<1>5. /\ Cardinality(S \cup {p}) = (IF p \in S THEN Cardinality(S) ELSE Cardinality(S) + 1)
      /\ Cardinality(S \ {p}) = (IF p \in S THEN Cardinality(S) - 1 ELSE Cardinality(S))
      /\ IsFiniteSet(S \cup {p}) /\ IsFiniteSet(S \ {p})
    BY <1>1, FS_AddElement, FS_RemoveElement, ZenonT(60)
<1>6. Cardinality(S \cup {p}) <= Cardinality(People) /\ Cardinality(S \ {p}) \in Nat
    <2>1. S \cup {p} \in SUBSET People
        BY SMTT(60) DEF S, CountedPlayers
    <2> QED
        BY <1>5, <2>1, MgmtAssumption, FS_Subset, FS_CardinalityType, ZenonT(60)
<1>7. /\ count[s] < CountRange /\ (s = a => count[s] # 0)
      /\ (s = b /\ s # a => count[s] + 1 < CountRange)
    BY <1>1, <1>2, <1>3, <1>5, <1>6, SMTT(60)
<1>8. count'[s] = count[s] + (IF s = b /\ s # a THEN 1 ELSE IF s = a /\ s # b THEN 0 - 1 ELSE 0)
    BY <1>2, <1>7, UpDown, SMTT(60)
<1>9. count'[s] = Cardinality(S')
    BY <1>1, <1>2, <1>3, <1>4, <1>5, <1>8
<1> QED
    BY <1>9, SMTT(60) DEF S

(* A player whom the step does not touch stays where they are counted.     *)
LEMMA UntouchedStay ==
  ASSUME NEW p \in People,
         UNCHANGED <<stage[p], held[p], leaving[p], server[p]>>,
         \A w \in Workers : op'[w] = op[w] \/ (op[w].who # p /\ op'[w].who # p)
  PROVE  \A s : CountedOn(p, s)' <=> CountedOn(p, s)
<1>1. \A w \in Workers : Between(w, p)' <=> Between(w, p)
    BY DEF Between
<1>2. \A w \in Workers : Between(w, p) => op'[w] = op[w]
    BY SMTT(60) DEF Between
<1> QED
    BY <1>1, <1>2, ZenonT(60) DEF CountedOn, CountedAt

LEMMA NobodyIsNoServer == MgmtTypes => Nobody \notin entries /\ Nobody \notin People
BY MgmtAssumption, SMTT(60) DEF MgmtTypes, Nobody

(* No handler is at work on the player of a connection step that disturbs  *)
(* nothing.                                                                *)
LEMMA LeftAlone ==
  ASSUME CountInv, ~disturbed', NEW p \in People, Connection(p)
  PROVE  /\ Calm /\ op' = op /\ entries' = entries
         /\ \A w \in Workers : op[w].who # p
<1>1. /\ ~disturbed /\ op' = op /\ entries' = entries
      /\ stage[p] = "playing" => Busy(p) = {}
    BY ZenonT(60) DEF CountInv, Connection, Enter, CountJoin, NameJoin, EndRelay, GiveBack, ClearName, WaitForMap, DropSession,
           regVars, Note
<1>2. Calm
    BY <1>1, SMTT(60) DEF CountInv
<1>3. ASSUME NEW w \in Workers, op[w].who = p PROVE FALSE
    <2>1. stage[p] = "playing"
        BY <1>2, <1>3, ZenonT(60) DEF Calm, WorksAlone
    <2> QED
        BY <1>1, <1>3, <2>1, SMTT(60) DEF Busy
<1> QED
    BY <1>1, <1>2, <1>3, SMTT(60)

(* Where a player is counted with whom no handler is at work.              *)
LEMMA PlaceAlone ==
  ASSUME NEW p \in People, \A w \in Workers : op[w].who # p
  PROVE  \A s : CountedOn(p, s) <=>
                  \/ stage[p] = "counted" /\ held[p] = s
                  \/ stage[p] = "ending" /\ leaving[p] = s
                  \/ stage[p] = "playing" /\ server[p] = s
BY ZenonT(60) DEF CountedOn, Between

LEMMA ConnectionCalm ==
  ASSUME MgmtTypes, CountInv, ~disturbed', NEW p \in People, Connection(p)
  PROVE  Calm'
<1>1. /\ Calm /\ op' = op /\ entries' = entries
      /\ \A w \in Workers : op[w].who # p
    BY LeftAlone, SMTT(60)
<1>2. /\ stage \in [People -> Stages] /\ login \in [People -> Nat]
      /\ held \in [People -> Names \cup {Nobody}] /\ server \in [People -> Names \cup {Nobody}]
      /\ leaving \in [People -> Names \cup {Nobody}] /\ count \in [Names -> Nat]
    BY SMTT(60) DEF MgmtTypes, CountInv
<1>3. \A q \in People \ {p} :
         /\ stage'[q] = stage[q] /\ login'[q] = login[q] /\ held'[q] = held[q]
         /\ server'[q] = server[q] /\ leaving'[q] = leaving[q] /\ (q \in stale' <=> q \in stale)
    BY <1>2, ZenonT(60) DEF Connection, Enter, CountJoin, NameJoin, EndRelay, GiveBack, ClearName, WaitForMap, DropSession
<1>4. \A w \in Workers : WorksAlone(w)'
    <2> SUFFICES ASSUME NEW w \in Workers PROVE WorksAlone(w)'
        BY SMTT(60)
    <2>1. op[w].who # p /\ WorksAlone(w)
        BY <1>1, SMTT(60) DEF Calm
    <2> QED
        BY <1>1, <1>3, <2>1, ZenonT(60) DEF WorksAlone
<1>5. \A q \in People \ {p} : Consistent(q)'
    BY <1>1, <1>3, ZenonT(60) DEF Calm, Consistent
<1>6. \A q \in People \ {p}, s \in entries : CountedOn(q, s)' <=> CountedOn(q, s)
    <2> SUFFICES ASSUME NEW q \in People \ {p}
                 PROVE  \A s : CountedOn(q, s)' <=> CountedOn(q, s)
        BY SMTT(60)
    <2> QED
        BY <1>1, <1>3, UntouchedStay, ZenonT(60)
<1>7. \A s : CountedOn(p, s) <=>
               \/ stage[p] = "counted" /\ held[p] = s
               \/ stage[p] = "ending" /\ leaving[p] = s
               \/ stage[p] = "playing" /\ server[p] = s
    BY <1>1, PlaceAlone, ZenonT(60)
<1>8. \A s : CountedOn(p, s)' <=>
               \/ stage'[p] = "counted" /\ held'[p] = s
               \/ stage'[p] = "ending" /\ leaving'[p] = s
               \/ stage'[p] = "playing" /\ server'[p] = s
    <2>1. \A w \in Workers : ~Between(w, p)'
        BY <1>1, ZenonT(60) DEF Between
    <2> QED
        BY <2>1, ZenonT(60) DEF CountedOn
<1>9. Nobody \notin entries /\ entries \subseteq Names
    BY NobodyIsNoServer, ZenonT(60) DEF MgmtTypes
<1>10. Consistent(p) /\ Exact
    BY <1>1, SMTT(60) DEF Calm
<1>11. CASE Enter(p) \/ NameJoin(p) \/ EndRelay(p) \/ ClearName(p) \/ WaitForMap(p) \/ DropSession(p)
    <2>1. count' = count
        BY <1>11, ZenonT(60) DEF Enter, NameJoin, EndRelay, ClearName, WaitForMap, DropSession, regVars
    <2>2. Consistent(p)' /\ \A s \in entries : CountedOn(p, s)' <=> CountedOn(p, s)
        <3>1. CASE Enter(p)
            BY <1>2, <1>7, <1>8, <3>1, SMTT(60) DEF Enter, Consistent
        <3>2. CASE NameJoin(p)
            BY <1>2, <1>7, <1>8, <3>2, ZenonT(60) DEF NameJoin, Consistent
        <3>3. CASE EndRelay(p)
            <4>1. ~(flagged[p] /\ server[p] \in entries)
                BY <3>3, Zenon DEF EndRelay, Note
            <4>2. /\ stage[p] = "playing" /\ stage'[p] = "ending" /\ UNCHANGED <<held, stale, server>>
                  /\ leaving'[p] = IF flagged[p] THEN Nobody ELSE server[p]
                BY <1>2, <3>3 DEF EndRelay
            <4> QED
                BY <1>1, <1>7, <1>8, <1>9, <1>10, <4>1, <4>2, SMTT(60) DEF Consistent
        <3>4. CASE ClearName(p)
            BY <1>1, <1>2, <1>7, <1>8, <1>10, <3>4, SMTT(60) DEF ClearName, Consistent
        <3>5. CASE WaitForMap(p) \/ DropSession(p)
            BY <1>1, <1>2, <1>7, <1>8, <1>10, <3>5, SMTT(60) DEF WaitForMap, DropSession, Consistent
        <3> QED
            BY <1>11, <3>1, <3>2, <3>3, <3>4, <3>5, SMTT(60)
    <2>3. \A q \in People, s \in entries' : CountedOn(q, s)' <=> CountedOn(q, s)
        BY <1>1, <1>6, <2>2
    <2>4. Exact'
        BY <1>1, <1>10, <2>1, <2>3, NobodyMoves
    <2> QED
        BY <1>4, <1>5, <2>2, <2>4, ZenonT(60) DEF Calm
<1>12. CASE CountJoin(p)
    <2>1. /\ stage[p] = "joining" /\ stage'[p] = "counted" /\ UNCHANGED <<held, stale, server>>
          /\ count' = IF p \in stale THEN count ELSE Up(count, held[p])
        BY <1>2, <1>12 DEF CountJoin
    <2>2. Consistent(p)'
        BY <1>1, <1>10, <2>1, SMTT(60) DEF Consistent
    <2>3. count' = Up(Down(count, Nobody), held[p])
        <3>1. Down(count, Nobody) = count
            BY <1>9 DEF Down
        <3>2. CASE p \in stale
            BY <1>10, <2>1, <3>1, <3>2, SMTT(60) DEF Consistent, Up
        <3> QED
            BY <2>1, <3>1, <3>2
    <2>4. \A s \in entries : (CountedOn(p, s) <=> s = Nobody) /\ (CountedOn(p, s)' <=> s = held[p])
        BY <1>7, <1>8, <1>9, <2>1, SMTT(60)
    <2>5. Exact'
        BY <1>1, <1>6, <1>10, <2>3, <2>4, OneMoves, ZenonT(60)
    <2> QED
        BY <1>4, <1>5, <2>2, <2>5 DEF Calm
<1>13. CASE GiveBack(p)
    <2>1. /\ stage[p] = "ending" /\ stage'[p] = "uncounted" /\ UNCHANGED <<held, stale, server>>
          /\ count' = Down(count, leaving[p])
        BY <1>2, <1>13, SMTT(60) DEF GiveBack
    <2>2. Consistent(p)'
        BY <1>1, <1>10, <2>1, ZenonT(60) DEF Consistent
    <2>3. count' = Up(Down(count, leaving[p]), Nobody)
        BY <1>9, <2>1, SMTT(60) DEF Up
    <2>4. \A s \in entries : (CountedOn(p, s) <=> s = leaving[p]) /\ (CountedOn(p, s)' <=> s = Nobody)
        BY <1>7, <1>8, <1>9, <2>1, ZenonT(60)
    <2>5. Exact'
        BY <1>1, <1>6, <1>10, <2>3, <2>4, OneMoves, ZenonT(60)
    <2> QED
        BY <1>4, <1>5, <2>2, <2>5 DEF Calm
<1> QED
    BY <1>11, <1>12, <1>13, SMTT(60) DEF Connection

(* Steps that move nobody and leave every handler at work where it is.     *)
LEMMA StillCalm ==
  ASSUME Calm, UNCHANGED <<stage, login, held, server, leaving>>,
         \A w \in Workers : op'[w] = op[w] \/ (op[w].who \notin People /\ op'[w].who \notin People),
         \A w \in Workers : op'[w].kind \in {"idle", "reload"} => op'[w].who = Nobody
  PROVE  /\ \A w \in Workers : WorksAlone(w)'
         /\ \A p \in People : \A s : CountedOn(p, s)' <=> CountedOn(p, s)
<1>1. \A w \in Workers : op'[w].who \in People => op'[w] = op[w]
    BY SMTT(60)
<1>2. ASSUME NEW w \in Workers PROVE WorksAlone(w)'
    <2>1. WorksAlone(w)
        BY ZenonT(60) DEF Calm
    <2> QED
        BY <1>1, <2>1, SMTT(60) DEF WorksAlone
<1>3. ASSUME NEW p \in People PROVE \A s : CountedOn(p, s)' <=> CountedOn(p, s)
    BY UntouchedStay
<1> QED
    BY <1>2, <1>3

(* A fresh entry has nobody on it, or the step disturbs.                   *)
LEMMA RegistryCalm ==
  ASSUME MgmtTypes, CountInv, ~disturbed', NEW t \in Names, Register(t) \/ StatusCount(t)
  PROVE  Calm'
<1>a. t # Nobody
    BY MgmtAssumption, SMTT(60) DEF Nobody
<1>1. ~disturbed /\ UNCHANGED <<stage, login, held, server, leaving, op>>
    BY DEF Register, StatusCount, Note, connVars, CountInv
<1>2. Calm /\ Exact
    BY <1>1, SMTT(60) DEF CountInv, Calm
<1>3. /\ \A w \in Workers : WorksAlone(w)'
      /\ \A p \in People : \A s : CountedOn(p, s)' <=> CountedOn(p, s)
    <2>1. \A w \in Workers : op'[w].kind \in {"idle", "reload"} => op'[w].who = Nobody
        BY <1>1, <1>2 DEF Calm, WorksAlone
    <2> QED
        BY <1>1, <1>2, <2>1, StillCalm, ZenonT(60)
<1>4. count \in [Names -> Nat] /\ entries \subseteq Names
    BY SMTT(60) DEF MgmtTypes
<1>5. CASE StatusCount(t)
    <2>1. PICK n \in Reports : count' = [count EXCEPT ![t] = n] /\ n = count[t]
        BY <1>5, Zenon DEF StatusCount, Note
    <2>2. count' = count /\ UNCHANGED <<entries, stale>>
        BY <1>4, <1>5, <2>1 DEF StatusCount, connVars
    <2>3. Exact'
        BY <1>2, <1>3, <2>2, NobodyMoves
    <2> QED
        BY <1>1, <1>2, <1>3, <2>2, <2>3, Zenon DEF Calm, Consistent
<1>6. CASE Register(t)
    <2>1. /\ entries' = entries \cup {t} /\ count' = [count EXCEPT ![t] = 0]
          /\ stale' = stale \cup {p \in People : held[p] \in {t}}
          /\ Attached(t) = {} /\ ~Pending(t)
        BY <1>6, ZenonT(60) DEF Register, Outdate, Note
    <2>2. ASSUME NEW p \in People PROVE Consistent(p)'
        <3>1. Consistent(p) /\ held[p] # t
            BY <1>2, <2>1, SMTT(60) DEF Calm, Pending
        <3> QED
            BY <1>1, <2>1, <3>1, SMTT(60) DEF Consistent
    <2>3. ASSUME NEW p \in People PROVE ~CountedOn(p, t)
        <3>1. held[p] # t /\ leaving[p] # t /\ server[p] # t
            BY <2>1 DEF Attached, Pending
        <3>2. ASSUME NEW w \in Workers, op[w].who = p PROVE t # op[w].from /\ t # op[w].to
            BY <2>1, <3>2, NobodyIsNoServer DEF Pending
        <3> QED
            BY <1>a, <3>1, <3>2, ZenonT(60) DEF CountedOn, CountedAt, Between
    <2>4. CountedPlayers(t)' = {}
        BY <1>3, <2>3 DEF CountedPlayers
    <2>5. ASSUME NEW s \in entries' PROVE count'[s] = Cardinality(CountedPlayers(s)')
        <3>1. CASE s = t
            BY <1>4, <2>1, <2>4, <3>1, FS_EmptySet, SMTT(60)
        <3>2. CASE s # t
            <4>1. s \in entries /\ count'[s] = count[s]
                BY <1>4, <2>1, <3>2
            <4>2. CountedPlayers(s)' = CountedPlayers(s)
                BY <1>3 DEF CountedPlayers
            <4> QED
                BY <1>2, <4>1, <4>2 DEF Exact
        <3> QED
            BY <3>1, <3>2
    <2> QED
        BY <1>3, <2>2, <2>5 DEF Calm, Exact
<1> QED
    BY <1>5, <1>6

(* Handlers' steps that work on no player: a reload, and an evacuation as  *)
(* it starts and ends.                                                     *)
LEMMA IdleHandsCalm ==
  ASSUME MgmtTypes, MgmtTypes', CountInv, ~disturbed', NEW w \in Workers,
         \/ ReloadReads(w) \/ ReloadReplaces(w) \/ ReloadPrunes(w)
         \/ EvacuationStarts(w) \/ EvacuationEnds(w)
  PROVE  Calm'
<1>1. ~disturbed /\ UNCHANGED <<stage, login, held, server, leaving>>
    BY Zenon DEF ReloadReads, ReloadReplaces, ReloadPrunes, EvacuationStarts, EvacuationEnds, Note, connVars, CountInv
<1>2. Calm /\ Exact
    BY <1>1 DEF CountInv, Calm
<1>3. op \in [Workers -> OpSet] /\ op' \in [Workers -> OpSet]
    BY ZenonT(60) DEF MgmtTypes
<1>4. /\ \A v \in Workers \ {w} : op'[v] = op[v]
      /\ op[w].who = Nobody /\ op'[w].who = Nobody
    <2>1. WorksAlone(w)
        BY <1>2, SMTT(60) DEF Calm
    <2>2. op[w].who = Nobody
        BY <2>1, Zenon DEF ReloadReads, ReloadReplaces, ReloadPrunes, EvacuationStarts, EvacuationEnds, WorksAlone
    <2>3. ASSUME NEW next, op' = [op EXCEPT ![w] = next], next.who = Nobody
          PROVE  op'[w].who = Nobody /\ \A v \in Workers \ {w} : op'[v] = op[v]
        BY <1>3, <2>3
    <2>7. CASE ReloadReplaces(w)
        <3> DEFINE next == [op[w] EXCEPT !.at = "prune"]
        <3>1. op[w] \in OpSet
            BY <1>3
        <3>2. next.who = Nobody
            BY <2>2, <3>1 DEF OpSet
        <3>3. op' = [op EXCEPT ![w] = next]
            BY <1>3, <2>7 DEF ReloadReplaces
        <3> HIDE DEF next
        <3> QED
            BY <2>2, <2>3, <3>2, <3>3
    <2>4. CASE ReloadPrunes(w) \/ EvacuationEnds(w)
        <3>1. op' = [op EXCEPT ![w] = IdleOp] /\ IdleOp.who = Nobody
            BY <2>4, Zenon DEF ReloadPrunes, EvacuationEnds, IdleOp
        <3> QED
            BY <2>2, <2>3, <3>1, SMTT(60)
    <2>5. CASE ReloadReads(w)
        <3>1. PICK s \in entries :
                op' = [op EXCEPT ![w] = [IdleOp EXCEPT !.kind = "reload", !.from = s, !.read = count[s]]]
            BY <2>5, Zenon DEF ReloadReads
        <3> DEFINE next == [IdleOp EXCEPT !.kind = "reload", !.from = s, !.read = count[s]]
        <3>2. next.who = Nobody
            BY DEF IdleOp
        <3> HIDE DEF next
        <3> QED
            BY <2>2, <2>3, <3>1, <3>2, SMTT(60) DEF next
    <2>6. CASE EvacuationStarts(w)
        <3>1. PICK from \in Names, to \in Names, removes \in BOOLEAN :
                op' = [op EXCEPT ![w] = [IdleOp EXCEPT !.kind = "evacuate", !.from = from, !.to = to,
                                           !.last = removes,
                                           !.todo = {<<p, login[p]>> : p \in {q \in People : stage[q] # "out"}}]]
            BY <2>6, Zenon DEF EvacuationStarts
        <3> DEFINE all == {<<p, login[p]>> : p \in {q \in People : stage[q] # "out"}}
                   next == [IdleOp EXCEPT !.kind = "evacuate", !.from = from, !.to = to,
                                            !.last = removes, !.todo = all]
        <3> HIDE DEF all
        <3>2. next.who = Nobody
            BY DEF IdleOp
        <3>3. op' = [op EXCEPT ![w] = next]
            BY <3>1, SMTT(60) DEF all
        <3> HIDE DEF next
        <3> QED
            BY <2>2, <2>3, <3>2, <3>3, SMTT(60)
    <2> QED
        BY <2>4, <2>5, <2>6, <2>7
<1>5. /\ \A v \in Workers : WorksAlone(v)'
      /\ \A p \in People : \A s : CountedOn(p, s)' <=> CountedOn(p, s)
    <2>1. \A v \in Workers : op'[v].kind \in {"idle", "reload"} => op'[v].who = Nobody
        BY <1>2, <1>4, Zenon DEF Calm, WorksAlone
    <2>2. Nobody \notin People
        BY NobodyIsNoServer, SMTT(60)
    <2> QED
        BY <1>1, <1>2, <1>4, <2>1, <2>2, StillCalm, SMTT(60)
<1>6. /\ entries' \subseteq entries /\ \A s \in entries' : count'[s] = count[s]
      /\ \A p \in People : p \in stale' => p \in stale \/ held[p] \notin entries'
    <2>1. CASE ReloadReads(w) \/ EvacuationStarts(w)
        BY <2>1, ZenonT(60) DEF ReloadReads, EvacuationStarts, regVars, connVars
    <2>2. CASE EvacuationEnds(w)
        <3> DEFINE t == op[w].from
        <3>1. /\ UNCHANGED <<count, held>>
              /\ \/ UNCHANGED <<entries, stale>>
                 \/ entries' = entries \ {t} /\ stale' = stale \cup {p \in People : held[p] \in {t}}
            BY <2>2, ZenonT(60) DEF EvacuationEnds, Outdate
        <3> HIDE DEF t
        <3> QED
            BY ONLY <3>1, ZenonT(60)
    <2>3. CASE ReloadReplaces(w)
        <3> DEFINE t == op[w].from
        <3>1. /\ count' = [count EXCEPT ![t] = op[w].read] /\ count[t] = op[w].read
              /\ t \in entries /\ ~Pending(t)
              /\ entries' = entries \cup {t}
              /\ stale' = stale \cup {p \in People : held[p] \in {t}}
            BY <2>3, ZenonT(60) DEF ReloadReplaces, Note, Outdate
        <3>2. \A p \in People : held[p] # t
            BY <3>1, Zenon DEF Pending
        <3>3. count' = count
            BY <3>1, SMTT(60) DEF MgmtTypes
        <3> QED
            BY <3>1, <3>2, <3>3, ZenonT(60)
    <2>4. CASE ReloadPrunes(w)
        <3>1. /\ count' = count /\ entries' = entries \cap ConfiguredNames
              /\ stale' = stale \cup {p \in People : held[p] \in entries \ ConfiguredNames}
            BY <2>4, ZenonT(60) DEF ReloadPrunes, Outdate
        <3> QED
            BY ONLY <3>1, ZenonT(60)
    <2> QED
        BY <2>1, <2>2, <2>3, <2>4, ZenonT(60)
<1>7. \A p \in People : Consistent(p)'
    BY <1>1, <1>2, <1>6, ZenonT(60) DEF Calm, Consistent
<1>8. Exact'
    <2>1. Exact
        BY <1>2 DEF Calm
    <2> QED
        BY ONLY <1>5, <1>6, <2>1, NobodyMoves, ZenonT(60)
<1> QED
    BY <1>5, <1>7, <1>8, SMTT(60) DEF Calm

(* A step of a handler that has a player to itself.                        *)
LEMMA HandlerMoves ==
  ASSUME MgmtTypes, Calm, NEW w \in Workers, NEW p \in People, stage[p] = "playing",
         \A v \in Workers \ {w} : op'[v] = op[v] /\ op[v].who # p,
         op[w].who \in {p, Nobody}, op'[w].who \in {p, Nobody},
         UNCHANGED <<stage, login, held, stale, leaving, entries>>,
         \A q \in People \ {p} : server'[q] = server[q]
  PROVE  /\ \A v \in Workers \ {w} : WorksAlone(v)'
         /\ \A q \in People : Consistent(q)'
         /\ \A q \in People \ {p}, s \in entries : CountedOn(q, s)' <=> CountedOn(q, s)
         /\ \A s : CountedOn(p, s) <=>
              s = IF ~Between(w, p) THEN server[p] ELSE CountedAt(w)
         /\ \A s : CountedOn(p, s)' <=>
              s = IF ~Between(w, p)' THEN server'[p] ELSE CountedAt(w)'
<1>1. Nobody \notin People
    BY NobodyIsNoServer, ZenonT(60)
<1>2. ASSUME NEW v \in Workers \ {w} PROVE WorksAlone(v)'
    <2>1. WorksAlone(v)
        BY ZenonT(60) DEF Calm
    <2> QED
        BY <1>1, <2>1, SMTT(60) DEF WorksAlone
<1>3. ASSUME NEW q \in People PROVE Consistent(q)'
    <2>1. Consistent(q)
        BY SMTT(60) DEF Calm
    <2> QED
        BY <2>1, Zenon DEF Consistent
<1>4. ASSUME NEW q \in People \ {p} PROVE \A s : CountedOn(q, s)' <=> CountedOn(q, s)
    <2>1. \A v \in Workers : op'[v] = op[v] \/ (op[v].who # q /\ op'[v].who # q)
        BY <1>1, SMTT(60)
    <2> QED
        BY <2>1, UntouchedStay, Zenon
<1>5. \A v \in Workers \ {w} : ~Between(v, p) /\ ~Between(v, p)'
    BY SMTT(60) DEF Between
<1>6. ASSUME NEW s
      PROVE  /\ CountedOn(p, s) <=>
                  s = IF ~Between(w, p) THEN server[p] ELSE CountedAt(w)
             /\ CountedOn(p, s)' <=>
                  s = IF ~Between(w, p)' THEN server'[p] ELSE CountedAt(w)'
    BY <1>5, ZenonT(60) DEF CountedOn
<1> QED
    BY <1>2, <1>3, <1>4, <1>6, ZenonT(60)

(* What is left to show of such a step.                                    *)
LEMMA HandlerCalm ==
  ASSUME MgmtTypes, CountInv, ~disturbed, NEW w \in Workers, NEW p \in People, stage[p] = "playing",
         \A v \in Workers \ {w} : op'[v] = op[v] /\ op[v].who # p,
         op[w].who \in {p, Nobody}, op'[w].who \in {p, Nobody},
         UNCHANGED <<stage, login, held, stale, leaving, entries>>,
         \A q \in People \ {p} : server'[q] = server[q],
         WorksAlone(w)',
         NEW a, NEW b,
         a = IF ~Between(w, p) THEN server[p] ELSE CountedAt(w),
         b = IF ~Between(w, p)' THEN server'[p] ELSE CountedAt(w)',
         \/ count' = Up(Down(count, a), b)
         \/ count' = count /\ a = b
  PROVE  Calm'
<1>1. Calm /\ Exact
    BY SMTT(60) DEF CountInv, Calm
<1>2. /\ \A v \in Workers \ {w} : WorksAlone(v)'
      /\ \A q \in People : Consistent(q)'
      /\ \A q \in People \ {p}, s \in entries : CountedOn(q, s)' <=> CountedOn(q, s)
      /\ \A s : CountedOn(p, s) <=> s = a
      /\ \A s : CountedOn(p, s)' <=> s = b
    BY <1>1, HandlerMoves, ZenonT(60)
<1>3. Exact'
    <2>1. CASE count' = Up(Down(count, a), b)
        <3>1. entries' = entries
            BY SMT
        <3>2. \A s \in entries : CountedOn(p, s) <=> s = a
            BY <1>2, Zenon
        <3>3. \A s \in entries : CountedOn(p, s)' <=> s = b
            BY <1>2, Zenon
        <3>4. \A q \in People \ {p}, s \in entries : CountedOn(q, s)' <=> CountedOn(q, s)
            BY <1>2, Zenon
        <3>5. MgmtTypes /\ Exact
            BY <1>1
        <3> QED
            BY ONLY <2>1, <3>1, <3>2, <3>3, <3>4, <3>5, p \in People, OneMoves, ZenonT(60)
    <2>2. CASE count' = count /\ a = b
        BY <1>1, <1>2, <2>2, NobodyMoves, ZenonT(60)
    <2> QED
        BY <2>1, <2>2, ZenonT(60)
<1> QED
    BY <1>2, <1>3, ZenonT(60) DEF Calm

(* The handler has the player to itself.                                   *)
LEMMA HasAlone ==
  ASSUME Calm, NEW w \in Workers, op[w].who \in People
  PROVE  /\ stage[op[w].who] = "playing"
         /\ \A v \in Workers \ {w} : op[v].who # op[w].who
BY SMTT(60) DEF Calm, WorksAlone

LEMMA TransferStartsCalm ==
  ASSUME MgmtTypes, CountInv, ~disturbed', NEW w \in Workers, TransferStarts(w)
  PROVE  Calm'
<1>1. PICK p \in People, to \in Names, marks \in BOOLEAN :
        /\ op' = [op EXCEPT ![w] = [IdleOp EXCEPT !.kind = "transfer", !.at = "old", !.who = p,
                                      !.from = server[p], !.to = to, !.last = marks]]
        /\ Note(stage[p] # "playing" \/ Busy(p) # {})
    BY Zenon DEF TransferStarts
<1>2. ~disturbed /\ stage[p] = "playing" /\ Busy(p) = {}
    BY <1>1, Zenon DEF Note, CountInv
<1> DEFINE next == [IdleOp EXCEPT !.kind = "transfer", !.at = "old", !.who = p,
                                    !.from = server[p], !.to = to, !.last = marks]
<1>3. next.kind = "transfer" /\ next.at = "old" /\ next.who = p /\ next.from = server[p]
    BY DEF IdleOp
<1>4. op' = [op EXCEPT ![w] = next]
    BY <1>1, SMTT(60)
<1> HIDE DEF next
<1>5. op'[w] = next /\ \A v \in Workers \ {w} : op'[v] = op[v] /\ op[v].who # p
    BY <1>2, <1>4 DEF MgmtTypes, Busy
<1>6. op[w].who = Nobody
    BY <1>2 DEF TransferStarts, CountInv, Calm, WorksAlone
<1>7. UNCHANGED <<stage, login, held, stale, server, leaving, entries, count>>
    BY DEF TransferStarts, connVars, regVars
<1>8. WorksAlone(w)'
    BY <1>2, <1>3, <1>5, <1>7, ZenonT(60) DEF WorksAlone
<1>9. ~Between(w, p) /\ ~Between(w, p)'
    BY <1>3, <1>5, <1>6, NobodyIsNoServer, Zenon DEF Between
<1> QED
    BY <1>2, <1>3, <1>5, <1>6, <1>7, <1>8, <1>9, HandlerCalm, ZenonT(60)

LEMMA TransferCalm ==
  ASSUME MgmtTypes, CountInv, ~disturbed', NEW w \in Workers,
         TransferTakes(w) \/ TransferAdds(w) \/ TransferNames(w) \/ TransferEnds(w)
  PROVE  Calm'
<1>1. ~disturbed /\ op[w].kind = "transfer"
    BY DEF TransferTakes, TransferAdds, TransferNames, TransferEnds
<1>a. PICK p \in People : p = op[w].who
    BY <1>1 DEF MgmtTypes
<1>2. Calm /\ WorksAlone(w) /\ op[w] \in OpSet
    BY <1>1 DEF CountInv, Calm, MgmtTypes
<1>3. stage[p] = "playing" /\ \A v \in Workers \ {w} : op[v].who # p
    BY <1>2, <1>a, HasAlone
<1>4. UNCHANGED <<stage, login, held, stale, leaving, entries>>
    BY SMTT(60) DEF TransferTakes, TransferAdds, TransferNames, TransferEnds, connVars, regVars
<1>5. CASE TransferTakes(w)
    <2>1. op[w].at = "old" /\ server' = server /\ count' = Down(count, op[w].from)
        BY <1>5 DEF TransferTakes, connVars
    <2>2. /\ op'[w].kind = "transfer" /\ op'[w].at = "new" /\ op'[w].who = p
          /\ op'[w].from = op[w].from /\ op'[w].to = op[w].to
          /\ \A v \in Workers \ {w} : op'[v] = op[v]
        BY <1>a, <1>1, <1>2, <1>5, SMTT(60) DEF TransferTakes, MgmtTypes, OpSet
    <2>3. server[p] = op[w].from
        BY <1>a, <1>1, <1>2, <2>1, ZenonT(60) DEF WorksAlone
    <2>4. WorksAlone(w)'
        <3>1. server'[p] = op'[w].from /\ stage'[p] = "playing"
            BY <1>3, <1>4, <2>1, <2>2, <2>3, Zenon
        <3>2. \A v \in Workers : op'[v].who = p => v = w
            BY <1>3, <2>2, Zenon
        <3> QED
            BY <2>2, <3>1, <3>2, Zenon DEF WorksAlone
    <2>5. ~Between(w, p) /\ Between(w, p)'
        BY <1>a, <1>1, <2>1, <2>2, ZenonT(60) DEF Between
    <2>6. CountedAt(w)' = Nobody /\ count' = Up(Down(count, op[w].from), Nobody)
        BY <2>1, <2>2, NobodyIsNoServer DEF CountedAt, Up
    <2> QED
        BY <1>a, <1>1, <1>2, <1>3, <1>4, <2>1, <2>2, <2>3, <2>4, <2>5, <2>6, HandlerCalm, ZenonT(60)
<1>8. CASE TransferAdds(w)
    <2>1. op[w].at = "new" /\ server' = server /\ count' = Up(count, op[w].to)
        BY <1>8 DEF TransferAdds, connVars
    <2>2. /\ op'[w].kind = "transfer" /\ op'[w].at = "name" /\ op'[w].who = p
          /\ op'[w].from = op[w].from /\ op'[w].to = op[w].to
          /\ \A v \in Workers \ {w} : op'[v] = op[v]
        BY <1>a, <1>1, <1>2, <1>8, SMTT(60) DEF TransferAdds, MgmtTypes, OpSet
    <2>3. server[p] = op[w].from
        BY <1>a, <1>1, <1>2, <2>1, ZenonT(60) DEF WorksAlone
    <2>4. WorksAlone(w)'
        <3>1. server'[p] = op'[w].from /\ stage'[p] = "playing"
            BY <1>3, <1>4, <2>1, <2>2, <2>3, Zenon
        <3>2. \A v \in Workers : op'[v].who = p => v = w
            BY <1>3, <2>2, Zenon
        <3> QED
            BY <2>2, <3>1, <3>2, Zenon DEF WorksAlone
    <2>5. Between(w, p) /\ Between(w, p)'
        BY <1>a, <1>1, <2>1, <2>2, ZenonT(60) DEF Between
    <2>6. /\ CountedAt(w) = Nobody /\ CountedAt(w)' = op[w].to
          /\ count' = Up(Down(count, Nobody), op[w].to)
        BY <2>1, <2>2, NobodyIsNoServer DEF CountedAt, Down
    <2> QED
        BY <1>a, <1>1, <1>2, <1>3, <1>4, <2>1, <2>2, <2>4, <2>5, <2>6, HandlerCalm, ZenonT(60)
<1>6. CASE TransferNames(w)
    <2>1. op[w].at = "name" /\ server' = [server EXCEPT ![p] = op[w].to] /\ count' = count
        BY <1>a, <1>6 DEF TransferNames, regVars
    <2>2. /\ op'[w].kind = "transfer" /\ op'[w].at = "mark" /\ op'[w].who = p
          /\ op'[w].from = op[w].from /\ op'[w].to = op[w].to
          /\ \A v \in Workers \ {w} : op'[v] = op[v]
        BY <1>a, <1>1, <1>2, <1>6, SMTT(60) DEF TransferNames, MgmtTypes, OpSet
    <2>3. server'[p] = op[w].to /\ \A q \in People \ {p} : server'[q] = server[q]
        BY <1>a, <1>2, <2>1, ZenonT(60) DEF MgmtTypes
    <2>4. WorksAlone(w)'
        BY <1>a, <1>3, <1>4, <2>2, <2>3, ZenonT(60) DEF WorksAlone
    <2>5. Between(w, p) /\ ~Between(w, p)' /\ CountedAt(w) = op[w].to
        BY <1>a, <1>1, <2>1, <2>2, SMTT(60) DEF Between, CountedAt
    <2> QED
        BY <1>a, <1>1, <1>2, <1>3, <1>4, <2>1, <2>2, <2>3, <2>4, <2>5, HandlerCalm, ZenonT(60)
<1>7. CASE TransferEnds(w)
    <2>1. op[w].at = "mark" /\ server' = server /\ count' = count
        BY <1>7, SMTT(60) DEF TransferEnds, regVars
    <2>2. op'[w] = IdleOp /\ IdleOp.who = Nobody /\ \A v \in Workers \ {w} : op'[v] = op[v]
        BY <1>7, ZenonT(60) DEF TransferEnds, MgmtTypes, IdleOp
    <2>3. WorksAlone(w)'
        BY <2>2, NobodyIsNoServer, ZenonT(60) DEF WorksAlone, IdleOp
    <2>4. ~Between(w, p) /\ ~Between(w, p)'
        BY <1>a, <1>1, <1>2, <2>1, <2>2, NobodyIsNoServer, ZenonT(60) DEF Between
    <2> QED
        BY <1>a, <1>1, <1>2, <1>3, <1>4, <2>1, <2>2, <2>3, <2>4, HandlerCalm, ZenonT(60)
<1> QED
    BY <1>5, <1>6, <1>7, <1>8

LEMMA EvacuationReadsCalm ==
  ASSUME MgmtTypes, CountInv, ~disturbed', NEW w \in Workers, EvacuationReads(w)
  PROVE  Calm'
<1>1. op[w] \in OpSet /\ op[w].kind = "evacuate" /\ op[w].who = Nobody
    BY SMTT(60) DEF MgmtTypes, EvacuationReads
<1>2. PICK e \in op[w].todo :
        /\ op' = [op EXCEPT ![w].todo = @ \ {e},
                    ![w].who = IF Alive(e[1], e[2]) /\ server[e[1]] = op[w].from THEN e[1] ELSE Nobody,
                    ![w].read = IF Alive(e[1], e[2]) /\ server[e[1]] = op[w].from THEN e[2] ELSE 0,
                    ![w].at = IF Alive(e[1], e[2]) /\ server[e[1]] = op[w].from THEN "name" ELSE "start"]
        /\ Note(Alive(e[1], e[2]) /\ server[e[1]] = op[w].from /\ (stage[e[1]] # "playing" \/ Busy(e[1]) # {}))
    BY Zenon DEF EvacuationReads
<1>3. PICK p \in People, l \in Nat : e = <<p, l>>
    BY <1>1, <1>2 DEF OpSet
<1> DEFINE onIt == Alive(p, l) /\ server[p] = op[w].from
           next == [op[w] EXCEPT !.todo = @ \ {e}, !.who = IF onIt THEN p ELSE Nobody,
                                 !.read = IF onIt THEN l ELSE 0, !.at = IF onIt THEN "name" ELSE "start"]
<1>4. op' = [op EXCEPT ![w] = next]
    BY <1>1, <1>2, <1>3, Zenon DEF MgmtTypes
<1>5. /\ next.kind = "evacuate" /\ next.from = op[w].from /\ next.to = op[w].to
      /\ onIt => next.who = p /\ next.read = l /\ next.at = "name"
      /\ ~onIt => next.who = Nobody
    BY <1>1, <1>3, ZenonT(60) DEF OpSet
<1>6. ~disturbed /\ (onIt => stage[p] = "playing" /\ Busy(p) = {} /\ login[p] = l)
    BY <1>2, <1>3, Zenon DEF Note, CountInv, Alive
<1> HIDE DEF next, onIt
<1>7. op'[w] = next /\ \A v \in Workers \ {w} : op'[v] = op[v]
    BY <1>4 DEF MgmtTypes
<1>8. UNCHANGED <<stage, login, held, stale, server, leaving, entries, count>>
    BY SMTT(60) DEF EvacuationReads, connVars, regVars
<1>9. Calm /\ Exact
    BY <1>6, SMTT(60) DEF CountInv, Calm
<1>10. CASE onIt
    <2>1. \A v \in Workers \ {w} : op'[v] = op[v] /\ op[v].who # p
        BY <1>6, <1>7, <1>10, ZenonT(60) DEF Busy
    <2>2. WorksAlone(w)'
        BY <1>5, <1>6, <1>7, <1>8, <1>10, <2>1, ZenonT(60) DEF WorksAlone, onIt
    <2>3. ~Between(w, p) /\ ~Between(w, p)'
        BY <1>1, <1>5, <1>7, <1>10, NobodyIsNoServer, ZenonT(60) DEF Between
    <2> QED
        BY <1>1, <1>5, <1>6, <1>7, <1>8, <1>10, <2>1, <2>2, <2>3, HandlerCalm, ZenonT(60)
<1>11. CASE ~onIt
    <2>1. \A v \in Workers : op'[v].kind \in {"idle", "reload"} => op'[v].who = Nobody
        BY <1>5, <1>7, <1>9, ZenonT(60) DEF Calm, WorksAlone
    <2>2. /\ \A v \in Workers : WorksAlone(v)'
          /\ \A q \in People : \A s : CountedOn(q, s)' <=> CountedOn(q, s)
        BY <1>1, <1>5, <1>7, <1>8, <1>9, <1>11, <2>1, StillCalm, NobodyIsNoServer, ZenonT(60)
    <2>3. Exact'
        BY <1>8, <1>9, <2>2, NobodyMoves, Zenon
    <2> QED
        BY <1>8, <1>9, <2>2, <2>3, ZenonT(60) DEF Calm, Consistent
<1> QED
    BY <1>10, <1>11

LEMMA EvacuationCalm ==
  ASSUME MgmtTypes, CountInv, ~disturbed', NEW w \in Workers,
         EvacuationNames(w) \/ EvacuationTakes(w) \/ EvacuationAdds(w)
  PROVE  Calm'
<1>1. ~disturbed /\ op[w].kind = "evacuate" /\ op[w].who # Nobody
    BY ONLY ~disturbed', EvacuationNames(w) \/ EvacuationTakes(w) \/ EvacuationAdds(w), SMTT(60)
    DEF EvacuationNames, EvacuationTakes, EvacuationAdds
<1>2. Calm /\ WorksAlone(w) /\ op[w] \in OpSet
    BY <1>1, SMTT(60) DEF CountInv, Calm, MgmtTypes
<1>3. PICK p \in People : p = op[w].who
    BY <1>1, <1>2, ZenonT(60) DEF OpSet
<1>4. stage[p] = "playing" /\ \A v \in Workers \ {w} : op[v].who # p
    BY <1>2, <1>3, HasAlone
<1>5. UNCHANGED <<stage, login, held, stale, leaving, entries>>
    BY SMTT(60) DEF EvacuationNames, EvacuationTakes, EvacuationAdds, connVars, regVars
<1>6. CASE EvacuationNames(w)
    <2>1. op[w].at = "name" /\ count' = count
        BY <1>6, SMTT(60) DEF EvacuationNames, regVars
    <2>2. server[p] = op[w].from /\ op[w].read = login[p]
        BY <1>1, <1>2, <1>3, <2>1, Zenon DEF WorksAlone
    <2>3. server' = [server EXCEPT ![p] = op[w].to]
        BY <1>3, <1>4, <1>6, <2>2, ZenonT(60) DEF EvacuationNames, Alive
    <2>4. server'[p] = op[w].to /\ \A q \in People \ {p} : server'[q] = server[q]
        BY <2>3 DEF MgmtTypes
    <2>5. /\ op'[w].kind = "evacuate" /\ op'[w].at = "count" /\ op'[w].who = p
          /\ op'[w].from = op[w].from /\ op'[w].to = op[w].to
          /\ \A v \in Workers \ {w} : op'[v] = op[v]
        BY <1>1, <1>2, <1>3, <1>6, ZenonT(60) DEF EvacuationNames, MgmtTypes, OpSet
    <2>6. WorksAlone(w)'
        BY ONLY <1>4, <1>5, <2>4, <2>5, SMTT(60) DEF WorksAlone
    <2>7. ~Between(w, p) /\ Between(w, p)' /\ CountedAt(w)' = op[w].from
        BY <1>1, <2>1, <2>5, ZenonT(60) DEF Between, CountedAt
    <2> QED
        BY <1>1, <1>3, <1>4, <1>5, <2>1, <2>2, <2>4, <2>5, <2>6, <2>7, HandlerCalm, ZenonT(60)
<1>7. CASE EvacuationTakes(w)
    <2>1. op[w].at = "count" /\ server' = server /\ count' = Down(count, op[w].from)
        BY <1>7, SMTT(60) DEF EvacuationTakes, connVars
    <2>2. server[p] = op[w].to
        BY <1>1, <1>2, <1>3, <2>1, Zenon DEF WorksAlone
    <2>3. /\ op'[w].kind = "evacuate" /\ op'[w].at = "add" /\ op'[w].who = p
          /\ op'[w].from = op[w].from /\ op'[w].to = op[w].to
          /\ \A v \in Workers \ {w} : op'[v] = op[v]
        BY <1>1, <1>2, <1>3, <1>7, ZenonT(60) DEF EvacuationTakes, MgmtTypes, OpSet
    <2>4. WorksAlone(w)'
        <3>1. server'[p] = op[w].to
            BY <2>1, <2>2
        <3> QED
            BY ONLY <1>4, <1>5, <2>3, <3>1, SMTT(60) DEF WorksAlone
    <2>5. /\ Between(w, p) /\ CountedAt(w) = op[w].from
          /\ Between(w, p)' /\ CountedAt(w)' = Nobody
        BY <1>1, <1>3, <2>1, <2>3, Zenon DEF Between, CountedAt
    <2>6. count' = Up(Down(count, op[w].from), Nobody)
        BY <2>1, NobodyIsNoServer DEF Up
    <2> QED
        BY <1>1, <1>3, <1>4, <1>5, <2>1, <2>3, <2>4, <2>5, <2>6, HandlerCalm, ZenonT(60)
<1>8. CASE EvacuationAdds(w)
    <2>1. op[w].at = "add" /\ server' = server /\ count' = Up(count, op[w].to)
        BY <1>8, SMTT(60) DEF EvacuationAdds, connVars
    <2>2. server[p] = op[w].to
        BY <1>1, <1>2, <1>3, <2>1, Zenon DEF WorksAlone
    <2>3. /\ op'[w].kind = "evacuate" /\ op'[w].who = Nobody
          /\ \A v \in Workers \ {w} : op'[v] = op[v]
        BY <1>1, <1>2, <1>8, SMTT(60) DEF EvacuationAdds, MgmtTypes, OpSet
    <2>4. WorksAlone(w)'
        BY <2>3, NobodyIsNoServer, ZenonT(60) DEF WorksAlone
    <2>5. Between(w, p) /\ CountedAt(w) = Nobody /\ ~Between(w, p)'
        BY <1>1, <1>3, <2>1, <2>3, NobodyIsNoServer, Zenon DEF Between, CountedAt
    <2>6. count' = Up(Down(count, Nobody), op[w].to)
        BY <2>1, NobodyIsNoServer DEF Down
    <2> QED
        BY <1>1, <1>3, <1>4, <1>5, <2>1, <2>2, <2>3, <2>4, <2>5, <2>6, HandlerCalm, ZenonT(60)
<1> QED
    BY <1>6, <1>7, <1>8

LEMMA CountHoldsFirst == MgmtInit => CountInv
<1> SUFFICES ASSUME MgmtInit PROVE CountInv
    OBVIOUS
<1>1. \A w \in Workers : op[w] = IdleOp /\ op[w].kind = "idle" /\ op[w].who = Nobody
    BY Zenon DEF MgmtInit, IdleOp
<1>2. MgmtTypes
    BY MgmtInvHoldsFirst, SMTT(60) DEF MgmtInv
<1>3. \A w \in Workers : WorksAlone(w)
    BY <1>1, <1>2, NobodyIsNoServer, SMTT(60) DEF WorksAlone
<1>4. \A p \in People : Consistent(p)
    BY ZenonT(60) DEF MgmtInit, Consistent
<1>5. \A s : CountedPlayers(s) = {}
    BY SMTT(60) DEF MgmtInit, CountedPlayers, CountedOn
<1>6. Exact
    BY <1>2, <1>5, FS_EmptySet DEF Exact, MgmtInit, MgmtTypes
<1> QED
    BY <1>3, <1>4, <1>6, Zenon DEF CountInv, Calm, MgmtInit

LEMMA CountStep == MgmtInv /\ MgmtInv' /\ CountInv /\ [MgmtNext]_mgmtVars => CountInv'
<1> SUFFICES ASSUME MgmtInv, MgmtInv', CountInv, [MgmtNext]_mgmtVars PROVE CountInv'
    OBVIOUS
<1>1. MgmtTypes /\ MgmtTypes'
    BY DEF MgmtInv
<1>2. leaving' \in [People -> Names \cup {Nobody}] /\ disturbed' \in BOOLEAN
    <2>1. /\ leaving \in [People -> Names \cup {Nobody}] /\ disturbed \in BOOLEAN
          /\ server \in [People -> Names \cup {Nobody}]
        BY <1>1 DEF CountInv, MgmtTypes
    <2>2. disturbed' \in BOOLEAN
        <3>1. ASSUME NEW b, Note(b) PROVE disturbed' \in BOOLEAN
            BY <3>1, ZenonT(60) DEF Note
        <3>2. CASE \E p \in People : Connection(p)
            BY <2>1, <3>1, <3>2, SMTT(60) DEF Connection, Enter, CountJoin, NameJoin, EndRelay, GiveBack, ClearName,
               WaitForMap, DropSession
        <3>3. CASE \E s \in Names : Register(s) \/ StatusCount(s)
            BY <3>1, <3>3 DEF Register, StatusCount
        <3>4. ASSUME NEW w \in Workers, Handler(w) PROVE disturbed' \in BOOLEAN
            <4>1. CASE TransferStarts(w) \/ EvacuationReads(w) \/ ReloadReplaces(w)
                BY <3>1, <4>1, ZenonT(60) DEF TransferStarts, EvacuationReads, ReloadReplaces
            <4>2. CASE ~(TransferStarts(w) \/ EvacuationReads(w) \/ ReloadReplaces(w))
                BY <2>1, <3>4, <4>2, ZenonT(60) DEF Handler, Continues, TransferTakes, TransferAdds, TransferNames, TransferEnds, EvacuationStarts,
                   EvacuationNames, EvacuationTakes, EvacuationAdds, EvacuationEnds, ReloadReads, ReloadPrunes
            <4> QED
                BY <4>1, <4>2, SMTT(60)
        <3>5. CASE UNCHANGED mgmtVars
            BY <2>1, <3>5, SMTT(60) DEF mgmtVars
        <3> QED
            BY <3>2, <3>3, <3>4, <3>5 DEF MgmtNext
    <2>3. leaving' = leaving \/ \E p \in People : leaving' = [leaving EXCEPT ![p] = Nobody]
                               \/ leaving' = [leaving EXCEPT ![p] = server[p]]
        BY ZenonT(60) DEF MgmtNext, Connection, Enter, CountJoin, NameJoin, EndRelay, GiveBack, ClearName,
           WaitForMap, DropSession, Register, StatusCount, Handler, Continues, TransferStarts, TransferTakes, TransferAdds, TransferNames,
           TransferEnds, EvacuationStarts, EvacuationReads, EvacuationNames, EvacuationTakes, EvacuationAdds,
           EvacuationEnds, ReloadReads, ReloadReplaces, ReloadPrunes, mgmtVars, connVars
    <2>4. leaving' \in [People -> Names \cup {Nobody}]
        BY <2>1, <2>3
    <2> QED
        BY <2>2, <2>4, SMTT(60)
<1>3. ASSUME ~disturbed' PROVE Calm'
    <2>1. CASE \E p \in People : Connection(p)
        BY <1>1, <1>3, <2>1, ConnectionCalm
    <2>2. CASE \E s \in Names : Register(s) \/ StatusCount(s)
        BY <1>1, <1>3, <2>2, RegistryCalm, SMTT(60)
    <2>3. ASSUME NEW w \in Workers, Handler(w) PROVE Calm'
        BY <1>1, <1>3, <2>3, IdleHandsCalm, TransferStartsCalm, TransferCalm, EvacuationReadsCalm,
           EvacuationCalm, SMTT(60) DEF Handler, Continues
    <2>4. CASE UNCHANGED mgmtVars
        <3>1. /\ Calm /\ UNCHANGED <<stage, login, held, server, leaving, stale, entries, count, op>>
            BY <1>3, <2>4, SMTT(60) DEF mgmtVars, connVars, regVars, CountInv
        <3>2. \A w \in Workers : op'[w].kind \in {"idle", "reload"} => op'[w].who = Nobody
            BY <3>1, ZenonT(60) DEF Calm, WorksAlone
        <3>3. /\ \A w \in Workers : WorksAlone(w)'
              /\ \A p \in People : \A s : CountedOn(p, s)' <=> CountedOn(p, s)
            BY <3>1, <3>2, StillCalm, SMTT(60)
        <3>4. Exact'
            BY <3>1, <3>3, NobodyMoves DEF Calm
        <3> QED
            BY <3>1, <3>3, <3>4, ZenonT(60) DEF Calm, Consistent
    <2> QED
        BY <2>1, <2>2, <2>3, <2>4 DEF MgmtNext
<1> QED
    BY <1>2, <1>3 DEF CountInv

(* player_count is exact once everything has settled, whatever order the   *)
(* lock sections of transfers, evacuations, joins and leaves took, and as  *)
(* long as none of the listed disturbances has happened: for every number  *)
(* of players, servers and handlers.                                       *)
THEOREM CountsStayExact == MgmtSpec => []CountsExactUnlessDisturbed
<1>1. MgmtInv /\ CountInv => CountsExactUnlessDisturbed
    <2> SUFFICES ASSUME MgmtInv, CountInv, Settled, ~disturbed, NEW s \in entries
                 PROVE  count[s] = Cardinality(Attached(s))
        BY DEF CountsExactUnlessDisturbed
    <2>1. MgmtTypes /\ Calm
        BY SMTT(60) DEF MgmtInv, CountInv
    <2>2. \A w \in Workers, p \in People : ~Between(w, p)
        BY <2>1, NobodyIsNoServer, SMTT(60) DEF Calm, WorksAlone, Settled, Between
    <2>3. \A p \in People : CountedOn(p, s) <=> server[p] = s
        BY <2>1, <2>2, NobodyIsNoServer, Zenon DEF CountedOn, Settled, Calm, Consistent
    <2>4. CountedPlayers(s) = Attached(s)
        BY <2>3 DEF CountedPlayers, Attached
    <2> QED
        BY <2>1, <2>4 DEF Calm, Exact
<1> QED
    BY <1>1, CountHoldsFirst, CountStep, MgmtInvHoldsFirst, MgmtStepKeeps, PTL DEF MgmtSpec
=============================================================================
