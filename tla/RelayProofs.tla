---------------------------- MODULE RelayProofs ----------------------------
(* The backend's packets reach the client in order, for every number of     *)
(* packets and every capacity of the batch.                                 *)
EXTENDS Relay, SequenceTheorems, TLAPS

Shown(p) == p.kind \in {"plain", "direct"}

(* Packets as BackendSends makes them.                                      *)
Numbered == {p \in Packets : Shown(p) <=> p.n # 0}

(* What has been sent and not been read.                                    *)
Queue == buffer \o socket

Consecutive(s, base) == \A i \in 1..Len(s) : s[i] = base + i

(* The number of the last packet that was read.                             *)
Last == Len(wire) + Len(pending) + (IF Shown(held) THEN 1 ELSE 0)

Types ==
  /\ pc \in [Loops -> {"top", "parked", "busy", "done"}]
  /\ wire \in Seq(Nat) /\ pending \in Seq(Nat)
  /\ buffer \in Seq(Numbered) /\ socket \in Seq(Numbered)
  /\ held \in Numbered \cup {NoPacket}
  /\ pc["s2c"] # "busy" => held = NoPacket
  /\ visible \in Nat /\ gone \in BOOLEAN

WrittenInOrder ==
  /\ Consecutive(wire, 0)
  /\ Consecutive(pending, Len(wire))

(* The numbers after the last one read are in the queue, each once, in      *)
(* order; nothing else is.                                                  *)
QueueFrom(last, q, count) ==
  /\ last <= count
  /\ \A i \in 1..Len(q) : Shown(q[i]) => last < q[i].n /\ q[i].n <= count
  /\ \A i, j \in 1..Len(q) : i < j /\ Shown(q[i]) /\ Shown(q[j]) => q[i].n < q[j].n
  /\ \A k \in (last + 1)..count : \E i \in 1..Len(q) : Shown(q[i]) /\ q[i].n = k

(* The inductive invariant.                                                 *)
RelayInv ==
  /\ Types
  /\ WrittenInOrder
  /\ pc["s2c"] # "done" =>
       /\ Shown(held) => held.n = Len(wire) + Len(pending) + 1
       /\ QueueFrom(Last, Queue, visible)

(* Once s2c has ended well, what the client has not got is in the queue,    *)
(* and stays there: nobody reads it any more.                               *)
ExitInv ==
  /\ result \in [Loops -> {"none", "ok", "err"}]
  /\ result["s2c"] = "ok" => pc["s2c"] = "done"
  /\ result["s2c"] = "ok" /\ ~gone => pending = <<>> /\ QueueFrom(Len(wire), Queue, visible)

-----------------------------------------------------------------------------
(* Reading and sending on the queue.                                        *)

(* buffer and socket are one queue: BackendSends appends to it ...          *)
LEMMA SendAppends ==
  ASSUME NEW b \in Seq(Numbered), NEW s \in Seq(Numbered), NEW p \in Numbered
  PROVE  b \o Append(s, p) = Append(b \o s, p)
<1>1. /\ Append(s, p) = s \o <<p>>
      /\ Append(b \o s, p) = (b \o s) \o <<p>>
  BY AppendIsConcat, ConcatProperties
<1>2. <<p>> \in Seq(Numbered)
  OBVIOUS
<1> QED
  BY <1>1, <1>2, ConcatAssociative

(* ... and S2cRead takes its head, whichever of the two it comes from.      *)
LEMMA ReadTakesHead ==
  ASSUME NEW b \in Seq(Numbered), NEW s \in Seq(Numbered), b # <<>>
  PROVE  Head(b \o s) = Head(b) /\ Tail(b) \o s = Tail(b \o s)
<1>1. /\ Len(b) \in Nat \ {0} /\ Len(s) \in Nat
      /\ b \o s \in Seq(Numbered) /\ Len(b \o s) = Len(b) + Len(s)
      /\ b \o s # <<>>
  BY EmptySeq, LenProperties, ConcatProperties
<1>2. /\ Tail(b) \in Seq(Numbered) /\ Len(Tail(b)) = Len(b) - 1
      /\ \A i \in 1..(Len(b) - 1) : Tail(b)[i] = b[i + 1]
  BY HeadTailProperties
<1>3. /\ Tail(b \o s) \in Seq(Numbered) /\ Len(Tail(b \o s)) = Len(b) + Len(s) - 1
      /\ \A i \in 1..(Len(b) + Len(s) - 1) : Tail(b \o s)[i] = (b \o s)[i + 1]
  BY <1>1, HeadTailProperties
<1>4. /\ Tail(b) \o s \in Seq(Numbered) /\ Len(Tail(b) \o s) = Len(b) - 1 + Len(s)
      /\ \A i \in 1..(Len(b) - 1 + Len(s)) :
            (Tail(b) \o s)[i] = IF i <= Len(b) - 1 THEN Tail(b)[i] ELSE s[i - (Len(b) - 1)]
  BY <1>2, ConcatProperties
<1>5. \A i \in 1..(Len(b) + Len(s)) : (b \o s)[i] = IF i <= Len(b) THEN b[i] ELSE s[i - Len(b)]
  BY ConcatProperties
<1>6. ASSUME NEW i \in 1..(Len(b) + Len(s) - 1)
      PROVE  (Tail(b) \o s)[i] = Tail(b \o s)[i]
  <2>1. Tail(b \o s)[i] = IF i + 1 <= Len(b) THEN b[i + 1] ELSE s[i + 1 - Len(b)]
    BY <1>1, <1>3, <1>5
  <2>2. (Tail(b) \o s)[i] = IF i <= Len(b) - 1 THEN b[i + 1] ELSE s[i - (Len(b) - 1)]
    BY <1>1, <1>2, <1>4
  <2> QED
    BY <1>1, <2>1, <2>2
<1>7. Tail(b) \o s = Tail(b \o s)
  BY <1>1, <1>3, <1>4, <1>6, SeqEqual, SMTT(60)
<1>8. Head(b \o s) = Head(b)
  BY <1>1, <1>5
<1> QED
  BY <1>7, <1>8

(* The head of the queue, if it is for the client, has the next number.     *)
LEMMA HeadIsNext ==
  ASSUME NEW q \in Seq(Numbered), q # <<>>, NEW last \in Nat, NEW count \in Nat,
         QueueFrom(last, q, count)
  PROVE  /\ Head(q) \in Numbered /\ Tail(q) \in Seq(Numbered)
         /\ Shown(Head(q)) => Head(q).n = last + 1 /\ QueueFrom(last + 1, Tail(q), count)
         /\ ~Shown(Head(q)) => QueueFrom(last, Tail(q), count)
<1>1. /\ Head(q) = q[1] /\ Len(q) \in Nat \ {0}
      /\ Head(q) \in Numbered /\ Tail(q) \in Seq(Numbered) /\ Len(Tail(q)) = Len(q) - 1
      /\ \A i \in 1..(Len(q) - 1) : Tail(q)[i] = q[i + 1]
  BY EmptySeq, HeadTailProperties
<1>2. \A i \in 1..Len(q) : q[i] \in Numbered /\ q[i].n \in Nat
  BY ElementOfSeq DEF Numbered, Packets
<1>3. ASSUME Shown(Head(q)) PROVE Head(q).n = last + 1
  <2>1. last < q[1].n /\ q[1].n <= count
    BY <1>1, <1>3 DEF QueueFrom
  <2>2. PICK i \in 1..Len(q) : Shown(q[i]) /\ q[i].n = last + 1
    BY <2>1, <1>1, <1>2 DEF QueueFrom
  <2>3. i = 1 \/ q[1].n < q[i].n
    BY <2>2, <1>1, <1>3 DEF QueueFrom
  <2> QED
    BY <2>1, <2>2, <2>3, <1>1, <1>2
<1>4. ASSUME NEW l \in {last, last + 1}, l <= count,
             \A i \in 1..Len(q) : i # 1 /\ Shown(q[i]) => l < q[i].n,
             \A k \in (l + 1)..count : \E i \in 2..Len(q) : Shown(q[i]) /\ q[i].n = k
      PROVE  QueueFrom(l, Tail(q), count)
  <2>1. \A i \in 1..Len(Tail(q)) : i + 1 \in 1..Len(q) /\ Tail(q)[i] = q[i + 1]
    BY <1>1
  <2>2. \A i \in 1..Len(Tail(q)) : Shown(Tail(q)[i]) => l < Tail(q)[i].n /\ Tail(q)[i].n <= count
    BY <2>1, <1>4, <1>1 DEF QueueFrom
  <2>3. \A i, j \in 1..Len(Tail(q)) :
           i < j /\ Shown(Tail(q)[i]) /\ Shown(Tail(q)[j]) => Tail(q)[i].n < Tail(q)[j].n
    BY <2>1, <1>1 DEF QueueFrom
  <2>4. ASSUME NEW k \in (l + 1)..count
        PROVE  \E i \in 1..Len(Tail(q)) : Shown(Tail(q)[i]) /\ Tail(q)[i].n = k
    <3>1. PICK i \in 2..Len(q) : Shown(q[i]) /\ q[i].n = k
      BY <1>4
    <3>2. i - 1 \in 1..Len(Tail(q)) /\ Tail(q)[i - 1] = q[i]
      BY <1>1
    <3> QED
      BY <3>1, <3>2, SMTT(60)
  <2> QED
    BY <1>4, <2>2, <2>3, <2>4 DEF QueueFrom
<1>5. ASSUME Shown(Head(q)) PROVE QueueFrom(last + 1, Tail(q), count)
  <2>1. q[1].n = last + 1 /\ last + 1 <= count
    BY <1>1, <1>3, <1>5 DEF QueueFrom
  <2>2. \A i \in 1..Len(q) : i # 1 /\ Shown(q[i]) => last + 1 < q[i].n
    BY <2>1, <1>1, <1>2, <1>5 DEF QueueFrom
  <2>3. ASSUME NEW k \in (last + 2)..count
        PROVE  \E i \in 2..Len(q) : Shown(q[i]) /\ q[i].n = k
    <3>1. k \in (last + 1)..count
      OBVIOUS
    <3>2. PICK i \in 1..Len(q) : Shown(q[i]) /\ q[i].n = k
      BY <3>1 DEF QueueFrom
    <3>3. i # 1
      BY <3>2, <2>1
    <3> QED
      BY <3>2, <3>3, <1>1
  <2> QED
    BY <2>1, <2>2, <2>3, <1>4
<1>6. ASSUME ~Shown(Head(q)) PROVE QueueFrom(last, Tail(q), count)
  <2>1. \A i \in 1..Len(q) : i # 1 /\ Shown(q[i]) => last < q[i].n
    BY DEF QueueFrom
  <2>2. ASSUME NEW k \in (last + 1)..count
        PROVE  \E i \in 2..Len(q) : Shown(q[i]) /\ q[i].n = k
    <3>1. PICK i \in 1..Len(q) : Shown(q[i]) /\ q[i].n = k
      BY DEF QueueFrom
    <3>2. i # 1
      BY <3>1, <1>1, <1>6
    <3> QED
      BY <3>1, <3>2, <1>1
  <2>3. last <= count
    BY DEF QueueFrom
  <2> QED
    BY <2>1, <2>2, <2>3, <1>4
<1> QED
  BY <1>1, <1>3, <1>5, <1>6

(* A packet that the backend sends is the last of the queue.                *)
LEMMA SendExtends ==
  ASSUME NEW q \in Seq(Numbered), NEW last \in Nat, NEW count \in Nat,
         QueueFrom(last, q, count), NEW p \in Numbered, p.n \in {0, count + 1}
  PROVE  /\ p.n = 0 => QueueFrom(last, Append(q, p), count)
         /\ p.n = count + 1 => QueueFrom(last, Append(q, p), count + 1)
<1> DEFINE a == Append(q, p)
<1>1. /\ Len(a) = Len(q) + 1 /\ Len(q) \in Nat
      /\ \A i \in 1..Len(q) : a[i] = q[i]
      /\ a[Len(q) + 1] = p
  BY AppendProperties, LenProperties
<1>2. \A i \in 1..Len(q) : q[i].n \in Nat
  BY ElementOfSeq DEF Numbered, Packets
<1>3. Shown(p) <=> p.n # 0
  BY DEF Numbered
<1>4. \A i \in 1..Len(a) : i \in 1..Len(q) \/ i = Len(q) + 1
  BY <1>1
<1> HIDE DEF a
<1>5. ASSUME NEW c \in {count, count + 1}, c = count \/ p.n = count + 1, c = count + 1 \/ p.n = 0
      PROVE  QueueFrom(last, a, c)
  <2>1. last <= c
    BY DEF QueueFrom
  <2>2. \A i \in 1..Len(a) : Shown(a[i]) => last < a[i].n /\ a[i].n <= c
    <3>1. \A i \in 1..Len(q) : Shown(a[i]) => last < a[i].n /\ a[i].n <= c
      BY <1>1, <1>2 DEF QueueFrom
    <3>2. Shown(p) => last < p.n /\ p.n <= c
      BY <1>3, <1>5 DEF QueueFrom
    <3> QED
      BY <3>1, <3>2, <1>1, <1>4
  <2>3. \A i, j \in 1..Len(a) : i < j /\ Shown(a[i]) /\ Shown(a[j]) => a[i].n < a[j].n
    <3>1. \A i, j \in 1..Len(q) : i < j /\ Shown(a[i]) /\ Shown(a[j]) => a[i].n < a[j].n
      BY <1>1 DEF QueueFrom
    <3>2. \A i \in 1..Len(q) : Shown(a[i]) /\ Shown(p) => a[i].n < p.n
      BY <1>1, <1>2, <1>3 DEF QueueFrom
    <3>3. \A i, j \in 1..Len(a) : i < j => i \in 1..Len(q)
      BY <1>1
    <3> QED
      BY <3>1, <3>2, <3>3, <1>1, <1>4
  <2>4. ASSUME NEW k \in (last + 1)..c
        PROVE  \E i \in 1..Len(a) : Shown(a[i]) /\ a[i].n = k
    <3>1. CASE k = count + 1
      <4>1. Shown(a[Len(q) + 1]) /\ a[Len(q) + 1].n = k
        BY <3>1, <1>1, <1>3, <1>5
      <4>2. Len(q) + 1 \in 1..Len(a)
        BY <1>1
      <4> QED
        BY <4>1, <4>2
    <3>2. CASE k # count + 1
      <4>1. k \in (last + 1)..count
        BY <3>2
      <4>2. PICK i \in 1..Len(q) : Shown(q[i]) /\ q[i].n = k
        BY <4>1 DEF QueueFrom
      <4>3. i \in 1..Len(a) /\ a[i] = q[i]
        BY <1>1
      <4> QED
        BY <4>2, <4>3
    <3> QED
      BY <3>1, <3>2
  <2> QED
    BY <2>1, <2>2, <2>3, <2>4 DEF QueueFrom
<1> QED
  BY <1>5 DEF a

-----------------------------------------------------------------------------
(* Writing.                                                                 *)

(* Whether the client gets them or not, numbers that follow those on the    *)
(* wire leave it without a gap.                                             *)
LEMMA WriteKeepsOrder ==
  ASSUME wire \in Seq(Nat), gone \in BOOLEAN, Consecutive(wire, 0),
         NEW ps \in Seq(Nat), Consecutive(ps, Len(wire))
  PROVE  /\ Written(ps) \in Seq(Nat) /\ Consecutive(Written(ps), 0)
         /\ ~gone => Len(Written(ps)) = Len(wire) + Len(ps)
<1>1. /\ wire \o ps \in Seq(Nat) /\ Len(wire \o ps) = Len(wire) + Len(ps)
      /\ \A i \in 1..(Len(wire) + Len(ps)) :
            (wire \o ps)[i] = IF i <= Len(wire) THEN wire[i] ELSE ps[i - Len(wire)]
      /\ Len(wire) \in Nat /\ Len(ps) \in Nat
  BY ConcatProperties, LenProperties
<1>2. Consecutive(wire \o ps, 0)
  <2> SUFFICES ASSUME NEW i \in 1..(Len(wire) + Len(ps)) PROVE (wire \o ps)[i] = i
    BY <1>1 DEF Consecutive
  <2>1. CASE i <= Len(wire)
    BY <2>1, <1>1 DEF Consecutive
  <2>2. CASE ~(i <= Len(wire))
    <3>1. i - Len(wire) \in 1..Len(ps)
      BY <2>2, <1>1
    <3>2. ps[i - Len(wire)] = Len(wire) + (i - Len(wire))
      BY <3>1, SMTT(60) DEF Consecutive
    <3> QED
      BY <2>2, <3>2, <1>1
  <2> QED
    BY <2>1, <2>2
<1> QED
  BY <1>1, <1>2 DEF Written

(* The packet that s2c holds follows those that are pending.                *)
LEMMA PendingExtends ==
  ASSUME NEW ps \in Seq(Nat), NEW base \in Nat, Consecutive(ps, base)
  PROVE  /\ Append(ps, base + Len(ps) + 1) \in Seq(Nat)
         /\ Len(Append(ps, base + Len(ps) + 1)) = Len(ps) + 1
         /\ Consecutive(Append(ps, base + Len(ps) + 1), base)
<1> DEFINE a == Append(ps, base + Len(ps) + 1)
<1>1. Len(ps) \in Nat
  BY LenProperties
<1>2. base + Len(ps) + 1 \in Nat
  BY <1>1
<1>3. /\ a \in Seq(Nat) /\ Len(a) = Len(ps) + 1
      /\ \A i \in 1..Len(ps) : a[i] = ps[i]
      /\ a[Len(ps) + 1] = base + Len(ps) + 1
  BY <1>2, AppendProperties
<1> HIDE DEF a
<1>4. Consecutive(a, base)
  <2> SUFFICES ASSUME NEW i \in 1..(Len(ps) + 1) PROVE a[i] = base + i
    BY <1>3 DEF Consecutive
  <2>1. CASE i = Len(ps) + 1
    BY <2>1, <1>1, <1>3
  <2>2. CASE i \in 1..Len(ps)
    BY <2>2, <1>3 DEF Consecutive
  <2> QED
    BY <2>1, <2>2, <1>1
<1> QED
  BY <1>3, <1>4 DEF a

-----------------------------------------------------------------------------
(* The invariant.                                                           *)

LEMMA InitEstablishes == Init => RelayInv
<1> SUFFICES ASSUME Init PROVE RelayInv
  OBVIOUS
<1>1. /\ pc = [f \in Loops |-> "top"] /\ held = NoPacket /\ visible = 0 /\ gone = FALSE
      /\ socket = <<>> /\ buffer = <<>> /\ pending = <<>> /\ wire = <<>>
  BY DEF Init
<1>2. /\ Len(wire) = 0 /\ Len(pending) = 0
      /\ wire \in Seq(Nat) /\ pending \in Seq(Nat)
      /\ buffer \in Seq(Numbered) /\ socket \in Seq(Numbered)
      /\ Queue = <<>> /\ Len(Queue) = 0
  BY <1>1, EmptySeq, ConcatEmptySeq DEF Queue
<1>3. Types
  BY <1>1, <1>2, Zenon DEF Types, Loops
<1>4. WrittenInOrder
  BY <1>2 DEF WrittenInOrder, Consecutive
<1>5. ~Shown(held) /\ Last = 0
  BY <1>1, <1>2 DEF Shown, Last, NoPacket
<1>6. QueueFrom(Last, Queue, visible)
  BY <1>1, <1>2, <1>5 DEF QueueFrom
<1> QED
  BY <1>3, <1>4, <1>5, <1>6 DEF RelayInv

(* Steps that touch neither packets nor s2c, or only move s2c between its   *)
(* loop and its end.                                                        *)
LEMMA OtherSteps ==
  ASSUME RelayInv, UNCHANGED <<wire, pending, held, buffer, socket, visible>>,
         gone' \in BOOLEAN, pc' \in [Loops -> {"top", "parked", "busy", "done"}],
         \/ pc'["s2c"] = pc["s2c"]
         \/ pc["s2c"] # "done" /\ (pc'["s2c"] = "busy" \/ held = NoPacket)
  PROVE  RelayInv'
<1>1. Types'
  BY DEF RelayInv, Types
<1>2. WrittenInOrder'
  BY DEF RelayInv, WrittenInOrder, Consecutive
<1>3. Queue' = Queue /\ Last' = Last
  BY DEF Queue, Last, Shown
<1>4. ASSUME pc'["s2c"] # "done"
      PROVE  (Shown(held) => held.n = Len(wire) + Len(pending) + 1)' /\ QueueFrom(Last', Queue', visible')
  <2>1. pc["s2c"] # "done"
    BY <1>4
  <2> QED
    BY <2>1, <1>3 DEF RelayInv, Shown
<1> QED
  BY <1>1, <1>2, <1>3, <1>4 DEF RelayInv, QueueFrom, Shown

(* Steps with which s2c ends after a last write.                            *)
LEMMA LastWrite ==
  ASSUME RelayInv, wire' = Written(pending), pending' = <<>>, held' = NoPacket,
         UNCHANGED <<buffer, socket, visible, gone>>,
         pc' \in [Loops -> {"top", "parked", "busy", "done"}], pc'["s2c"] = "done"
  PROVE  RelayInv'
<1>1. Written(pending) \in Seq(Nat) /\ Consecutive(Written(pending), 0)
  BY WriteKeepsOrder DEF RelayInv, Types, WrittenInOrder
<1>2. pending' \in Seq(Nat) /\ Len(pending') = 0
  BY EmptySeq
<1>3. Types'
  BY <1>1, <1>2 DEF RelayInv, Types
<1>4. WrittenInOrder'
  BY <1>1, <1>2 DEF WrittenInOrder, Consecutive
<1> QED
  BY <1>3, <1>4 DEF RelayInv

LEMMA SendKeeps == RelayInv /\ BackendSends => RelayInv'
<1> SUFFICES ASSUME RelayInv, BackendSends PROVE RelayInv'
  OBVIOUS
<1>1. PICK kind \in Kinds :
         LET shown == kind \in {"plain", "direct"} IN
         /\ visible' = IF shown THEN visible + 1 ELSE visible
         /\ socket' = Append(socket, [kind |-> kind, n |-> IF shown THEN visible + 1 ELSE 0])
  BY DEF BackendSends
<1> DEFINE p == [kind |-> kind, n |-> IF kind \in {"plain", "direct"} THEN visible + 1 ELSE 0]
<1>2. /\ UNCHANGED <<wire, pending, held, buffer, pc, gone>>
      /\ visible \in Nat /\ buffer \in Seq(Numbered) /\ socket \in Seq(Numbered)
  BY DEF BackendSends, RelayInv, Types, outVars, clientVars, loopVars
<1>3. p \in Numbered /\ p.n \in {0, visible + 1} /\ (p.n = 0 => visible' = visible)
      /\ (p.n = visible + 1 => visible' = visible + 1)
  BY <1>1, <1>2 DEF Numbered, Packets, Shown
<1>4. socket' = Append(socket, p) /\ socket' \in Seq(Numbered)
  BY <1>1, <1>2, <1>3, AppendProperties
<1> HIDE DEF p
<1>5. Queue' = Append(Queue, p) /\ Queue \in Seq(Numbered)
  BY <1>2, <1>3, <1>4, SendAppends, ConcatProperties DEF Queue
<1>6. Types' /\ WrittenInOrder' /\ Last' = Last
  BY <1>1, <1>2, <1>4 DEF RelayInv, Types, WrittenInOrder, Consecutive, Last, Shown
<1>7. ASSUME pc["s2c"] # "done" PROVE QueueFrom(Last, Queue', visible')
  <2>1. QueueFrom(Last, Queue, visible)
    BY <1>7 DEF RelayInv
  <2>2. Last \in Nat
    BY LenProperties DEF RelayInv, Types, Last
  <2> QED
    BY <2>1, <2>2, <1>2, <1>3, <1>5, SendExtends
<1> QED
  BY <1>2, <1>6, <1>7 DEF RelayInv, QueueFrom, Shown

LEMMA ReadKeeps == RelayInv /\ S2cRead => RelayInv'
<1> SUFFICES ASSUME RelayInv, S2cRead PROVE RelayInv'
  OBVIOUS
<1> DEFINE input == IF buffer = <<>> THEN socket ELSE buffer
<1>1. /\ input # <<>> /\ held' = Head(input) /\ buffer' = Tail(input)
      /\ socket' = IF buffer = <<>> THEN <<>> ELSE socket
      /\ UNCHANGED <<visible, wire, pending, gone>>
      /\ pc["s2c"] = "parked" /\ pc' = [pc EXCEPT !["s2c"] = "busy"]
  BY DEF S2cRead, Idle, Goto, outVars, clientVars
<1>2. /\ buffer \in Seq(Numbered) /\ socket \in Seq(Numbered) /\ visible \in Nat
      /\ pc \in [Loops -> {"top", "parked", "busy", "done"}] /\ held = NoPacket
      /\ wire \in Seq(Nat) /\ pending \in Seq(Nat) /\ gone \in BOOLEAN
  BY <1>1 DEF RelayInv, Types
<1>3. input \in Seq(Numbered) /\ Queue \in Seq(Numbered) /\ Queue # <<>>
      /\ Head(Queue) = Head(input) /\ Queue' = Tail(Queue)
  <2>1. CASE buffer = <<>>
    <3>1. Queue = socket
      BY <2>1, <1>2, ConcatEmptySeq DEF Queue
    <3>2. Tail(socket) \in Seq(Numbered)
      BY <1>1, <1>2, <2>1, HeadTailProperties
    <3>3. Queue' = Tail(socket)
      BY <1>1, <2>1, <3>2, ConcatEmptySeq DEF Queue
    <3> QED
      BY <1>1, <1>2, <2>1, <3>1, <3>3
  <2>2. CASE buffer # <<>>
    <3>1. Queue \in Seq(Numbered) /\ Queue # <<>>
      BY <1>2, <2>2, ConcatProperties, ConcatEqualIffEmpty DEF Queue
    <3> QED
      BY <1>1, <1>2, <2>2, <3>1, ReadTakesHead, Zenon DEF Queue
  <2> QED
    BY <2>1, <2>2
<1>4. /\ QueueFrom(Last, Queue, visible)
      /\ Last = Len(wire) + Len(pending) /\ Last \in Nat
      /\ Len(wire) \in Nat /\ Len(pending) \in Nat
  BY <1>1, <1>2, LenProperties DEF RelayInv, Last, Shown, NoPacket
<1>5. /\ Head(Queue) \in Numbered /\ Tail(Queue) \in Seq(Numbered)
      /\ Shown(Head(Queue)) => Head(Queue).n = Last + 1 /\ QueueFrom(Last + 1, Tail(Queue), visible)
      /\ ~Shown(Head(Queue)) => QueueFrom(Last, Tail(Queue), visible)
  BY <1>2, <1>3, <1>4, HeadIsNext
<1>6. held' = Head(Queue)
  BY <1>1, <1>3
<1>7. Last' = Last + (IF Shown(held') THEN 1 ELSE 0)
  BY <1>1, <1>4 DEF Last, Shown
<1>8. (Shown(held) => held.n = Len(wire) + Len(pending) + 1)'
  BY <1>1, <1>4, <1>5, <1>6 DEF Shown
<1>9. QueueFrom(Last', Queue', visible')
  BY <1>1, <1>3, <1>4, <1>5, <1>6, <1>7
<1>10. Types'
  <2>1. buffer' \in Seq(Numbered) /\ socket' \in Seq(Numbered)
    BY <1>1, <1>2, <1>3, HeadTailProperties, EmptySeq
  <2> QED
    BY <2>1, <1>1, <1>2, <1>5, <1>6 DEF Types, Loops
<1>11. WrittenInOrder'
  BY <1>1 DEF RelayInv, WrittenInOrder, Consecutive
<1> QED
  BY <1>8, <1>9, <1>10, <1>11 DEF RelayInv, QueueFrom, Shown

(* s2c is done with the packet it held: numbers on the wire and pending     *)
(* together reach one further if it was for the client.                     *)
LEMMA HandledKeeps ==
  ASSUME RelayInv, pc["s2c"] = "busy", held' = NoPacket,
         UNCHANGED <<buffer, socket, visible, gone>>,
         pc' \in [Loops -> {"top", "parked", "busy", "done"}], pc'["s2c"] \in {"top", "done"},
         wire' \in Seq(Nat), pending' \in Seq(Nat), WrittenInOrder',
         pc'["s2c"] = "top" => Len(wire') + Len(pending') = Last
  PROVE  RelayInv'
<1>1. Types'
  BY DEF RelayInv, Types
<1>2. ~Shown(held') /\ Queue' = Queue
  BY DEF Shown, NoPacket, Queue
<1>3. ASSUME pc'["s2c"] = "top" PROVE Last' = Last
  <2>1. Len(wire') \in Nat /\ Len(pending') \in Nat
    BY LenProperties
  <2>2. Last' = Len(wire') + Len(pending')
    BY <2>1, <1>2 DEF Last, Shown
  <2> QED
    BY <1>3, <2>2
<1>4. QueueFrom(Last, Queue, visible)
  BY DEF RelayInv
<1> QED
  BY <1>1, <1>2, <1>3, <1>4 DEF RelayInv, QueueFrom, Shown

(* What s2c holds follows what is pending.                                  *)
LEMMA HeldFollows ==
  ASSUME RelayInv, pc["s2c"] = "busy", Shown(held)
  PROVE  /\ Append(pending, held.n) \in Seq(Nat)
         /\ Len(Append(pending, held.n)) = Len(pending) + 1
         /\ Consecutive(Append(pending, held.n), Len(wire))
         /\ Last = Len(wire) + Len(pending) + 1
<1>1. held.n = Len(wire) + Len(pending) + 1 /\ pending \in Seq(Nat) /\ Len(wire) \in Nat
  BY LenProperties DEF RelayInv, Types
<1>2. Consecutive(pending, Len(wire))
  BY DEF RelayInv, WrittenInOrder
<1> QED
  BY <1>1, <1>2, PendingExtends DEF Last

LEMMA ForwardKeeps == RelayInv /\ S2cForward => RelayInv'
<1> SUFFICES ASSUME RelayInv, S2cForward PROVE RelayInv'
  OBVIOUS
<1> DEFINE all == Append(pending, held.n)
           flush == ~BatchWrites \/ Len(all) >= FlushCap \/ buffer = <<>>
<1>1. /\ pc["s2c"] = "busy" /\ Shown(held) /\ held' = NoPacket
      /\ UNCHANGED <<buffer, socket, visible, gone>>
  BY DEF S2cForward, Busy, Shown, inVars, clientVars
<1>2. /\ all \in Seq(Nat) /\ Len(all) = Len(pending) + 1 /\ Consecutive(all, Len(wire))
      /\ Last = Len(wire) + Len(pending) + 1
  BY <1>1, HeldFollows
<1>3. /\ wire' = (IF flush THEN Written(all) ELSE wire)
      /\ pending' = (IF flush THEN <<>> ELSE all)
      /\ IF flush /\ gone THEN Finish("s2c", "err") ELSE Goto("s2c", "top")
  BY DEF S2cForward
<1> HIDE DEF all
<1>4. pc' \in [Loops -> {"top", "parked", "busy", "done"}]
      /\ pc'["s2c"] = IF flush /\ gone THEN "done" ELSE "top"
  <2>1. pc \in [Loops -> {"top", "parked", "busy", "done"}]
    BY DEF RelayInv, Types
  <2>2. pc' = [pc EXCEPT !["s2c"] = IF flush /\ gone THEN "done" ELSE "top"]
    BY <1>3 DEF Finish, Goto
  <2> HIDE DEF flush
  <2> QED
    BY <2>1, <2>2 DEF Loops
<1> HIDE DEF flush
<1>5. /\ wire \in Seq(Nat) /\ gone \in BOOLEAN /\ Consecutive(wire, 0)
      /\ Len(wire) \in Nat /\ Len(pending) \in Nat
  BY LenProperties DEF RelayInv, Types, WrittenInOrder
<1>6. CASE flush
  <2>1. /\ Written(all) \in Seq(Nat) /\ Consecutive(Written(all), 0)
        /\ ~gone => Len(Written(all)) = Len(wire) + Len(all)
    BY <1>2, <1>5, WriteKeepsOrder, SMTT(60)
  <2>2. pending' \in Seq(Nat) /\ Len(pending') = 0
    BY <1>3, <1>6, EmptySeq
  <2>3. WrittenInOrder' /\ wire' \in Seq(Nat)
    BY <2>1, <2>2, <1>3, <1>6 DEF WrittenInOrder, Consecutive
  <2>4. pc'["s2c"] = "top" => Len(wire') + Len(pending') = Last
    BY <2>1, <2>2, <1>2, <1>3, <1>4, <1>5, <1>6
  <2> QED
    BY <1>1, <1>4, <2>2, <2>3, <2>4, HandledKeeps
<1>7. CASE ~flush
  <2>1. wire' = wire /\ pending' = all
    BY <1>3, <1>7
  <2>2. WrittenInOrder'
    BY <2>1, <1>2, <1>5 DEF WrittenInOrder, Consecutive
  <2>3. Len(wire') + Len(pending') = Last
    BY <2>1, <1>2, <1>5
  <2> QED
    BY <1>1, <1>2, <1>4, <1>5, <2>1, <2>2, <2>3, HandledKeeps
<1> QED
  BY <1>6, <1>7

LEMMA DirectKeeps == RelayInv /\ S2cDirect => RelayInv'
<1> SUFFICES ASSUME RelayInv, S2cDirect PROVE RelayInv'
  OBVIOUS
<1> DEFINE all == Append(pending, held.n)
<1>1. /\ pc["s2c"] = "busy" /\ Shown(held) /\ held' = NoPacket
      /\ UNCHANGED <<buffer, socket, visible, gone>>
  BY DEF S2cDirect, Busy, Shown, inVars, clientVars
<1>2. /\ all \in Seq(Nat) /\ Len(all) = Len(pending) + 1 /\ Consecutive(all, Len(wire))
      /\ Last = Len(wire) + Len(pending) + 1
  BY <1>1, HeldFollows
<1>3. /\ wire' = Written(all) /\ pending' = <<>>
      /\ IF gone THEN Finish("s2c", "err") ELSE Goto("s2c", "top")
  BY DEF S2cDirect
<1> HIDE DEF all
<1>4. pc' \in [Loops -> {"top", "parked", "busy", "done"}]
      /\ pc'["s2c"] = IF gone THEN "done" ELSE "top"
  <2>1. pc \in [Loops -> {"top", "parked", "busy", "done"}]
    BY DEF RelayInv, Types
  <2>2. pc' = [pc EXCEPT !["s2c"] = IF gone THEN "done" ELSE "top"]
    BY <1>3 DEF Finish, Goto
  <2> QED
    BY <2>1, <2>2 DEF Loops
<1>5. /\ wire \in Seq(Nat) /\ gone \in BOOLEAN /\ Consecutive(wire, 0)
      /\ Len(wire) \in Nat /\ Len(pending) \in Nat
  BY LenProperties DEF RelayInv, Types, WrittenInOrder
<1>6. /\ Written(all) \in Seq(Nat) /\ Consecutive(Written(all), 0)
      /\ ~gone => Len(Written(all)) = Len(wire) + Len(all)
  BY <1>2, <1>5, WriteKeepsOrder
<1>7. pending' \in Seq(Nat) /\ Len(pending') = 0
  BY <1>3, EmptySeq
<1>8. WrittenInOrder' /\ wire' \in Seq(Nat)
  BY <1>3, <1>6, <1>7 DEF WrittenInOrder, Consecutive
<1>9. pc'["s2c"] = "top" => Len(wire') + Len(pending') = Last
  BY <1>2, <1>3, <1>4, <1>5, <1>6, <1>7
<1> QED
  BY <1>1, <1>4, <1>7, <1>8, <1>9, HandledKeeps

LEMMA SwallowKeeps == RelayInv /\ S2cSwallow => RelayInv'
<1> SUFFICES ASSUME RelayInv, S2cSwallow PROVE RelayInv'
  OBVIOUS
<1>1. /\ pc["s2c"] = "busy" /\ ~Shown(held) /\ held' = NoPacket
      /\ UNCHANGED <<buffer, socket, visible, gone, wire, pending>>
      /\ pc' = [pc EXCEPT !["s2c"] = "top"]
  BY DEF S2cSwallow, Busy, Goto, Shown, inVars, clientVars, outVars
<1>2. /\ pc \in [Loops -> {"top", "parked", "busy", "done"}]
      /\ wire \in Seq(Nat) /\ pending \in Seq(Nat) /\ WrittenInOrder
  BY DEF RelayInv, Types
<1>3. pc' \in [Loops -> {"top", "parked", "busy", "done"}] /\ pc'["s2c"] = "top"
  BY <1>1, <1>2 DEF Loops
<1>4. WrittenInOrder'
  BY <1>1, <1>2 DEF WrittenInOrder, Consecutive
<1>5. Len(wire') + Len(pending') = Last
  BY <1>1, <1>2, LenProperties DEF Last
<1> QED
  BY <1>1, <1>2, <1>3, <1>4, <1>5, HandledKeeps

LEMMA StepKeeps == RelayInv /\ [Next]_vars => RelayInv'
<1> SUFFICES ASSUME RelayInv, [Next]_vars PROVE RelayInv'
  OBVIOUS
<1> USE DEF loopVars, inVars, outVars, clientVars, exitVars
<1>1. /\ pc \in [Loops -> {"top", "parked", "busy", "done"}] /\ gone \in BOOLEAN
      /\ pc["s2c"] # "busy" => held = NoPacket
      /\ "s2c" \in Loops /\ "c2s" \in Loops /\ "out" \in Loops
  BY DEF RelayInv, Types, Loops
<1>2. ASSUME NEW f \in Loops, Park(f) PROVE RelayInv'
  <2>1. /\ UNCHANGED <<wire, pending, held, buffer, socket, visible, gone>>
        /\ pc' = [pc EXCEPT ![f] = "parked"] /\ pc[f] = "top"
    BY <1>2 DEF Park, Goto
  <2>2. pc' \in [Loops -> {"top", "parked", "busy", "done"}]
        /\ (pc'["s2c"] = pc["s2c"] \/ (pc["s2c"] # "done" /\ held = NoPacket))
    BY <2>1, <1>1
  <2> QED
    BY <2>1, <2>2, <1>1, OtherSteps
<1>3. ASSUME NEW f \in Loops, Stop(f) PROVE RelayInv'
  <2>1. /\ UNCHANGED <<held, buffer, socket, visible, gone>>
        /\ pc' = [pc EXCEPT ![f] = "done"] /\ pc[f] \in {"top", "parked"}
        /\ wire' = (IF f = "s2c" THEN Written(pending) ELSE wire)
        /\ pending' = (IF f = "s2c" THEN <<>> ELSE pending)
    BY <1>3 DEF Stop, StopSeen, Finish
  <2>2. CASE f = "s2c"
    BY <2>1, <2>2, <1>1, LastWrite
  <2>3. CASE f # "s2c"
    <3>1. pc' \in [Loops -> {"top", "parked", "busy", "done"}] /\ pc'["s2c"] = pc["s2c"]
      BY <2>1, <2>3, <1>1
    <3> QED
      BY <2>1, <2>3, <3>1, <1>1, OtherSteps
  <2> QED
    BY <2>2, <2>3
<1>4. CASE S2cKick
  <2>1. /\ wire' = Written(pending) /\ pending' = <<>> /\ held' = NoPacket
        /\ UNCHANGED <<buffer, socket, visible, gone>> /\ pc' = [pc EXCEPT !["s2c"] = "done"]
    BY <1>4 DEF S2cKick, Busy, Finish
  <2> QED
    BY <2>1, <1>1, LastWrite
<1>5. CASE S2cShutdown
  <2>1. /\ wire' = Written(pending) /\ pending' = <<>> /\ held' = held /\ pc["s2c"] = "parked"
        /\ UNCHANGED <<buffer, socket, visible, gone>> /\ pc' = [pc EXCEPT !["s2c"] = "done"]
    BY <1>5 DEF S2cShutdown, Finish
  <2> QED
    BY <2>1, <1>1, LastWrite
<1>6. CASE S2cFails
  <2>1. /\ UNCHANGED <<wire, pending, held, buffer, socket, visible, gone>>
        /\ pc' = [pc EXCEPT !["s2c"] = "done"] /\ pc["s2c"] = "parked"
    BY <1>6 DEF S2cFails, Idle, Finish
  <2> QED
    BY <2>1, <1>1, OtherSteps
<1>7. CASE C2s \/ Out
  <2>1. /\ UNCHANGED <<wire, pending, held, buffer, socket, visible, gone>>
        /\ \E f \in {"c2s", "out"}, p \in {"top", "busy", "done"} : pc' = [pc EXCEPT ![f] = p]
    BY <1>7, Zenon DEF C2s, C2sRead, C2sHandled, C2sSwitch, C2sKick, C2sPluginKick, C2sFails, C2sShutdown,
                Out, OutTake, OutWrite, Goto, Finish
  <2>2. pc' \in [Loops -> {"top", "parked", "busy", "done"}] /\ pc'["s2c"] = pc["s2c"]
    BY <2>1, <1>1
  <2> QED
    BY <2>1, <2>2, <1>1, OtherSteps, SMTT(60)
<1>8. CASE ClientGoes \/ InjectChat \/ ShutdownNotify \/ ShutdownKick \/ UNCHANGED vars
  <2>1. /\ UNCHANGED <<wire, pending, held, buffer, socket, visible, pc>>
        /\ gone' \in BOOLEAN
    BY <1>8, <1>1, Zenon DEF ClientGoes, InjectChat, Inject, ShutdownNotify, ShutdownKick, vars
  <2> QED
    BY <2>1, <1>1, OtherSteps
<1> QED
  BY <1>2, <1>3, <1>4, <1>5, <1>6, <1>7, <1>8, SendKeeps, ReadKeeps, ForwardKeeps, DirectKeeps,
     SwallowKeeps DEF Next, S2c

LEMMA Invariant == Spec => []RelayInv
BY InitEstablishes, StepKeeps, PTL DEF Spec

(* What the client got, followed by the batch, is the packets that the      *)
(* backend sent for it in order, without gap or repeat: for every number of *)
(* packets, every capacity and whichever way the loops end (relay.rs, the   *)
(* batching of run_s2c).                                                    *)
THEOREM BatchingKeepsOrder == Spec => []WireInOrder
<1>1. RelayInv => WireInOrder
  <2> SUFFICES ASSUME RelayInv PROVE WireInOrder
    OBVIOUS
  <2>1. /\ wire \in Seq(Nat) /\ pending \in Seq(Nat)
        /\ Consecutive(wire, 0) /\ Consecutive(pending, Len(wire))
        /\ Len(wire) \in Nat /\ Len(pending) \in Nat
    BY LenProperties DEF RelayInv, Types, WrittenInOrder
  <2> DEFINE n == Len(wire) + Len(pending)
  <2>2. /\ wire \o pending \in Seq(Nat) /\ Len(wire \o pending) = n
        /\ \A i \in 1..n : (wire \o pending)[i] = IF i <= Len(wire) THEN wire[i] ELSE pending[i - Len(wire)]
    BY <2>1, ConcatProperties
  <2>3. ASSUME NEW i \in 1..n PROVE (wire \o pending)[i] = i
    <3>1. CASE i <= Len(wire)
      BY <3>1, <2>1, <2>2 DEF Consecutive
    <3>2. CASE ~(i <= Len(wire))
      <4>1. i - Len(wire) \in 1..Len(pending)
        BY <3>2, <2>1
      <4>2. pending[i - Len(wire)] = Len(wire) + (i - Len(wire))
        BY <4>1, <2>1 DEF Consecutive
      <4> QED
        BY <3>2, <4>2, <2>1, <2>2
    <3> QED
      BY <3>1, <3>2
  <2>4. wire \o pending \in [1..n -> Nat]
    BY <2>2, LenProperties, Zenon
  <2> HIDE DEF n
  <2>5. wire \o pending = [i \in 1..n |-> i]
    BY <2>3, <2>4, Zenon
  <2> QED
    BY <2>5 DEF WireInOrder, n
<1> QED
  BY <1>1, Invariant, PTL

-----------------------------------------------------------------------------
(* What is owed when s2c has ended.                                         *)

LEMMA ExitHoldsFirst == Init => ExitInv
BY DEF Init, ExitInv, Loops

(* Steps that leave the packets and the result of s2c alone.                *)
LEMMA ExitUndisturbed ==
  ASSUME ExitInv, UNCHANGED <<wire, pending, buffer, socket, visible>>, gone' \in {gone, TRUE},
         result' \in [Loops -> {"none", "ok", "err"}],
         result'["s2c"] = result["s2c"], pc'["s2c"] = pc["s2c"]
  PROVE  ExitInv'
<1>1. Queue' = Queue
  BY DEF Queue
<1>2. QueueFrom(Len(wire), Queue, visible) => QueueFrom(Len(wire'), Queue', visible')
  BY <1>1
<1> QED
  BY <1>2, Zenon DEF ExitInv

(* Steps of s2c that do not end it well.                                    *)
LEMMA ExitNotYet ==
  ASSUME ExitInv, pc["s2c"] # "done", result' \in [Loops -> {"none", "ok", "err"}],
         result'["s2c"] \in {result["s2c"], "err"}
  PROVE  ExitInv'
BY DEF ExitInv

(* s2c ends with a last write: what it had read and not written goes out.   *)
LEMMA LastWriteSettles ==
  ASSUME RelayInv, pc["s2c"] # "done", ~Shown(held), wire' = Written(pending), pending' = <<>>,
         UNCHANGED <<buffer, socket, visible, gone>>, pc'["s2c"] = "done",
         result' \in [Loops -> {"none", "ok", "err"}]
  PROVE  ExitInv'
<1>1. ASSUME ~gone PROVE Len(wire') = Last
  <2>1. /\ wire \in Seq(Nat) /\ pending \in Seq(Nat)
        /\ Len(wire) \in Nat /\ Len(pending) \in Nat
    BY LenProperties DEF RelayInv, Types
  <2>2. Len(wire') = Len(wire) + Len(pending)
    BY <1>1, <2>1, ConcatProperties DEF Written
  <2> QED
    BY <2>1, <2>2 DEF Last
<1>2. QueueFrom(Last, Queue, visible) /\ Queue' = Queue
  BY SMTT(60) DEF RelayInv, Queue
<1> QED
  BY <1>1, <1>2 DEF ExitInv, QueueFrom, Shown

(* What the backend sends afterwards joins the queue.                       *)
LEMMA SendSettles == RelayInv /\ ExitInv /\ BackendSends => ExitInv'
<1> SUFFICES ASSUME RelayInv, ExitInv, BackendSends PROVE ExitInv'
  OBVIOUS
<1>1. PICK kind \in Kinds :
         LET shown == kind \in {"plain", "direct"} IN
         /\ visible' = IF shown THEN visible + 1 ELSE visible
         /\ socket' = Append(socket, [kind |-> kind, n |-> IF shown THEN visible + 1 ELSE 0])
  BY DEF BackendSends
<1> DEFINE p == [kind |-> kind, n |-> IF kind \in {"plain", "direct"} THEN visible + 1 ELSE 0]
<1>2. /\ UNCHANGED <<wire, pending, buffer, pc, gone, result>>
      /\ visible \in Nat /\ buffer \in Seq(Numbered) /\ socket \in Seq(Numbered)
      /\ Len(wire) \in Nat
  BY LenProperties DEF BackendSends, RelayInv, Types, outVars, clientVars, loopVars
<1>3. p \in Numbered /\ p.n \in {0, visible + 1} /\ (p.n = 0 => visible' = visible)
      /\ (p.n = visible + 1 => visible' = visible + 1)
  BY <1>1, <1>2 DEF Numbered, Packets, Shown
<1>4. socket' = Append(socket, p)
  BY <1>1
<1> HIDE DEF p
<1>5. Queue' = Append(Queue, p) /\ Queue \in Seq(Numbered)
  BY <1>2, <1>3, <1>4, SendAppends, ConcatProperties, SMTT(60) DEF Queue
<1>6. ASSUME QueueFrom(Len(wire), Queue, visible)
      PROVE  QueueFrom(Len(wire), Queue', visible')
  BY <1>2, <1>3, <1>5, <1>6, SendExtends
<1> QED
  BY <1>2, <1>6, SMTT(60) DEF ExitInv, QueueFrom, Shown

LEMMA ExitStep == RelayInv /\ ExitInv /\ [Next]_vars => ExitInv'
<1> SUFFICES ASSUME RelayInv, ExitInv, [Next]_vars PROVE ExitInv'
  OBVIOUS
<1> USE DEF loopVars, inVars, outVars, clientVars, exitVars
<1>1. /\ pc \in [Loops -> {"top", "parked", "busy", "done"}]
      /\ result \in [Loops -> {"none", "ok", "err"}] /\ gone \in BOOLEAN
      /\ pc["s2c"] # "busy" => held = NoPacket
      /\ "s2c" \in Loops /\ "c2s" \in Loops /\ "out" \in Loops
  BY DEF RelayInv, ExitInv, Types, Loops
<1>2. ~Shown(NoPacket)
  BY DEF Shown, NoPacket
<1>3. ASSUME NEW f \in Loops, Park(f) PROVE ExitInv'
  <2>1. /\ UNCHANGED <<wire, pending, buffer, socket, visible, gone, result>>
        /\ pc' = [pc EXCEPT ![f] = "parked"] /\ pc[f] = "top"
    BY <1>3 DEF Park, Goto
  <2>2. CASE f = "s2c"
    BY <2>1, <2>2, <1>1, ExitNotYet
  <2>3. CASE f # "s2c"
    BY <2>1, <2>3, <1>1, ExitUndisturbed
  <2> QED
    BY <2>2, <2>3
<1>4. ASSUME NEW f \in Loops, Stop(f) PROVE ExitInv'
  <2>1. /\ UNCHANGED <<held, buffer, socket, visible, gone>>
        /\ pc' = [pc EXCEPT ![f] = "done"] /\ pc[f] \in {"top", "parked"}
        /\ \E r \in {"ok", "err"} : result' = [result EXCEPT ![f] = r]
        /\ wire' = (IF f = "s2c" THEN Written(pending) ELSE wire)
        /\ pending' = (IF f = "s2c" THEN <<>> ELSE pending)
    BY <1>4, Zenon DEF Stop, StopSeen, Finish
  <2>2. result' \in [Loops -> {"none", "ok", "err"}]
    BY <2>1, <1>1
  <2>3. CASE f = "s2c"
    BY <2>1, <2>2, <2>3, <1>1, <1>2, LastWriteSettles
  <2>4. CASE f # "s2c"
    BY <2>1, <2>2, <2>4, <1>1, ExitUndisturbed
  <2> QED
    BY <2>3, <2>4
<1>5. CASE S2cKick \/ S2cShutdown
  <2>1. /\ wire' = Written(pending) /\ pending' = <<>> /\ ~Shown(held)
        /\ UNCHANGED <<buffer, socket, visible, gone>> /\ pc["s2c"] # "done"
        /\ pc' = [pc EXCEPT !["s2c"] = "done"] /\ result' = [result EXCEPT !["s2c"] = "ok"]
    BY <1>1, <1>2, <1>5 DEF S2cKick, S2cShutdown, Busy, Finish, Shown
  <2> QED
    BY <2>1, <1>1, LastWriteSettles
<1>6. CASE S2cRead \/ S2cForward \/ S2cDirect \/ S2cSwallow \/ S2cFails
  <2>1. /\ pc["s2c"] # "done"
        /\ result' = result \/ result' = [result EXCEPT !["s2c"] = "err"]
    BY <1>6 DEF S2cRead, S2cForward, S2cDirect, S2cSwallow, S2cFails, Idle, Busy, Goto, Finish
  <2> QED
    BY <2>1, <1>1, ExitNotYet
<1>7. CASE C2s \/ Out
  <2>1. /\ UNCHANGED <<wire, pending, buffer, socket, visible, gone>>
        /\ \E f \in {"c2s", "out"} :
             /\ \E p \in {"top", "busy", "done"} : pc' = [pc EXCEPT ![f] = p]
             /\ result' = result \/ \E r \in {"ok", "err"} : result' = [result EXCEPT ![f] = r]
    BY <1>7, Zenon DEF C2s, C2sRead, C2sHandled, C2sSwitch, C2sKick, C2sPluginKick, C2sFails, C2sShutdown,
                Out, OutTake, OutWrite, Goto, Finish
  <2>2. result' \in [Loops -> {"none", "ok", "err"}]
        /\ result'["s2c"] = result["s2c"] /\ pc'["s2c"] = pc["s2c"]
    BY <2>1, <1>1
  <2> QED
    BY <2>1, <2>2, ExitUndisturbed, SMTT(60)
<1>8. CASE ClientGoes \/ InjectChat \/ ShutdownNotify \/ ShutdownKick \/ UNCHANGED vars
  <2>1. /\ UNCHANGED <<wire, pending, buffer, socket, visible, pc, result>>
        /\ gone' \in {gone, TRUE}
    BY <1>8, Zenon DEF ClientGoes, InjectChat, Inject, ShutdownNotify, ShutdownKick, vars
  <2> QED
    BY <2>1, <1>1, ExitUndisturbed, Zenon
<1> QED
  BY <1>3, <1>4, <1>5, <1>6, <1>7, <1>8, SendSettles DEF Next, S2c

(* A relay whose s2c loop ended without an error, and whose client is still *)
(* there, owes it nothing: the packets the client lacks are exactly those   *)
(* still unread, however the stop met the batch (relay.rs, the flushes of   *)
(* run_s2c).  For every number of packets and every capacity.               *)
THEOREM ExitOwesNothing == Spec => []NothingOwedAtExit
<1>1. RelayInv /\ ExitInv => NothingOwedAtExit
  <2> SUFFICES ASSUME RelayInv, ExitInv, result["s2c"] = "ok", ~gone
               PROVE  pending = <<>> /\ Unread = (Len(wire) + 1)..visible
    BY DEF NothingOwedAtExit
  <2>1. pending = <<>> /\ QueueFrom(Len(wire), Queue, visible)
    BY DEF ExitInv
  <2>2. /\ Queue \in Seq(Numbered) /\ visible \in Nat /\ Len(wire) \in Nat
    BY ConcatProperties, LenProperties DEF RelayInv, Types, Queue
  <2>3. \A i \in 1..Len(Queue) : Queue[i].n \in Nat /\ (Shown(Queue[i]) <=> Queue[i].n # 0)
    BY <2>2, ElementOfSeq DEF Numbered, Packets
  <2>4. Unread = {Queue[i].n : i \in 1..Len(Queue)} \ {0}
    BY DEF Unread, Queue
  <2> HIDE DEF Queue
  <2>5. ASSUME NEW k \in Unread PROVE k \in (Len(wire) + 1)..visible
    <3>1. PICK i \in 1..Len(Queue) : Queue[i].n = k /\ k # 0
      BY <2>4, SMTT(60)
    <3>2. Len(wire) < k /\ k <= visible /\ k \in Nat
      BY <3>1, <2>1, <2>3, ZenonT(60) DEF QueueFrom
    <3> QED
      BY <3>2, <2>2
  <2>6. ASSUME NEW k \in (Len(wire) + 1)..visible PROVE k \in Unread
    <3>1. PICK i \in 1..Len(Queue) : Shown(Queue[i]) /\ Queue[i].n = k
      BY <2>1 DEF QueueFrom
    <3>2. k # 0
      BY <2>2
    <3> QED
      BY <3>1, <3>2, <2>4
  <2> QED
    BY <2>1, <2>5, <2>6, Zenon
<1> QED
  BY <1>1, Invariant, ExitHoldsFirst, ExitStep, PTL DEF Spec

-----------------------------------------------------------------------------
(* The refinement.                                                          *)

(* While s2c runs, what it has taken is on the wire, in the batch or in its *)
(* hand, and the batch has room for one more.                               *)
BatchInv ==
  /\ taken \in Nat
  /\ pc["s2c"] # "done" => taken = Last /\ Len(pending) < Capacity

LEMMA CapacityPositive == Capacity \in Nat \ {0}
BY RelayAssumption DEF Capacity

(* The facts about a running s2c that the steps below use.                  *)
LEMMA Running ==
  ASSUME RelayInv, BatchInv, pc["s2c"] # "done"
  PROVE  /\ wire \in Seq(Nat) /\ pending \in Seq(Nat) /\ gone \in BOOLEAN
         /\ visible \in Nat /\ taken \in Nat /\ taken <= visible
         /\ Len(wire) \in Nat /\ Len(pending) \in Nat /\ Len(pending) < Capacity
         /\ Consecutive(pending, Len(wire))
         /\ taken = Len(wire) + Len(pending) + (IF Shown(held) THEN 1 ELSE 0)
         /\ Ending = "open"
<1>1. wire \in Seq(Nat) /\ pending \in Seq(Nat) /\ gone \in BOOLEAN /\ visible \in Nat
  BY DEF RelayInv, Types
<1>2. Last <= visible /\ Consecutive(pending, Len(wire))
  BY DEF RelayInv, QueueFrom, WrittenInOrder
<1> QED
  BY <1>1, <1>2, LenProperties DEF BatchInv, Last, Ending

(* Consecutive numbers are the ones the channel delivers next.              *)
LEMMA ConsecutiveFollow ==
  ASSUME NEW ps \in Seq(Nat), wire \in Seq(Nat), Consecutive(ps, Len(wire))
  PROVE  ps = InOrder!Following(Len(ps))
<1>1. ps \in [1..Len(ps) -> Nat]
  BY LenProperties
<1>2. ps = [i \in 1..Len(ps) |-> Len(wire) + i]
  BY <1>1 DEF Consecutive
<1> QED
  BY <1>2 DEF InOrder!Following

(* A write in the middle of the loop is a delivery, or nothing if the       *)
(* client is gone.                                                          *)
LEMMA WriteDelivers ==
  ASSUME wire \in Seq(Nat), taken \in Nat, gone \in BOOLEAN, Ending = "open", Ending' = "open",
         NEW ps \in Seq(Nat), Consecutive(ps, Len(wire)), ps # <<>>, Len(wire) + Len(ps) <= taken,
         wire' = Written(ps), UNCHANGED <<visible, taken, gone>>
  PROVE  InOrder!Next \/ UNCHANGED InOrder!vars
<1>1. CASE gone
  BY <1>1 DEF Written, InOrder!vars
<1>2. CASE ~gone
  <2>1. Len(ps) \in 1..(taken - Len(wire))
    BY EmptySeq, LenProperties
  <2>2. wire' = wire \o InOrder!Following(Len(ps))
    BY <1>2, ConsecutiveFollow, Zenon DEF Written
  <2> QED
    BY <1>2, <2>1, <2>2, Zenon DEF InOrder!Next, InOrder!Deliver, InOrder!Holding
<1> QED
  BY <1>1, <1>2

(* Leaving the loop with nothing in hand: the batch is written; only a      *)
(* client that is gone makes that an error.                                 *)
LEMMA FlushEnds ==
  ASSUME RelayInv, BatchInv, pc["s2c"] # "done", ~Shown(held),
         pc'["s2c"] = "done", result'["s2c"] \in {"ok", "err"}, result'["s2c"] = "err" => gone,
         wire' = Written(pending), UNCHANGED <<visible, taken, gone>>
  PROVE  InOrder!Next /\ BatchInv'
<1>1. pending = InOrder!Following(Len(pending)) /\ Len(pending) = InOrder!Holding
  BY Running, ConsecutiveFollow DEF InOrder!Holding
<1>2. Ending = "open" /\ BatchInv'
  BY Running DEF BatchInv
<1>3. CASE result'["s2c"] = "ok"
  <2>1. Ending' = "clean"
    BY <1>3 DEF Ending
  <2>2. wire' = IF gone THEN wire ELSE wire \o InOrder!Following(InOrder!Holding)
    BY <1>1 DEF Written
  <2> QED
    BY <1>2, <2>1, <2>2 DEF InOrder!Next, InOrder!EndClean
<1>4. CASE result'["s2c"] = "err"
  <2>1. Ending' = "failed" /\ wire' = wire
    BY <1>4 DEF Ending, Written
  <2> QED
    BY <1>2, <2>1 DEF InOrder!Next, InOrder!EndFailed
<1> QED
  BY <1>2, <1>3, <1>4

(* Leaving it without writing anything.                                     *)
LEMMA FailureEnds ==
  ASSUME RelayInv, BatchInv, pc["s2c"] # "done", pc'["s2c"] = "done", result'["s2c"] = "err",
         UNCHANGED <<visible, taken, wire, gone>>
  PROVE  InOrder!Next /\ BatchInv'
<1>1. Ending = "open" /\ Ending' = "failed"
  BY DEF Ending
<1> QED
  BY <1>1 DEF InOrder!Next, InOrder!EndFailed, BatchInv

(* A step that is not about the batch.                                      *)
LEMMA Elsewhere ==
  ASSUME BatchInv, UNCHANGED <<visible, taken, wire, pending, gone>>,
         Shown(held') = Shown(held),
         pc'["s2c"] = "done" <=> pc["s2c"] = "done", result'["s2c"] = result["s2c"]
  PROVE  UNCHANGED InOrder!vars /\ BatchInv'
<1>1. Ending' = Ending
  BY DEF Ending
<1>2. Last' = Last
  BY DEF Last, Shown
<1> QED
  BY <1>1, <1>2 DEF InOrder!vars, BatchInv, Capacity

LEMMA SendSimulates ==
  ASSUME RelayInv, BatchInv, BackendSends
  PROVE  (InOrder!Next \/ UNCHANGED InOrder!vars) /\ BatchInv'
<1>1. /\ visible' = visible + 1 \/ visible' = visible
      /\ UNCHANGED <<taken, wire, pending, held, gone, pc, result>>
  BY DEF BackendSends, loopVars, outVars, clientVars
<1>2. Ending' = Ending /\ Last' = Last
  BY <1>1 DEF Ending, Last, Shown
<1> QED
  BY <1>1, <1>2 DEF InOrder!Next, InOrder!Send, InOrder!vars, BatchInv, Capacity

LEMMA GoesSimulates ==
  ASSUME RelayInv, BatchInv, ClientGoes
  PROVE  InOrder!Next /\ BatchInv'
<1>1. gone' = TRUE /\ UNCHANGED <<visible, taken, wire, pending, held, pc, result>>
  BY DEF ClientGoes, loopVars, inVars, outVars
<1>2. Ending' = Ending /\ Last' = Last
  BY <1>1 DEF Ending, Last, Shown
<1> QED
  BY <1>1, <1>2 DEF InOrder!Next, InOrder!Break, BatchInv, Capacity

LEMMA ReadSimulates ==
  ASSUME RelayInv, BatchInv, S2cRead
  PROVE  (InOrder!Next \/ UNCHANGED InOrder!vars) /\ BatchInv'
<1> DEFINE p == Head(IF buffer = <<>> THEN socket ELSE buffer)
<1>1. /\ held' = p /\ taken' = (IF p.n # 0 THEN taken + 1 ELSE taken)
      /\ UNCHANGED <<visible, wire, pending, gone, result>>
      /\ pc["s2c"] = "parked" /\ pc' = [pc EXCEPT !["s2c"] = "busy"]
  BY DEF S2cRead, Idle, Goto, outVars, clientVars
<1>2. RelayInv'
  BY ReadKeeps
<1>3. /\ pc \in [Loops -> {"top", "parked", "busy", "done"}] /\ held = NoPacket
      /\ p \in Numbered \cup {NoPacket}
  BY <1>1, <1>2 DEF RelayInv, Types
<1> HIDE DEF p
<1>4. Shown(p) <=> p.n # 0
  BY <1>3 DEF Numbered, Shown, NoPacket
<1>5. pc'["s2c"] = "busy"
  BY <1>1, <1>3 DEF Loops
<1>6. Ending = "open" /\ Ending' = "open"
  BY <1>1, <1>5 DEF Ending
<1>7. taken = Len(wire) + Len(pending) /\ Len(wire) \in Nat /\ Len(pending) \in Nat
      /\ Len(pending) < Capacity /\ taken \in Nat
  BY <1>1, <1>3, Running DEF Shown, NoPacket
<1>8. BatchInv'
  <2>1. Last' = Len(wire) + Len(pending) + (IF Shown(p) THEN 1 ELSE 0)
    BY <1>1 DEF Last, Shown
  <2> QED
    BY <2>1, <1>1, <1>4, <1>7 DEF BatchInv, Capacity
<1>9. CASE Shown(p)
  <2>1. taken' = taken + 1 /\ Last' = taken + 1
    BY <1>1, <1>4, <1>5, <1>8, <1>9 DEF BatchInv
  <2>2. Last' <= visible
    BY <1>1, <1>2, <1>5 DEF RelayInv, QueueFrom
  <2>3. visible \in Nat
    BY DEF RelayInv, Types
  <2>4. taken < visible /\ taken - Len(wire) < Capacity
    BY <2>1, <2>2, <2>3, <1>7, CapacityPositive
  <2> QED
    BY <2>1, <2>4, <1>1, <1>6, <1>8 DEF InOrder!Next, InOrder!Take, InOrder!Holding
<1>10. CASE ~Shown(p)
  BY <1>10, <1>1, <1>4, <1>6, <1>8 DEF InOrder!vars
<1> QED
  BY <1>9, <1>10, <1>8

(* s2c writes the batch and the packet in its hand, which may fail.         *)
LEMMA HeldWritten ==
  ASSUME RelayInv, BatchInv, pc["s2c"] = "busy", Shown(held), held' = NoPacket,
         wire' = Written(Append(pending, held.n)), pending' = <<>>,
         UNCHANGED <<visible, taken, gone>>,
         IF gone THEN pc'["s2c"] = "done" /\ result'["s2c"] = "err" ELSE pc'["s2c"] = "top"
  PROVE  (InOrder!Next \/ UNCHANGED InOrder!vars) /\ BatchInv'
<1> DEFINE all == Append(pending, held.n)
<1>1. /\ all \in Seq(Nat) /\ Len(all) = Len(pending) + 1 /\ Consecutive(all, Len(wire))
  BY HeldFollows
<1> HIDE DEF all
<1>2. /\ wire \in Seq(Nat) /\ gone \in BOOLEAN /\ taken \in Nat /\ Len(wire) \in Nat
      /\ Len(pending) \in Nat /\ taken = Len(wire) + Len(pending) + 1 /\ Ending = "open"
  BY Running
<1>3. wire' = Written(all)
  BY DEF all
<1>4. CASE gone
  BY <1>3, <1>4, FailureEnds DEF Written
<1>5. CASE ~gone
  <2>1. Ending' = "open" /\ all # <<>>
    BY <1>1, <1>2, <1>5, EmptySeq DEF Ending
  <2>2. InOrder!Next \/ UNCHANGED InOrder!vars
    BY <1>1, <1>2, <1>3, <2>1, WriteDelivers
  <2>3. Len(wire') = Len(wire) + Len(all) /\ Len(pending') = 0
    BY <1>1, <1>2, <1>3, <1>5, ConcatProperties, EmptySeq DEF Written
  <2>4. Last' = taken
    BY <2>3, <1>1, <1>2 DEF Last, Shown, NoPacket
  <2> QED
    BY <2>2, <2>3, <2>4, <1>2, CapacityPositive DEF BatchInv, Capacity
<1> QED
  BY <1>2, <1>4, <1>5

(* What the ways to go on and to return do to the entries of s2c.           *)
LEMMA GotoFinish ==
  ASSUME RelayInv, ExitInv, NEW f \in Loops
  PROVE  /\ \A p : Goto(f, p) => /\ pc'["s2c"] = (IF f = "s2c" THEN p ELSE pc["s2c"])
                                 /\ result'["s2c"] = result["s2c"]
         /\ \A r : Finish(f, r) => /\ pc'["s2c"] = (IF f = "s2c" THEN "done" ELSE pc["s2c"])
                                   /\ result'["s2c"] = (IF f = "s2c" THEN r ELSE result["s2c"])
<1>1. /\ pc \in [Loops -> {"top", "parked", "busy", "done"}]
      /\ result \in [Loops -> {"none", "ok", "err"}] /\ "s2c" \in Loops
  BY DEF RelayInv, Types, ExitInv, Loops
<1> QED
  BY <1>1 DEF Goto, Finish

LEMMA ForwardSimulates ==
  ASSUME RelayInv, ExitInv, BatchInv, S2cForward
  PROVE  (InOrder!Next \/ UNCHANGED InOrder!vars) /\ BatchInv'
<1> DEFINE all == Append(pending, held.n)
           flush == ~BatchWrites \/ Len(all) >= FlushCap \/ buffer = <<>>
<1>1. /\ pc["s2c"] = "busy" /\ Shown(held) /\ held' = NoPacket
      /\ UNCHANGED <<visible, taken, gone>>
  BY DEF S2cForward, Busy, Shown, inVars, clientVars
<1>2. /\ wire' = (IF flush THEN Written(all) ELSE wire)
      /\ pending' = (IF flush THEN <<>> ELSE all)
      /\ IF flush /\ gone THEN Finish("s2c", "err") ELSE Goto("s2c", "top")
  BY DEF S2cForward
<1>3. IF flush /\ gone THEN pc'["s2c"] = "done" /\ result'["s2c"] = "err" ELSE pc'["s2c"] = "top"
  BY <1>2, GotoFinish, Zenon DEF Loops
<1>4. CASE flush
  BY <1>1, <1>2, <1>3, <1>4, HeldWritten
<1>5. CASE ~flush
  <2>1. /\ Len(all) = Len(pending) + 1 /\ Len(pending) \in Nat /\ Len(wire) \in Nat
        /\ taken = Len(wire) + Len(pending) + 1 /\ taken \in Nat
    BY <1>1, HeldFollows, Running
  <2>2. BatchWrites /\ Len(all) < FlushCap /\ FlushCap \in Nat
    BY <1>5, <2>1, RelayAssumption
  <2>3. Len(all) < Capacity
    BY <2>1, <2>2 DEF Capacity
  <2> HIDE DEF flush, all
  <2>4. pending' = all /\ wire' = wire /\ pc'["s2c"] = "top"
    BY <1>2, <1>3, <1>5
  <2>5. Last' = taken
    BY <2>1, <2>4, <1>1 DEF Last, Shown, NoPacket
  <2>6. Ending' = Ending
    BY <2>4, <1>1 DEF Ending
  <2> QED
    BY <2>1, <2>3, <2>4, <2>5, <2>6, <1>1 DEF InOrder!vars, BatchInv, Capacity
<1> QED
  BY <1>4, <1>5

LEMMA StepSimulates ==
  RelayInv /\ ExitInv /\ BatchInv /\ [Next]_vars => [InOrder!Next]_(InOrder!vars) /\ BatchInv'
<1> SUFFICES ASSUME RelayInv, ExitInv, BatchInv, [Next]_vars
             PROVE  (InOrder!Next \/ UNCHANGED InOrder!vars) /\ BatchInv'
  OBVIOUS
<1> USE DEF loopVars, inVars, outVars, clientVars, exitVars
<1>1. /\ "s2c" \in Loops /\ "c2s" \in Loops /\ "out" \in Loops
      /\ pc["s2c"] # "busy" => ~Shown(held)
  BY DEF RelayInv, Types, Loops, Shown, NoPacket
<1>2. CASE S2cDirect
  <2>1. /\ pc["s2c"] = "busy" /\ Shown(held) /\ held' = NoPacket
        /\ wire' = Written(Append(pending, held.n)) /\ pending' = <<>>
        /\ UNCHANGED <<visible, taken, gone>>
        /\ IF gone THEN Finish("s2c", "err") ELSE Goto("s2c", "top")
    BY <1>2 DEF S2cDirect, Busy, Shown
  <2> QED
    BY <2>1, <1>1, GotoFinish, HeldWritten
<1>3. CASE S2cSwallow
  <2>1. /\ pc["s2c"] = "busy" /\ ~Shown(held) /\ held' = NoPacket /\ Goto("s2c", "top")
        /\ UNCHANGED <<visible, taken, wire, pending, gone>>
    BY <1>3 DEF S2cSwallow, Busy, Shown
  <2>2. Shown(held') = Shown(held)
    BY <2>1 DEF Shown, NoPacket
  <2> QED
    BY <2>1, <2>2, <1>1, GotoFinish, Elsewhere
<1>4. CASE S2cKick \/ S2cShutdown
  <2>1. /\ pc["s2c"] # "done" /\ ~Shown(held) /\ Finish("s2c", "ok")
        /\ wire' = Written(pending) /\ UNCHANGED <<visible, taken, gone>>
    BY <1>4, <1>1 DEF S2cKick, S2cShutdown, Busy, Shown
  <2> QED
    BY <2>1, <1>1, GotoFinish, FlushEnds
<1>5. CASE S2cFails
  <2>1. /\ pc["s2c"] # "done" /\ Finish("s2c", "err")
        /\ UNCHANGED <<visible, taken, wire, gone>>
    BY <1>5 DEF S2cFails, Idle
  <2> QED
    BY <2>1, <1>1, GotoFinish, FailureEnds
<1>6. ASSUME NEW f \in Loops, Stop(f)
      PROVE  (InOrder!Next \/ UNCHANGED InOrder!vars) /\ BatchInv'
  <2>1. /\ pc[f] \in {"top", "parked"} /\ UNCHANGED <<visible, taken, held, gone>>
        /\ wire' = (IF f = "s2c" THEN Written(pending) ELSE wire)
        /\ pending' = (IF f = "s2c" THEN <<>> ELSE pending)
        /\ Finish(f, IF f = "s2c" /\ pending # <<>> /\ gone THEN "err" ELSE "ok")
    BY <1>6 DEF Stop, StopSeen
  <2>2. CASE f = "s2c"
    <3>1. /\ pc["s2c"] # "done" /\ ~Shown(held) /\ wire' = Written(pending)
          /\ Finish("s2c", IF pending # <<>> /\ gone THEN "err" ELSE "ok")
      BY <2>1, <2>2, <1>1
    <3> QED
      BY <3>1, <2>1, <1>1, GotoFinish, FlushEnds
  <2>3. CASE f # "s2c"
    <3>1. pc'["s2c"] = pc["s2c"] /\ result'["s2c"] = result["s2c"]
      BY <2>1, <2>3, GotoFinish
    <3> QED
      BY <3>1, <2>1, <2>3, Elsewhere DEF Shown
  <2> QED
    BY <2>2, <2>3
<1>7. ASSUME NEW f \in Loops, Park(f)
      PROVE  (InOrder!Next \/ UNCHANGED InOrder!vars) /\ BatchInv'
  <2>1. /\ pc[f] = "top" /\ Goto(f, "parked")
        /\ UNCHANGED <<visible, taken, wire, pending, held, gone>>
    BY <1>7 DEF Park
  <2>2. (pc'["s2c"] = "done" <=> pc["s2c"] = "done") /\ result'["s2c"] = result["s2c"]
    BY <2>1, GotoFinish
  <2> QED
    BY <2>1, <2>2, Elsewhere DEF Shown
<1>8. CASE C2s \/ Out
  <2>1. /\ UNCHANGED <<visible, taken, wire, pending, held, gone>>
        /\ \E f \in {"c2s", "out"}, p \in {"top", "busy", "ok", "err"} : Goto(f, p) \/ Finish(f, p)
    BY <1>8, Zenon DEF C2s, C2sRead, C2sHandled, C2sSwitch, C2sKick, C2sPluginKick, C2sFails,
                C2sShutdown, Out, OutTake, OutWrite
  <2>2. pc'["s2c"] = pc["s2c"] /\ result'["s2c"] = result["s2c"]
    BY <2>1, <1>1, GotoFinish
  <2> QED
    BY <2>1, <2>2, Elsewhere DEF Shown
<1>9. CASE InjectChat \/ ShutdownNotify \/ ShutdownKick \/ UNCHANGED vars
  <2>1. UNCHANGED <<visible, taken, wire, pending, held, gone, pc, result>>
    BY <1>9, Zenon DEF InjectChat, ShutdownNotify, ShutdownKick, vars
  <2> QED
    BY <2>1, Elsewhere DEF Shown
<1> QED
  BY <1>2, <1>3, <1>4, <1>5, <1>6, <1>7, <1>8, <1>9, SendSimulates, GoesSimulates, ReadSimulates,
     ForwardSimulates, Zenon DEF Next, S2c

(* The relay implements the bounded channel: whatever the batch, the three  *)
(* loops and the shutdown do, what s2c reads is delivered in order, at most *)
(* the flush cap is held back, nothing follows the end, and an end without  *)
(* an error owes a client that is there nothing that was read.              *)
THEOREM RelayImplementsChannel == Spec => DeliversInOrder
<1>1. Init => InOrder!Init /\ BatchInv
  <2> SUFFICES ASSUME Init PROVE InOrder!Init /\ BatchInv
    OBVIOUS
  <2>1. Ending = "open" /\ Last = 0 /\ Len(pending) = 0
    BY EmptySeq DEF Init, Ending, Last, Shown, NoPacket, Loops
  <2> QED
    BY <2>1, CapacityPositive DEF Init, InOrder!Init, BatchInv
<1> QED
  BY <1>1, Invariant, ExitHoldsFirst, ExitStep, StepSimulates, PTL
     DEF Spec, DeliversInOrder, InOrder!Spec
=============================================================================
