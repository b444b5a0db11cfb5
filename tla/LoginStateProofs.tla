-------------------------- MODULE LoginStateProofs --------------------------
(***************************************************************************)
(* The protocol states of a connection and the acknowledgement of its      *)
(* login, for every version, any number of packets under way and any       *)
(* number of changes of server.                                            *)
(*                                                                         *)
(* The protocol state is the client's, and the proxy runs ahead of it: the *)
(* packets under way take the client from its state to the one that the    *)
(* task's stage presumes, each of them read in the state that the packets  *)
(* before it lead to, or they come to one that ends the connection.        *)
(***************************************************************************)
EXTENDS LoginProofs

-----------------------------------------------------------------------------
(* Protocol states.  A packet k that the client reads in state b leaves it *)
(* in state Then(k, b, l), where l is the state after the login.           *)
Landing == IF HasConfigurationPhase(setup.ver) THEN "config" ELSE "play"
Fine(b, k) == StateOf(k) = b /\ k \notin Ends \cup {"LoginPlugin"}
Stuck(b, k) == k \in Ends \/ StateOf(k) # b
Then(k, b, l) ==
  CASE k = "LoginSuccess" -> l
    [] k = "Finish" -> "play"
    [] k = "StartConfiguration" -> "config"
    [] OTHER -> b

(* Through the first m packets of s, each read in its state, the client    *)
(* goes from state a by the states st.                                     *)
Trail(s, m, st, a, l) ==
  /\ st[1] = a
  /\ \A i \in 1..m : Fine(st[i], s[i].kind) /\ st[i + 1] = Then(s[i].kind, st[i], l)

(* A client in state a reads all of s and is in state b then; or it comes  *)
(* to a packet of the kinds X that ends its connection.                    *)
Holds(s, a, b, l) == \E st : Trail(s, Len(s), st, a, l) /\ st[Len(s) + 1] = b
Dooms(s, a, X, l) ==
  \E st : \E m \in 0..(Len(s) - 1) :
    Trail(s, m, st, a, l) /\ s[m + 1].kind \in X /\ Stuck(st[m + 1], s[m + 1].kind)

LEMMA HoldsNothing ==
  ASSUME NEW a, NEW b, NEW l
  PROVE  Holds(<<>>, a, a, l) /\ (Holds(<<>>, a, b, l) => a = b) /\ \A X : ~Dooms(<<>>, a, X, l)
  <1>1. Len(<<>>) = 0
    OBVIOUS
  <1> DEFINE st == [i \in {1} |-> a]
  <1>2. st[1] = a
    OBVIOUS
  <1> HIDE DEF st
  <1>3. Holds(<<>>, a, a, l)
    BY <1>1, <1>2 DEF Holds, Trail
  <1>4. Holds(<<>>, a, b, l) => a = b
    BY <1>1 DEF Holds, Trail
  <1>5. \A X : ~Dooms(<<>>, a, X, l)
    <2>1. 0..(Len(<<>>) - 1) = {}
      BY <1>1
    <2> QED
      BY <2>1, Zenon DEF Dooms
  <1> QED
    BY <1>3, <1>4, <1>5, Zenon

LEMMA FramedOne ==
  ASSUME NEW k \in Kinds, NEW f \in Frames
  PROVE  Framed(<<k>>, f) \in Seq(Packet) /\ Len(Framed(<<k>>, f)) = 1 /\ Framed(<<k>>, f)[1].kind = k
  <1> DEFINE q == <<k>>
  <1>1. q \in Seq(Kinds) /\ Len(q) = 1 /\ q[1] = k
    OBVIOUS
  <1> HIDE DEF q
  <1>2. Framed(q, f) \in Seq(Packet) /\ Len(Framed(q, f)) = 1 /\ Framed(q, f)[1].kind = k
    BY <1>1, FramedIs
  <1> QED
    BY <1>2 DEF q

LEMMA HoldsOne ==
  ASSUME NEW k \in Kinds, NEW f \in Frames, NEW a, NEW l, Fine(a, k)
  PROVE  Holds(Framed(<<k>>, f), a, Then(k, a, l), l)
  <1> DEFINE t == Framed(<<k>>, f)
             st == [i \in 1..2 |-> IF i = 1 THEN a ELSE Then(k, a, l)]
  <1>1. Len(t) = 1 /\ t[1].kind = k
    BY FramedOne
  <1>2. st[1] = a /\ st[2] = Then(k, a, l)
    OBVIOUS
  <1> HIDE DEF t, st
  <1>3. Trail(t, Len(t), st, a, l) /\ st[Len(t) + 1] = Then(k, a, l)
    BY <1>1, <1>2, SMTT(60) DEF Trail
  <1> QED
    BY <1>3 DEF Holds, t

LEMMA DoomsOne ==
  ASSUME NEW k \in Kinds, NEW f \in Frames, NEW a, NEW l, NEW X, k \in X, Stuck(a, k)
  PROVE  Dooms(Framed(<<k>>, f), a, X, l)
  <1> DEFINE t == Framed(<<k>>, f)
             st == [i \in 1..1 |-> a]
  <1>1. Len(t) = 1 /\ t[1].kind = k
    BY FramedOne
  <1>2. st[1] = a
    OBVIOUS
  <1> HIDE DEF t, st
  <1>3. Trail(t, 0, st, a, l) /\ 0 \in 0..(Len(t) - 1)
    BY <1>1, <1>2 DEF Trail
  <1> QED
    BY <1>1, <1>2, <1>3 DEF Dooms, t

(* One stream after another.                                               *)
LEMMA Joined ==
  ASSUME NEW s \in Seq(Packet), NEW t \in Seq(Packet)
  PROVE  /\ s \o t \in Seq(Packet) /\ Len(s) \in Nat /\ Len(t) \in Nat /\ Len(s \o t) = Len(s) + Len(t)
         /\ \A i \in 1..Len(s) : (s \o t)[i] = s[i]
         /\ \A i \in 1..Len(t) : (s \o t)[Len(s) + i] = t[i]
  <1> HIDE DEF Packet
  <1>1. /\ s \o t \in Seq(Packet) /\ Len(s \o t) = Len(s) + Len(t)
        /\ \A i \in 1..(Len(s) + Len(t)) : (s \o t)[i] = IF i <= Len(s) THEN s[i] ELSE t[i - Len(s)]
    BY ONLY s \in Seq(Packet), t \in Seq(Packet), ConcatProperties, Zenon
  <1>2. Len(s) \in Nat /\ Len(t) \in Nat
    BY LenProperties
  <1> QED
    BY <1>1, <1>2

LEMMA TrailJoins ==
  ASSUME NEW s \in Seq(Packet), NEW t \in Seq(Packet), NEW a, NEW l, NEW st, NEW tr,
         NEW m \in 0..Len(t), NEW b, Trail(s, Len(s), st, a, l), st[Len(s) + 1] = b, Trail(t, m, tr, b, l),
         NEW c, tr[m + 1] = c
  PROVE  \E u : Trail(s \o t, Len(s) + m, u, a, l) /\ u[Len(s) + m + 1] = c
  <1> DEFINE n == Len(s)
             u == [i \in 1..(n + m + 1) |-> IF i <= n THEN st[i] ELSE tr[i - n]]
             st0 == s \o t
  <1>0. n \in Nat /\ m \in Nat /\ m <= Len(t) /\ Len(t) \in Nat
    BY Joined
  <1>1. (\A i \in 1..n : st0[i] = s[i]) /\ (\A i \in 1..m : st0[n + i] = t[i])
    BY <1>0, Joined
  <1> HIDE DEF st0, n
  <1>2. (\A i \in 1..n : u[i] = st[i]) /\ (\A i \in 1..(m + 1) : u[n + i] = tr[i])
    BY <1>0, SMTT(60)
  <1>3. tr[1] = st[n + 1]
    BY DEF Trail, n
  <1>4. u[n + 1] = st[n + 1]
    BY <1>0, <1>2, <1>3
  <1>5. u[1] = a
    <2>0. st[1] = a
      BY Zenon DEF Trail
    <2>1. CASE n = 0
      <3>1. n + 1 = 1
        BY <2>1
      <3> QED
        BY ONLY <1>4, <2>0, <3>1, Zenon
    <2>2. CASE n # 0
      <3>1. 1 \in 1..n
        BY ONLY <1>0, <2>2
      <3> QED
        BY ONLY <1>2, <2>0, <3>1, Zenon
    <2> QED
      BY <2>1, <2>2, SMTT(60)
  <1> HIDE DEF u
  <1>6. ASSUME NEW i \in 1..(n + m)
        PROVE  Fine(u[i], st0[i].kind) /\ u[i + 1] = Then(st0[i].kind, u[i], l)
    <2>1. CASE i <= n
      <3>1. i \in 1..n
        BY <1>0, <2>1, SMTT(60)
      <3>2. Fine(st[i], s[i].kind) /\ st[i + 1] = Then(s[i].kind, st[i], l)
        BY <3>1 DEF Trail, n
      <3>3. u[i + 1] = st[i + 1] /\ u[i] = st[i] /\ st0[i] = s[i]
        BY <1>0, <1>1, <1>2, <1>4, <3>1, SMTT(60)
      <3> QED
        BY <3>2, <3>3
    <2>2. CASE i > n
      <3>1. PICK j \in 1..m : i = n + j
        <4>1. i - n \in 1..m /\ i = n + (i - n)
          BY <1>0, <2>2, SMTT(60)
        <4> QED
          BY <4>1
      <3>2. Fine(tr[j], t[j].kind) /\ tr[j + 1] = Then(t[j].kind, tr[j], l)
        BY SMTT(60) DEF Trail
      <3>3. u[i + 1] = tr[j + 1] /\ u[i] = tr[j] /\ st0[i] = t[j]
        <4>1. i + 1 = n + (j + 1) /\ j + 1 \in 1..(m + 1) /\ j \in 1..(m + 1)
          BY <1>0, <3>1, SMTT(60)
        <4> QED
          BY <1>1, <1>2, <3>1, <4>1
      <3> QED
        BY <3>2, <3>3
    <2> QED
      BY <1>0, <2>1, <2>2
  <1>7. u[n + m + 1] = tr[m + 1]
    <2>1. m + 1 \in 1..(m + 1) /\ n + m + 1 = n + (m + 1)
      BY ONLY <1>0
    <2>2. u[n + (m + 1)] = tr[m + 1]
      BY ONLY <1>2, <2>1, Zenon
    <2> QED
      BY ONLY <2>1, <2>2
  <1>8. Trail(st0, n + m, u, a, l)
    BY <1>5, <1>6 DEF Trail
  <1> QED
    BY <1>7, <1>8 DEF st0, n

LEMMA HoldsJoin ==
  ASSUME NEW s \in Seq(Packet), NEW t \in Seq(Packet), NEW a, NEW b, NEW c, NEW l,
         Holds(s, a, b, l), Holds(t, b, c, l)
  PROVE  Holds(s \o t, a, c, l)
  <1>1. PICK st : Trail(s, Len(s), st, a, l) /\ st[Len(s) + 1] = b
    BY DEF Holds
  <1>2. PICK tr : Trail(t, Len(t), tr, b, l) /\ tr[Len(t) + 1] = c
    BY DEF Holds
  <1>3. Len(t) \in 0..Len(t) /\ Len(s \o t) = Len(s) + Len(t)
    BY Joined
  <1>4. PICK u : Trail(s \o t, Len(s) + Len(t), u, a, l) /\ u[Len(s) + Len(t) + 1] = c
    BY ONLY s \in Seq(Packet), t \in Seq(Packet), <1>1, <1>2, <1>3, TrailJoins, SMTT(60)
  <1> QED
    BY <1>3, <1>4, Zenon DEF Holds

LEMMA HoldsThenDooms ==
  ASSUME NEW s \in Seq(Packet), NEW t \in Seq(Packet), NEW a, NEW b, NEW X, NEW l,
         Holds(s, a, b, l), Dooms(t, b, X, l)
  PROVE  Dooms(s \o t, a, X, l)
  <1>1. PICK st : Trail(s, Len(s), st, a, l) /\ st[Len(s) + 1] = b
    BY DEF Holds
  <1>2. PICK tr : \E m \in 0..(Len(t) - 1) :
          Trail(t, m, tr, b, l) /\ t[m + 1].kind \in X /\ Stuck(tr[m + 1], t[m + 1].kind)
    BY DEF Dooms
  <1>p. PICK m \in 0..(Len(t) - 1) :
          Trail(t, m, tr, b, l) /\ t[m + 1].kind \in X /\ Stuck(tr[m + 1], t[m + 1].kind)
    BY <1>2
  <1>3. /\ m \in 0..Len(t) /\ Len(s) + m \in 0..(Len(s \o t) - 1)
        /\ (s \o t)[Len(s) + m + 1] = t[m + 1]
    <2>1. /\ Len(s) \in Nat /\ Len(t) \in Nat /\ Len(s \o t) = Len(s) + Len(t)
          /\ m + 1 \in 1..Len(t) /\ Len(s) + m + 1 = Len(s) + (m + 1)
      BY Joined
    <2>2. (s \o t)[Len(s) + (m + 1)] = t[m + 1]
      BY <2>1, Joined, Zenon
    <2> QED
      BY <2>1, <2>2
  <1>4. PICK u : Trail(s \o t, Len(s) + m, u, a, l) /\ u[Len(s) + m + 1] = tr[m + 1]
    BY ONLY s \in Seq(Packet), t \in Seq(Packet), <1>1, <1>p, <1>3, TrailJoins, SMTT(60)
  <1> QED
    BY <1>p, <1>3, <1>4, Zenon DEF Dooms

LEMMA DoomsGrow ==
  ASSUME NEW s \in Seq(Packet), NEW t \in Seq(Packet), NEW a, NEW X, NEW Y, NEW l,
         Dooms(s, a, X, l), X \subseteq Y
  PROVE  Dooms(s \o t, a, Y, l)
  <1>1. PICK st : \E m \in 0..(Len(s) - 1) :
          Trail(s, m, st, a, l) /\ s[m + 1].kind \in X /\ Stuck(st[m + 1], s[m + 1].kind)
    BY DEF Dooms
  <1>p. PICK m \in 0..(Len(s) - 1) :
          Trail(s, m, st, a, l) /\ s[m + 1].kind \in X /\ Stuck(st[m + 1], s[m + 1].kind)
    BY <1>1
  <1>2. /\ m \in 0..(Len(s \o t) - 1) /\ m + 1 \in 1..Len(s) /\ 1..m \subseteq 1..Len(s)
        /\ \A i \in 1..Len(s) : (s \o t)[i] = s[i]
    BY Joined, SMTT(60)
  <1>3. Trail(s \o t, m, st, a, l)
    BY <1>p, <1>2 DEF Trail
  <1> QED
    BY <1>p, <1>2, <1>3, SMTT(60) DEF Dooms

(* A packet is read.                                                       *)
LEMMA TrailRead ==
  ASSUME NEW s \in Seq(Packet), s # <<>>, NEW a, NEW l, NEW st, NEW m \in 1..Len(s), Trail(s, m, st, a, l),
         NEW b, st[m + 1] = b
  PROVE  /\ Fine(a, s[1].kind)
         /\ \E u : Trail(Tail(s), m - 1, u, Then(s[1].kind, a, l), l) /\ u[m] = b
  <1> DEFINE n == Len(s)
             u == [i \in 1..m |-> st[i + 1]]
             t == Tail(s)
  <1>1. n \in Nat /\ m \in 1..n /\ \A i \in 1..(n - 1) : t[i] = s[i + 1]
    BY StreamShrinks
  <1>2. 1 \in 1..m /\ m \in Nat
    BY <1>1
  <1>3. st[1] = a /\ Fine(st[1], s[1].kind) /\ st[1 + 1] = Then(s[1].kind, st[1], l)
    BY <1>2, Zenon DEF Trail
  <1> HIDE DEF t, n
  <1>4. u[m] = st[m + 1] /\ u[1] = Then(s[1].kind, a, l)
    BY <1>2, <1>3
  <1>5. ASSUME NEW i \in 1..(m - 1)
        PROVE  Fine(u[i], t[i].kind) /\ u[i + 1] = Then(t[i].kind, u[i], l)
    <2>1. i + 1 \in 1..m /\ i \in 1..m /\ i \in 1..(n - 1)
      BY <1>1
    <2>2. Fine(st[i + 1], s[i + 1].kind) /\ st[i + 1 + 1] = Then(s[i + 1].kind, st[i + 1], l)
      BY <2>1, Zenon DEF Trail
    <2>3. u[i] = st[i + 1] /\ u[i + 1] = st[i + 1 + 1] /\ t[i] = s[i + 1]
      BY <1>1, <2>1, SMTT(60)
    <2> QED
      BY <2>2, <2>3
  <1> HIDE DEF u
  <1>6. Trail(t, m - 1, u, Then(s[1].kind, a, l), l)
    BY <1>4, <1>5 DEF Trail
  <1> QED
    BY <1>3, <1>4, <1>6 DEF t

LEMMA HoldsRead ==
  ASSUME NEW s \in Seq(Packet), s # <<>>, NEW a, NEW b, NEW l, Holds(s, a, b, l)
  PROVE  Fine(a, s[1].kind) /\ Holds(Tail(s), Then(s[1].kind, a, l), b, l)
  <1>1. PICK st : Trail(s, Len(s), st, a, l) /\ st[Len(s) + 1] = b
    BY DEF Holds
  <1>2. Len(s) \in 1..Len(s) /\ Len(Tail(s)) = Len(s) - 1 /\ Len(Tail(s)) + 1 = Len(s)
    BY StreamShrinks
  <1>3. /\ Fine(a, s[1].kind)
        /\ \E u : Trail(Tail(s), Len(s) - 1, u, Then(s[1].kind, a, l), l) /\ u[Len(s)] = b
    BY ONLY s \in Seq(Packet), s # <<>>, <1>1, <1>2, TrailRead, SMTT(60)
  <1> QED
    BY <1>1, <1>2, <1>3, Zenon DEF Holds

LEMMA DoomsRead ==
  ASSUME NEW s \in Seq(Packet), s # <<>>, NEW a, NEW X, NEW l, Dooms(s, a, X, l)
  PROVE  \/ s[1].kind \in X /\ Stuck(a, s[1].kind)
         \/ Fine(a, s[1].kind) /\ Dooms(Tail(s), Then(s[1].kind, a, l), X, l)
  <1>1. PICK st : \E m \in 0..(Len(s) - 1) :
          Trail(s, m, st, a, l) /\ s[m + 1].kind \in X /\ Stuck(st[m + 1], s[m + 1].kind)
    BY DEF Dooms
  <1>p. PICK m \in 0..(Len(s) - 1) :
          Trail(s, m, st, a, l) /\ s[m + 1].kind \in X /\ Stuck(st[m + 1], s[m + 1].kind)
    BY <1>1
  <1>2. CASE m = 0
    BY <1>p, <1>2 DEF Trail
  <1>3. CASE m # 0
    <2>1. /\ m \in 1..Len(s) /\ m - 1 \in 0..(Len(Tail(s)) - 1) /\ (m - 1) + 1 = m
          /\ Tail(s)[m] = s[m + 1]
      <3>1. /\ Len(s) \in Nat /\ Len(Tail(s)) = Len(s) - 1
            /\ \A i \in 1..Len(Tail(s)) : Tail(s)[i] = s[i + 1]
        BY StreamShrinks
      <3> QED
        BY <1>3, <3>1
    <2>2. PICK u : Trail(Tail(s), m - 1, u, Then(s[1].kind, a, l), l) /\ u[m] = st[m + 1]
      BY ONLY s \in Seq(Packet), s # <<>>, <1>p, <2>1, TrailRead, SMTT(60)
    <2>3. Fine(a, s[1].kind)
      BY ONLY s \in Seq(Packet), s # <<>>, <1>p, <2>1, TrailRead, SMTT(60)
    <2>4. Dooms(Tail(s), Then(s[1].kind, a, l), X, l)
      BY <1>p, <2>1, <2>2 DEF Dooms
    <2> QED
      BY <2>3, <2>4
  <1> QED
    BY <1>2, <1>3

-----------------------------------------------------------------------------
(* Lists of packets as the proxy writes them.                              *)
LEMMA FramedJoins ==
  ASSUME NEW p \in Seq(Kinds), NEW q \in Seq(Kinds), NEW f \in Frames
  PROVE  Framed(p \o q, f) = Framed(p, f) \o Framed(q, f)
  <1> DEFINE F(k) == [kind |-> k, frame |-> f]
  <1>1. /\ p \o q \in Seq(Kinds) /\ Len(p \o q) = Len(p) + Len(q)
        /\ \A i \in 1..(Len(p) + Len(q)) : (p \o q)[i] = IF i <= Len(p) THEN p[i] ELSE q[i - Len(p)]
    BY ONLY p \in Seq(Kinds), q \in Seq(Kinds), ConcatProperties, Zenon
  <1>2. /\ DOMAIN p = 1..Len(p) /\ DOMAIN q = 1..Len(q) /\ DOMAIN (p \o q) = 1..Len(p \o q)
        /\ Len(p) \in Nat /\ Len(q) \in Nat
    BY <1>1, LenProperties, SMTT(60)
  <1> DEFINE u == Framed(p, f)
             v == Framed(q, f)
             w == Framed(p \o q, f)
  <1>3. /\ u \in Seq(Packet) /\ v \in Seq(Packet) /\ w \in Seq(Packet)
        /\ Len(u) = Len(p) /\ Len(v) = Len(q) /\ Len(w) = Len(p \o q)
    BY <1>1, FramedIs, ZenonT(60)
  <1>4. /\ \A i \in 1..Len(p) : u[i] = F(p[i])
        /\ \A i \in 1..Len(q) : v[i] = F(q[i])
        /\ \A i \in 1..Len(p \o q) : w[i] = F((p \o q)[i])
    BY <1>2 DEF Framed
  <1> HIDE DEF F, u, v, w
  <1>5. /\ u \o v \in Seq(Packet) /\ Len(u \o v) = Len(u) + Len(v)
        /\ \A i \in 1..Len(u) : (u \o v)[i] = u[i]
        /\ \A i \in 1..Len(v) : (u \o v)[Len(u) + i] = v[i]
    BY ONLY <1>3, Joined, ZenonT(60)
  <1>6. ASSUME NEW i \in 1..Len(w) PROVE w[i] = (u \o v)[i]
    <2>1. CASE i <= Len(p)
      BY <1>1, <1>2, <1>3, <1>4, <1>5, <2>1, SMTT(60)
    <2>2. CASE i > Len(p)
      <3>1. i - Len(p) \in 1..Len(q) /\ i = Len(p) + (i - Len(p)) /\ ~(i <= Len(p))
        BY <1>1, <1>2, <1>3, <2>2
      <3>2. (p \o q)[i] = q[i - Len(p)] /\ (u \o v)[i] = v[i - Len(p)]
        BY <1>1, <1>2, <1>3, <1>5, <3>1
      <3> QED
        BY <1>3, <1>4, <3>1, <3>2, Zenon
    <2> QED
      BY <1>1, <1>2, <1>3, <2>1, <2>2, SMTT(60)
  <1>7. Len(w) = Len(u \o v)
    BY <1>1, <1>3, <1>5
  <1>8. w = u \o v
    BY <1>3, <1>5, <1>6, <1>7, SeqEqual, SMTT(60)
  <1> QED
    BY <1>8 DEF u, v, w

(* From state a to state b by the packets kinds.                           *)
Leads(kinds, a, b, l) == \A f \in Frames : Holds(Framed(kinds, f), a, b, l)

LEMMA LeadsOn ==
  ASSUME NEW p \in Seq(Kinds), NEW q \in Seq(Kinds), NEW a, NEW b, NEW c, NEW l,
         Leads(p, a, b, l), Leads(q, b, c, l)
  PROVE  Leads(p \o q, a, c, l)
  <1> SUFFICES ASSUME NEW f \in Frames PROVE Holds(Framed(p \o q, f), a, c, l)
    BY SMTT(60) DEF Leads
  <1>1. Framed(p, f) \in Seq(Packet) /\ Framed(q, f) \in Seq(Packet)
    BY FramedIs
  <1> QED
    BY <1>1, FramedJoins, HoldsJoin, Zenon DEF Leads

LEMMA LeadsNowhere ==
  ASSUME NEW a, NEW l
  PROVE  Leads(<<>>, a, a, l)
  <1>1. ASSUME NEW f \in Frames PROVE Framed(<<>>, f) = <<>>
    BY DEF Framed
  <1> QED
    BY <1>1, HoldsNothing, Zenon DEF Leads

(* What is read in which state.                                            *)
LEMMA ReadIn ==
  /\ \A k \in {"RegistryData", "Finish", "KnownPacks", "ConfigPing", "Channel"} : Fine("config", k)
  /\ \A k \in {"World", "Respawn", "StartConfiguration", "ResourcePack", "Chat"} : Fine("play", k)
  /\ \A k \in {"EncryptionRequest", "SetCompression", "LoginSuccess"} : Fine("login", k)
  /\ Fine("status", "StatusResponse")
  /\ Stuck("config", "ResourcePack") /\ Stuck("config", "LoginPlugin") /\ Stuck("play", "LoginPlugin")
  /\ Stuck("play", "RegistryData")
  BY DEF Fine, Stuck, StateOf, Ends

LEMMA LeadsBy ==
  ASSUME NEW l
  PROVE  /\ \A k \in {"KnownPacks", "ConfigPing", "Channel", "RegistryData"} : Leads(<<k>>, "config", "config", l)
         /\ \A k \in {"World", "Respawn", "ResourcePack", "Chat"} : Leads(<<k>>, "play", "play", l)
         /\ Leads(<<"StartConfiguration">>, "play", "config", l) /\ Leads(<<"Finish">>, "config", "play", l)
         /\ \A k \in {"EncryptionRequest", "SetCompression"} : Leads(<<k>>, "login", "login", l)
         /\ Leads(<<"LoginSuccess">>, "login", l, l)
         /\ Leads(<<"StatusResponse">>, "status", "status", l)
         /\ Leads(LimboConfig, "config", "play", l)
         /\ Leads(<<"Chat">> \o <<"World">>, "play", "play", l)
         /\ Leads(<<"Chat">> \o <<"StartConfiguration">>, "play", "config", l)
  <1>0. /\ \A k \in {"KnownPacks", "ConfigPing", "Channel", "RegistryData"} :
             k \in Kinds /\ Then(k, "config", l) = "config"
        /\ \A k \in {"World", "Respawn", "ResourcePack", "Chat"} : k \in Kinds /\ Then(k, "play", l) = "play"
        /\ \A k \in {"EncryptionRequest", "SetCompression"} : k \in Kinds /\ Then(k, "login", l) = "login"
        /\ "LoginSuccess" \in Kinds /\ Then("LoginSuccess", "login", l) = l
        /\ "StatusResponse" \in Kinds /\ Then("StatusResponse", "status", l) = "status"
        /\ "Finish" \in Kinds /\ Then("Finish", "config", l) = "play"
        /\ "StartConfiguration" \in Kinds /\ Then("StartConfiguration", "play", l) = "config"
    BY DEF Then, Kinds, SafeKinds
  <1>1. ASSUME NEW k \in Kinds, NEW a, NEW b, Fine(a, k), Then(k, a, l) = b PROVE Leads(<<k>>, a, b, l)
    BY <1>1, HoldsOne, Zenon DEF Leads
  <1>2. /\ \A k \in {"KnownPacks", "ConfigPing", "Channel", "RegistryData"} : Leads(<<k>>, "config", "config", l)
        /\ \A k \in {"World", "Respawn", "ResourcePack", "Chat"} : Leads(<<k>>, "play", "play", l)
        /\ Leads(<<"StartConfiguration">>, "play", "config", l) /\ Leads(<<"Finish">>, "config", "play", l)
        /\ \A k \in {"EncryptionRequest", "SetCompression"} : Leads(<<k>>, "login", "login", l)
        /\ Leads(<<"LoginSuccess">>, "login", l, l)
        /\ Leads(<<"StatusResponse">>, "status", "status", l)
    BY <1>0, <1>1, ReadIn
  <1>3. /\ <<"Chat">> \in Seq(Kinds) /\ <<"World">> \in Seq(Kinds) /\ <<"StartConfiguration">> \in Seq(Kinds)
        /\ <<"RegistryData">> \in Seq(Kinds) /\ <<"Finish">> \in Seq(Kinds)
    BY <1>0, ShortLists
  <1>4. LimboConfig = <<"RegistryData">> \o <<"Finish">>
    BY DEF LimboConfig
  <1>5. /\ Leads(LimboConfig, "config", "play", l)
        /\ Leads(<<"Chat">> \o <<"World">>, "play", "play", l)
        /\ Leads(<<"Chat">> \o <<"StartConfiguration">>, "play", "config", l)
    BY <1>2, <1>3, <1>4, LeadsOn, Zenon
  <1> QED
    BY <1>2, <1>5

(* Packets that end a connection.                                          *)
LEMMA KicksEnd ==
  ASSUME NEW kinds \in Seq(Ends), NEW f \in Frames, NEW b, NEW X, NEW l, Ends \subseteq X
  PROVE  Holds(Framed(kinds, f), b, b, l) \/ Dooms(Framed(kinds, f), b, X, l)
  <1>1. CASE kinds = <<>>
    BY <1>1, LeadsNowhere, Zenon DEF Leads
  <1>2. CASE kinds # <<>>
    <2>1. Ends \in SUBSET Kinds /\ kinds \in Seq(Kinds)
      <3>1. Ends \in SUBSET Kinds
        BY DEF Ends, Kinds, SafeKinds
      <3> QED
        BY <3>1, SeqMonotonic
    <2>2. Len(kinds) \in Nat /\ 1 \in 1..Len(kinds) /\ kinds[1] \in Ends
      BY <1>2, LenProperties, EmptySeq, ElementOfSeq, SMTT(60)
    <2> DEFINE t == Framed(kinds, f)
               st == [i \in {1} |-> b]
    <2>3. Len(t) = Len(kinds) /\ t[1].kind = kinds[1]
      BY <2>1, <2>2, FramedIs
    <2>4. st[1] = b
      OBVIOUS
    <2> HIDE DEF t, st
    <2>5. Trail(t, 0, st, b, l) /\ 0 \in 0..(Len(t) - 1) /\ Stuck(st[0 + 1], t[0 + 1].kind) /\ t[0 + 1].kind \in X
      BY <2>2, <2>3, <2>4 DEF Trail, Stuck
    <2> QED
      BY <2>5 DEF Dooms, t
  <1> QED
    BY <1>1, <1>2

LEMMA KicksAreEnds ==
  /\ \A x : Disconnect(x) \in Ends /\ <<Disconnect(x)>> \in Seq(Ends)
  /\ \A err : GracefulKick(err) \in Seq(Ends)
  /\ <<>> \in Seq(Ends)
  <1>1. \A x : Disconnect(x) \in Ends
    BY DEF Disconnect, Ends
  <1>2. "LegacyDisconnect" \in Ends
    BY DEF Ends
  <1>3. (\A x \in Ends : <<x>> \in Seq(Ends)) /\ <<>> \in Seq(Ends)
    BY ShortLists
  <1> QED
    BY <1>1, <1>2, <1>3, Zenon DEF GracefulKick

-----------------------------------------------------------------------------
(* Where the client is to be when it has read what is under way: the       *)
(* proxy's view of its protocol state.  After a login plugin request there *)
(* is no such state, for it is never read.                                 *)
Goals ==
  CASE pc \in {"peek", "handshake", "ended"} -> States
    [] pc \in {"status", "statusPing"} -> {"status"}
    [] pc \in {"loginStart", "encResponse"} -> {"login"}
    [] pc = "joining" -> {Landing}
    [] pc = "backendLogin" -> {IF inPlay THEN "play" ELSE Landing}
    [] pc = "fmlAnswer" -> {}
    [] pc \in {"loginAck", "configAck", "config", "oneAnswer", "packsAnswer", "limboAck",
               "limboConfigAck"} -> {"config"}
    [] OTHER -> {"play"}

(* The packets that may arrive in another state.                           *)
Exempt ==
  {k \in Kinds : \/ k = "LoginPlugin"
                 \/ k = "ResourcePack" /\ HasConfigurationPhase(setup.ver)
                 \/ k = "RegistryData" /\ spoilt
                 \/ k \in Ends /\ pc = "ended"}

Way == \/ Dooms(toClient, client.state, Exempt, Landing)
       \/ \E b \in Goals : Holds(toClient, client.state, b, Landing)

(* The client's acknowledgement of its login has not been read.            *)
Owed == pc \in {"joining", "loginAck", "limboAck"} \/ (pc \in {"backendLogin", "fmlAnswer"} /\ ~inPlay)

Stages ==
  /\ pc \in {"loginAck", "configAck", "config", "oneAnswer", "packsAnswer", "finishAck", "acking",
             "limboAck", "limboConfigAck", "limboFinish"} => HasConfigurationPhase(setup.ver)
  /\ pc \in {"config", "oneAnswer", "packsAnswer", "finishAck", "acking"} => acked
  /\ pc = "configAck" => inPlay
  /\ pc = "worldReset" => ~HasConfigurationPhase(setup.ver)
  /\ pc \in Before \/ Owed => ~acked

Asking == \E i \in DOMAIN toClient : toClient[i].kind = "LoginPlugin"
Clean == /\ \A i \in DOMAIN toClient : toClient[i].kind # "LoginSuccess"
         /\ \A i \in DOMAIN toProxy : toProxy[i].kind # "LoginAck"

(* LoginSuccess is under way, or its acknowledgement is, as the first      *)
(* packet of the client.                                                   *)
Pending ==
  /\ \A i \in DOMAIN toClient : toClient[i].kind \in {"SetCompression", "LoginSuccess", "ResourcePack"}
  /\ \/ /\ client.state = "login" /\ toProxy = <<>>
        /\ \A i, j \in DOMAIN toClient :
             toClient[i].kind = "LoginSuccess" /\ toClient[j].kind = "LoginSuccess" => i = j
     \/ /\ client.state = "config" /\ toProxy # <<>> /\ toProxy[1].kind = "LoginAck"
        /\ \A i \in DOMAIN toProxy : toProxy[i].kind = "LoginAck" => i = 1
        /\ \A i \in DOMAIN toClient : toClient[i].kind # "LoginSuccess"

AckInv ==
  /\ pc = "fmlAnswer" => Asking
  /\ ~Asking /\ HasConfigurationPhase(setup.ver) =>
       /\ Owed => Pending
       /\ (pc \in During /\ ~Owed) \/ acked => Clean
  /\ ~HasConfigurationPhase(setup.ver) => \A i \in DOMAIN toProxy : toProxy[i].kind # "LoginAck"

Opened ==
  /\ pc = "peek" => conn = "handshaking"
  /\ client.state = "new" => toClient = <<>>
  /\ pc \in {"peek", "handshake"} /\ toProxy # <<>> =>
       client.state = IF toProxy[1].kind = "HandshakeStatus" THEN "status" ELSE "login"

ArriveInv == client.state \notin Gone => Stages /\ Opened /\ Way /\ AckInv

-----------------------------------------------------------------------------
(* A step of the task for a player: what it writes takes the client where  *)
(* the proxy means it to be, and only a stage that waits for it takes the  *)
(* acknowledgement of the login.                                           *)
Leading(kinds) ==
  \A b \in Goals : \/ Dooms(Framed(kinds, frame), b, Exempt', Landing)
                   \/ \E c \in Goals' : Holds(Framed(kinds, frame), b, c, Landing)

Moves ==
  /\ UNCHANGED <<setup, client, frame>> /\ Reads
  /\ \E kinds \in Seq(SafeKinds \ {"LoginSuccess"}) :
       Write(kinds) /\ Leading(kinds) /\ (pc' = "fmlAnswer" => kinds = <<"LoginPlugin">>)
  /\ pc' \in During \cup {"ended"} /\ (spoilt => spoilt') /\ Stages'
  /\ acked' => acked \/ pc' \in During
  /\ Owed' => Owed
  /\ Owed' /\ pc # "fmlAnswer" /\ pc' # "fmlAnswer" => UNCHANGED <<toClient, toProxy>>
  /\ HasConfigurationPhase(setup.ver) /\ pc' \in During /\ Owed /\ ~Owed' => Take

LEMMA PlainLists ==
  /\ \A k \in SafeKinds \ {"LoginSuccess"} : <<k>> \in Seq(SafeKinds \ {"LoginSuccess"})
  /\ LimboConfig \in Seq(SafeKinds \ {"LoginSuccess"}) /\ <<>> \in Seq(SafeKinds \ {"LoginSuccess"})
  /\ Seq(Ends) \subseteq Seq(SafeKinds \ {"LoginSuccess"})
  /\ {"World", "Respawn", "StartConfiguration", "Chat", "Finish", "RegistryData", "LoginPlugin",
      "ConfigPing", "Channel", "KnownPacks"} \subseteq SafeKinds \ {"LoginSuccess"}
  <1>1. /\ {"World", "Respawn", "StartConfiguration", "Chat", "Finish", "RegistryData", "LoginPlugin",
            "ConfigPing", "Channel", "KnownPacks"} \subseteq SafeKinds \ {"LoginSuccess"}
        /\ Ends \subseteq SafeKinds \ {"LoginSuccess"}
    BY DEF SafeKinds, Ends
  <1> DEFINE S == SafeKinds \ {"LoginSuccess"}
  <1> HIDE DEF S
  <1>2. (\A k \in S : <<k>> \in Seq(S)) /\ (\A x, y \in S : <<x, y>> \in Seq(S)) /\ <<>> \in Seq(S)
    BY ShortLists
  <1>3. Seq(Ends) \subseteq Seq(S)
    BY <1>1, SeqMonotonic DEF S
  <1> QED
    BY <1>1, <1>2, <1>3 DEF S, LimboConfig

LEMMA GoalsAre ==
  ASSUME LoginTypes
  PROVE  Goals \subseteq States
  BY DEF Goals, States, Landing

LEMMA GiveUpMoves ==
  ASSUME LoginTypes, Stages, pc \in During, Reads, NEW kinds \in Seq(Ends), NEW err, GiveUp(kinds, err)
  PROVE  Moves
  <1> DEFINE told == IF err \in Silent \cup {"ok"} THEN <<>> ELSE <<Disconnect("play")>>
             all == kinds \o told \o GracefulKick(err)
  <1>1. told \in Seq(Ends)
    BY KicksAreEnds
  <1>2. all \in Seq(Ends)
    <2> HIDE DEF told
    <2>1. kinds \o told \in Seq(Ends) /\ GracefulKick(err) \in Seq(Ends)
      BY <1>1, KicksAreEnds, ConcatProperties
    <2> QED
      BY <2>1, ConcatProperties
  <1>3. /\ pc' = "ended" /\ Write(all)
        /\ UNCHANGED <<setup, conn, acked, inPlay, frame, drained, buffered, spoilt, client>>
    BY Zenon DEF GiveUp, End
  <1> HIDE DEF all
  <1>4. Ends \subseteq Exempt' /\ Goals' = States /\ Goals \subseteq States /\ frame \in Frames
    BY <1>3, GoalsAre DEF Exempt, Ends, Kinds, SafeKinds, Goals, LoginTypes
  <1>5. Leading(all)
    BY <1>2, <1>4, KicksEnd, Zenon DEF Leading
  <1>6. all \in Seq(SafeKinds \ {"LoginSuccess"})
    BY <1>2, PlainLists
  <1>7. Stages' /\ ~Owed'
    BY <1>3 DEF Stages, Owed, Before
  <1> QED
    BY <1>3, <1>5, <1>6, <1>7, Zenon DEF Moves, During

(* A packet list that leads from the only goal to the next.                *)
LEMMA LeadingBy ==
  ASSUME LoginTypes, NEW kinds, NEW b, NEW c, Goals = {b}, Goals' = {c}, Leads(kinds, b, c, Landing)
  PROVE  Leading(kinds)
  BY Zenon DEF Leading, Leads, LoginTypes

(* Where a backend can be lost, and what the client sent has a meaning.    *)
Losing == {"backendLogin", "config", "oneAnswer", "packsAnswer", "finishAck", "acking", "worldReset"}

(* Limbo instead of a backend: it speaks to the client where that is.      *)
LEMMA EnterLimboMoves ==
  ASSUME LoginTypes, Stages, pc \in {"joining"} \cup Losing, pc = "joining" \/ ~inPlay,
         EnterLimbo(FALSE, <<>>), UNCHANGED <<setup, acked, frame, client>>,
         Reads, pc \in {"joining", "backendLogin"} => UNCHANGED toProxy
  PROVE  Moves
  <1>0. Reads /\ (spoilt => spoilt') /\ inPlay' = FALSE
    BY ZenonT(60) DEF Reads, EnterLimbo
  <1>j. Owed <=> pc \in {"joining", "backendLogin"}
    BY DEF Owed, Losing
  <1>1. CASE ~HasConfigurationPhase(setup.ver)
    <2>1. pc' = "limbo" /\ Write(<<"World">>)
      <3>1. <<>> \o <<"World">> = <<"World">>
        OBVIOUS
      <3> QED
        BY <1>1, <3>1, Zenon DEF EnterLimbo
    <2>2. Goals = {"play"} /\ Goals' = {"play"}
      BY <1>1, <2>1 DEF Goals, Landing, Stages, Losing
    <2>3. Leading(<<"World">>)
      BY <2>2, LeadsBy, LeadingBy, Zenon
    <2>4. Stages' /\ ~Owed'
      BY <2>1 DEF Stages, Owed, Before
    <2> QED
      BY <1>0, <1>1, <2>1, <2>3, <2>4, PlainLists, Zenon DEF Moves, During
  <1>2. CASE HasConfigurationPhase(setup.ver) /\ acked
    <2>1. pc' = "limboFinish" /\ Write(LimboConfig)
      <3>1. <<>> \o LimboConfig = LimboConfig
        BY DEF LimboConfig
      <3> QED
        BY <1>2, <3>1, Zenon DEF EnterLimbo
    <2>2. pc \notin {"joining", "backendLogin"}
      BY <1>2, <1>j DEF Stages
    <2>3. Goals' = {"play"}
      BY <2>1 DEF Goals
    <2>4. CASE pc \in {"config", "oneAnswer", "packsAnswer"}
      <3>1. Goals = {"config"}
        BY <2>4 DEF Goals
      <3>2. Leading(LimboConfig)
        BY <2>3, <3>1, LeadsBy, LeadingBy, Zenon
      <3>3. Stages' /\ ~Owed'
        BY <1>2, <2>1, SMTT(60) DEF Stages, Owed, Before
      <3> QED
        BY <1>0, <1>2, <2>1, <2>2, <3>2, <3>3, <1>j, PlainLists, Zenon DEF Moves, During
    <2>5. CASE pc \in {"finishAck", "acking"}
      <3>1. Goals = {"play"} /\ spoilt'
        BY <2>5, Zenon DEF Goals, EnterLimbo
      <3>2. "RegistryData" \in Exempt' /\ "RegistryData" \in Kinds /\ "Finish" \in Kinds
        BY <3>1 DEF Exempt, Kinds, SafeKinds
      <3>3. Framed(LimboConfig, frame) = Framed(<<"RegistryData">>, frame) \o Framed(<<"Finish">>, frame)
        <4>1. LimboConfig = <<"RegistryData">> \o <<"Finish">>
          BY DEF LimboConfig
        <4>2. <<"RegistryData">> \in Seq(Kinds) /\ <<"Finish">> \in Seq(Kinds) /\ frame \in Frames
          BY <3>2, ShortLists DEF LoginTypes
        <4> QED
          BY <4>1, <4>2, FramedJoins, Zenon
      <3>4. Dooms(Framed(<<"RegistryData">>, frame), "play", Exempt', Landing)
        BY <3>2, DoomsOne, ReadIn, Zenon DEF LoginTypes
      <3>5. Dooms(Framed(LimboConfig, frame), "play", Exempt', Landing)
        BY <3>2, <3>3, <3>4, DoomsGrow, FramedOne DEF LoginTypes
      <3>6. Leading(LimboConfig)
        BY <3>1, <3>5, Zenon DEF Leading
      <3>7. Stages' /\ ~Owed'
        BY <1>2, <2>1 DEF Stages, Owed, Before
      <3> QED
        BY <1>0, <1>2, <2>1, <2>2, <3>6, <3>7, <1>j, PlainLists, Zenon DEF Moves, During
    <2>6. pc # "worldReset"
      BY <1>2 DEF Stages
    <2> QED
      BY <2>2, <2>4, <2>5, <2>6 DEF Losing
  <1>3. CASE HasConfigurationPhase(setup.ver) /\ ~acked
    <2>1. pc' = "limboAck" /\ Write(<<>>)
      BY <1>3, Zenon DEF EnterLimbo
    <2>2. pc \in {"joining", "backendLogin"} /\ Owed
      BY <1>3, <1>j DEF Stages, Losing
    <2>3. Goals = {"config"} /\ Goals' = {"config"}
      BY <1>3, <2>1, <2>2 DEF Goals, Landing
    <2>4. Leading(<<>>)
      BY <2>3, LeadsNowhere, LeadingBy, Zenon
    <2>5. Stages' /\ Owed'
      BY <1>3, <2>1 DEF Stages, Owed, Before
    <2>6. toClient' = toClient
      BY <2>1, NothingAdded, Zenon DEF Write, LoginTypes
    <2> QED
      BY <1>0, <1>3, <2>1, <2>2, <2>4, <2>5, <2>6, PlainLists, Zenon DEF Moves, During
  <1> QED
    BY <1>1, <1>2, <1>3

(* The backend is lost while the client's answer to an FML question is     *)
(* awaited, which never comes: nothing is known of what is under way.      *)
LEMMA FmlLostMoves ==
  ASSUME LoginTypes, Stages, pc = "fmlAnswer", ~inPlay, Reads,
         EnterLimbo(FALSE, <<>>), UNCHANGED <<setup, acked, frame, client>>
  PROVE  Moves
  <1>1. ~acked /\ Owed /\ (spoilt => spoilt') /\ Goals = {}
    BY ZenonT(60) DEF Stages, Owed, EnterLimbo, Goals
  <1>2. \A kinds : Leading(kinds)
    BY <1>1, Zenon DEF Leading
  <1>3. CASE ~HasConfigurationPhase(setup.ver)
    <2>1. pc' = "limbo" /\ Write(<<"World">>)
      <3>1. <<>> \o <<"World">> = <<"World">>
        OBVIOUS
      <3> QED
        BY <1>3, <3>1, Zenon DEF EnterLimbo
    <2>2. Stages' /\ ~Owed'
      BY <2>1 DEF Stages, Owed, Before
    <2> QED
      BY <1>1, <1>2, <1>3, <2>1, <2>2, PlainLists, Zenon DEF Moves, During
  <1>4. CASE HasConfigurationPhase(setup.ver)
    <2>1. pc' = "limboAck" /\ Write(<<>>)
      BY <1>1, <1>4, Zenon DEF EnterLimbo
    <2>2. Stages' /\ Owed'
      BY <1>1, <1>4, <2>1 DEF Stages, Owed, Before
    <2> QED
      BY <1>1, <1>2, <1>4, <2>1, <2>2, PlainLists, Zenon DEF Moves, During
  <1> QED
    BY <1>3, <1>4

(* A lost backend: the end for a client in play, limbo for another.        *)
LEMMA BackendLostMoves ==
  ASSUME LoginTypes, Stages, pc \in Losing \cup {"fmlAnswer", "configAck"}, NEW err, BackendLost(err),
         Reads, pc = "backendLogin" => UNCHANGED toProxy
  PROVE  Moves
  <1>1. CASE inPlay
    <2>1. pc \in During /\ GiveUp(<<>>, err)
      BY <1>1, Zenon DEF Losing, During, BackendLost
    <2> QED
      BY <2>1, KicksAreEnds, GiveUpMoves, Zenon
  <1>2. CASE ~inPlay
    <2>1. pc \in Losing \/ pc = "fmlAnswer"
      BY <1>2 DEF Stages
    <2>2. EnterLimbo(FALSE, <<>>) /\ UNCHANGED <<setup, acked, frame, client>>
      BY <1>2, Zenon DEF BackendLost
    <2>3. pc # "joining"
      BY DEF Losing
    <2> QED
      BY <1>2, <2>1, <2>2, <2>3, EnterLimboMoves, FmlLostMoves
  <1> QED
    BY <1>1, <1>2

(* A step that writes the packets kinds and takes the client from state b  *)
(* to state c.                                                             *)
LEMMA StepMoves ==
  ASSUME LoginTypes, Reads, UNCHANGED <<setup, client, frame, spoilt>>,
         NEW kinds \in Seq(SafeKinds \ {"LoginSuccess"}), Write(kinds), Leading(kinds),
         pc' \in During \ {"fmlAnswer"}, Stages', Owed' => Owed /\ pc = "fmlAnswer", Owed /\ ~Owed' => Take
  PROVE  Moves
  BY Zenon DEF Moves

LEMMA ReadingMoves ==
  ASSUME LoginTypes, Stages, pc \notin Before, client.state \notin Gone,
         ReadAnswer \/ ReadLoginAck \/ ReadConfigAck \/ ReadFinishAck \/ AcknowledgeBackend
  PROVE  Moves
  <1>1. UNCHANGED <<setup, client, frame, spoilt, toClient>> /\ Reads
    BY DEF ReadAnswer, ReadLoginAck, ReadConfigAck, ReadFinishAck, AcknowledgeBackend, Relays, proxy, Take, Reads
  <1>2. toClient = toClient \o Framed(<<>>, frame)
    BY NothingAdded, Zenon DEF LoginTypes
  <1>3. Write(<<>>)
    BY <1>1, <1>2, Zenon DEF Write
  <1>4. ASSUME Goals \subseteq Goals' PROVE Leading(<<>>)
    BY <1>4, LeadsNowhere, Zenon DEF Leading, Leads, LoginTypes
  <1>5. CASE ReadAnswer
    <2>1. pc \in {"fmlAnswer", "oneAnswer", "packsAnswer"} /\ UNCHANGED <<acked, inPlay, setup>>
      BY <1>5 DEF ReadAnswer, proxy
    <2>2. CASE pc = "fmlAnswer"
      <3>1. pc' = "backendLogin"
        BY <1>5, <2>2 DEF ReadAnswer
      <3>2. Goals = {} /\ Stages' /\ (Owed' <=> Owed)
        BY <2>1, <2>2, <3>1 DEF Goals, Stages, Owed, Before
      <3>3. Leading(<<>>)
        BY <1>4, <3>2
      <3> QED
        BY <1>1, <1>3, <2>2, <3>1, <3>2, <3>3, PlainLists, StepMoves, Zenon DEF During
    <2>3. CASE pc # "fmlAnswer"
      <3>1. pc' \in {"config", "packsAnswer"} /\ pc \in {"oneAnswer", "packsAnswer"}
        BY <1>5, <2>1, <2>3 DEF ReadAnswer
      <3>2. Goals = {"config"} /\ Goals' = {"config"} /\ Stages' /\ ~Owed' /\ ~Owed
        BY <2>1, <3>1 DEF Goals, Stages, Owed, Before
      <3>3. Leading(<<>>) /\ pc' \in During \ {"fmlAnswer"}
        BY <1>4, <3>1, <3>2 DEF During
      <3> QED
        BY <1>1, <1>3, <3>2, <3>3, PlainLists, StepMoves, Zenon
    <2> QED
      BY <2>2, <2>3
  <1>6. CASE ReadLoginAck
    <2>1. pc = "loginAck" /\ pc' = "config" /\ Take /\ acked' = TRUE
      BY <1>6 DEF ReadLoginAck
    <2>2. Goals = {"config"} /\ Goals' = {"config"} /\ Stages' /\ ~Owed'
      BY <1>1, <2>1 DEF Goals, Stages, Owed, Before
    <2>3. Leading(<<>>) /\ pc' \in During \ {"fmlAnswer"}
      BY <1>4, <2>1, <2>2 DEF During
    <2> QED
      BY <1>1, <1>3, <2>1, <2>2, <2>3, PlainLists, StepMoves, Zenon
  <1>7. CASE ReadConfigAck
    <2>1. /\ pc = "configAck" /\ UNCHANGED inPlay
          /\ (pc' = "config" /\ acked' = TRUE) \/ UNCHANGED <<pc, acked>>
      BY <1>7 DEF ReadConfigAck
    <2>2. Goals = {"config"} /\ Goals' = {"config"} /\ Stages' /\ ~Owed /\ ~Owed'
      BY <1>1, <2>1 DEF Goals, Stages, Owed, Before
    <2>3. Leading(<<>>) /\ pc' \in During \ {"fmlAnswer"}
      BY <1>4, <2>1, <2>2 DEF During
    <2> QED
      BY <1>1, <1>3, <2>2, <2>3, PlainLists, StepMoves, Zenon
  <1>8. CASE ReadFinishAck \/ AcknowledgeBackend
    <2>1. /\ pc \in {"finishAck", "acking"} /\ pc' \in {"finishAck", "acking", "relay"}
          /\ UNCHANGED <<acked, inPlay>>
      BY <1>8 DEF ReadFinishAck, AcknowledgeBackend, Relays, proxy
    <2>2. Goals = {"play"} /\ Goals' = {"play"} /\ Stages' /\ ~Owed /\ ~Owed'
      BY <1>1, <2>1 DEF Goals, Stages, Owed, Before
    <2>3. Leading(<<>>) /\ pc' \in During \ {"fmlAnswer"}
      BY <1>4, <2>1, <2>2 DEF During
    <2> QED
      BY <1>1, <1>3, <2>2, <2>3, PlainLists, StepMoves, Zenon
  <1> QED
    BY <1>5, <1>6, <1>7, <1>8

LEMMA LimboMoves ==
  ASSUME LoginTypes, Stages,
         LimboReadsAck \/ LimboReadsConfigAck \/ LimboReadsFinishAck \/ LimboReads \/ LimboLeaves
  PROVE  Moves
  <1>1. UNCHANGED <<setup, client, frame, spoilt, acked>> /\ Reads
    BY DEF LimboReadsAck, LimboReadsConfigAck, LimboReadsFinishAck, LimboReads, LimboLeaves, proxy, Take, Reads
  <1>2. toClient = toClient \o Framed(<<>>, frame)
    BY NothingAdded, Zenon DEF LoginTypes
  <1>3. UNCHANGED toClient => Write(<<>>)
    BY <1>2, Zenon DEF Write
  <1>4. ASSUME NEW b, Goals = {b}, Goals' = {b} PROVE Leading(<<>>)
    BY <1>4, LeadsNowhere, LeadingBy, ZenonT(60)
  <1>5. CASE LimboReadsAck \/ (LimboReadsConfigAck /\ pc' = "limboFinish")
    <2>1. pc \in {"limboAck", "limboConfigAck"} /\ pc' = "limboFinish" /\ Take /\ Write(LimboConfig)
      BY <1>5 DEF LimboReadsAck, LimboReadsConfigAck
    <2>2. Goals = {"config"} /\ Goals' = {"play"} /\ Stages' /\ ~Owed'
      BY <1>1, <2>1 DEF Goals, Stages, Owed, Before
    <2>3. Leading(LimboConfig) /\ pc' \in During \ {"fmlAnswer"}
      BY <2>1, <2>2, LeadsBy, LeadingBy DEF During
    <2> QED
      BY <1>1, <2>1, <2>2, <2>3, PlainLists, StepMoves, Zenon
  <1>6. CASE LimboReadsConfigAck /\ pc' # "limboFinish"
    <2>1. pc = "limboConfigAck" /\ pc' = "limboConfigAck" /\ UNCHANGED toClient
      BY <1>6 DEF LimboReadsConfigAck
    <2>2. Goals = {"config"} /\ Goals' = {"config"} /\ Stages' /\ ~Owed /\ ~Owed'
      BY <1>1, <2>1 DEF Goals, Stages, Owed, Before
    <2>3. Leading(<<>>) /\ pc' \in During \ {"fmlAnswer"}
      BY <1>4, <2>1, <2>2 DEF During
    <2> QED
      BY <1>1, <1>3, <2>1, <2>2, <2>3, PlainLists, StepMoves, Zenon
  <1>7. CASE LimboReadsFinishAck /\ pc' = "limbo"
    <2>1. pc = "limboFinish" /\ Write(<<"World">>)
      BY <1>7 DEF LimboReadsFinishAck
    <2>2. Goals = {"play"} /\ Goals' = {"play"} /\ Stages' /\ ~Owed /\ ~Owed'
      BY <1>1, <1>7, <2>1, SMTT(60) DEF Goals, Stages, Owed, Before
    <2>3. Leading(<<"World">>) /\ pc' \in During \ {"fmlAnswer"}
      BY <1>7, <2>1, <2>2, LeadsBy, LeadingBy DEF During
    <2> QED
      BY <1>1, <2>1, <2>2, <2>3, PlainLists, StepMoves, Zenon
  <1>8. CASE (LimboReadsFinishAck /\ pc' # "limbo") \/ LimboReads
    <2>1. pc \in {"limboFinish", "limbo"} /\ pc' = pc /\ UNCHANGED <<toClient, inPlay>>
      BY <1>8 DEF LimboReadsFinishAck, LimboReads, proxy
    <2>2. Goals = {"play"} /\ Goals' = {"play"} /\ Stages' /\ ~Owed /\ ~Owed'
      BY <1>1, <2>1 DEF Goals, Stages, Owed, Before
    <2>3. Leading(<<>>) /\ pc' \in During \ {"fmlAnswer"}
      BY <1>4, <2>1, <2>2 DEF During
    <2> QED
      BY <1>1, <1>3, <2>1, <2>2, <2>3, PlainLists, StepMoves, Zenon
  <1>9. CASE LimboLeaves
    <2>1. pc = "limbo" /\ pc' = "backendLogin" /\ Write(<<"Respawn">>) /\ inPlay' = TRUE
      BY <1>9 DEF LimboLeaves
    <2>2. Goals = {"play"} /\ Goals' = {"play"} /\ Stages' /\ ~Owed /\ ~Owed'
      BY <1>1, <2>1 DEF Goals, Stages, Owed, Before
    <2>3. Leading(<<"Respawn">>) /\ pc' \in During \ {"fmlAnswer"}
      BY <2>1, <2>2, LeadsBy, LeadingBy DEF During
    <2> QED
      BY <1>1, <2>1, <2>2, <2>3, PlainLists, StepMoves, Zenon
  <1> QED
    BY <1>5, <1>6, <1>7, <1>8, <1>9, SMTT(60)

LEMMA JoinMoves ==
  ASSUME LoginTypes, Stages, Join
  PROVE  Moves
  <1>1. pc = "joining" /\ pc \in During /\ UNCHANGED toProxy /\ Reads
    BY DEF Join, During, Reads
  <1>2. CASE GiveUp(<<>>, "auth")
    BY <1>1, <1>2, KicksAreEnds, GiveUpMoves, Zenon
  <1>3. CASE EnterLimbo(FALSE, <<>>) /\ UNCHANGED <<setup, conn, acked, frame, buffered, session, metric, client>>
    BY <1>1, <1>3, EnterLimboMoves DEF Losing
  <1>4. CASE /\ pc' = "backendLogin" /\ inPlay' = FALSE
             /\ UNCHANGED <<setup, conn, acked, frame, drained, buffered, session, metric, spoilt, client, toClient>>
    <2>1. Goals = {Landing} /\ Goals' = {Landing} /\ Stages' /\ Owed /\ Owed'
      BY <1>1, <1>4 DEF Goals, Landing, Stages, Owed, Before
    <2>2. Leading(<<>>)
      BY <2>1, LeadsNowhere, LeadingBy, ZenonT(60)
    <2>3. Write(<<>>)
      BY <1>4, NothingAdded, Zenon DEF Write, LoginTypes
    <2> QED
      BY <1>1, <1>4, <2>1, <2>2, <2>3, PlainLists, Zenon DEF Moves, During
  <1> QED
    BY <1>2, <1>3, <1>4, Zenon DEF Join

LEMMA SuccessMoves ==
  ASSUME LoginTypes, Stages, BackendSuccess
  PROVE  Moves
  <1>1. pc = "backendLogin" /\ UNCHANGED toProxy /\ Reads
    BY DEF BackendSuccess, Reads
  <1>2. CASE ~HasConfigurationPhase(setup.ver)
    <2>1. pc' \in {"relay", "worldReset"} /\ UNCHANGED <<setup, acked, inPlay, frame, spoilt, client, toClient>>
      BY <1>2 DEF BackendSuccess, Relays, proxy
    <2>2. Goals = {"play"} /\ Goals' = {"play"} /\ Stages' /\ ~Owed'
      BY <1>1, <1>2, <2>1 DEF Goals, Landing, Stages, Owed, Before
    <2>3. Leading(<<>>)
      BY <2>2, LeadsNowhere, LeadingBy, Zenon
    <2>4. Write(<<>>)
      BY <2>1, NothingAdded, Zenon DEF Write, LoginTypes
    <2> QED
      BY <1>1, <1>2, <2>1, <2>2, <2>3, <2>4, PlainLists, Zenon DEF Moves, During
  <1>3. CASE HasConfigurationPhase(setup.ver) /\ inPlay
    <2>1. /\ pc' = "configAck" /\ Write(<<"StartConfiguration">>)
          /\ UNCHANGED <<setup, acked, inPlay, frame, spoilt, client>>
      BY <1>3 DEF BackendSuccess, proxy
    <2>2. Goals = {"play"} /\ Goals' = {"config"} /\ Stages' /\ ~Owed /\ ~Owed'
      BY <1>1, <1>3, <2>1 DEF Goals, Stages, Owed, Before
    <2>3. Leading(<<"StartConfiguration">>) /\ pc' \in During \ {"fmlAnswer"}
      BY <2>1, <2>2, LeadsBy, LeadingBy DEF During
    <2> QED
      BY <1>1, <2>1, <2>2, <2>3, PlainLists, StepMoves, Zenon
  <1>4. CASE HasConfigurationPhase(setup.ver) /\ ~inPlay
    <2>1. pc' = "loginAck" /\ UNCHANGED <<setup, acked, inPlay, frame, spoilt, client, toClient>>
      BY <1>4 DEF BackendSuccess, proxy
    <2>2. Goals = {"config"} /\ Goals' = {"config"} /\ Stages' /\ Owed /\ Owed'
      BY <1>1, <1>4, <2>1 DEF Goals, Landing, Stages, Owed, Before
    <2>3. Leading(<<>>)
      BY <2>2, LeadsNowhere, LeadingBy, Zenon
    <2>4. Write(<<>>)
      BY <2>1, NothingAdded, Zenon DEF Write, LoginTypes
    <2> QED
      BY <1>1, <2>1, <2>2, <2>3, <2>4, PlainLists, Zenon DEF Moves, During
  <1> QED
    BY <1>2, <1>3, <1>4

(* Two lists of one element.                                               *)
LEMMA JoinOnes ==
  ASSUME NEW x, NEW y
  PROVE  <<x>> \o <<y>> = <<x, y>>
  <1>1. <<x>> \in Seq({x, y}) /\ <<y>> \in Seq({x, y}) /\ <<x, y>> \in Seq({x, y})
    OBVIOUS
  <1>2. Len(<<x>>) = 1 /\ Len(<<y>>) = 1 /\ Len(<<x, y>>) = 2 /\ <<y>>[1] = y
    OBVIOUS
  <1>3. Len(<<x>> \o <<y>>) = 2 /\ (<<x>> \o <<y>>)[1] = x /\ (<<x>> \o <<y>>)[2] = y
    BY <1>1, <1>2, ConcatProperties
  <1> QED
    <2> DEFINE z == <<x>> \o <<y>>
    <2>1. z \in Seq({x, y})
      BY <1>1, ConcatProperties, Zenon
    <2>2. Len(z) = Len(<<x, y>>)
      BY <1>2, <1>3, Zenon
    <2> HIDE DEF z
    <2>3. z[1] = x /\ z[2] = y /\ Len(z) = 2
      BY <1>3 DEF z
    <2>4. \A i \in 1..Len(z) : z[i] = <<x, y>>[i]
      BY <2>3
    <2>5. z = <<x, y>>
      BY <1>1, <2>1, <2>2, <2>4, SeqEqual, Zenon
    <2> QED
      BY <2>5 DEF z

(* The world reset of a changed server keeps the client in play.           *)
LEMMA ResetMoves ==
  ASSUME LoginTypes, Stages, WorldReset
  PROVE  Moves
  <1>1. PICK kinds \in {<<>>, <<"Respawn">>, <<"Respawn", "Respawn">>, <<"Chat">>} : Write(kinds)
    BY Zenon DEF WorldReset
  <1>2. /\ pc = "worldReset" /\ pc' = "relay" /\ Reads
        /\ UNCHANGED <<setup, acked, inPlay, frame, spoilt, client>>
    BY DEF WorldReset, Relays, Reads
  <1>3. Goals = {"play"} /\ Goals' = {"play"} /\ Stages' /\ ~Owed /\ ~Owed'
    BY <1>2 DEF Goals, Stages, Owed, Before
  <1> DEFINE S == SafeKinds \ {"LoginSuccess"}
  <1>4. /\ Leads(kinds, "play", "play", Landing) /\ kinds \in Seq(S)
    <2>1. "Respawn" \in S /\ "Chat" \in S /\ "Respawn" \in Kinds
      BY DEF SafeKinds, Kinds
    <2> HIDE DEF S
    <2>2. /\ <<>> \in Seq(S) /\ <<"Respawn">> \in Seq(S) /\ <<"Chat">> \in Seq(S)
          /\ <<"Respawn", "Respawn">> \in Seq(S) /\ <<"Respawn">> \in Seq(Kinds)
      BY <2>1, ShortLists
    <2>4. /\ Leads(<<"Respawn">>, "play", "play", Landing) /\ Leads(<<"Chat">>, "play", "play", Landing)
          /\ Leads(<<>>, "play", "play", Landing)
      BY LeadsBy, LeadsNowhere, Zenon
    <2>5. Leads(<<"Respawn", "Respawn">>, "play", "play", Landing)
      BY <2>2, <2>4, JoinOnes, LeadsOn, Zenon
    <2> QED
      BY <2>2, <2>4, <2>5, Zenon
  <1>5. Leading(kinds) /\ pc' \in During \ {"fmlAnswer"}
    BY <1>2, <1>3, <1>4, LeadingBy, Zenon DEF During
  <1> QED
    BY <1>1, <1>2, <1>3, <1>4, <1>5, StepMoves, Zenon

LEMMA AskingMoves ==
  ASSUME LoginTypes, Stages, BackendAsks
  PROVE  Moves
  <1>1. CASE Asks("backendLogin", "LoginPlugin", "fmlAnswer")
    <2>1. /\ pc = "backendLogin" /\ pc' = "fmlAnswer" /\ Write(<<"LoginPlugin">>) /\ Reads
          /\ UNCHANGED <<setup, acked, inPlay, frame, spoilt, client>>
      BY <1>1 DEF Asks, proxy, Reads
    <2>2. Goals \subseteq {"config", "play"} /\ Stages' /\ (Owed <=> Owed')
      BY <2>1 DEF Goals, Landing, Stages, Owed, Before
    <2>3. "LoginPlugin" \in Exempt' /\ "LoginPlugin" \in Kinds /\ frame \in Frames
      BY DEF Exempt, Kinds, SafeKinds, LoginTypes
    <2>4. \A b \in {"config", "play"} : Stuck(b, "LoginPlugin")
      BY ReadIn
    <2>5. Leading(<<"LoginPlugin">>)
      BY <2>2, <2>3, <2>4, DoomsOne, Zenon DEF Leading
    <2> QED
      BY <2>1, <2>2, <2>5, PlainLists, Zenon DEF Moves, During
  <1>2. ASSUME NEW kind \in {"ConfigPing", "Channel", "KnownPacks"}, NEW then \in {"oneAnswer", "packsAnswer"},
               Asks("config", kind, then)
        PROVE  Moves
    <2>1. /\ pc = "config" /\ pc' = then /\ Write(<<kind>>) /\ Reads
          /\ UNCHANGED <<setup, acked, inPlay, frame, spoilt, client>>
      BY <1>2 DEF Asks, proxy, Reads
    <2>2. Goals = {"config"} /\ Goals' = {"config"} /\ Stages' /\ ~Owed /\ ~Owed'
      BY <2>1, SMTT(60) DEF Goals, Stages, Owed, Before
    <2>3. Leading(<<kind>>) /\ pc' \in During \ {"fmlAnswer"} /\ <<kind>> \in Seq(SafeKinds \ {"LoginSuccess"})
      BY <2>1, <2>2, LeadsBy, LeadingBy, PlainLists, ZenonT(60) DEF During
    <2> QED
      BY <2>1, <2>2, <2>3, StepMoves, Zenon
  <1> QED
    BY <1>1, <1>2 DEF BackendAsks

LEMMA BackendMoves ==
  ASSUME LoginTypes, Stages, BackendFinishes \/ BackendConfigures
  PROVE  Moves
  <1>1. pc = "config" /\ UNCHANGED <<setup, acked, inPlay, frame, spoilt, client, toProxy>> /\ Reads
    BY DEF BackendFinishes, BackendConfigures, Reads
  <1>2. CASE BackendConfigures
    <2>1. pc' = "config" /\ UNCHANGED toClient
      BY <1>1, <1>2 DEF BackendConfigures
    <2>2. Goals = {"config"} /\ Goals' = {"config"} /\ Stages' /\ ~Owed /\ ~Owed'
      BY <1>1, <2>1 DEF Goals, Stages, Owed, Before
    <2>3. Leading(<<>>) /\ pc' \in During \ {"fmlAnswer"}
      BY <2>1, <2>2, LeadsNowhere, LeadingBy, Zenon DEF During
    <2>4. Write(<<>>)
      BY <1>1, <2>1, NothingAdded, Zenon DEF Write, LoginTypes
    <2> QED
      BY <1>1, <2>2, <2>3, <2>4, PlainLists, StepMoves, Zenon
  <1>3. CASE BackendFinishes
    <2>1. pc' = "finishAck" /\ (Write(LimboConfig) \/ Write(<<"Finish">>))
      <3>1. LimboConfig = <<"RegistryData">> \o <<"Finish">>
        BY DEF LimboConfig
      <3>2. <<>> \o <<"Finish">> = <<"Finish">>
        OBVIOUS
      <3> QED
        BY <1>3, <3>1, <3>2, Zenon DEF BackendFinishes
    <2>2. Goals = {"config"} /\ Goals' = {"play"} /\ Stages' /\ ~Owed /\ ~Owed'
      BY <1>1, <2>1, SMTT(60) DEF Goals, Stages, Owed, Before
    <2>3. Leading(<<"Finish">>) /\ Leading(LimboConfig) /\ pc' \in During \ {"fmlAnswer"}
      BY <2>1, <2>2, LeadsBy, LeadingBy DEF During
    <2> QED
      BY <1>1, <2>1, <2>2, <2>3, PlainLists, StepMoves, Zenon
  <1> QED
    BY <1>2, <1>3

LEMMA SwitchMoves ==
  ASSUME LoginTypes, Stages, Switch
  PROVE  Moves
  <1>1. PICK kinds \in {<<>>, <<"Chat">>} : EnterLimbo(TRUE, kinds)
    BY Zenon DEF Switch
  <1>2. /\ pc = "relay" /\ UNCHANGED <<setup, acked, frame, client, toProxy>> /\ Reads /\ (spoilt => spoilt')
        /\ inPlay' = TRUE
    BY <1>1, Zenon DEF Switch, Reads, EnterLimbo
  <1> DEFINE S == SafeKinds \ {"LoginSuccess"}
  <1>3. /\ kinds \in Seq(S) /\ <<"World">> \in Seq(S) /\ <<"StartConfiguration">> \in Seq(S)
    BY PlainLists, ZenonT(60)
  <1>4. kinds \o <<"World">> \in Seq(S) /\ kinds \o <<"StartConfiguration">> \in Seq(S)
    <2> HIDE DEF S
    <2> QED
      BY <1>3, ConcatProperties
  <1>5. /\ Leads(kinds \o <<"World">>, "play", "play", Landing)
        /\ Leads(kinds \o <<"StartConfiguration">>, "play", "config", Landing)
    <2>1. /\ <<>> \o <<"World">> = <<"World">>
          /\ <<>> \o <<"StartConfiguration">> = <<"StartConfiguration">>
      OBVIOUS
    <2> QED
      BY <2>1, LeadsBy, Zenon
  <1>6. CASE pc' = "limbo" /\ Write(kinds \o <<"World">>)
    <2>1. Goals = {"play"} /\ Goals' = {"play"} /\ Stages' /\ ~Owed /\ ~Owed'
      BY <1>2, <1>6 DEF Goals, Stages, Owed, Before
    <2>2. Leading(kinds \o <<"World">>)
      BY <1>5, <2>1, LeadingBy
    <2> QED
      BY <1>2, <1>4, <1>6, <2>1, <2>2, Zenon DEF Moves, During
  <1>7. CASE HasConfigurationPhase(setup.ver) /\ pc' = "limboConfigAck" /\ Write(kinds \o <<"StartConfiguration">>)
    <2>1. Goals = {"play"} /\ Goals' = {"config"} /\ Stages' /\ ~Owed /\ ~Owed'
      BY <1>2, <1>7 DEF Goals, Stages, Owed, Before
    <2>2. Leading(kinds \o <<"StartConfiguration">>)
      BY <1>5, <2>1, LeadingBy
    <2> QED
      BY <1>2, <1>4, <1>7, <2>1, <2>2, Zenon DEF Moves, During
  <1> QED
    BY <1>1, <1>6, <1>7, Zenon DEF EnterLimbo

LEMMA PlayerMoves ==
  ASSUME LoginTypes, Stages, client.state \notin Gone, pc \notin Before,
         Task \/ Backend \/ BackendConfigures \/ RelayEnds \/ Switch \/ LimboLeaves \/ LimboShutdown
  PROVE  Moves
  <1>1. CASE RelayEnds
    <2>1. /\ pc = "relay" /\ pc' = "ended" /\ Reads
          /\ UNCHANGED <<setup, acked, inPlay, frame, spoilt, client, toClient, toProxy>>
      BY <1>1 DEF RelayEnds, Reads
    <2>2. Goals = {"play"} /\ Goals' = States /\ Stages' /\ ~Owed'
      BY <2>1 DEF Goals, Stages, Owed, Before
    <2>3. Write(<<>>)
      BY <2>1, NothingAdded, Zenon DEF Write, LoginTypes
    <2>4. Leading(<<>>)
      <3>1. "play" \in States
        BY DEF States
      <3> QED
        BY <2>2, <3>1, LeadsNowhere, Zenon DEF Leading, Leads, LoginTypes
    <2> QED
      BY <2>1, <2>2, <2>3, <2>4, PlainLists, Zenon DEF Moves, During
  <1>2. CASE LimboShutdown
    <2>1. pc \in During /\ Reads /\ GiveUp(<<Disconnect("play")>>, "closed")
      BY <1>2 DEF LimboShutdown, During, Reads
    <2> QED
      BY <2>1, KicksAreEnds, GiveUpMoves, Zenon
  <1>3. CASE BackendFails
    <2>1. PICK err \in {"closed", "protocol"} : BackendLost(err)
      BY <1>3 DEF BackendFails
    <2>2. pc \in Losing /\ UNCHANGED toProxy /\ Reads
      BY <1>3 DEF BackendFails, BackendStages, Losing, Reads
    <2> QED
      BY <2>1, <2>2, BackendLostMoves
  <1>4. CASE TimedOut
    <2>1. pc \in Losing \cup {"configAck"} /\ BackendLost("io") /\ UNCHANGED toProxy /\ Reads
      BY <1>4 DEF TimedOut, Losing, Before, Reads
    <2> QED
      BY <2>1, BackendLostMoves
  <1>a. CASE AnswerLost
    <2>1. pc \in {"fmlAnswer", "oneAnswer", "packsAnswer"} /\ BackendLost("io") /\ Reads
      BY <1>a DEF AnswerLost, Take, Reads
    <2> QED
      BY <2>1, BackendLostMoves DEF Losing
  <1>5. ~NoticesClosed
    BY DEF NoticesClosed
  <1>6. ~Peek /\ ~ReadHandshake /\ ~HandleStatus /\ ~ReadLoginStart /\ ~ReadEncryptionResponse
    BY Zenon DEF Peek, ReadHandshake, HandleStatus, ReadLoginStart, ReadEncryptionResponse, Before
  <1> QED
    BY <1>1, <1>2, <1>3, <1>4, <1>5, <1>6, <1>a, JoinMoves, SuccessMoves, ResetMoves, AskingMoves,
       BackendMoves, SwitchMoves, ReadingMoves, LimboMoves, Zenon DEF Task, Backend

-----------------------------------------------------------------------------
(* Steps of the task keep the invariant.                                   *)
LEMMA MovesLead ==
  ASSUME LoginTypes, Way, UNCHANGED <<setup, client>>, Exempt \subseteq Exempt',
         NEW kinds \in Seq(Kinds), Write(kinds), Leading(kinds)
  PROVE  Way'
  <1> DEFINE t == Framed(kinds, frame)
             a == client.state
  <1>1. /\ toClient \in Seq(Packet) /\ t \in Seq(Packet) /\ toClient' = toClient \o t
        /\ Landing' = Landing /\ client'.state = a
    BY FramedIs, ZenonT(60) DEF LoginTypes, Write, Landing
  <1>2. \A b \in Goals : Dooms(t, b, Exempt', Landing) \/ \E c \in Goals' : Holds(t, b, c, Landing)
    BY DEF Leading
  <1> HIDE DEF t, a
  <1>3. CASE Dooms(toClient, a, Exempt, Landing)
    <2>1. Dooms(toClient \o t, a, Exempt', Landing)
      BY <1>1, <1>3, DoomsGrow
    <2> QED
      BY <1>1, <2>1, Zenon DEF Way
  <1>4. ASSUME NEW b \in Goals, Holds(toClient, a, b, Landing) PROVE Way'
    <2>1. CASE Dooms(t, b, Exempt', Landing)
      <3>1. Dooms(toClient \o t, a, Exempt', Landing)
        BY <1>1, <1>4, <2>1, HoldsThenDooms
      <3> QED
        BY <1>1, <3>1, Zenon DEF Way
    <2>2. ASSUME NEW c \in Goals', Holds(t, b, c, Landing) PROVE Way'
      <3>1. Holds(toClient \o t, a, c, Landing)
        BY <1>1, <1>4, <2>2, HoldsJoin, SMTT(60)
      <3> QED
        BY <1>1, <3>1, Zenon DEF Way
    <2> QED
      BY <1>2, <2>1, <2>2, Zenon
  <1> QED
    BY <1>3, <1>4, Zenon DEF Way, a

(* What a step adds to the stream, and what it leaves of the other.        *)
LEMMA KindsAdded ==
  ASSUME NEW s \in Seq(Packet), NEW S \in SUBSET Kinds, NEW kinds \in Seq(S), NEW f \in Frames,
         NEW t, t = s \o Framed(kinds, f)
  PROVE  /\ DOMAIN s \subseteq DOMAIN t /\ \A i \in DOMAIN s : t[i] = s[i]
         /\ \A i \in DOMAIN t : i \in DOMAIN s \/ (i \notin DOMAIN s /\ t[i].kind \in S)
  <1> DEFINE n == Len(s)
             m == Len(kinds)
  <1>1. /\ t \in Seq(Packet) /\ Len(t) = n + m
        /\ \A i \in 1..n : t[i] = s[i]
        /\ \A i \in 1..(n + m) : i > n => t[i].kind \in S
    BY StreamGrows, ZenonT(60)
  <1>2. DOMAIN s = 1..n /\ n \in Nat /\ m \in Nat
    BY LenProperties
  <1>3. DOMAIN t = 1..(n + m)
    BY <1>1, LenProperties
  <1> HIDE DEF n, m
  <1> QED
    BY <1>1, <1>2, <1>3

LEMMA LastAdded ==
  ASSUME NEW s \in Seq(Packet), NEW k \in Kinds, NEW f \in Frames
  PROVE  \E i \in DOMAIN (s \o Framed(<<k>>, f)) : (s \o Framed(<<k>>, f))[i].kind = k
  <1> DEFINE t == Framed(<<k>>, f)
             n == Len(s)
  <1>1. t \in Seq(Packet) /\ Len(t) = 1 /\ t[1].kind = k
    BY FramedOne
  <1> HIDE DEF t
  <1>2. /\ s \o t \in Seq(Packet) /\ n \in Nat /\ Len(s \o t) = n + 1
        /\ \A i \in 1..1 : (s \o t)[n + i] = t[i]
    BY <1>1, Joined
  <1>3. (s \o t)[n + 1].kind = k /\ n + 1 \in 1..Len(s \o t)
    BY <1>1, <1>2
  <1>4. DOMAIN (s \o t) = 1..Len(s \o t)
    BY <1>2, LenProperties
  <1> QED
    BY <1>3, <1>4, Zenon DEF t

LEMMA KindsLeft ==
  ASSUME LoginTypes, Reads
  PROVE  /\ \A i \in DOMAIN toProxy' : \E j \in DOMAIN toProxy : toProxy'[i] = toProxy[j]
         /\ Take => \A i \in DOMAIN toProxy' :
                      \E j \in DOMAIN toProxy : toProxy'[i] = toProxy[j] /\ j # 1
  <1>1. CASE toProxy # <<>> /\ toProxy' = Tail(toProxy)
    <2> DEFINE s == Tail(toProxy)
    <2>1. toProxy \in Seq(Packet)
      BY DEF LoginTypes
    <2>2. s \in Seq(Packet) /\ Len(s) \in Nat /\ \A i \in 1..Len(s) : s[i] = toProxy[i + 1] /\ i + 1 \in 1..Len(toProxy)
      BY <1>1, <2>1, StreamShrinks, LenProperties, SMTT(60)
    <2> HIDE DEF s
    <2>3. DOMAIN toProxy = 1..Len(toProxy) /\ DOMAIN s = 1..Len(s)
      BY <2>1, <2>2, LenProperties
    <2>4. \A i \in DOMAIN s : \E j \in DOMAIN toProxy : s[i] = toProxy[j] /\ j # 1
      BY <2>2, <2>3
    <2> QED
      BY <1>1, <2>4, Zenon DEF s
  <1>2. CASE toProxy' = toProxy /\ ~Take
    BY <1>2, Zenon
  <1> QED
    BY <1>1, <1>2 DEF Reads, Take

LEMMA MovesKeep ==
  ASSUME LoginTypes, client.state \notin Gone \cup {"new"}, Stages, Way, AckInv, pc \in During, Moves
  PROVE  Stages' /\ Opened' /\ Way' /\ AckInv'
  <1> DEFINE S == SafeKinds \ {"LoginSuccess"}
             conf == HasConfigurationPhase(setup.ver)
  <1>1. PICK kinds \in Seq(S) : Write(kinds) /\ Leading(kinds) /\ (pc' = "fmlAnswer" => kinds = <<"LoginPlugin">>)
    BY DEF Moves
  <1>2. /\ UNCHANGED <<setup, client, frame>> /\ Reads /\ Stages' /\ pc' \in During \cup {"ended"}
        /\ HasConfigurationPhase(setup.ver)' = conf
        /\ (spoilt => spoilt') /\ (acked' => acked \/ pc' \in During) /\ (Owed' => Owed)
        /\ Owed' /\ pc # "fmlAnswer" /\ pc' # "fmlAnswer" => UNCHANGED <<toClient, toProxy>>
        /\ conf /\ pc' \in During /\ Owed /\ ~Owed' => Take
    BY DEF Moves
  <1>3. Exempt \subseteq Exempt'
    BY <1>2 DEF Exempt, During
  <1>4. S \in SUBSET Kinds /\ kinds \in Seq(Kinds)
    <2>1. S \in SUBSET Kinds
      BY DEF Kinds
    <2> QED
      BY <2>1, SeqMonotonic
  <1>5. Way'
    BY <1>1, <1>2, <1>3, <1>4, MovesLead, Zenon
  <1>6. Opened'
    BY <1>2, SMTT(60) DEF Opened, During
  <1>7. /\ DOMAIN toClient \subseteq DOMAIN toClient' /\ \A i \in DOMAIN toClient : toClient'[i] = toClient[i]
        /\ \A i \in DOMAIN toClient' : i \in DOMAIN toClient \/ toClient'[i].kind \in S
    <2>1. toClient \in Seq(Packet) /\ frame \in Frames /\ toClient' = toClient \o Framed(kinds, frame)
      BY <1>1 DEF LoginTypes, Write
    <2>2. kinds \in Seq(S)
      OBVIOUS
    <2> HIDE DEF S
    <2> QED
      BY ONLY <1>4, <2>1, <2>2, KindsAdded, ZenonT(60)
  <1>8. Asking => Asking'
    BY <1>7, Zenon DEF Asking
  <1>9. pc' = "fmlAnswer" => Asking'
    <2> SUFFICES ASSUME pc' = "fmlAnswer" PROVE Asking'
      OBVIOUS
    <2>1. toClient \in Seq(Packet) /\ frame \in Frames /\ toClient' = toClient \o Framed(<<"LoginPlugin">>, frame)
      BY <1>1, Zenon DEF LoginTypes, Write
    <2>2. "LoginPlugin" \in Kinds
      BY DEF Kinds, SafeKinds
    <2>3. \E i \in DOMAIN (toClient \o Framed(<<"LoginPlugin">>, frame)) :
            (toClient \o Framed(<<"LoginPlugin">>, frame))[i].kind = "LoginPlugin"
      BY ONLY <2>1, <2>2, LastAdded, ZenonT(60)
    <2> QED
      BY ONLY <2>1, <2>3, Zenon DEF Asking
  <1>10. ASSUME ~Asking', conf, Owed' PROVE Pending'
    <2>1. Pending /\ UNCHANGED <<toClient, toProxy>>
      BY <1>2, <1>8, <1>9, <1>10, Zenon DEF AckInv
    <2> QED
      BY <1>2, <2>1, Zenon DEF Pending
  <1>11. ASSUME ~Asking', conf, Clean PROVE Clean'
    <2>1. \A i \in DOMAIN toClient' : toClient'[i].kind # "LoginSuccess"
      BY <1>7, <1>11, Zenon DEF Clean
    <2>2. \A i \in DOMAIN toProxy' : toProxy'[i].kind # "LoginAck"
      BY <1>2, <1>11, KindsLeft, Zenon DEF Clean
    <2> QED
      BY <2>1, <2>2 DEF Clean
  <1>12. ASSUME ~Asking', conf, (pc' \in During /\ ~Owed') \/ acked' PROVE Clean'
    <2>1. CASE ~Owed \/ acked
      BY <1>2, <1>8, <1>11, <1>12, <2>1, Zenon DEF AckInv
    <2>2. CASE Owed /\ ~acked
      <3>1. pc' \in During /\ ~Owed' /\ Take
        BY <1>2, <1>12, <2>2, Zenon DEF Stages
      <3>2. Pending /\ toProxy # <<>>
        BY <1>8, <1>12, <2>2, <3>1, Zenon DEF AckInv, Take
      <3>3. /\ \A i \in DOMAIN toProxy : toProxy[i].kind = "LoginAck" => i = 1
            /\ \A i \in DOMAIN toClient : toClient[i].kind # "LoginSuccess"
        BY <3>2, Zenon DEF Pending
      <3>4. \A i \in DOMAIN toClient' : toClient'[i].kind # "LoginSuccess"
        BY <1>7, <3>3, Zenon
      <3>5. \A i \in DOMAIN toProxy' : toProxy'[i].kind # "LoginAck"
        BY <1>2, <3>1, <3>3, KindsLeft, Zenon
      <3> QED
        BY <3>4, <3>5 DEF Clean
    <2> QED
      BY <2>1, <2>2
  <1>13. ASSUME ~conf PROVE \A i \in DOMAIN toProxy' : toProxy'[i].kind # "LoginAck"
    BY <1>2, <1>13, KindsLeft, Zenon DEF AckInv
  <1>14. AckInv'
    BY <1>2, <1>9, <1>10, <1>12, <1>13, Zenon DEF AckInv
  <1> QED
    BY <1>2, <1>5, <1>6, <1>14, SMTT(60)

-----------------------------------------------------------------------------
(* Steps of the client keep the invariant.                                 *)
LEMMA ReadLeads ==
  ASSUME LoginTypes, Way, ClientReads, client'.state \notin Gone
  PROVE  /\ Way'
         /\ toClient[1].kind \notin Ends \cup {"LoginPlugin"}
         /\ StateOf(toClient[1].kind) = client.state
         /\ client'.state = Then(toClient[1].kind, client.state, Landing)
         /\ toProxy' = toProxy \o Framed(Answer(toClient[1].kind), client.frame)
  <1> DEFINE k == toClient[1].kind
             a == client.state
  <1>1. /\ toClient \in Seq(Packet) /\ toClient # <<>> /\ Head(toClient) = toClient[1]
        /\ toClient' = Tail(toClient) /\ client.state \notin Gone
        /\ UNCHANGED <<setup, pc, inPlay, spoilt>>
    BY StreamShrinks DEF LoginTypes, ClientReads, proxy
  <1>2. client \in [state : States, frame : Frames] /\ k \in Kinds
    BY <1>1, StreamShrinks, Zenon DEF LoginTypes, Packet
  <1>3. /\ Readable(toClient[1]) /\ client' = Taken(k)
        /\ toProxy' = toProxy \o Framed(Answer(k), client.frame)
    <2>1. CASE Readable(toClient[1])
      BY <1>1, <2>1, Zenon DEF ClientReads
    <2>2. CASE ~Readable(toClient[1])
      <3>1. client' = [client EXCEPT !.state = "broken"]
        BY <1>1, <2>2 DEF ClientReads
      <3> QED
        BY <1>2, <3>1 DEF Gone
    <2> QED
      BY <2>1, <2>2
  <1>4. k \notin Ends
    BY <1>3 DEF Taken, Gone, Ends
  <1>5. client'.state = Then(k, a, Landing)
    BY <1>3, <1>4, SMTT(60) DEF Taken, Then, Landing
  <1>6. StateOf(k) \in {a, "any"}
    BY <1>3 DEF Readable
  <1>7. UNCHANGED <<Landing, Goals, Exempt>>
    BY <1>1 DEF Landing, Goals, Exempt
  <1>8. ~(k \in Exempt /\ Stuck(a, k))
    <2> SUFFICES ASSUME k \in Exempt, Stuck(a, k) PROVE FALSE
      OBVIOUS
    <2>1. k \in {"LoginPlugin", "ResourcePack", "RegistryData"}
      BY <1>4 DEF Exempt
    <2>2. StateOf(k) \in {"login", "play", "config"}
      BY <2>1 DEF StateOf
    <2> QED
      BY <1>4, <1>6, <2>2 DEF Stuck
  <1> HIDE DEF k, a
  <1>9. CASE Dooms(toClient, a, Exempt, Landing)
    <2>1. Fine(a, k) /\ Dooms(Tail(toClient), Then(k, a, Landing), Exempt, Landing)
      BY <1>1, <1>8, <1>9, DoomsRead, Zenon DEF k
    <2>2. Way'
      BY <1>1, <1>5, <1>7, <2>1, Zenon DEF Way
    <2> QED
      BY <1>3, <1>4, <1>5, <2>1, <2>2, Zenon DEF Fine, k, a
  <1>10. ASSUME NEW b \in Goals, Holds(toClient, a, b, Landing)
         PROVE  Way' /\ Fine(a, k)
    <2>1. Fine(a, k) /\ Holds(Tail(toClient), Then(k, a, Landing), b, Landing)
      BY <1>1, <1>10, HoldsRead DEF k
    <2>2. Way'
      BY <1>1, <1>5, <1>7, <2>1, Zenon DEF Way
    <2> QED
      BY <2>1, <2>2, SMTT(60)
  <1> QED
    BY <1>3, <1>4, <1>5, <1>9, <1>10, Zenon DEF Fine, Way, k, a

LEMMA AnswerAcks ==
  ASSUME NEW kind, kind # "LoginSuccess" \/ ~HasConfigurationPhase(setup.ver)
  PROVE  Answer(kind) \in Seq(Replies \ {"LoginAck"})
  <1> DEFINE S == Replies \ {"LoginAck"}
  <1>1. {"PingRequest", "EncryptionResponse", "LoginPluginAnswer", "FinishAck",
         "KnownPacksAnswer", "ConfigPong", "ChannelAnswer", "ConfigurationAck"} \subseteq S
    BY DEF Replies, ClientKinds
  <1> HIDE DEF S
  <1>2. /\ <<>> \in Seq(S) /\ <<"PingRequest">> \in Seq(S)
        /\ <<"EncryptionResponse">> \in Seq(S)
        /\ <<"LoginPluginAnswer">> \in Seq(S) /\ <<"FinishAck">> \in Seq(S)
        /\ <<"KnownPacksAnswer">> \in Seq(S) /\ <<"ConfigPong">> \in Seq(S)
        /\ <<"ChannelAnswer">> \in Seq(S) /\ <<"ConfigurationAck">> \in Seq(S)
    BY <1>1, ShortLists
  <1> QED
    BY <1>2, Zenon DEF Answer, S

(* Packets of the client that are no acknowledgement of the login.         *)
LEMMA NoAckAdded ==
  ASSUME LoginTypes, NEW kinds \in Seq(Replies \ {"LoginAck"}),
         toProxy' = toProxy \o Framed(kinds, client.frame)
  PROVE  /\ DOMAIN toProxy \subseteq DOMAIN toProxy' /\ \A i \in DOMAIN toProxy : toProxy'[i] = toProxy[i]
         /\ \A i \in DOMAIN toProxy' : toProxy'[i].kind = "LoginAck" => i \in DOMAIN toProxy
  <1> DEFINE S == Replies \ {"LoginAck"}
  <1>1. S \in SUBSET Kinds /\ toProxy \in Seq(Packet) /\ client.frame \in Frames
    BY DEF Replies, Kinds, LoginTypes
  <1>2. "LoginAck" \notin S /\ kinds \in Seq(S)
    BY SMTT(60)
  <1> HIDE DEF S
  <1>3. /\ DOMAIN toProxy \subseteq DOMAIN toProxy' /\ \A i \in DOMAIN toProxy : toProxy'[i] = toProxy[i]
        /\ \A i \in DOMAIN toProxy' : i \in DOMAIN toProxy \/ toProxy'[i].kind \in S
    <2>1. PICK f \in Frames : f = client.frame
      BY <1>1, Zenon
    <2>2. toProxy' = toProxy \o Framed(kinds, f)
      BY <2>1
    <2> QED
      BY ONLY <1>1, <1>2, <2>2, KindsAdded, ZenonT(60)
  <1> QED
    BY <1>2, <1>3, Zenon

(* The stream to the client without its first packet.                      *)
LEMMA FirstRead ==
  ASSUME LoginTypes, toClient # <<>>, toClient' = Tail(toClient)
  PROVE  /\ 1 \in DOMAIN toClient
         /\ \A i \in DOMAIN toClient' : i + 1 \in DOMAIN toClient /\ toClient'[i] = toClient[i + 1] /\ i \in Nat
         /\ \A i \in DOMAIN toClient : i # 1 => \E j \in DOMAIN toClient' : toClient'[j] = toClient[i]
         /\ \A i \in DOMAIN toClient' : i >= 1
  <1> DEFINE s == toClient
             t == Tail(toClient)
  <1>1. s \in Seq(Packet)
    BY DEF LoginTypes
  <1>2. /\ t \in Seq(Packet) /\ Len(s) \in Nat /\ Len(s) >= 1 /\ Len(t) = Len(s) - 1
        /\ \A i \in 1..Len(t) : t[i] = s[i + 1] /\ i + 1 \in 1..Len(s)
    BY <1>1, StreamShrinks
  <1> HIDE DEF t
  <1>3. DOMAIN s = 1..Len(s) /\ DOMAIN t = 1..Len(t)
    BY <1>1, <1>2, LenProperties
  <1> HIDE DEF s
  <1>4. 1 \in DOMAIN s /\ \A i \in DOMAIN t : i + 1 \in DOMAIN s /\ t[i] = s[i + 1] /\ i \in Nat /\ i >= 1
    BY <1>2, <1>3
  <1>5. \A i \in DOMAIN s : i # 1 => \E j \in DOMAIN t : t[j] = s[i]
    <2> SUFFICES ASSUME NEW i \in DOMAIN s, i # 1 PROVE \E j \in DOMAIN t : t[j] = s[i]
      OBVIOUS
    <2>1. i - 1 \in DOMAIN t /\ (i - 1) + 1 = i
      BY <1>2, <1>3, SMTT(60)
    <2> QED
      BY <1>2, <1>3, <2>1
  <1> QED
    BY <1>4, <1>5, Zenon DEF s, t

LEMMA ReadsArrive ==
  ASSUME FrameInv, client.state \notin Gone, Stages, Opened, Way, AckInv, ClientReads, client'.state \notin Gone
  PROVE  Stages' /\ Opened' /\ Way' /\ AckInv'
  <1> DEFINE k == toClient[1].kind
             conf == HasConfigurationPhase(setup.ver)
  <1>0. LoginTypes
    BY SMTT(60) DEF FrameInv
  <1>1. /\ Way' /\ k \notin Ends \cup {"LoginPlugin"} /\ StateOf(k) = client.state
        /\ client'.state = Then(k, client.state, Landing)
        /\ toProxy' = toProxy \o Framed(Answer(k), client.frame)
    BY <1>0, ReadLeads
  <1>2. /\ toClient # <<>> /\ toClient' = Tail(toClient)
        /\ UNCHANGED <<setup, pc, conn, acked, inPlay>>
    BY DEF ClientReads, proxy
  <1>3. /\ 1 \in DOMAIN toClient
        /\ \A i \in DOMAIN toClient' : i + 1 \in DOMAIN toClient /\ toClient'[i] = toClient[i + 1] /\ i \in Nat
        /\ \A i \in DOMAIN toClient : i # 1 => \E j \in DOMAIN toClient' : toClient'[j] = toClient[i]
        /\ \A i \in DOMAIN toClient' : i >= 1
    BY <1>0, <1>2, FirstRead, SMTT(60)
  <1>4. Stages' /\ (Owed' <=> Owed)
    BY <1>2, SMTT(60) DEF Stages, Owed
  <1>5. pc \notin {"peek", "handshake"}
    BY <1>2 DEF FrameInv
  <1>6. client.state # "new" /\ client'.state # "new"
    <2>1. client.state # "new"
      BY <1>2 DEF Opened
    <2> QED
      BY <1>1, <2>1 DEF Then, Landing
  <1>7. Opened'
    BY <1>2, <1>5, <1>6, SMTT(60) DEF Opened
  <1>8. Asking => Asking'
    <2> SUFFICES ASSUME NEW i \in DOMAIN toClient, toClient[i].kind = "LoginPlugin" PROVE Asking'
      BY SMTT(60) DEF Asking
    <2>1. i # 1
      BY <1>1, SMTT(60)
    <2> QED
      BY <1>3, <2>1 DEF Asking
  <1>9. ASSUME k # "LoginSuccess" \/ ~conf
        PROVE  \A i \in DOMAIN toProxy' :
                 toProxy'[i].kind = "LoginAck" => i \in DOMAIN toProxy /\ toProxy'[i] = toProxy[i]
    BY <1>0, <1>1, <1>9, AnswerAcks, NoAckAdded, SMTT(60)
  <1>10. ASSUME conf, Clean PROVE Clean'
    <2>1. k # "LoginSuccess"
      BY <1>3, <1>10 DEF Clean
    <2> QED
      BY <1>3, <1>9, <1>10, <2>1, SMTT(60) DEF Clean
  <1>11. ASSUME conf, Pending PROVE Pending'
    <2>1. k \in {"SetCompression", "LoginSuccess", "ResourcePack"}
      BY <1>3, <1>11, SMTT(60) DEF Pending
    <2>2. \A i \in DOMAIN toClient' : toClient'[i].kind \in {"SetCompression", "LoginSuccess", "ResourcePack"}
      BY <1>3, <1>11, SMTT(60) DEF Pending
    <2>3. client.state = "login"
      <3>1. CASE client.state = "config"
        <4>1. k # "LoginSuccess"
          BY <1>3, <1>11, <3>1, SMTT(60) DEF Pending
        <4> QED
          BY <1>1, <2>1, <3>1, <4>1, SMTT(60) DEF StateOf
      <3> QED
        BY <1>11, <3>1 DEF Pending
    <2>4. /\ toProxy = <<>>
          /\ \A i, j \in DOMAIN toClient :
               toClient[i].kind = "LoginSuccess" /\ toClient[j].kind = "LoginSuccess" => i = j
      BY <1>11, <2>3, SMTT(60) DEF Pending
    <2>5. CASE k = "LoginSuccess"
      <3>1. client'.state = "config"
        BY <1>1, <1>11, <2>5 DEF Then, Landing
      <3>2. Answer(k) = <<"LoginAck">>
        BY <1>11, <2>5 DEF Answer
      <3> DEFINE t == Framed(<<"LoginAck">>, client.frame)
      <3>3. t \in Seq(Packet) /\ Len(t) = 1 /\ t[1].kind = "LoginAck"
        <4>1. "LoginAck" \in Kinds /\ client.frame \in Frames
          BY <1>0, SMTT(60) DEF Kinds, ClientKinds, LoginTypes
        <4> QED
          BY <4>1, FramedOne
      <3> HIDE DEF t
      <3>4. toProxy' = t
        <4>1. <<>> \o t = t
          BY <3>3, ConcatEmptySeq
        <4> QED
          BY <1>1, <2>4, <3>2, <4>1 DEF t
      <3>5. DOMAIN t = 1..1 /\ t # <<>>
        BY <3>3, LenProperties, EmptySeq, SMTT(60)
      <3>6. \A i \in DOMAIN toClient' : toClient'[i].kind # "LoginSuccess"
        <4> SUFFICES ASSUME NEW i \in DOMAIN toClient', toClient'[i].kind = "LoginSuccess" PROVE FALSE
          OBVIOUS
        <4>1. i + 1 \in DOMAIN toClient /\ toClient[i + 1].kind = "LoginSuccess" /\ i + 1 # 1
          BY <1>3, SMTT(60)
        <4> QED
          BY <1>3, <2>4, <2>5, <4>1, SMTT(60)
      <3> QED
        BY <2>2, <3>1, <3>3, <3>4, <3>5, <3>6, SMTT(60) DEF Pending
    <2>6. CASE k # "LoginSuccess"
      <3>1. k = "SetCompression"
        BY <1>1, <2>1, <2>3, <2>6 DEF StateOf
      <3>2. client'.state = "login" /\ Answer(k) = <<>>
        BY <1>1, <2>3, <3>1, SMTT(60) DEF Then, Answer
      <3>3. toProxy' = <<>>
        BY <1>0, <1>1, <2>4, <3>2, NothingAdded, SMTT(60) DEF LoginTypes
      <3>4. \A i, j \in DOMAIN toClient' :
              toClient'[i].kind = "LoginSuccess" /\ toClient'[j].kind = "LoginSuccess" => i = j
        <4> SUFFICES ASSUME NEW i \in DOMAIN toClient', NEW j \in DOMAIN toClient',
                            toClient'[i].kind = "LoginSuccess", toClient'[j].kind = "LoginSuccess"
                     PROVE  i = j
          BY SMTT(60)
        <4>1. i + 1 = j + 1 /\ i \in Nat /\ j \in Nat
          BY <1>3, <2>4
        <4> QED
          BY <4>1
      <3> QED
        BY <2>2, <3>2, <3>3, <3>4 DEF Pending
    <2> QED
      BY <2>5, <2>6, SMTT(60)
  <1>12. ASSUME ~conf PROVE \A i \in DOMAIN toProxy' : toProxy'[i].kind # "LoginAck"
    BY <1>9, <1>12 DEF AckInv
  <1>13. AckInv'
    BY <1>2, <1>4, <1>8, <1>10, <1>11, <1>12, Zenon DEF AckInv
  <1> QED
    BY <1>1, <1>4, <1>7, <1>13, SMTT(60)

LEMMA ChatsArrive ==
  ASSUME FrameInv, client.state \notin Gone, Stages, Opened, Way, AckInv, ClientChats
  PROVE  Stages' /\ Opened' /\ Way' /\ AckInv'
  <1>0. LoginTypes
    BY DEF FrameInv
  <1>1. UNCHANGED <<setup, pc, conn, acked, inPlay, spoilt, client, toClient>> /\ client.state \in {"config", "play"}
    BY DEF ClientChats, proxy
  <1>2. UNCHANGED <<Stages, Way, Asking, Owed>>
    <2>1. UNCHANGED <<Landing, Goals, Exempt>>
      BY <1>1, SMTT(60) DEF Landing, Goals, Exempt
    <2> QED
      BY <1>1, <2>1, Zenon DEF Stages, Way, Asking, Owed
  <1>3. pc \notin {"peek", "handshake"}
    BY <1>1 DEF FrameInv, Before
  <1>4. Opened'
    BY <1>1, <1>3 DEF Opened
  <1> DEFINE k == IF client.state = "config" THEN "ClientInformation" ELSE "Move"
  <1>5. toProxy' = toProxy \o Framed(<<k>>, client.frame)
    BY DEF ClientChats
  <1>6. <<k>> \in Seq(Replies \ {"LoginAck"})
    <2>1. k \in Replies \ {"LoginAck"}
      BY SMTT(60) DEF Replies, ClientKinds
    <2> HIDE DEF k
    <2> QED
      BY <2>1, ShortLists
  <1> HIDE DEF k
  <1>7. /\ DOMAIN toProxy \subseteq DOMAIN toProxy' /\ \A i \in DOMAIN toProxy : toProxy'[i] = toProxy[i]
        /\ \A i \in DOMAIN toProxy' : toProxy'[i].kind = "LoginAck" => i \in DOMAIN toProxy
    BY <1>0, <1>5, <1>6, NoAckAdded, ZenonT(60)
  <1>8. Clean => Clean'
    BY <1>1, <1>7, Zenon DEF Clean
  <1>9. ASSUME Pending PROVE Pending'
    <2>1. /\ client.state = "config" /\ toProxy # <<>> /\ toProxy[1].kind = "LoginAck"
          /\ \A i \in DOMAIN toProxy : toProxy[i].kind = "LoginAck" => i = 1
          /\ \A i \in DOMAIN toClient : toClient[i].kind # "LoginSuccess"
          /\ \A i \in DOMAIN toClient : toClient[i].kind \in {"SetCompression", "LoginSuccess", "ResourcePack"}
      BY <1>1, <1>9, SMTT(60) DEF Pending
    <2>2. 1 \in DOMAIN toProxy
      BY <1>0, <2>1, StreamShrinks, LenProperties DEF LoginTypes
    <2>3. toProxy' # <<>> /\ toProxy'[1] = toProxy[1]
      <3>1. 1 \in DOMAIN toProxy' /\ toProxy'[1] = toProxy[1]
        BY <1>7, <2>2, Zenon
      <3> QED
        BY <3>1
    <2>4. \A i \in DOMAIN toProxy' : toProxy'[i].kind = "LoginAck" => i = 1
      BY <1>7, <2>1, Zenon
    <2> QED
      BY <1>1, <2>1, <2>3, <2>4, Zenon DEF Pending
  <1>10. HasConfigurationPhase(setup.ver)' = HasConfigurationPhase(setup.ver)
    BY <1>1
  <1>11. AckInv'
    BY <1>1, <1>2, <1>7, <1>8, <1>9, <1>10, Zenon DEF AckInv
  <1> QED
    BY <1>2, <1>4, <1>11, SMTT(60)

LEMMA OpensArrive ==
  ASSUME FrameInv, client.state \notin Gone, Stages, Opened, Way, AckInv, ClientOpens
  PROVE  Stages' /\ Opened' /\ Way' /\ AckInv'
  <1>0. LoginTypes
    BY DEF FrameInv
  <1>1. PICK o \in Openings :
          /\ client' = [client EXCEPT !.state = IF o = "HandshakeStatus" THEN "status" ELSE "login"]
          /\ toProxy' = Framed(CASE o = "HandshakeStatus" -> <<o, "StatusRequest">>
                                 [] o = "HandshakeLogin" -> <<o, "LoginStart">>
                                 [] OTHER -> <<o>>, Plain)
    BY DEF ClientOpens
  <1>2. /\ client.state = "new" /\ UNCHANGED <<setup, pc, conn, acked, inPlay, spoilt, toClient>>
        /\ toClient = <<>> /\ pc \in {"ended", "peek"}
    BY DEF ClientOpens, proxy, Opened, FrameInv
  <1>3. client'.state = (IF o = "HandshakeStatus" THEN "status" ELSE "login")
    BY <1>0, <1>1 DEF LoginTypes
  <1>4. Stages' /\ ~Owed' /\ Goals' = States
    BY <1>2 DEF Stages, Owed, Goals
  <1>5. Way'
    <2>1. client'.state \in States
      BY <1>3 DEF States
    <2>2. Holds(<<>>, client'.state, client'.state, Landing')
      BY HoldsNothing, Zenon
    <2> QED
      BY <1>2, <1>4, <2>1, <2>2, Zenon DEF Way
  <1> DEFINE kinds == CASE o = "HandshakeStatus" -> <<o, "StatusRequest">>
                        [] o = "HandshakeLogin" -> <<o, "LoginStart">>
                        [] OTHER -> <<o>>
             S == ClientKinds \ {"LoginAck"}
  <1>6. kinds \in Seq(S) /\ Len(kinds) >= 1 /\ kinds[1] = o
    <2>1. o \in S /\ "StatusRequest" \in S /\ "LoginStart" \in S
      BY DEF Openings, ClientKinds
    <2>2. kinds = <<o, "StatusRequest">> \/ kinds = <<o, "LoginStart">> \/ kinds = <<o>>
      OBVIOUS
    <2> HIDE DEF S, kinds
    <2>3. kinds \in Seq(S)
      BY <2>1, <2>2, ShortLists, Zenon
    <2> QED
      BY <2>2, <2>3
  <1> HIDE DEF kinds
  <1>7. /\ DOMAIN toProxy' = 1..Len(kinds) /\ Len(kinds) \in Nat
        /\ \A i \in 1..Len(kinds) : toProxy'[i].kind = kinds[i] /\ kinds[i] \in S
    <2>1. S \in SUBSET Kinds /\ Plain \in Frames
      BY DEF Kinds, Plain, Frames
    <2>2. toProxy' = Framed(kinds, Plain)
      BY <1>1, ZenonT(60) DEF kinds
    <2> HIDE DEF S
    <2>3. kinds \in Seq(Kinds) /\ Len(kinds) \in Nat /\ \A i \in 1..Len(kinds) : kinds[i] \in S
      BY <1>6, <2>1, SeqMonotonic, ElementOfSeq, LenProperties
    <2>4. toProxy' \in Seq(Packet) /\ Len(toProxy') = Len(kinds) /\ \A i \in 1..Len(kinds) : toProxy'[i].kind = kinds[i]
      BY <2>1, <2>2, <2>3, FramedIs, Zenon
    <2>5. DOMAIN toProxy' = 1..Len(toProxy')
      BY <2>4, LenProperties
    <2> QED
      BY <2>3, <2>4, <2>5
  <1>8. toProxy'[1].kind = o
    BY <1>6, <1>7, SMTT(60)
  <1>9. Opened'
    BY <1>2, <1>3, <1>8 DEF Opened
  <1>10. \A i \in DOMAIN toProxy' : toProxy'[i].kind # "LoginAck"
    BY <1>7
  <1>11. Clean'
    BY <1>2, <1>10, SMTT(60) DEF Clean
  <1>12. AckInv'
    BY <1>2, <1>4, <1>10, <1>11, SMTT(60) DEF AckInv
  <1> QED
    BY <1>4, <1>5, <1>9, <1>12

-----------------------------------------------------------------------------
(* The steps before the login is settled.                                  *)
LEMMA EarlyEndArrives ==
  ASSUME LoginTypes, client.state \notin Gone, pc \in Before, Stages, Opened, Way, AckInv, Reads,
         UNCHANGED <<setup, client, acked, spoilt>>, pc' = "ended",
         NEW kinds \in Seq(Ends), Write(kinds), client.state = "new" => kinds = <<>>
  PROVE  Stages' /\ Opened' /\ Way' /\ AckInv'
  <1>1. Ends \subseteq Exempt' /\ Goals' = States /\ Goals \subseteq States /\ frame \in Frames
    BY GoalsAre DEF Exempt, Ends, Kinds, SafeKinds, Goals, LoginTypes
  <1>2. Leading(kinds)
    BY <1>1, KicksEnd, Zenon DEF Leading
  <1>3. Exempt \subseteq Exempt'
    BY DEF Exempt
  <1>4. kinds \in Seq(Kinds)
    <2>1. Ends \subseteq Kinds
      BY DEF Ends, Kinds, SafeKinds
    <2> QED
      BY <2>1, SeqMonotonic
  <1>5. Way'
    BY <1>2, <1>3, <1>4, MovesLead, Zenon
  <1>6. Stages' /\ ~Owed' /\ ~acked'
    BY DEF Stages, Owed, Before
  <1>7. client.state = "new" => toClient' = <<>>
    BY NothingAdded, <1>1, Zenon DEF Opened, Write, LoginTypes
  <1>8. Opened'
    BY <1>7 DEF Opened
  <1>9. ~HasConfigurationPhase(setup.ver)' => \A i \in DOMAIN toProxy' : toProxy'[i].kind # "LoginAck"
    BY KindsLeft, Zenon DEF AckInv
  <1>10. AckInv'
    BY <1>6, <1>9, SMTT(60) DEF AckInv, During
  <1> QED
    BY <1>5, <1>6, <1>8, <1>10

LEMMA EarlyStepArrives ==
  ASSUME LoginTypes, client.state \notin Gone, pc \in Before, Stages, Opened, AckInv, Reads, Way',
         UNCHANGED <<setup, client, acked, inPlay, spoilt>>, pc' \in Before \ {"peek"}, client.state # "new",
         pc' = "handshake" => UNCHANGED toProxy /\ pc = "peek"
  PROVE  Stages' /\ Opened' /\ Way' /\ AckInv'
  <1>1. Stages' /\ ~Owed' /\ ~acked' /\ pc' \notin During
    BY DEF Stages, Owed, Before, During
  <1>2. Opened'
    BY DEF Opened
  <1>3. ~HasConfigurationPhase(setup.ver)' => \A i \in DOMAIN toProxy' : toProxy'[i].kind # "LoginAck"
    BY KindsLeft, Zenon DEF AckInv
  <1>4. AckInv'
    BY <1>1, <1>3 DEF AckInv, During
  <1> QED
    BY <1>1, <1>2, <1>4, SMTT(60)

(* Before 1.7 there is no configuration phase.                             *)
LEMMA LegacyHasNone ==
  ASSUME LoginTypes, Legacy
  PROVE  ~HasConfigurationPhase(setup.ver)
  <1>1. setup.ver \in Known
    BY LoginAssumption DEF LoginTypes
  <1>2. ASSUME NEW p \in Known, p >= 764 PROVE EpochOf(p) # PreNetty
    BY <1>2 DEF EpochOf, Known, PreNetty, V1_7, V1_8, V1_9_To_1_12, V1_13_To_1_15, V1_16, V1_17_To_1_18,
                V1_19, V1_20, V1_21Plus, UnknownEpoch
  <1> QED
    BY <1>1, <1>2 DEF Legacy, IsPreNetty, HasConfigurationPhase

(* The packets of an accepted login: one LoginSuccess.                     *)
Accepted(t) ==
  /\ \A i \in DOMAIN t : t[i].kind \in {"SetCompression", "LoginSuccess", "ResourcePack"}
  /\ \A i, j \in DOMAIN t : t[i].kind = "LoginSuccess" /\ t[j].kind = "LoginSuccess" => i = j

LEMMA AcceptedKinds ==
  ASSUME NEW sent \in Seq({"SetCompression"}), NEW packs \in Seq({"ResourcePack"}),
         NEW b \in Frames, NEW a \in Frames
  PROVE  Accepted((Framed(sent, b) \o Framed(<<"LoginSuccess">>, a)) \o Framed(packs, a))
  <1> DEFINE x == Framed(sent, b)
             y == Framed(<<"LoginSuccess">>, a)
             z == Framed(packs, a)
             n == Len(sent)
             m == Len(packs)
  <1>0. sent \in Seq(Kinds) /\ packs \in Seq(Kinds) /\ "LoginSuccess" \in Kinds
    <2>1. {"SetCompression"} \subseteq Kinds /\ {"ResourcePack"} \subseteq Kinds /\ "LoginSuccess" \in Kinds
      BY SMTT(60) DEF Kinds, SafeKinds
    <2> QED
      BY <2>1, SeqMonotonic
  <1>1. x \in Seq(Packet) /\ Len(x) = n /\ n \in Nat /\ \A i \in 1..n : x[i].kind = "SetCompression"
    <2>1. \A i \in 1..n : sent[i] = "SetCompression"
      BY ElementOfSeq
    <2>2. x \in Seq(Packet) /\ Len(x) = n /\ \A i \in 1..n : x[i].kind = sent[i]
      BY <1>0, FramedIs, Zenon
    <2> QED
      BY <2>1, <2>2, LenProperties
  <1>2. y \in Seq(Packet) /\ Len(y) = 1 /\ y[1].kind = "LoginSuccess"
    BY <1>0, FramedOne, Zenon
  <1>3. z \in Seq(Packet) /\ Len(z) = m /\ m \in Nat /\ \A i \in 1..m : z[i].kind = "ResourcePack"
    <2>1. \A i \in 1..m : packs[i] = "ResourcePack"
      BY ElementOfSeq
    <2>2. z \in Seq(Packet) /\ Len(z) = m /\ \A i \in 1..m : z[i].kind = packs[i]
      BY <1>0, FramedIs, Zenon
    <2> QED
      BY <2>1, <2>2, LenProperties, ZenonT(60)
  <1> HIDE DEF x, y, z, n, m
  <1>w. PICK w : w = x \o y
    BY Zenon
  <1>t. PICK t : t = w \o z
    BY Zenon
  <1>4. /\ w \in Seq(Packet) /\ Len(w) = n + 1
        /\ \A i \in 1..n : w[i] = x[i]
        /\ w[n + 1] = y[1]
    <2>1. /\ w \in Seq(Packet) /\ Len(w) = Len(x) + Len(y)
          /\ \A i \in 1..Len(x) : w[i] = x[i]
          /\ \A i \in 1..Len(y) : w[Len(x) + i] = y[i]
      BY <1>1, <1>2, <1>w, Joined, Zenon
    <2>2. 1 \in 1..1
      OBVIOUS
    <2> QED
      BY ONLY <1>1, <1>2, <2>1, <2>2, Zenon
  <1>5. /\ t \in Seq(Packet) /\ Len(t) = (n + 1) + m
        /\ \A i \in 1..(n + 1) : t[i] = w[i]
        /\ \A i \in 1..m : t[(n + 1) + i] = z[i]
    <2>1. w \in Seq(Packet) /\ z \in Seq(Packet)
      BY <1>3, <1>4
    <2>2. /\ t \in Seq(Packet) /\ Len(t) = Len(w) + Len(z)
          /\ \A i \in 1..Len(w) : t[i] = w[i]
          /\ \A i \in 1..Len(z) : t[Len(w) + i] = z[i]
      BY ONLY <1>t, <2>1, Joined, Zenon
    <2> QED
      BY ONLY <1>3, <1>4, <2>2, Zenon
  <1>6. DOMAIN t = 1..((n + 1) + m)
    BY <1>5, LenProperties, SMTT(60)
  <1>7. \A i \in 1..n : t[i].kind = "SetCompression"
    BY ONLY <1>1, <1>4, <1>5, SMTT(60)
  <1>8. t[n + 1].kind = "LoginSuccess"
    BY ONLY <1>1, <1>2, <1>4, <1>5, SMTT(60)
  <1>9. ASSUME NEW i \in 1..((n + 1) + m), i > n + 1 PROVE t[i].kind = "ResourcePack"
    <2>1. i - (n + 1) \in 1..m /\ i = (n + 1) + (i - (n + 1))
      BY <1>1, <1>3, <1>9, SMTT(60)
    <2>2. t[(n + 1) + (i - (n + 1))] = z[i - (n + 1)]
      BY <1>5, <2>1, SMTT(60)
    <2> QED
      BY <1>3, <2>1, <2>2, SMTT(60)
  <1>10. ASSUME NEW i \in DOMAIN t
         PROVE  /\ t[i].kind \in {"SetCompression", "LoginSuccess", "ResourcePack"}
                /\ t[i].kind = "LoginSuccess" => i = n + 1
    <2>1. i \in 1..n \/ i = n + 1 \/ (i \in 1..((n + 1) + m) /\ i > n + 1)
      BY <1>1, <1>3, <1>6, SMTT(60)
    <2> QED
      BY <1>7, <1>8, <1>9, <2>1, SMTT(60)
  <1>11. Accepted(t)
    BY <1>10 DEF Accepted
  <1> QED
    BY <1>11, <1>t, <1>w, Zenon DEF x, y, z

(* The three places where the login is settled: nothing is under way to    *)
(* the client, which is in the login state.                                *)
LEMMA SettlesFrom ==
  ASSUME FrameInv, client.state \notin Gone, Opened, Way, Take,
         (pc = "peek" /\ Received = "LegacyLogin") \/ pc \in {"loginStart", "encResponse"}
  PROVE  toClient = <<>> /\ client.state = "login"
  <1>0. LoginTypes /\ toProxy # <<>> /\ Received = toProxy[1].kind
    BY TakeIsRead, SMTT(60) DEF FrameInv, Take
  <1>1. toClient = <<>>
    BY <1>0 DEF FrameInv
  <1>2. CASE pc = "peek" /\ Received = "LegacyLogin"
    BY <1>0, <1>1, <1>2 DEF Opened
  <1>3. CASE pc \in {"loginStart", "encResponse"}
    <2>1. Goals = {"login"}
      BY <1>3 DEF Goals
    <2>2. Holds(<<>>, client.state, "login", Landing)
      BY <1>1, <2>1, HoldsNothing, Zenon DEF Way
    <2> QED
      BY <1>1, <2>2, HoldsNothing, Zenon
  <1> QED
    BY <1>2, <1>3, SMTT(60)

LEMMA SettlesArrives ==
  ASSUME FrameInv, SessionInv, client.state \notin Gone, Stages, Opened, Way, AckInv,
         NEW sent, sent = <<>> \/ sent = <<"SetCompression">>, NEW b \in Frames, NEW a \in Frames,
         Settles(sent, b, a),
         (pc = "peek" /\ Received = "LegacyLogin") \/ pc \in {"loginStart", "encResponse"}
  PROVE  Stages' /\ Opened' /\ Way' /\ AckInv'
  <1> DEFINE first == Framed(sent, b)
             success == first \o Framed(<<"LoginSuccess">>, a)
             refusals == <<Disconnect("login"), Disconnect("login")>>
             refusal == Framed(refusals, a)
             packs == IF setup.pack THEN <<"ResourcePack">> ELSE <<>>
             pack == Framed(packs, a)
             conf == HasConfigurationPhase(setup.ver)
  <1>0. LoginTypes /\ pc \in Before /\ UNCHANGED <<setup, client>> /\ Take
    BY DEF FrameInv, Settles
  <1>1. toClient = <<>> /\ client.state = "login"
    BY <1>0, SettlesFrom
  <1>2. /\ \/ pc' = "ended" /\ toClient' = toClient \o (first \o refusal)
           \/ pc' = "joining" /\ toClient' = toClient \o success \o pack
        /\ UNCHANGED <<acked, inPlay, spoilt>>
    BY Zenon DEF Settles, Finalise
  <1>3. sent \in Seq({"SetCompression"}) /\ packs \in Seq({"ResourcePack"}) /\ sent \in Seq(Kinds)
        /\ refusals \in Seq(Ends)
    <2>1. sent \in Seq({"SetCompression"}) /\ packs \in Seq({"ResourcePack"})
      BY ShortLists, Zenon
    <2>2. refusals \in Seq(Ends)
      BY KicksAreEnds, ShortLists
    <2>3. {"SetCompression"} \subseteq Kinds
      BY DEF Kinds
    <2> HIDE DEF packs, refusals
    <2> QED
      BY <2>1, <2>2, <2>3, SeqMonotonic
  <1>4. /\ first \in Seq(Packet) /\ Framed(<<"LoginSuccess">>, a) \in Seq(Packet)
        /\ pack \in Seq(Packet) /\ refusal \in Seq(Packet)
    <2>1. {"ResourcePack"} \subseteq Kinds /\ Ends \subseteq Kinds /\ "LoginSuccess" \in Kinds
      BY DEF Kinds, SafeKinds, Ends
    <2> HIDE DEF packs, refusals
    <2>2. packs \in Seq(Kinds) /\ refusals \in Seq(Kinds)
      BY <1>3, <2>1, SeqMonotonic
    <2> QED
      BY <1>3, <2>1, <2>2, FramedIs, FramedOne, Zenon
  <1>5. Holds(first, "login", "login", Landing)
    <2>1. Leads(sent, "login", "login", Landing)
      BY LeadsBy, LeadsNowhere, Zenon
    <2> QED
      BY <2>1, Zenon DEF Leads
  <1>6. success \in Seq(Packet) /\ Holds(success, "login", Landing, Landing)
    <2>1. Holds(Framed(<<"LoginSuccess">>, a), "login", Landing, Landing)
      BY LeadsBy, Zenon DEF Leads
    <2> HIDE DEF first
    <2>2. success \in Seq(Packet)
      BY <1>4, Joined, Zenon
    <2> QED
      BY <1>4, <1>5, <2>1, <2>2, HoldsJoin, Zenon
  <1>7. Landing' = Landing /\ client'.state = "login" /\ ~acked' /\ HasConfigurationPhase(setup.ver)' = conf
    <2>1. ~acked
      BY <1>0, SMTT(60) DEF Stages
    <2> QED
      BY <1>0, <1>1, <1>2, <2>1, SMTT(60) DEF Landing
  <1>8. Opened' /\ pc' \notin Before
    BY <1>2, <1>7 DEF Opened, Before
  <1>9. ~conf => \A i \in DOMAIN toProxy' : toProxy'[i].kind # "LoginAck"
    <2>1. Reads
      BY <1>0 DEF Take, Reads
    <2> QED
      BY <1>0, <2>1, KindsLeft, Zenon DEF AckInv
  <1>10. CASE pc' = "ended" /\ toClient' = toClient \o (first \o refusal)
    <2>1. Ends \subseteq Exempt' /\ Goals' = States /\ "login" \in States
      BY <1>10 DEF Exempt, Ends, Kinds, SafeKinds, Goals, States
    <2>2. Holds(refusal, "login", "login", Landing) \/ Dooms(refusal, "login", Exempt', Landing)
      <3> HIDE DEF refusals
      <3> QED
        BY <1>3, <2>1, KicksEnd, Zenon
    <2> HIDE DEF first, refusal
    <2>3. first \o refusal \in Seq(Packet)
      BY <1>4, Joined
    <2>4. toClient' = first \o refusal
      BY <1>1, <1>10, <2>3, ConcatEmptySeq, SMTT(60)
    <2>5. Holds(first \o refusal, "login", "login", Landing) \/ Dooms(first \o refusal, "login", Exempt', Landing)
      BY <1>4, <1>5, <2>2, HoldsJoin, HoldsThenDooms, Zenon
    <2>6. Way'
      BY <1>7, <2>1, <2>4, <2>5, Zenon DEF Way
    <2>7. Stages' /\ ~Owed' /\ pc' # "fmlAnswer" /\ pc' \notin During
      BY <1>10 DEF Stages, Owed, Before, During
    <2>8. AckInv'
      BY <1>7, <1>9, <2>7, Zenon DEF AckInv
    <2> QED
      BY <1>8, <2>6, <2>7, <2>8
  <1>11. CASE pc' = "joining" /\ toClient' = toClient \o success \o pack
    <2>1. toClient' = success \o pack
      <3> HIDE DEF success, pack
      <3>1. toClient \o success = success
        BY <1>1, <1>6, ConcatEmptySeq
      <3> QED
        BY <1>11, <3>1
    <2>2. Goals' = {Landing}
      BY <1>7, <1>11, SMTT(60) DEF Goals
    <2>3. conf => "ResourcePack" \in Exempt'
      BY <1>7, SMTT(60) DEF Exempt, Kinds, SafeKinds
    <2>4. Holds(pack, Landing, Landing, Landing) \/ Dooms(pack, Landing, Exempt', Landing)
      <3>1. CASE setup.pack
        <4>1. packs = <<"ResourcePack">> /\ "ResourcePack" \in Kinds
          BY <3>1 DEF Kinds, SafeKinds
        <4>2. CASE conf
          <5>1. Landing = "config" /\ Stuck("config", "ResourcePack")
            BY <4>2, ReadIn DEF Landing
          <5> QED
            BY <2>3, <4>1, <4>2, <5>1, DoomsOne, Zenon
        <4>3. CASE ~conf
          <5>1. Landing = "play"
            BY <4>3 DEF Landing
          <5> QED
            BY <4>1, <5>1, LeadsBy, Zenon DEF Leads
        <4> QED
          BY <4>2, <4>3, SMTT(60)
      <3>2. CASE ~setup.pack
        <4>1. packs = <<>>
          BY <3>2
        <4> QED
          BY <4>1, LeadsNowhere, Zenon DEF Leads
      <3> QED
        BY <3>1, <3>2, SMTT(60)
    <2>5. Way'
      <3> HIDE DEF success, pack
      <3>1. Holds(success \o pack, "login", Landing, Landing) \/ Dooms(success \o pack, "login", Exempt', Landing)
        BY <1>4, <1>6, <2>4, HoldsJoin, HoldsThenDooms, Zenon
      <3> QED
        BY <1>7, <2>1, <2>2, <3>1, Zenon DEF Way
    <2>6. Stages' /\ Owed' /\ pc' # "fmlAnswer"
      BY <1>7, <1>11 DEF Stages, Owed, Before
    <2>7. ASSUME conf PROVE toProxy' = <<>>
      <3>1. pc \in {"loginStart", "encResponse"}
        <4>1. CASE pc = "peek" /\ Received = "LegacyLogin"
          <5>1. toProxy[1].kind = "LegacyLogin" /\ 1 \in DOMAIN toProxy
            BY <1>0, <4>1, TakeIsRead, LenProperties, SMTT(60) DEF LoginTypes
          <5>2. Legacy
            BY <5>1, SMTT(60) DEF SessionInv
          <5> QED
            BY <1>0, <2>7, <5>2, LegacyHasNone, SMTT(60)
        <4> QED
          BY <4>1
      <3>2. Len(toProxy) <= 1 /\ Len(toProxy) \in Nat /\ Len(toProxy') = Len(toProxy) - 1 /\ Len(toProxy) >= 1
        BY <1>0, <3>1, TakeIsRead, LenProperties, ZenonT(60) DEF FrameInv, LoginTypes
      <3>3. toProxy' \in Seq(Packet)
        BY <1>0, TakeIsRead, ReadsKeep
      <3> QED
        BY <3>2, <3>3, EmptySeq
    <2>8. ASSUME conf PROVE Pending'
      <3>1. /\ \A i \in DOMAIN toClient' : toClient'[i].kind \in {"SetCompression", "LoginSuccess", "ResourcePack"}
            /\ \A i, j \in DOMAIN toClient' :
                 toClient'[i].kind = "LoginSuccess" /\ toClient'[j].kind = "LoginSuccess" => i = j
        <4>1. toClient' = (Framed(sent, b) \o Framed(<<"LoginSuccess">>, a)) \o Framed(packs, a)
          BY <2>1
        <4>2. sent \in Seq({"SetCompression"}) /\ packs \in Seq({"ResourcePack"})
          BY <1>3
        <4> HIDE DEF packs
        <4>3. Accepted((Framed(sent, b) \o Framed(<<"LoginSuccess">>, a)) \o Framed(packs, a))
          BY ONLY <4>2, AcceptedKinds, a \in Frames, b \in Frames, Zenon
        <4>4. Accepted(toClient')
          BY ONLY <4>1, <4>3, Zenon
        <4> QED
          BY ONLY <4>4, Zenon DEF Accepted
      <3> QED
        BY <1>7, <2>7, <2>8, <3>1, Zenon DEF Pending
    <2>9. AckInv'
      BY <1>7, <1>9, <2>6, <2>8, Zenon DEF AckInv
    <2> QED
      BY <1>8, <2>5, <2>6, <2>9, SMTT(60)
  <1> QED
    BY <1>2, <1>10, <1>11, ZenonT(60)

LEMMA EarlyKeeps ==
  ASSUME Task, pc \in Before
  PROVE  UNCHANGED <<acked, inPlay, spoilt>>
  <1>1. CASE Peek
    BY <1>1, Zenon DEF Peek, HandleLegacyPing, HandleBedrock, HandleLegacyLogin, PushPrefix, Finalise, proxy
  <1>2. CASE ReadHandshake \/ HandleStatus
    BY <1>2, Zenon DEF ReadHandshake, HandleStatus, proxy
  <1>3. CASE ReadLoginStart \/ ReadEncryptionResponse
    BY <1>3, Zenon DEF ReadLoginStart, ReadEncryptionResponse, Finalise, proxy
  <1>4. CASE TimedOut \/ NoticesClosed
    <2>1. Fail(<<>>, "io") \/ Fail(<<>>, "closed")
      BY <1>4 DEF TimedOut, NoticesClosed, Before
    <2> QED
      BY <2>1, Zenon DEF Fail, proxy
  <1>5. ~\/ Join \/ ReadAnswer \/ AnswerLost \/ ReadLoginAck \/ ReadConfigAck \/ ReadFinishAck \/ AcknowledgeBackend
         \/ LimboReadsAck \/ LimboReadsConfigAck \/ LimboReadsFinishAck \/ LimboReads
    BY Zenon DEF Join, ReadAnswer, AnswerLost, ReadLoginAck, ReadConfigAck, ReadFinishAck, AcknowledgeBackend,
           LimboReadsAck, LimboReadsConfigAck, LimboReadsFinishAck, LimboReads, Before
  <1> QED
    BY <1>1, <1>2, <1>3, <1>4, <1>5, Zenon DEF Task

(* What a task that ends before the login is settled tells the client, and *)
(* that it tells nothing to one that has said nothing.                     *)
EndsEarly ==
  \E kinds \in Seq(Ends) : Write(kinds) /\ (toProxy # <<>> \/ (conn = "handshaking" => kinds = <<>>))

LEMMA EndKicks ==
  ASSUME NEW kinds \in Seq(Ends), NEW err, End(kinds, err),
         toProxy # <<>> \/ (kinds = <<>> /\ err \in Silent)
  PROVE  EndsEarly
  <1>1. GracefulKick(err) \in Seq(Ends)
    BY KicksAreEnds
  <1>2. kinds \o GracefulKick(err) \in Seq(Ends)
    BY <1>1, ConcatProperties
  <1>3. ASSUME kinds = <<>>, err \in Silent, conn = "handshaking" PROVE kinds \o GracefulKick(err) = <<>>
    <2>1. GracefulKick(err) = <<>>
      BY <1>3, Zenon DEF GracefulKick
    <2> QED
      BY <1>1, <1>3, <2>1, ConcatEmptySeq
  <1> QED
    BY <1>2, <1>3, Zenon DEF EndsEarly, End

LEMMA EarlyEndings ==
  ASSUME LoginTypes, client.state \notin Gone, Task, pc \in Before, pc' = "ended"
  PROVE  \/ EndsEarly
         \/ pc = "peek" /\ Received = "LegacyLogin" /\ Settles(<<>>, frame, frame)
         \/ pc = "loginStart" /\ Settles(SetCompression, frame, Compressed(frame))
         \/ /\ pc = "encResponse"
            /\ Settles(SetCompression, [frame EXCEPT !.enc = TRUE], Compressed([frame EXCEPT !.enc = TRUE]))
  <1>0. /\ <<>> \in Seq(Ends) /\ <<"Motd">> \in Seq(Ends) /\ <<"Incompatible">> \in Seq(Ends)
        /\ <<"Pong">> \in Seq(Ends) /\ <<"LoginDisconnect">> \in Seq(Ends) /\ <<"LegacyDisconnect">> \in Seq(Ends)
    <2>1. {"Motd", "Incompatible", "Pong", "LoginDisconnect", "LegacyDisconnect"} \subseteq Ends
      BY DEF Ends
    <2> QED
      BY <2>1, ShortLists
  <1>1. CASE Peek
    <2>0. pc = "peek" /\ toProxy # <<>> /\ UNCHANGED <<setup, client>>
      BY <1>1 DEF Peek
    <2>1. CASE HandleLegacyPing \/ HandleBedrock
      BY <1>0, <2>0, <2>1, EndKicks, Zenon DEF HandleLegacyPing, HandleBedrock
    <2>2. CASE HandleLegacyLogin
      <3>1. Received = "LegacyLogin" /\ Take
        BY <2>2 DEF HandleLegacyLogin
      <3>2. CASE Write(<<"LegacyDisconnect">>)
        BY <1>0, <2>0, <3>2, Zenon DEF EndsEarly
      <3>3. CASE Finalise(<<>>, [before |-> frame, after |-> frame])
        BY <2>0, <3>1, <3>3 DEF Settles
      <3> QED
        BY <2>2, <3>2, <3>3, SMTT(60) DEF HandleLegacyLogin
    <2>3. ~PushPrefix
      BY DEF PushPrefix
    <2> QED
      BY <1>1, <2>1, <2>2, <2>3, SMTT(60) DEF Peek
  <1>2. CASE ReadHandshake
    <2>1. toProxy # <<>> /\ End(<<>>, "closed")
      BY <1>2 DEF ReadHandshake, Take
    <2> QED
      BY <1>0, <2>1, EndKicks, Zenon
  <1>3. CASE HandleStatus
    <2>1. toProxy # <<>> /\ End(<<"Pong">>, "ok")
      BY <1>3 DEF HandleStatus, Take
    <2> QED
      BY <1>0, <2>1, EndKicks, Zenon
  <1>4. CASE ReadLoginStart
    <2>0. pc = "loginStart" /\ Take /\ toProxy # <<>> /\ UNCHANGED <<setup, client>>
      BY <1>4 DEF ReadLoginStart, Take
    <2>1. \/ End(<<"LoginDisconnect">>, "auth")
          \/ Finalise(SetCompression, [before |-> frame, after |-> Compressed(frame)])
      BY <1>4 DEF ReadLoginStart
    <2> QED
      BY <1>0, <2>0, <2>1, EndKicks, Zenon DEF Settles
  <1>5. CASE ReadEncryptionResponse
    <2>0. pc = "encResponse" /\ Take /\ toProxy # <<>> /\ UNCHANGED <<setup, client>>
      BY <1>5 DEF ReadEncryptionResponse, Take
    <2>1. \/ End(<<"LoginDisconnect">>, "auth")
          \/ Finalise(SetCompression, [before |-> [frame EXCEPT !.enc = TRUE],
                                       after |-> Compressed([frame EXCEPT !.enc = TRUE])])
      BY <1>5 DEF ReadEncryptionResponse
    <2> QED
      BY <1>0, <2>0, <2>1, EndKicks, Zenon DEF Settles
  <1>6. CASE TimedOut
    <2>1. End(<<>>, "io") /\ "io" \in Silent
      BY <1>6 DEF TimedOut, Before, Fail, Silent
    <2> QED
      BY <1>0, <2>1, EndKicks, Zenon
  <1>7. ~NoticesClosed
    BY DEF NoticesClosed
  <1>8. ~\/ Join \/ ReadAnswer \/ AnswerLost \/ ReadLoginAck \/ ReadConfigAck \/ ReadFinishAck \/ AcknowledgeBackend
         \/ LimboReadsAck \/ LimboReadsConfigAck \/ LimboReadsFinishAck \/ LimboReads
    BY Zenon DEF Join, ReadAnswer, AnswerLost, ReadLoginAck, ReadConfigAck, ReadFinishAck, AcknowledgeBackend,
           LimboReadsAck, LimboReadsConfigAck, LimboReadsFinishAck, LimboReads, Before
  <1> QED
    BY <1>1, <1>2, <1>3, <1>4, <1>5, <1>6, <1>7, <1>8, Zenon DEF Task

(* The steps of the task before the login is settled.                      *)
LEMMA EarlyArrives ==
  ASSUME FrameInv, SessionInv, client.state \notin Gone, Stages, Opened, Way, AckInv, Task, pc \in Before
  PROVE  Stages' /\ Opened' /\ Way' /\ AckInv'
  <1>0. LoginTypes /\ UNCHANGED <<acked, inPlay, spoilt>> /\ frame \in Frames
    BY EarlyKeeps, SMTT(60) DEF FrameInv, LoginTypes
  <1>n. client.state = "new" => toProxy = <<>> /\ conn = "handshaking"
    BY StagesApart DEF FrameInv, Opened
  <1>s. ASSUME \/ pc = "peek" /\ Received = "LegacyLogin" /\ Settles(<<>>, frame, frame)
               \/ pc = "loginStart" /\ Settles(SetCompression, frame, Compressed(frame))
               \/ /\ pc = "encResponse"
                  /\ Settles(SetCompression, [frame EXCEPT !.enc = TRUE], Compressed([frame EXCEPT !.enc = TRUE]))
        PROVE  Stages' /\ Opened' /\ Way' /\ AckInv'
    <2>1. /\ SetCompression = <<>> \/ SetCompression = <<"SetCompression">>
          /\ [frame EXCEPT !.enc = TRUE] \in Frames /\ \A b \in Frames : Compressed(b) \in Frames
      BY <1>0, SettlingFrames, Zenon
    <2>2. CASE pc = "peek" /\ Received = "LegacyLogin" /\ Settles(<<>>, frame, frame)
      BY <1>0, <2>2, SettlesArrives, Zenon
    <2>3. CASE pc = "loginStart" /\ Settles(SetCompression, frame, Compressed(frame))
      BY <1>0, <2>1, <2>3, SettlesArrives, Zenon
    <2>4. CASE /\ pc = "encResponse"
               /\ Settles(SetCompression, [frame EXCEPT !.enc = TRUE], Compressed([frame EXCEPT !.enc = TRUE]))
      BY <1>0, <2>1, <2>4, SettlesArrives, Zenon
    <2> QED
      BY <1>s, <2>2, <2>3, <2>4, Zenon
  <1>1. CASE EarlyStep /\ pc' = "ended"
    <2>0. Reads /\ UNCHANGED <<setup, client>>
      BY <1>0, <1>1, EarlyTypes DEF EarlyStep
    <2>1. CASE EndsEarly
      <3>1. PICK kinds \in Seq(Ends) : Write(kinds) /\ (toProxy # <<>> \/ (conn = "handshaking" => kinds = <<>>))
        BY <2>1 DEF EndsEarly
      <3>2. client.state = "new" => kinds = <<>>
        BY <1>n, <3>1, SMTT(60)
      <3> QED
        BY <1>0, <1>1, <2>0, <3>1, <3>2, EarlyEndArrives, Zenon
    <2> QED
      BY <1>0, <1>1, <1>s, <2>1, EarlyEndings, Zenon
  <1>2. CASE EarlyStep /\ pc' # "ended"
    <2>0. Reads /\ UNCHANGED <<setup, client, frame>> /\ Landing' = Landing /\ client'.state = client.state
      BY <1>0, <1>2, EarlyTypes, SMTT(60) DEF EarlyStep, Landing
    <2>1. client.state # "new" /\ pc' \in Before \ {"peek"} /\ (pc' = "handshake" => UNCHANGED toProxy /\ pc = "peek")
      BY <1>2, <1>n, SMTT(60) DEF EarlyStep, Before, Take
    <2>2. Exempt \subseteq Exempt'
      BY <1>0, <1>2, <2>0, <2>1, SMTT(60) DEF Exempt, Before
    <2>3. CASE pc = "peek"
      <3>1. UNCHANGED toClient /\ Goals = States /\ Goals' = States /\ toClient = <<>>
        BY <1>2, <2>3, SMTT(60) DEF EarlyStep, Goals, FrameInv
      <3>2. Holds(<<>>, client.state, client.state, Landing) /\ client.state \in States
        BY <1>0, HoldsNothing DEF LoginTypes
      <3>3. Way'
        BY <2>0, <3>1, <3>2, Zenon DEF Way
      <3> QED
        BY <1>0, <2>0, <2>1, <3>3, EarlyStepArrives, SMTT(60)
    <2>4. CASE pc = "handshake"
      <3>0. Task /\ pc # "ended"
        BY <2>4, SMTT(60)
      <3>1. UNCHANGED toClient /\ toClient = <<>> /\ Take /\ pc' \in {"status", "loginStart"}
        BY <1>2, <2>4 DEF EarlyStep, FrameInv
      <3>2. ReadHandshake
        <4>1. ~Peek /\ ~HandleStatus /\ ~ReadLoginStart /\ ~ReadEncryptionResponse
          BY <2>4, Zenon DEF Peek, HandleStatus, ReadLoginStart, ReadEncryptionResponse
        <4>2. ~\/ Join \/ ReadAnswer \/ AnswerLost \/ ReadLoginAck \/ ReadConfigAck \/ ReadFinishAck \/ AcknowledgeBackend
               \/ LimboReadsAck \/ LimboReadsConfigAck \/ LimboReadsFinishAck \/ LimboReads
          BY <2>4, Zenon DEF Join, ReadAnswer, AnswerLost, ReadLoginAck, ReadConfigAck, ReadFinishAck, AcknowledgeBackend,
                 LimboReadsAck, LimboReadsConfigAck, LimboReadsFinishAck, LimboReads
        <4>3. ~TimedOut /\ ~NoticesClosed
          BY <1>2, <2>4 DEF TimedOut, NoticesClosed, Fail, End
        <4> QED
          BY <4>1, <4>2, <4>3, Zenon DEF Task
      <3>3. Received = (IF pc' = "status" THEN "HandshakeStatus" ELSE "HandshakeLogin")
        BY <1>2, <3>1, <3>2, SMTT(60) DEF ReadHandshake, End
      <3>4. client.state = (IF pc' = "status" THEN "status" ELSE "login")
        BY <1>0, <2>4, <3>1, <3>3, TakeIsRead, SMTT(60) DEF Opened, Take
      <3>5. Goals' = {client.state}
        BY <3>1, <3>4 DEF Goals
      <3>6. Holds(<<>>, client.state, client.state, Landing)
        BY HoldsNothing
      <3>7. Way'
        BY <2>0, <3>1, <3>5, <3>6, Zenon DEF Way
      <3> QED
        BY <1>0, <2>0, <2>1, <3>7, EarlyStepArrives
    <2>5. CASE pc \in {"status", "loginStart"}
      <3>1. PICK k \in {"StatusResponse", "EncryptionRequest"} :
              /\ Write(<<k>>)
              /\ \/ k = "StatusResponse" /\ Goals = {"status"} /\ Goals' = {"status"}
                 \/ k = "EncryptionRequest" /\ Goals = {"login"} /\ Goals' = {"login"}
        BY <1>2, <2>5 DEF EarlyStep, Goals
      <3>2. Leading(<<k>>)
        BY <1>0, <3>1, LeadsBy, LeadingBy, Zenon
      <3>3. <<k>> \in Seq(Kinds)
        BY SafeIsKind
      <3>4. Way'
        BY <1>0, <2>0, <2>2, <3>1, <3>2, <3>3, MovesLead, Zenon
      <3> QED
        BY <1>0, <2>0, <2>1, <3>4, EarlyStepArrives, SMTT(60)
    <2> QED
      BY <1>2, <2>3, <2>4, <2>5, SMTT(60) DEF EarlyStep
  <1> QED
    BY <1>0, <1>1, <1>2, <1>s, EarlySteps, Zenon

-----------------------------------------------------------------------------
LEMMA ArriveHoldsFirst == LoginInit => ArriveInv
  <1> SUFFICES ASSUME LoginInit PROVE ArriveInv
    OBVIOUS
  <1>1. /\ pc = "peek" /\ conn = "handshaking" /\ toClient = <<>> /\ toProxy = <<>> /\ acked = FALSE
        /\ client.state = "new"
    BY DEF LoginInit
  <1>2. Stages /\ Opened
    BY <1>1 DEF Stages, Opened, Owed
  <1>3. Way
    <2>1. Goals = States /\ client.state \in States
      BY <1>1 DEF Goals, States
    <2>2. Holds(<<>>, client.state, client.state, Landing)
      BY HoldsNothing, SMTT(60)
    <2> QED
      BY <1>1, <2>1, <2>2, Zenon DEF Way
  <1>4. AckInv
    <2>1. DOMAIN toProxy = {} /\ pc # "fmlAnswer" /\ ~Owed /\ pc \notin During /\ ~acked
      BY <1>1 DEF Owed, During
    <2> QED
      BY <2>1 DEF AckInv
  <1> QED
    BY <1>2, <1>3, <1>4, SMTT(60) DEF ArriveInv

LEMMA ArriveStep == FrameInv /\ SessionInv /\ ArriveInv /\ [LoginNext]_vars => ArriveInv'
  <1> SUFFICES ASSUME FrameInv, SessionInv, ArriveInv, [LoginNext]_vars, client'.state \notin Gone
               PROVE  Stages' /\ Opened' /\ Way' /\ AckInv'
    BY DEF ArriveInv
  <1>0. LoginTypes
    BY DEF FrameInv
  <1>1. CASE ClientReads
    <2>1. client.state \notin Gone
      BY <1>1 DEF ClientReads
    <2> QED
      BY <1>1, <2>1, ReadsArrive DEF ArriveInv
  <1>2. CASE ClientOpens
    <2>1. client.state \notin Gone
      BY <1>2 DEF ClientOpens, Gone
    <2> QED
      BY <1>2, <2>1, OpensArrive DEF ArriveInv
  <1>3. CASE ClientChats
    <2>1. client.state \notin Gone
      BY <1>3 DEF ClientChats, Gone
    <2> QED
      BY <1>3, <2>1, ChatsArrive DEF ArriveInv
  <1>4. ~ClientLeaves
    BY <1>0 DEF ClientLeaves, Gone, LoginTypes
  <1>5. CASE Task /\ pc \in Before
    <2>1. client.state \notin Gone
      <3>1. UNCHANGED client
        BY <1>0, <1>5, EarlySteps, Zenon DEF EarlyStep, Settles
      <3> QED
        BY <3>1
    <2> QED
      BY <1>5, <2>1, EarlyArrives DEF ArriveInv
  <1>6. CASE /\ Task \/ Backend \/ BackendConfigures \/ RelayEnds \/ Switch \/ LimboLeaves \/ LimboShutdown
             /\ ~(Task /\ pc \in Before)
    <2>1. PlayerStep
      BY <1>0, <1>6, TaskSteps, BackendSteps, Zenon
    <2>2. pc \in During /\ UNCHANGED client
      BY <2>1 DEF PlayerStep
    <2>3. pc \notin Before /\ pc # "ended" /\ pc # "peek"
      BY <2>2, StagesApart, SMTT(60) DEF During
    <2>4. client.state \notin Gone \cup {"new"}
      BY <2>2, <2>3, SMTT(60) DEF FrameInv
    <2>5. Stages /\ Opened /\ Way /\ AckInv
      BY <2>4 DEF ArriveInv
    <2>6. Moves
      BY <1>0, <1>6, <2>3, <2>4, <2>5, PlayerMoves, Zenon
    <2> QED
      BY <1>0, <2>2, <2>4, <2>5, <2>6, MovesKeep, SMTT(60)
  <1>7. CASE UNCHANGED vars
    <2>1. UNCHANGED <<setup, pc, conn, acked, inPlay, spoilt, client, toClient, toProxy>>
      BY <1>7 DEF vars, proxy
    <2>2. UNCHANGED <<Landing, Goals, Exempt, Owed, Asking, Clean, Pending>>
      BY <2>1, Zenon DEF Landing, Goals, Exempt, Owed, Asking, Clean, Pending
    <2>3. UNCHANGED <<Stages, Opened>>
      BY <2>1, <2>2, Zenon DEF Stages, Opened
    <2>4. UNCHANGED Way
      BY <2>1, <2>2, Zenon DEF Way
    <2>5. UNCHANGED AckInv
      BY <2>1, <2>2, Zenon DEF AckInv
    <2>6. Stages /\ Opened /\ Way /\ AckInv
      BY <2>1 DEF ArriveInv
    <2> QED
      BY <2>3, <2>4, <2>5, <2>6, SMTT(60)
  <1> QED
    BY <1>1, <1>2, <1>3, <1>4, <1>5, <1>6, <1>7, Zenon DEF LoginNext

(* A packet reaches the client in the protocol state that reads it, on     *)
(* every way through the login, the configuration, limbo and changes of    *)
(* server (connection.rs, limbo.rs), but for kicks, login plugin requests, *)
(* the resource pack of 1.20.2 and limbo's configuration after a backend   *)
(* was lost that had finished its own.                                     *)
THEOREM StatesAgree == LoginSpec => []ArrivesInState
  <1>1. FrameInv /\ ArriveInv => ArrivesInState
    <2> SUFFICES ASSUME FrameInv, ArriveInv, Waiting
                 PROVE  \/ StateOf(First.kind) \in {client.state, "any"}
                        \/ First.kind \in Ends /\ pc = "ended"
                        \/ First.kind = "LoginPlugin"
                        \/ First.kind = "ResourcePack" /\ HasConfigurationPhase(setup.ver)
                        \/ First.kind \in {"RegistryData", "Finish"} /\ spoilt
      BY SMTT(60) DEF ArrivesInState
    <2>1. toClient \in Seq(Packet) /\ toClient # <<>> /\ Way
      BY DEF Waiting, ArriveInv, FrameInv, LoginTypes
    <2>2. First = toClient[1]
      BY <2>1, StreamShrinks DEF First
    <2>3. Fine(client.state, toClient[1].kind) \/ toClient[1].kind \in Exempt
      BY <2>1, HoldsRead, DoomsRead, Zenon DEF Way
    <2> QED
      BY <2>2, <2>3 DEF Fine, Exempt
  <1> QED
    BY <1>1, FrameHoldsFirst, FrameStep, SessionHoldsFirst, SessionStep, ArriveHoldsFirst, ArriveStep, PTL
       DEF LoginSpec

(* Where the code takes any packet for the client's LoginAcknowledged      *)
(* (complete_backend_login, limbo's run), it is that packet, and once      *)
(* client_login_acked is set no acknowledgement is left on the stream, as  *)
(* long as no login plugin request of a backend is under way.              *)
THEOREM AckReadOnce == LoginSpec => []AckIsReadOnce
  <1>1. FrameInv /\ ArriveInv => AckIsReadOnce
    <2> SUFFICES ASSUME FrameInv, ArriveInv, client.state \notin Gone, ~Asking
                 PROVE  /\ pc \in {"loginAck", "limboAck"} =>
                             IF toProxy = <<>> THEN client.state = "login" ELSE Received = "LoginAck"
                        /\ acked => \A i \in DOMAIN toProxy : toProxy[i].kind # "LoginAck"
      BY DEF AckIsReadOnce, Asking
    <2>1. Stages /\ AckInv
      BY DEF ArriveInv
    <2>2. ASSUME pc \in {"loginAck", "limboAck"}
          PROVE  IF toProxy = <<>> THEN client.state = "login" ELSE Received = "LoginAck"
      <3>1. HasConfigurationPhase(setup.ver) /\ Owed
        BY <2>1, <2>2 DEF Stages, Owed
      <3>2. Pending
        BY <2>1, <3>1, Zenon DEF AckInv
      <3>3. CASE toProxy = <<>>
        BY <3>2, <3>3 DEF Pending
      <3>4. CASE toProxy # <<>>
        <4>1. toProxy[1].kind = "LoginAck"
          BY <3>2, <3>4, SMTT(60) DEF Pending
        <4>2. Received = toProxy[1].kind
          BY <3>4, StreamShrinks DEF Received, FrameInv, LoginTypes
        <4> QED
          BY <3>4, <4>1, <4>2, SMTT(60)
      <3> QED
        BY <3>3, <3>4
    <2>3. ASSUME acked PROVE \A i \in DOMAIN toProxy : toProxy[i].kind # "LoginAck"
      BY <2>1, <2>3, Zenon DEF AckInv, Clean
    <2> QED
      BY <2>2, <2>3, SMTT(60)
  <1> QED
    BY <1>1, FrameHoldsFirst, FrameStep, SessionHoldsFirst, SessionStep, ArriveHoldsFirst, ArriveStep, PTL
       DEF LoginSpec
=============================================================================
