------------------------------ MODULE Throttle ------------------------------
(***************************************************************************)
(* ConnectionThrottle (net/connection_throttle.rs) as accept_loop of       *)
(* proxy.rs uses it: one token bucket per address, a temporary ban when it *)
(* is empty, and the eviction of records.                                  *)
(*                                                                         *)
(* Tokens are counted in fractions, Cost of them to one connection; the    *)
(* rounding of f32 is left out.  Buckets per ASN are never reached:        *)
(* resolve_asn returns None.                                               *)
(***************************************************************************)
EXTENDS Naturals, Sequences, FiniteSets

CONSTANTS
  Addresses,
  Capacity,     \* CAPACITY
  Cost,         \* what a connection takes
  Refill,       \* REFILL_RATE_PER_SEC
  BanTime,      \* TEMP_BAN_DURATION
  RecentTime,   \* records are not stale before
  MaxRecords,   \* MAX_IP_RECORDS
  MaxTime       \* bound

(* 120 s of ban at 2 tokens a second fill a bucket of 8.                   *)
ASSUME ThrottleAssumption ==
  /\ Capacity \in Nat /\ Cost \in 1..Capacity /\ Refill \in Nat \ {0}
  /\ BanTime \in Nat /\ BanTime * Refill >= Capacity
  /\ RecentTime \in Nat /\ MaxRecords \in Nat /\ MaxTime \in Nat

VARIABLES
  limited,   \* max_per_ip is not 0
  now,       \* Instant::now()
  records,   \* ip_records: a function on the addresses that have one
  accepted   \* history: accepted[a], the times at which a got through check_ip

throttleVars == <<limited, now, records, accepted>>

ThrottleInit ==
  /\ limited \in BOOLEAN
  /\ now = 0
  /\ records = [a \in {} |-> 0]
  /\ accepted = [a \in Addresses |-> <<>>]

TimePasses ==
  /\ now < MaxTime
  /\ now' = now + 1
  /\ UNCHANGED <<limited, records, accepted>>

Least(i, j) == IF i < j THEN i ELSE j

Banned(r) == now < r.until

(* What both evictions keep.                                               *)
(* Faulty variant: a bucket that is not full is stale as well.             *)
KeepsRecent(r) == Banned(r) \/ now - r.last < RecentTime

Keeps(r) == Banned(r) \/ r.tokens < Capacity \/ now - r.last < RecentTime

Retained == [a \in {b \in DOMAIN records : Keeps(records[b])} |-> records[a]]

EvictStale ==
  /\ records' = Retained
  /\ UNCHANGED <<limited, now, accepted>>

(* The bucket at this moment: a ban that is over leaves it full.           *)
Refilled(r) ==
  LET tokens == IF r.until # 0 THEN Capacity ELSE r.tokens IN
  Least(tokens + (now - r.last) * Refill, Capacity)

Fresh == [tokens |-> Capacity, last |-> now, until |-> 0]

With(recs, a, r) == [b \in DOMAIN recs \cup {a} |-> IF b = a THEN r ELSE recs[b]]

Accept(a) == accepted' = [accepted EXCEPT ![a] = Append(@, now)]

(* check_ip.  A new address makes room first if the map is full.           *)
CheckIp(a) ==
  LET room == a \in DOMAIN records \/ Cardinality(DOMAIN records) < MaxRecords
      kept == IF room THEN records ELSE Retained
      r == IF a \in DOMAIN kept THEN kept[a] ELSE Fresh
      tokens == Refilled(r)
  IN  IF a \notin DOMAIN kept /\ Cardinality(DOMAIN kept) >= MaxRecords
      THEN records' = kept /\ UNCHANGED accepted
      ELSE IF Banned(r) THEN records' = kept /\ UNCHANGED accepted
      ELSE IF tokens < Cost
      THEN /\ records' = With(kept, a, [tokens |-> tokens, last |-> now, until |-> now + BanTime])
           /\ UNCHANGED accepted
      ELSE /\ records' = With(kept, a, [tokens |-> tokens - Cost, last |-> now, until |-> 0])
           /\ Accept(a)

(* A connection arrives at accept_loop.                                    *)
Connects(a) ==
  /\ IF limited THEN CheckIp(a) ELSE UNCHANGED <<records, accepted>>
  /\ UNCHANGED <<limited, now>>

ThrottleNext == TimePasses \/ EvictStale \/ \E a \in Addresses : Connects(a)

ThrottleSpec == ThrottleInit /\ [][ThrottleNext]_throttleVars

-----------------------------------------------------------------------------
(* The bucket bounds every stretch of time, not only the first: among the  *)
(* connections of one address, those from any moment to any later one cost *)
(* no more than a full bucket and what was refilled in between, whatever   *)
(* was banned, evicted or forgotten meanwhile.                             *)
AcceptsWithinBudget ==
  limited =>
    \A a \in Addresses :
      \A i \in DOMAIN accepted[a] : \A j \in i..Len(accepted[a]) :
        (j - i + 1) * Cost <= Capacity + (accepted[a][j] - accepted[a][i]) * Refill
=============================================================================
