------------------------------ MODULE Channel ------------------------------
(* What a relay promises of the packets that a backend sends for a client.  *)
(* They are numbered as they are sent.  The channel takes them one by one   *)
(* and delivers them in that order, several at a time; it never holds more  *)
(* than Capacity of them.  It ends clean or failed, and delivers nothing    *)
(* afterwards: a clean end owes a receiver that is there none of what was   *)
(* taken, and what was not taken stays with the sender.                     *)
EXTENDS Naturals, Sequences

CONSTANT Capacity

VARIABLES
  sent,       \* how many packets there are
  taken,      \* how many of them the channel has taken
  delivered,  \* the numbers of those that arrived
  ending,     \* "open", "clean" or "failed"
  broken      \* the receiver is gone: nothing arrives any more

vars == <<sent, taken, delivered, ending, broken>>

Init ==
  /\ sent = 0 /\ taken = 0 /\ delivered = <<>>
  /\ ending = "open" /\ broken = FALSE

(* How many are held, and the next n of them.                               *)
Holding == taken - Len(delivered)
Following(n) == [i \in 1..n |-> Len(delivered) + i]

Send ==
  /\ sent' = sent + 1
  /\ UNCHANGED <<taken, delivered, ending, broken>>

Take ==
  /\ ending = "open" /\ taken < sent /\ Holding < Capacity
  /\ taken' = taken + 1
  /\ UNCHANGED <<sent, delivered, ending, broken>>

Deliver ==
  /\ ending = "open" /\ ~broken
  /\ \E n \in 1..Holding : delivered' = delivered \o Following(n)
  /\ UNCHANGED <<sent, taken, ending, broken>>

EndClean ==
  /\ ending = "open" /\ ending' = "clean"
  /\ delivered' = IF broken THEN delivered ELSE delivered \o Following(Holding)
  /\ UNCHANGED <<sent, taken, broken>>

EndFailed ==
  /\ ending = "open" /\ ending' = "failed"
  /\ UNCHANGED <<sent, taken, delivered, broken>>

Break ==
  /\ broken' = TRUE
  /\ UNCHANGED <<sent, taken, delivered, ending>>

Next == Send \/ Take \/ Deliver \/ EndClean \/ EndFailed \/ Break

Spec == Init /\ [][Next]_vars
=============================================================================
