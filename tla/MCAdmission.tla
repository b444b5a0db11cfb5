----------------------------- MODULE MCAdmission -----------------------------
(***************************************************************************)
(* Small instances of Admission: a lobby without a limit and a survival    *)
(* server with one slot, two or three connections.                         *)
(***************************************************************************)
EXTENDS Admission, TLC

CONSTANTS lobby, survival, c1, c2, c3

Own == [c \in Conns |-> c]
OneSlot == (lobby :> 0) @@ (survival :> 1)
Regions == (lobby :> "eu-west") @@ (survival :> "asia")
=============================================================================
