------------------------------ MODULE MCRelay ------------------------------
(* TLC instances of Relay: up to three backend packets.                    *)
EXTENDS Relay
=============================================================================
