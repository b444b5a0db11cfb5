------------------------------ MODULE MCRouting ------------------------------
(***************************************************************************)
(* Every registry a small proxy can be in.  s2 carries weight 0 until it   *)
(* is registered at run time or an edit of the configuration gives it one, *)
(* and is not probed from then on; s3 has no limit.                        *)
(***************************************************************************)
EXTENDS Registry, TLC

Sec(max, region, weight, probed) ==
  [max |-> max, region |-> region, weight |-> weight, probed |-> probed]
MCSections ==
  ("s1" :> {Sec(1, "eu-west", 2, TRUE)})
    @@ ("s2" :> {Sec(2, "asia", 0, TRUE), Sec(1, "eu-west", 1, FALSE)})
    @@ ("s3" :> {Sec(0, "eu-west", 3, TRUE)})

Pools == [g \in Strategies |-> [members |-> <<"s2", "s1", "s3">>, strategy |-> g]]
Rules == {<<"latency", "s3">>, <<"s2", "least_connections">>}
=============================================================================
