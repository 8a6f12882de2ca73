-------------------------- MODULE MCSourceCatalog --------------------------
(* Two sources; the owner narrows the configuration to one of them.        *)
EXTENDS SourceCatalog, TLC

CONSTANTS s1, s2, w1, w2

MCConfigurations ==
    {[identity |-> "a", authority |-> (s1 :> 1 @@ s2 :> 1)],
     [identity |-> "a", authority |-> (s1 :> None @@ s2 :> 1)]}
MCDuties == w1 :> {"select", "refresh", "export"} @@ w2 :> {"delete"}
=============================================================================
