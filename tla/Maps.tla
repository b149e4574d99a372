-------------------------------- MODULE Maps --------------------------------
(***************************************************************************)
(* The map of one entry and the union of two maps, the first before the    *)
(* second: what the TLC module writes :> and @@, as definitions that a     *)
(* proof can expand.                                                       *)
(***************************************************************************)
Maplet(f, x) == [g \in {f} |-> x]
m ++ n == [f \in DOMAIN m \cup DOMAIN n |-> IF f \in DOMAIN m THEN m[f] ELSE n[f]]
=============================================================================
