------------------------------ MODULE MCRetention ------------------------------
(* Values for model checking Retention.                                     *)
EXTENDS Retention, TLC

CONSTANTS orders, copy, cron, hand

(* A database of one name on two servers, backed up daily; weekly files,    *)
(* of which there are none, would be kept forever.                          *)
MCNameOf == [t \in Targets |-> IF t = orders THEN 1 ELSE 2]
MCTypeOf == [t \in Targets |-> "daily"]
MCDbOf == [t \in Targets |-> "orders"]

(* The two enforcers differ in nothing.                                     *)
Symmetry == Permutations(Enforcers)

(* The record of the one that keeps to the new layout comes first.          *)
MCBefore == <<copy, orders>>

MCNone == <<>>

MCKeep == [s \in Stores |-> [y \in Types |-> IF s = "local" THEN 0 ELSE 1]]
MCSkipped == [s \in Stores |-> {"weekly"}]
===============================================================================
