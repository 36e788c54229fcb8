---------------------------- MODULE MCMetadataStore ----------------------------
(* Values for model checking MetadataStore: one target, so that two records *)
(* share their identifier exactly when they are made in one second.         *)
EXTENDS MetadataStore

CONSTANT orders

MCTargets == {orders}
MCNameOf == [t \in Targets |-> 1]
===============================================================================
