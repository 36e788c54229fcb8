---------------------------- MODULE MCCatalogStore -----------------------------
(* Values for model checking CatalogStore: one target, and a metadata.json  *)
(* that is torn (a missing one is treated alike) or holds two records with  *)
(* one identifier, made in the second before the start.                     *)
EXTENDS CatalogStore, TLC

CONSTANT orders

MCTargets == {orders}
MCNameOf == [t \in Targets |-> 1]

Old(status, size) ==
    [NewRecord(orders, 1) EXCEPT
        !.status = status, !.size = size, !.paths = LocalPaths(status), !.doneAt = 1]

File(state, bs) == [state |-> state, log |-> bs]

MCLegacyFiles ==
    {File("torn", EmptyLog),
     File("whole", 1 :> Old("success", 2) @@ 2 :> Old("error", 0))}
===============================================================================
