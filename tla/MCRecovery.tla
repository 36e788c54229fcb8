------------------------------- MODULE MCRecovery -------------------------------
(* Values for model checking Recovery: two databases, of which the store    *)
(* may know one, and files named as the command expects them or not.        *)
EXTENDS Recovery

CONSTANTS orders, users

MCTargets == {orders, users}
MCNameOf == [t \in Targets |-> IF t = orders THEN 1 ELSE 2]

File(store, target, named) ==
    [store |-> store, target |-> target, stamp |-> 1, size |-> 1, named |-> named]

MCFiles ==
    {File("local", orders, TRUE), File("s3", orders, TRUE), File("s3", users, TRUE),
     File("local", users, FALSE)}

Done(status, paths) ==
    [n \in {1} |-> [NewRecord(orders, 1) EXCEPT !.status = status, !.paths = paths,
                                                !.size = 1, !.doneAt = 1]]

MCInitialFiles ==
    {Absent, Torn} \cup {Whole(bs, Totals(bs)) : bs \in {Done("success", Organisations),
                                                        Done("deleted", Organisations)}}

Given(dryRun, force, merge, scan) ==
    [dryRun |-> dryRun, force |-> force, merge |-> merge, scan |-> scan]

MCFlags ==
    {Given(FALSE, force, merge, {"local", "s3"}) : force, merge \in BOOLEAN}
        \cup {Given(TRUE, TRUE, FALSE, {"s3"}), Given(FALSE, TRUE, FALSE, {"local"})}
===============================================================================
