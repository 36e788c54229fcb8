---------------------------- MODULE MCBackupPipeline ----------------------------
(* Values for model checking BackupPipeline.                                *)
EXTENDS BackupPipeline

CONSTANTS orders, users, events, cron1, hand1, hand2, b1, b2

MCTargets == {orders, users, events}
MCNameOf == [t \in MCTargets |-> CASE t = orders -> 1 [] t = users -> 2 [] OTHER -> 3]

(* No provider backs up the server of events.                               *)
MCServerOf == [t \in MCTargets |-> IF t = events THEN 2 ELSE 1]
MCKind == [t \in MCTargets |-> IF t = events THEN "postgresql" ELSE "mysql"]

(* Every run a backup of its own; one of them goes through two servers.     *)
MCTwoServers == [r \in Runs |-> IF r = cron1 THEN <<events, orders>> ELSE <<users>>]

(* The manual runs back up one database each.                               *)
MCOneEach == [r \in Runs |-> IF r = hand1 THEN <<users>> ELSE <<orders>>]
===============================================================================
