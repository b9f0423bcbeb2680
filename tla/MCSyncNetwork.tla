---------------------------- MODULE MCSyncNetwork ----------------------------
(* A hub and two clients for the TLC runs of SyncNetwork. *)
EXTENDS SyncNetwork, TLC

CONSTANTS hub, a, b, x, y

MCClients == {a, b}
OneChangeSet == {x}
TwoChangeSets == {x, y}

(* Both change sets are written on client a. *)
WrittenOnA == [z \in ChangeSets |-> a]
(* Both are written on the hub. *)
WrittenOnHub == [z \in ChangeSets |-> hub]
(* x is written on client a, y on the hub. *)
WrittenOnAAndHub == [z \in ChangeSets |-> IF z = x THEN a ELSE hub]

(* The clients keep their stores in files, the hub keeps its in memory. *)
VolatileHub == {a, b}
AllPersistent == {hub, a, b}
=============================================================================
