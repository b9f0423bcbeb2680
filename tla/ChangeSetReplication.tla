------------------------- MODULE ChangeSetReplication -------------------------
(***************************************************************************)
(* What the change set synchronisation promises, without saying how: every *)
(* change set is written once, on one node; every other node comes to hold *)
(* it by taking over what was written, one whole change set at a time, and *)
(* holds it from then on, until its store is lost with the process.        *)
(* Module SyncNetwork is shown to implement this.                          *)
(***************************************************************************)
CONSTANTS
    Nodes,
    ChangeSets,
    Persistent  \* nodes whose store outlives the process (STORAGE=sqlite)

VARIABLES
    written,  \* change sets some node wrote so far
    holds     \* per node, the change sets it holds

abstractVars == <<written, holds>>

Init ==
    /\ written = {}
    /\ holds = [n \in Nodes |-> {}]

Write(n, x) ==
    /\ x \notin written
    /\ written' = written \cup {x}
    /\ holds' = [holds EXCEPT ![n] = @ \cup {x}]

(* The node it came from may have lost its store meanwhile. *)
TakeOver(n, x) ==
    /\ x \in written \ holds[n]
    /\ holds' = [holds EXCEPT ![n] = @ \cup {x}]
    /\ UNCHANGED written

LoseStore(n) ==
    /\ n \notin Persistent
    /\ holds' = [holds EXCEPT ![n] = {}]
    /\ UNCHANGED written

Next ==
    \E n \in Nodes :
        \/ \E x \in ChangeSets : Write(n, x) \/ TakeOver(n, x)
        \/ LoseStore(n)

Spec == Init /\ [][Next]_abstractVars
=============================================================================
