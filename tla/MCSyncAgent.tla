----------------------------- MODULE MCSyncAgent -----------------------------
(* Model values and symmetry for the TLC runs of SyncAgent. *)
EXTENDS SyncAgent, TLC

CONSTANTS l1, r1, r2, r3, t1

OneLocal == {l1}
NoLocal == {}
TwoRemote == {r1, r2}
ThreeRemote == {r1, r2, r3}
OneTask == {t1}

(* Remote change sets are interchangeable. *)
Symmetry == Permutations({r1, r2, r3})
SymmetryOfTwo == Permutations({r1, r2})
=============================================================================
