--------------------------- MODULE MCPetShopStore ---------------------------
(* PetShopStore for TLC: two nodes in the two relation modes.              *)
EXTENDS PetShopStore

MCMode == [n \in Nodes |-> IF n = 1 THEN "junction" ELSE "multi-reference"]

(* Node 1 reaches its bound, node 2 follows all it finds.                  *)
MCDependencyBound == [n \in Nodes |-> n]

Start(cold, bound, late) == [cold |-> cold, calls |-> bound, faults |-> late]

(* Nodes that are seeded, and a node that seeds itself beside one that is. *)
MCStarts == {Start({}, 2, 1), Start({2}, 1, 0), Start({2}, 0, 1)}

MCCalls ==
    {AnimalChanges("b", Keep, FALSE), AnimalChanges(Keep, {}, TRUE),
     UploadedImage("uploaded"), NewInvoice}
=============================================================================
