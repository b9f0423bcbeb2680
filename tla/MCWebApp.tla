------------------------------ MODULE MCWebApp ------------------------------
(* WebApp for TLC: runs in which the node and the stream change, and runs  *)
(* in which the person moves.                                              *)
EXTENDS WebApp

Run(page, changeSets, changes, beats, breaks, faults, moves) ==
    [page |-> page, changeSets |-> changeSets, changes |-> changes, beats |-> beats,
     breaks |-> breaks, faults |-> faults, moves |-> moves]

invoice == {"invoices", "invoiceItems"}
edit == {"animals"}

MCStarts ==
    {Run("network", {edit}, 2, 1, 1, 1, 0), Run("invoices", {invoice, edit}, 1, 0, 1, 0, 0),
     Run("network", {edit}, 1, 0, 0, 0, 1), Run("network", {}, 0, 0, 0, 1, 2),
     Run("animals", {}, 0, 0, 0, 1, 2), Run("invoice", {}, 0, 0, 0, 1, 1),
     Run("edit", {}, 0, 0, 0, 0, 2), Run("species", {}, 0, 0, 0, 1, 1),
     Run("new", {}, 0, 0, 0, 1, 2)}
=============================================================================
