--------------------------- MODULE MCDocumentStore ---------------------------
(***************************************************************************)
(* Values of the constants of DocumentStore for model checking.            *)
(***************************************************************************)
EXTENDS DocumentStore, TLC

CONSTANTS f1, f2

MCFiles == {f1, f2}

MCSize == [f \in MCFiles |-> IF f = f1 THEN 1 ELSE 2]

\* Uploads, organisations and names are interchangeable; files are not, for
\* they differ in size.
MCSymmetry ==
    Permutations(Requests) \cup Permutations(Roles) \cup Permutations(Names)

=============================================================================
