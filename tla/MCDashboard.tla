----------------------------- MODULE MCDashboard ------------------------------
(* Small values for the pages of the dashboard. *)
EXTENDS Dashboard, TLC

CONSTANTS donor, ngo, f1, f2, g1, g2

MCAccounts == {donor, ngo}

MCFiles == {f1, f2}

MCFunded == {g1, g2}

MCNoAmount == -1

T1 == [threshold |-> 1, deadline |-> 1]
T2 == [threshold |-> 2, deadline |-> 1]

MCEntered == {<<T1>>, <<T1, T2>>}

\* Files and the agreements of the spend form are interchangeable.
MCSymmetry == Permutations(MCFiles) \cup Permutations(MCFunded)

=============================================================================
