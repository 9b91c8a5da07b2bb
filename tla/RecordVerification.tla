------------------------- MODULE RecordVerification -------------------------
(***************************************************************************)
(* What the verification workflow promises about a compliance record,      *)
(* without contracts, counters or clocks: a record is verified the moment  *)
(* Quorum distinct parties stand behind it, or it lapses, and neither      *)
(* outcome is ever reversed.  A party speaks once about a record.          *)
(***************************************************************************)
EXTENDS Integers, FiniteSets

CONSTANTS Parties, Records, Quorum

VARIABLES
    status,   \* record -> "none", "open", "verified" or "lapsed"
    support,  \* record -> parties that endorsed it
    dissent   \* record -> parties that disputed it

vars == <<status, support, dissent>>

Init ==
    /\ status = [r \in Records |-> "none"]
    /\ support = [r \in Records |-> {}]
    /\ dissent = [r \in Records |-> {}]

Submit(r) ==
    /\ status[r] = "none"
    /\ status' = [status EXCEPT ![r] = "open"]
    /\ UNCHANGED <<support, dissent>>

Silent(r, p) == p \notin support[r] \cup dissent[r]

\* Endorsing goes on after verification, for the audit trail.
Endorse(r, p) ==
    /\ status[r] \in {"open", "verified"}
    /\ Silent(r, p)
    /\ support' = [support EXCEPT ![r] = @ \cup {p}]
    /\ status' = IF Cardinality(support[r] \cup {p}) >= Quorum
                 THEN [status EXCEPT ![r] = "verified"]
                 ELSE status
    /\ UNCHANGED dissent

\* Disputing goes on after a lapse, which the contract does not refuse.
Dispute(r, p) ==
    /\ status[r] \in {"open", "lapsed"}
    /\ Silent(r, p)
    /\ dissent' = [dissent EXCEPT ![r] = @ \cup {p}]
    /\ UNCHANGED <<status, support>>

Lapse(r) ==
    /\ status[r] = "open"
    /\ status' = [status EXCEPT ![r] = "lapsed"]
    /\ UNCHANGED <<support, dissent>>

Next ==
    \E r \in Records :
        \/ Submit(r)
        \/ Lapse(r)
        \/ \E p \in Parties : Endorse(r, p) \/ Dispute(r, p)

Spec == Init /\ [][Next]_vars

=============================================================================
