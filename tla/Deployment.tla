----------------------------- MODULE Deployment ------------------------------
(***************************************************************************)
(* contracts/scripts/deploy.js as a process of its own over the contracts  *)
(* of MACL: it sends its transactions one after the other, waits for each, *)
(* and ends at the first that fails, while everyone else, the owner's own  *)
(* account included, which is the Donor's, already uses the contracts.     *)
(*                                                                         *)
(* The three constructors are its first step: before them there is nothing *)
(* to send a transaction to.                                               *)
(***************************************************************************)
EXTENDS MACL

VARIABLES
    sent,        \* wirings and registrations of the script executed so far
    script,      \* how the script stands
    ownerActed,  \* ghost: the owner changed the set-up by other means
    disturbed    \* ghost: there was another transaction, or a block

scriptVars == <<sent, script, ownerActed, disturbed>>

\* What the script sets up, and only the owner can.
SetUp == <<organisations, orgList, complianceContract, verificationContract,
           verificationWindow>>

DeploymentInit ==
    /\ Init
    /\ sent = 0
    /\ script = "running"
    /\ ownerActed = FALSE
    /\ disturbed = FALSE

Wirings == 2

WireCompliance ==
    /\ sent = 0
    /\ SetVerificationContract(Owner, VerificationAddress)
    /\ UNCHANGED verificationVars

WireAgreement ==
    /\ sent = 1
    /\ SetComplianceContract(Owner, ComplianceAddress)
    /\ UNCHANGED <<complianceVars, verificationVars>>

\* The seed organisations in their order.
RegisterSeed ==
    /\ sent \in Wirings .. Wirings + Len(SeedOrder) - 1
    /\ LET account == SeedOrder[sent - Wirings + 1]
       IN  RegisterOrganisation(Owner, account, SeedRoles[account])
    /\ UNCHANGED <<complianceVars, verificationVars>>

AllSent == sent = Wirings + Len(SeedOrder)

ScriptSends ==
    /\ script = "running"
    /\ WireCompliance \/ WireAgreement \/ RegisterSeed
    /\ sent' = sent + 1
    /\ UNCHANGED <<now, script, ownerActed, disturbed>>

\* One more transaction when VERIFICATION_WINDOW_SECONDS is set.
ScriptSetsWindow ==
    /\ script = "running"
    /\ AllSent
    /\ \E window \in Windows : SetVerificationWindow(Owner, window)
    /\ script' = "windowSet"
    /\ UNCHANGED <<now, sent, ownerActed, disturbed>>

ScriptEnds ==
    /\ script \in {"running", "windowSet"}
    /\ AllSent
    /\ script' = "done"
    /\ UNCHANGED <<vars, sent, ownerActed, disturbed>>

\* Mutant: the script goes on with its next transaction.
ScriptGoesOn ==
    /\ script = "running"
    /\ ~AllSent
    /\ sent' = sent + 1
    /\ UNCHANGED <<vars, script, ownerActed, disturbed>>

\* A transaction reverts, the node cannot be reached, the process is killed.
ScriptStops ==
    /\ script \in {"running", "windowSet"}
    /\ script' = "stopped"
    /\ UNCHANGED <<vars, sent, ownerActed, disturbed>>

Others ==
    /\ Next
    /\ ownerActed' = (ownerActed \/ SetUp' # SetUp)
    /\ disturbed' = TRUE
    /\ UNCHANGED <<sent, script>>

DeploymentNext ==
    \/ ScriptSends
    \/ ScriptSetsWindow
    \/ ScriptEnds
    \/ ScriptStops
    \/ Others

DeploymentSpec == DeploymentInit /\ [][DeploymentNext]_<<vars, scriptVars>>

-----------------------------------------------------------------------------
(* Properties. *)

\* A script that reports success has left both contracts wired and every
\* seed organisation registered once and with its role, whatever the
\* organisations registered first did before it ended, as long as the owner
\* has not changed the set-up on its own; and undisturbed it has left the
\* very ledger from which the other parts of this development start.
ScriptLeavesDeployed ==
    script = "done" /\ ~ownerActed =>
        /\ complianceContract = ComplianceAddress
        /\ verificationContract = VerificationAddress
        /\ orgList = SeedOrder
        /\ \A a \in Accounts :
                organisations[a] = IF a \in DOMAIN SeedRoles
                    THEN [registered |-> TRUE, orgType |-> SeedRoles[a]]
                    ELSE UnsetOrganisation
        /\ ~disturbed /\ verificationWindow = DefaultWindow => DeployedInit

=============================================================================
