------------------------------- MODULE MCMACL -------------------------------
(***************************************************************************)
(* Small instances of MACL: the three organisations that deploy.js         *)
(* registers, the donor being the deployer, and the abstract lifecycles    *)
(* that the contracts implement.                                           *)
(***************************************************************************)
EXTENDS MACLRefinement

CONSTANTS donor, ngo, ministry

MCAccounts == {donor, ngo, ministry}

MCSeedRoles ==
    [a \in MCAccounts |-> CASE a = donor -> "Donor"
                            [] a = ngo -> "NGO"
                            [] a = ministry -> "Ministry"]

MCSeedOrder == <<donor, ngo, ministry>>

\* All three sign, or only the donor and the NGO: the ministry is then an
\* outsider whose votes must be refused.
MCSignatorySets == {MCAccounts, {donor, ngo}}

MCAllSign == {MCAccounts}

=============================================================================
