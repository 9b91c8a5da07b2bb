----------------------------- MODULE MCDeployment ----------------------------
(* The deployment script over the small ledger of MCMACL. *)
EXTENDS MCMACL, Deployment

=============================================================================
