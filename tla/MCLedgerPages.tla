---------------------------- MODULE MCLedgerPages ----------------------------
(* The pages over the small ledger of MCMACL. *)
EXTENDS MCMACL, LedgerPages

\* A record and the spend requests have nothing to do with one another: while
\* one is looked at, the other stands still.
TheRestStandsStill ==
    IF kind = "spend"
    THEN UNCHANGED <<now, records, recordVotes, verificationWindow>>
    ELSE UNCHANGED <<spendRequests, spendVotes>>

=============================================================================
