---------------------------- MODULE SignedWrites ----------------------------
(***************************************************************************)
(* The write requests of the API: the POST handlers of api/routes.js, the  *)
(* signing and sending of api/lib/chain.js and the audit log of            *)
(* api/lib/audit.js.                                                       *)
(*                                                                         *)
(* The API signs with one key per organisation, so the requests of one     *)
(* organisation share the nonces of its account.  A write asks the node    *)
(* for the next nonce, has it estimate the gas, broadcasts, and waits for  *)
(* the receipt; each of these is awaited, any of them may fail, and the    *)
(* API may stop between them.  A client that gets no answer, or not the    *)
(* one it wanted, may send the same write again as another request.        *)
(*                                                                         *)
(* What the contracts say of a call is modelled elsewhere (module MACL);   *)
(* here they accept or refuse it, in the estimate and again in the block,  *)
(* where another transaction may have come first.  The item a write is     *)
(* about is left out: two writes of a kind by one account are the same.    *)
(***************************************************************************)
EXTENDS Integers, FiniteSets, Sequences

CONSTANTS
    Requests,        \* write requests clients send
    Ops,             \* the writes they ask for
    OwnerKey,        \* the account that signs registrations
    NoRequest

-----------------------------------------------------------------------------

DonorOnly ==
    {"agreement.create", "agreement.addTarget", "agreement.editTarget",
     "agreement.removeTarget", "agreement.updateDates", "agreement.finalise",
     "budget.set"}

NgoOnly == {"report.submit", "spend.request", "spend.markSpent"}

AdminOnly == {"org.register"}

RecordVotes == {"record.endorse", "record.decline"}

SpendVotes == {"spend.endorse", "spend.decline"}

AllOps ==
    DonorOnly \cup NgoOnly \cup AdminOnly \cup RecordVotes \cup SpendVotes
        \cup {"record.expire"}

\* The roles that have a key; an administrator has none.
Organisations == {"donor", "ngo", "audit"}

Roles == Organisations \cup {"admin"}

Keys == Organisations \cup {OwnerKey}

ASSUME WritesAssumption ==
    /\ IsFiniteSet(Requests)
    /\ Ops \subseteq AllOps

\* requirePerm
MayPerform(role, op) ==
    /\ op \in DonorOnly => role = "donor"
    /\ op \in NgoOnly => role = "ngo"
    /\ op \in AdminOnly => role = "admin"

\* signerFor and ownerSigner; an organisation's own key is named after it.
HasSigner(role, op) == op \in AdminOnly \/ role \in Organisations

SignerOf(role, op) == IF op \in AdminOnly THEN OwnerKey ELSE role

-----------------------------------------------------------------------------

VARIABLES
    request,      \* request -> where its handler is, or its answer
    pool,         \* the node's pool of pending transactions
    nextNonce,    \* account -> transactions of it that were mined
    effective,    \* mined transactions that succeeded
    reverted,     \* mined transactions that were reverted
    forgot,       \* history: the node has forgotten a pooled transaction
    auditLog      \* the lines of the audit log

ledger == <<pool, nextNonce, effective, reverted, forgot>>

vars == <<request, ledger, auditLog>>

\* What the handler awaits; "over" is an answered or abandoned request.
Stages == {"nonce", "gas", "receipt", "over"}

\* The answers; 0 is no answer.
Statuses == {0, 200, 400, 403, 500, 502}

Request ==
    [stage : Stages, role : Roles, op : AllOps, nonce : Nat,
     status : Statuses]

\* Bounds no request's nonce: no request sends more than one transaction.
Nonces == 0 .. Cardinality(Requests)

ASSUME NothingAssumption == NoRequest \notin Request

\* "of" is the request it was signed for: no part of the transaction, only
\* kept to speak of it.  The hash names account, nonce and operation.
Transaction == [key : Keys, nonce : Nat, op : AllOps, of : Requests]

AuditEntry == [role : Roles, op : AllOps, nonce : Nat]

TypeOK ==
    /\ request \in [Requests -> Request \cup {NoRequest}]
    /\ pool \in SUBSET Transaction
    /\ nextNonce \in [Keys -> Nat]
    /\ effective \in SUBSET Transaction
    /\ reverted \in SUBSET Transaction
    /\ forgot \in BOOLEAN
    /\ auditLog \in Seq(AuditEntry)

Init ==
    /\ request = [r \in Requests |-> NoRequest]
    /\ pool = {}
    /\ nextNonce = [k \in Keys |-> 0]
    /\ effective = {}
    /\ reverted = {}
    /\ forgot = FALSE
    /\ auditLog = <<>>

-----------------------------------------------------------------------------

Sent == pool \cup effective \cup reverted

At(r, stage) == request[r] # NoRequest /\ request[r].stage = stage

InFlight(r) == request[r] # NoRequest /\ request[r].stage # "over"

KeyOf(r) == SignerOf(request[r].role, request[r].op)

SignedTx(r) ==
    [key |-> KeyOf(r), nonce |-> request[r].nonce, op |-> request[r].op,
     of |-> r]

AuditLine(r) ==
    [role |-> request[r].role, op |-> request[r].op,
     nonce |-> request[r].nonce]

\* Mutant: every answer is logged, whatever its status.
AuditWriteAlways(r, status) ==
    auditLog' = Append(auditLog, AuditLine(r))

\* The line is written when the answer is a success, and is lost when the
\* file cannot be written.
AuditWrite(r, status) ==
    \/ status < 400 /\ auditLog' = Append(auditLog, AuditLine(r))
    \/ UNCHANGED auditLog

Answer(r, status) ==
    /\ request' = [request EXCEPT ![r].stage = "over", ![r].status = status]
    /\ AuditWrite(r, status)

AnswerFirst(r, role, op, status) ==
    /\ request' = [request EXCEPT
            ![r] = [stage |-> "over", role |-> role, op |-> op, nonce |-> 0,
                    status |-> status]]
    /\ UNCHANGED auditLog

\* Mutant: whatever goes wrong is told to the client as a refusal.
ErrorStatusAlways400(isRevert) == 400

\* send: a revert is the client's error, anything else is not.
ErrorStatus(isRevert) == IF isRevert THEN 400 ELSE 502

-----------------------------------------------------------------------------

\* A write arrives: no permission, a body or a role no transaction can be
\* made from (requireFields, intParam, BigInt, an address or hash that cannot
\* be encoded), or on to the node.
Receive(r, role, op) ==
    /\ request[r] = NoRequest
    /\ \/ ~MayPerform(role, op) /\ AnswerFirst(r, role, op, 403)
       \/ /\ MayPerform(role, op)
          /\ \E status \in IF HasSigner(role, op) THEN {400, 500, 502} ELSE {400} :
                AnswerFirst(r, role, op, status)
       \/ /\ MayPerform(role, op)
          /\ HasSigner(role, op)
          /\ request' = [request EXCEPT
                ![r] = [stage |-> "nonce", role |-> role, op |-> op,
                        nonce |-> 0, status |-> 0]]
          /\ UNCHANGED auditLog
    /\ UNCHANGED ledger

Pooled(key, nonce) == \E t \in pool : t.key = key /\ t.nonce = nonce

\* All nonces below are used or pooled.
NoGapBelow(key, nonce) ==
    \A n \in nextNonce[key] .. nonce - 1 : Pooled(key, n)

\* Mutant: the API counts the transactions it signs with a key itself.
NonceIsCount(n, key) ==
    n = Cardinality({r \in Requests : /\ request[r] # NoRequest
                                      /\ request[r].stage # "nonce"
                                      /\ KeyOf(r) = key})

\* A new wallet is made for each write, so the nonce is the node's: the
\* first above what is mined that is not pooled.
NonceIsPending(n, key) ==
    /\ n >= nextNonce[key]
    /\ ~Pooled(key, n)
    /\ NoGapBelow(key, n)

NonceAnswered(r) ==
    /\ At(r, "nonce")
    /\ \E n \in Nonces :
            /\ NonceIsPending(n, KeyOf(r))
            /\ request' = [request EXCEPT ![r].stage = "gas", ![r].nonce = n]
    /\ UNCHANGED <<ledger, auditLog>>

\* Estimating the gas runs the call on the last block: what would revert is
\* answered with the reason and is not sent.
EstimateRefused(r) ==
    /\ At(r, "gas")
    /\ Answer(r, ErrorStatus(TRUE))
    /\ UNCHANGED ledger

\* The pool takes a transaction whose nonce is free, and may let it take the
\* place of another one under its nonce.
PoolTakes(t) ==
    /\ t.nonce >= nextNonce[t.key]
    /\ LET same == {s \in pool : s.key = t.key /\ s.nonce = t.nonce}
       IN  /\ \A s \in same : s.op # t.op
           /\ pool' = (pool \ same) \cup {t}

PoolRefuses(t) == t.nonce < nextNonce[t.key] \/ Pooled(t.key, t.nonce)

\* Mutant: the answer is given when the transaction is sent.
BroadcastAndAnswer(r) ==
    /\ At(r, "gas")
    /\ PoolTakes(SignedTx(r))
    /\ Answer(r, 200)
    /\ UNCHANGED <<nextNonce, effective, reverted, forgot>>

Broadcast(r) ==
    /\ At(r, "gas")
    /\ PoolTakes(SignedTx(r))
    /\ request' = [request EXCEPT ![r].stage = "receipt"]
    /\ UNCHANGED <<nextNonce, effective, reverted, forgot, auditLog>>

\* The node refuses the transaction, for its nonce is used or taken.
BroadcastRefused(r) ==
    /\ At(r, "gas")
    /\ PoolRefuses(SignedTx(r))
    /\ Answer(r, ErrorStatus(FALSE))
    /\ UNCHANGED ledger

\* The node takes the transaction and its reply is lost.
BroadcastReplyLost(r) ==
    /\ At(r, "gas")
    /\ PoolTakes(SignedTx(r))
    /\ Answer(r, ErrorStatus(FALSE))
    /\ UNCHANGED <<nextNonce, effective, reverted, forgot>>

\* The receipt of the transaction, or of another one mined under its nonce.
Confirmed(r) ==
    /\ At(r, "receipt")
    /\ SignedTx(r) \in effective
    /\ Answer(r, 200)
    /\ UNCHANGED ledger

RevertedOnChain(r) ==
    /\ At(r, "receipt")
    /\ SignedTx(r) \in reverted
    /\ Answer(r, ErrorStatus(TRUE))
    /\ UNCHANGED ledger

\* ethers gives the error a reason, which send takes for a revert.
Replaced(r) ==
    /\ At(r, "receipt")
    /\ nextNonce[KeyOf(r)] > request[r].nonce
    /\ SignedTx(r) \notin effective \cup reverted
    /\ Answer(r, ErrorStatus(TRUE))
    /\ UNCHANGED ledger

\* Mutant: a write whose receipt could not be had is sent again.
NodeFailsRetry(r) ==
    /\ At(r, "receipt")
    /\ request' = [request EXCEPT ![r].stage = "nonce"]
    /\ UNCHANGED <<ledger, auditLog>>

\* A call to the node fails, before it has any effect.
NodeFails(r) ==
    /\ InFlight(r)
    /\ Answer(r, ErrorStatus(FALSE))
    /\ UNCHANGED ledger

\* The API process stops and is started again: its handlers are gone, the
\* audit log and what was sent are not.
Restart ==
    /\ \E r \in Requests : InFlight(r)
    /\ request' = [r \in Requests |->
            IF InFlight(r) THEN [request[r] EXCEPT !.stage = "over"]
                           ELSE request[r]]
    /\ UNCHANGED <<ledger, auditLog>>

-----------------------------------------------------------------------------

\* A pooled transaction whose turn it is gets into a block.
Mine(t) ==
    /\ t \in pool
    /\ t.nonce = nextNonce[t.key]
    /\ pool' = pool \ {t}
    /\ nextNonce' = [nextNonce EXCEPT ![t.key] = @ + 1]
    /\ \/ effective' = effective \cup {t} /\ UNCHANGED reverted
       \/ reverted' = reverted \cup {t} /\ UNCHANGED effective
    /\ UNCHANGED <<request, forgot, auditLog>>

\* The node forgets a transaction: it was restarted, or its pool was full.
Forget(t) ==
    /\ t \in pool
    /\ pool' = pool \ {t}
    /\ forgot' = TRUE
    /\ UNCHANGED <<request, nextNonce, effective, reverted, auditLog>>

Answered(r) ==
    \/ EstimateRefused(r)
    \/ BroadcastRefused(r)
    \/ Confirmed(r)
    \/ RevertedOnChain(r)
    \/ Replaced(r)

Next ==
    \/ \E r \in Requests, role \in Roles, op \in Ops : Receive(r, role, op)
    \/ \E r \in Requests :
            \/ NonceAnswered(r)
            \/ Broadcast(r)
            \/ BroadcastReplyLost(r)
            \/ NodeFails(r)
            \/ Answered(r)
    \/ \E t \in pool : Mine(t) \/ Forget(t)
    \/ Restart

\* A node answers what it is asked, and the validators seal blocks.
Fairness ==
    /\ \A r \in Requests :
            WF_vars(NonceAnswered(r) \/ Broadcast(r) \/ Answered(r))
    /\ WF_vars(\E t \in pool : Mine(t))

Spec == Init /\ [][Next]_vars

FairSpec == Spec /\ Fairness

-----------------------------------------------------------------------------

Status(r) == IF request[r] = NoRequest THEN 0 ELSE request[r].status

\* Success means done: the write answered with 200 is on the ledger for good,
\* signed with the key of the one who asked for it, under the very
\* transaction that was answered.
SuccessIsOnLedger ==
    \A r \in Requests : Status(r) = 200 => SignedTx(r) \in effective

\* A refusal means not done: what was answered with a 4xx has had no effect
\* and never will, so the client may correct it and ask again.
RefusedHasNoEffect ==
    \A r \in Requests :
        Status(r) \in {400, 403} => \A t \in pool \cup effective : t.of # r

\* An answer can be relied on: success means done, a refusal means not done.
AnswersTrue == SuccessIsOnLedger /\ RefusedHasNoEffect

\* The API never sends twice what was asked once: a report or a spend
\* request the client did not repeat is not on the ledger twice.
OneTransactionPerRequest ==
    \A s, t \in Sent : s.of = t.of => s = t

\* Each line of the audit log is a write that did happen, done by the role
\* the line names, and no write has two.
AuditTellsTheTruth ==
    /\ \A i \in 1 .. Len(auditLog) : \E t \in effective :
            /\ t.op = auditLog[i].op
            /\ t.nonce = auditLog[i].nonce
            /\ t.key = SignerOf(auditLog[i].role, auditLog[i].op)
    /\ \A i, j \in 1 .. Len(auditLog) : auditLog[i] = auditLog[j] => i = j

\* No write of an account waits behind a nonce nobody has used, unless the
\* node has forgotten the one that did: a gap would hold back every later
\* write of that organisation.
NoNonceGap == ~forgot => \A t \in pool : NoGapBelow(t.key, t.nonce)

\* Why these hold.  A transaction is the one its request signed, and is sent
\* after the request has got its nonce.
SentBySigners ==
    \A t \in Sent : /\ request[t.of] # NoRequest
                    /\ request[t.of].stage \in {"receipt", "over"}
                    /\ t = SignedTx(t.of)

\* The nonces of an account are used in order, once.
NoncesUsedOnce ==
    /\ \A t \in pool : t.nonce >= nextNonce[t.key]
    /\ \A t \in effective \cup reverted : t.nonce < nextNonce[t.key]
    /\ \A s, t \in pool : s.key = t.key /\ s.nonce = t.nonce => s = t
    /\ \A s, t \in effective : s.key = t.key /\ s.nonce = t.nonce => s = t
    /\ effective \cap reverted = {}

\* A handler that is under way has a key to sign with and no answer yet.
UnderWayUnanswered ==
    \A r \in Requests : InFlight(r) =>
        /\ request[r].status = 0
        /\ HasSigner(request[r].role, request[r].op)

\* A line of the log is that of a request answered with success.
LoggedIsAnswered ==
    /\ \A i \in 1 .. Len(auditLog) : \E r \in Requests :
            Status(r) = 200 /\ auditLog[i] = AuditLine(r)
    /\ \A i, j \in 1 .. Len(auditLog) : auditLog[i] = auditLog[j] => i = j

WritesInv ==
    /\ TypeOK
    /\ SentBySigners
    /\ NoncesUsedOnce
    /\ UnderWayUnanswered
    /\ SuccessIsOnLedger
    /\ RefusedHasNoEffect
    /\ LoggedIsAnswered

\* A handler about to send has no gap below its nonce either.
NoGapToCome ==
    ~forgot => \A r \in Requests :
        At(r, "gas") => NoGapBelow(KeyOf(r), request[r].nonce)

\* What was sent stays with the node until its nonce is used.
SentIsHeld ==
    ~forgot => \A r \in Requests :
        At(r, "receipt") => \/ nextNonce[KeyOf(r)] > request[r].nonce
                            \/ Pooled(KeyOf(r), request[r].nonce)

\* The sealed blocks bring every write that waits for a receipt nearer to its
\* answer: the answer can be given, or the next transaction of the account is
\* in the pool and is this write or one it has to wait for.
WaitersAreServed ==
    ~forgot => \A r \in Requests :
        At(r, "receipt") =>
            \/ nextNonce[KeyOf(r)] > request[r].nonce
            \/ \E t \in pool : /\ t.key = KeyOf(r)
                               /\ t.nonce = nextNonce[t.key]
                               /\ t.nonce <= request[r].nonce

\* A write that is under way, or that is in a transaction, may be performed
\* by the one who asked for it, and has a key to sign it.
OnlyPermitted ==
    \A r \in Requests :
        InFlight(r) \/ (\E t \in Sent : t.of = r) =>
            /\ MayPerform(request[r].role, request[r].op)
            /\ HasSigner(request[r].role, request[r].op)

\* What a client has been told of a write.
Told(r) ==
    IF request[r] = NoRequest THEN "nothing"
    ELSE IF InFlight(r) THEN "open"
    ELSE CASE Status(r) = 200 -> "done"
           [] Status(r) \in {400, 403} -> "refused"
           [] OTHER -> "unsure"

PermittedWrites ==
    {w \in Roles \X AllOps : MayPerform(w[1], w[2]) /\ HasSigner(w[1], w[2])}

\* The mapping forgets the nonces, the pool, what was reverted and the log.
AskedFor ==
    [r \in Requests |-> IF request[r] = NoRequest THEN <<>>
                        ELSE <<request[r].role, request[r].op>>]

WasTold == [r \in Requests |-> Told(r)]

DoneWrites ==
    {[of |-> t.of, signer |-> t.key, op |-> t.op] : t \in effective}

Promised == INSTANCE WriteOnce WITH
    Writes <- Roles \X AllOps,
    Permitted <- PermittedWrites,
    Signer <- [w \in PermittedWrites |-> SignerOf(w[1], w[2])],
    asked <- AskedFor,
    told <- WasTold,
    done <- DoneWrites

\* For all that can go wrong between the API, its nodes and the blocks, the
\* clients see writes performed at most once, by who may, as answered.
ImplementsWrites == Promised!Spec

\* Every write request gets its answer, unless the API stops, or the node has
\* forgotten a transaction, which is waited for without a time limit.
EveryWriteAnswered ==
    \A r \in Requests : InFlight(r) ~> ~InFlight(r) \/ forgot

\* The audit log as it is described: a line for every write the API has
\* performed, once its request is over.
AuditComplete ==
    \A t \in effective :
        ~InFlight(t.of) => \E i \in 1 .. Len(auditLog) :
            auditLog[i].nonce = t.nonce /\ auditLog[i].op = t.op

=============================================================================
