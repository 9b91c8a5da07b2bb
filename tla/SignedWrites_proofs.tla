------------------------- MODULE SignedWrites_proofs -------------------------
(***************************************************************************)
(* What the API answers about a write is true: for every number of         *)
(* requests, whatever writes they ask for, whichever account registers     *)
(* organisations and whatever the node forgets.                            *)
(***************************************************************************)
EXTENDS SignedWrites, FiniteSetTheorems, TLAPS

LEMMA NoncesAreNat == Nonces \subseteq Nat
BY WritesAssumption, FS_CardinalityType DEF Nonces

LEMMA InFlightRequest ==
  ASSUME TypeOK, NEW r \in Requests, InFlight(r)
  PROVE  request[r] \in Request
BY DEF TypeOK, InFlight

(***************************************************************************)
(* What a handler does to the request's own record and to the log.         *)
(***************************************************************************)
\* All other requests stay as they are, and r goes on with what it asked for.
Continues(r) ==
  /\ request' \in [Requests -> Request \cup {NoRequest}]
  /\ \A q \in Requests \ {r} : request'[q] = request[q]
  /\ request'[r] \in Request
  /\ request'[r].role = request[r].role
  /\ request'[r].op = request[r].op

Ends(r, status) ==
  /\ Continues(r)
  /\ request'[r].nonce = request[r].nonce
  /\ request'[r].stage = "over"
  /\ request'[r].status = status

LEMMA AnswerEnds ==
  ASSUME TypeOK, NEW r \in Requests, InFlight(r), NEW status \in Statuses,
         Answer(r, status)
  PROVE  Ends(r, status)
<1>1. request[r] \in Request
  BY InFlightRequest
<1>2. QED
  BY <1>1, NothingAssumption
     DEF Answer, Ends, Continues, TypeOK, Request, Stages

LEMMA AuditWriteType ==
  ASSUME TypeOK, NEW r \in Requests, InFlight(r), NEW status \in Statuses,
         AuditWrite(r, status)
  PROVE  auditLog' \in Seq(AuditEntry)
<1>1. AuditLine(r) \in AuditEntry
  BY InFlightRequest DEF AuditLine, AuditEntry, Request
<1>2. QED
  BY <1>1 DEF AuditWrite, TypeOK

LEMMA SignedTxType ==
  ASSUME TypeOK, UnderWayUnanswered, NEW r \in Requests, InFlight(r)
  PROVE  SignedTx(r) \in Transaction
<1>1. request[r] \in Request
  BY InFlightRequest
<1>2. KeyOf(r) \in Keys
  BY <1>1 DEF UnderWayUnanswered, HasSigner, KeyOf, SignerOf, Keys, Request
<1>3. QED
  BY <1>1, <1>2 DEF SignedTx, Transaction, Request

LEMMA ContinuesKeepsKey ==
  ASSUME NEW r \in Requests, Continues(r), NEW q \in Requests
  PROVE  KeyOf(q)' = KeyOf(q)
BY DEF Continues, KeyOf, SignerOf

LEMMA EndsKeepsTx ==
  ASSUME NEW r \in Requests, NEW status, Ends(r, status), NEW q \in Requests
  PROVE  SignedTx(q)' = SignedTx(q) /\ AuditLine(q)' = AuditLine(q)
BY ContinuesKeepsKey DEF Ends, Continues, SignedTx, AuditLine

LEMMA PoolTakesOne ==
  ASSUME TypeOK, NEW t \in Transaction, PoolTakes(t)
  PROVE  /\ pool' \in SUBSET Transaction
         /\ t \in pool'
         /\ t.nonce >= nextNonce[t.key]
         /\ \A s \in pool' : \/ s = t
                             \/ s \in pool /\ ~(s.key = t.key /\ s.nonce = t.nonce)
         /\ \A key, nonce : Pooled(key, nonce) => Pooled(key, nonce)'
BY DEF PoolTakes, TypeOK, Pooled

-----------------------------------------------------------------------------
(***************************************************************************)
(* Every variable keeps its type.  A transaction is well-formed because    *)
(* the handlers that send have a key, so the two go together.              *)
(***************************************************************************)
LEMMA InitType == Init => TypeOK /\ UnderWayUnanswered
<1> SUFFICES ASSUME Init PROVE TypeOK /\ UnderWayUnanswered
  OBVIOUS
<1>1. forgot \in BOOLEAN
  BY DEF Init
<1>2. /\ request \in [Requests -> Request \cup {NoRequest}]
      /\ nextNonce \in [Keys -> Nat]
      /\ auditLog \in Seq(AuditEntry)
  BY DEF Init
<1>3. pool = {} /\ effective = {} /\ reverted = {}
  BY DEF Init
<1>4. UnderWayUnanswered
  BY DEF Init, UnderWayUnanswered, InFlight
<1>5. QED
  BY <1>1, <1>2, <1>3, <1>4 DEF TypeOK

LEMMA ReceiveType ==
  ASSUME TypeOK, UnderWayUnanswered, NEW r \in Requests, NEW role \in Roles,
         NEW op \in Ops, Receive(r, role, op)
  PROVE  TypeOK' /\ UnderWayUnanswered'
<1>1. op \in AllOps
  BY WritesAssumption
<1>2. CASE \E status \in {400, 403, 500, 502} : AnswerFirst(r, role, op, status)
  BY <1>1, <1>2
     DEF Receive, AnswerFirst, TypeOK, Request, Stages, Statuses, ledger,
         UnderWayUnanswered, InFlight
<1>3. CASE /\ HasSigner(role, op)
           /\ request' = [request EXCEPT
                ![r] = [stage |-> "nonce", role |-> role, op |-> op,
                        nonce |-> 0, status |-> 0]]
           /\ UNCHANGED auditLog
  BY <1>1, <1>3
     DEF Receive, TypeOK, Request, Stages, Statuses, ledger,
         UnderWayUnanswered, InFlight
<1>4. QED
  BY <1>2, <1>3 DEF Receive

LEMMA AnswerType ==
  ASSUME TypeOK, UnderWayUnanswered, NEW r \in Requests, InFlight(r),
         NEW status \in Statuses, Answer(r, status), pool' \in SUBSET Transaction,
         UNCHANGED <<nextNonce, effective, reverted, forgot>>
  PROVE  TypeOK' /\ UnderWayUnanswered'
<1>1. Ends(r, status)
  BY AnswerEnds
<1>2. auditLog' \in Seq(AuditEntry)
  BY AuditWriteType DEF Answer
<1>3. TypeOK'
  BY <1>1, <1>2 DEF TypeOK, Ends, Continues
<1>4. UnderWayUnanswered'
  BY <1>1 DEF UnderWayUnanswered, Ends, Continues, InFlight
<1>5. QED
  BY <1>3, <1>4

LEMMA NextType ==
  TypeOK /\ UnderWayUnanswered /\ [Next]_vars => TypeOK' /\ UnderWayUnanswered'
<1> SUFFICES ASSUME TypeOK, UnderWayUnanswered, [Next]_vars
             PROVE  TypeOK' /\ UnderWayUnanswered'
  OBVIOUS
<1>1. ASSUME NEW r \in Requests, NEW role \in Roles, NEW op \in Ops,
             Receive(r, role, op)
      PROVE  TypeOK' /\ UnderWayUnanswered'
  BY <1>1, ReceiveType
<1>2. ASSUME NEW r \in Requests, NonceAnswered(r)
      PROVE  TypeOK' /\ UnderWayUnanswered'
  <2>1. InFlight(r) /\ request[r] \in Request
    BY <1>2, InFlightRequest DEF NonceAnswered, At, InFlight
  <2>2. PICK n \in Nonces :
            request' = [request EXCEPT ![r].stage = "gas", ![r].nonce = n]
    BY <1>2 DEF NonceAnswered
  <2>3. TypeOK'
    BY <1>2, <2>1, <2>2, NoncesAreNat
       DEF NonceAnswered, TypeOK, Request, Stages, ledger
  <2>4. UnderWayUnanswered'
    BY <2>1, <2>2, NothingAssumption
       DEF TypeOK, UnderWayUnanswered, InFlight, Request
  <2>5. QED
    BY <2>3, <2>4
<1>3. ASSUME NEW r \in Requests, Broadcast(r)
      PROVE  TypeOK' /\ UnderWayUnanswered'
  <2>1. InFlight(r) /\ request[r] \in Request
    BY <1>3, InFlightRequest DEF Broadcast, At, InFlight
  <2>2. pool' \in SUBSET Transaction
    BY <1>3, <2>1, SignedTxType, PoolTakesOne DEF Broadcast
  <2>3. TypeOK'
    BY <1>3, <2>1, <2>2 DEF Broadcast, TypeOK, Request, Stages
  <2>4. UnderWayUnanswered'
    BY <1>3, <2>1, NothingAssumption
       DEF Broadcast, TypeOK, UnderWayUnanswered, InFlight, Request
  <2>5. QED
    BY <2>3, <2>4
<1>4. ASSUME NEW r \in Requests, BroadcastReplyLost(r)
      PROVE  TypeOK' /\ UnderWayUnanswered'
  <2>1. InFlight(r)
    BY <1>4 DEF BroadcastReplyLost, At, InFlight
  <2>2. pool' \in SUBSET Transaction
    BY <1>4, <2>1, SignedTxType, PoolTakesOne DEF BroadcastReplyLost
  <2>3. QED
    BY <1>4, <2>1, <2>2, AnswerType
       DEF BroadcastReplyLost, ErrorStatus, Statuses
<1>5. ASSUME NEW r \in Requests, NodeFails(r) \/ Answered(r)
      PROVE  TypeOK' /\ UnderWayUnanswered'
  <2>1. InFlight(r)
    BY <1>5 DEF NodeFails, Answered, EstimateRefused, BroadcastRefused,
                Confirmed, RevertedOnChain, Replaced, At, InFlight
  <2>2. \E status \in Statuses : Answer(r, status) /\ UNCHANGED ledger
    BY <1>5 DEF NodeFails, Answered, EstimateRefused, BroadcastRefused,
                Confirmed, RevertedOnChain, Replaced, ErrorStatus, Statuses
  <2>3. QED
    BY <2>1, <2>2, AnswerType DEF ledger, TypeOK
<1>6. ASSUME NEW t \in pool, Mine(t)
      PROVE  TypeOK' /\ UnderWayUnanswered'
  BY <1>6 DEF Mine, TypeOK, Transaction, UnderWayUnanswered, InFlight
<1>7. ASSUME NEW t \in pool, Forget(t)
      PROVE  TypeOK' /\ UnderWayUnanswered'
  BY <1>7 DEF Forget, TypeOK, UnderWayUnanswered, InFlight
<1>8. CASE Restart
  <2>1. ASSUME NEW r \in Requests
        PROVE  request'[r] \in Request \cup {NoRequest} /\ ~InFlight(r)'
    <3>1. CASE InFlight(r)
      <4>1. request'[r] = [request[r] EXCEPT !.stage = "over"]
        BY <1>8, <3>1 DEF Restart
      <4>2. QED
        BY <3>1, <4>1, InFlightRequest DEF Request, Stages, InFlight
    <3>2. CASE ~InFlight(r)
      BY <1>8, <3>2 DEF Restart, TypeOK, InFlight
    <3>3. QED
      BY <3>1, <3>2
  <2>2. QED
    BY <1>8, <2>1 DEF Restart, TypeOK, UnderWayUnanswered, ledger
<1>9. CASE UNCHANGED vars
  BY <1>9 DEF vars, ledger, TypeOK, UnderWayUnanswered, InFlight
<1>10. QED
  BY <1>1, <1>2, <1>3, <1>4, <1>5, <1>6, <1>7, <1>8, <1>9 DEF Next

\* Every variable of the write path keeps its type.
THEOREM WritesTypeCorrect == Spec => []TypeOK
BY InitType, NextType, PTL DEF Spec

-----------------------------------------------------------------------------
(***************************************************************************)
(* A transaction is the one its request signed.                            *)
(***************************************************************************)
\* A handler that has sent nothing may do what it likes with its record.
LEMMA UnsentIsFree ==
  ASSUME TypeOK, SentBySigners, NEW r \in Requests, Sent' = Sent,
         request[r] = NoRequest \/ request[r].stage \in {"nonce", "gas"},
         \A q \in Requests \ {r} : request'[q] = request[q]
  PROVE  SentBySigners'
<1> SUFFICES ASSUME NEW t \in Sent
             PROVE  /\ request'[t.of] # NoRequest
                    /\ request'[t.of].stage \in {"receipt", "over"}
                    /\ t = SignedTx(t.of)'
  BY DEF SentBySigners
<1>1. t.of \in Requests \ {r}
  BY DEF TypeOK, Sent, Transaction, SentBySigners
<1>2. QED
  BY <1>1 DEF SentBySigners, SignedTx, KeyOf, SignerOf

LEMMA SendingIsSigned ==
  ASSUME TypeOK, UnderWayUnanswered, SentBySigners, NEW r \in Requests,
         At(r, "gas"), PoolTakes(SignedTx(r)), Continues(r),
         request'[r].nonce = request[r].nonce,
         request'[r].stage \in {"receipt", "over"},
         UNCHANGED <<effective, reverted>>
  PROVE  SentBySigners'
<1>1. SignedTx(r) \in Transaction
  BY SignedTxType DEF At, InFlight
<1>2. \A q \in Requests : SignedTx(q)' = SignedTx(q)
  BY ContinuesKeepsKey DEF Continues, SignedTx
<1>3. request'[r] # NoRequest
  BY NothingAssumption DEF Continues
<1> SUFFICES ASSUME NEW t \in Sent'
             PROVE  /\ request'[t.of] # NoRequest
                    /\ request'[t.of].stage \in {"receipt", "over"}
                    /\ t = SignedTx(t.of)'
  BY DEF SentBySigners
<1>4. CASE t = SignedTx(r)
  <2>1. t.of = r
    BY <1>4 DEF SignedTx
  <2>2. QED
    BY <1>2, <1>3, <1>4, <2>1
<1>5. CASE t # SignedTx(r)
  <2>1. t \in Sent
    BY <1>1, <1>5, PoolTakesOne DEF Sent
  <2>2. t.of \in Requests \ {r}
    BY <2>1 DEF TypeOK, Sent, Transaction, SentBySigners, At
  <2>3. QED
    BY <1>2, <2>1, <2>2 DEF SentBySigners, Continues
<1>6. QED
  BY <1>4, <1>5

LEMMA EndingIsSigned ==
  ASSUME TypeOK, SentBySigners, NEW r \in Requests, NEW status,
         Ends(r, status), Sent' = Sent
  PROVE  SentBySigners'
<1> SUFFICES ASSUME NEW t \in Sent
             PROVE  /\ request'[t.of] # NoRequest
                    /\ request'[t.of].stage \in {"receipt", "over"}
                    /\ t = SignedTx(t.of)'
  BY DEF SentBySigners
<1>1. t.of \in Requests
  BY DEF TypeOK, Sent, Transaction
<1>2. t = SignedTx(t.of)'
  BY <1>1, EndsKeepsTx DEF SentBySigners
<1>3. QED
  BY <1>1, <1>2, NothingAssumption DEF SentBySigners, Ends, Continues

-----------------------------------------------------------------------------
(***************************************************************************)
(* The nonces of an account are used in order and once.                    *)
(***************************************************************************)
LEMMA SendingUsesNonce ==
  ASSUME TypeOK, NoncesUsedOnce, NEW t \in Transaction, PoolTakes(t),
         UNCHANGED <<nextNonce, effective, reverted, forgot>>
  PROVE  NoncesUsedOnce'
BY PoolTakesOne DEF NoncesUsedOnce

LEMMA MiningUsesNonce ==
  ASSUME TypeOK, NoncesUsedOnce, NEW t \in pool, Mine(t)
  PROVE  NoncesUsedOnce'
<1>1. t \in Transaction /\ t.key \in Keys /\ t.nonce \in Nat
  BY DEF TypeOK, Transaction
<1>2. /\ nextNonce'[t.key] = nextNonce[t.key] + 1
      /\ \A k \in Keys \ {t.key} : nextNonce'[k] = nextNonce[k]
      /\ \A k \in Keys : nextNonce[k] \in Nat
  BY <1>1 DEF Mine, TypeOK
<1>3. /\ pool' = pool \ {t}
      /\ t.nonce = nextNonce[t.key]
      /\ \/ reverted' = reverted \cup {t} /\ effective' = effective
         \/ effective' = effective \cup {t} /\ reverted' = reverted
  BY DEF Mine
<1>4. \A s \in Sent : s.key \in Keys /\ s.nonce \in Nat
  BY DEF TypeOK, Sent, Transaction
<1>5. \A s \in pool' : s.nonce >= nextNonce'[s.key]
  <2> SUFFICES ASSUME NEW s \in pool' PROVE s.nonce >= nextNonce'[s.key]
    OBVIOUS
  <2>1. s \in pool /\ s # t /\ s.key \in Keys /\ s.nonce \in Nat
    BY <1>3, <1>4 DEF Sent
  <2>2. s.nonce >= nextNonce[s.key] /\ (s.key = t.key => s.nonce # t.nonce)
    BY <2>1 DEF NoncesUsedOnce
  <2>3. QED
    BY <1>2, <1>3, <2>1, <2>2
<1>6. \A s \in effective' \cup reverted' : s.nonce < nextNonce'[s.key]
  <2> SUFFICES ASSUME NEW s \in effective' \cup reverted'
               PROVE  s.nonce < nextNonce'[s.key]
    OBVIOUS
  <2>1. CASE s = t
    BY <1>1, <1>2, <1>3, <2>1
  <2>2. CASE s # t
    <3>1. s \in effective \cup reverted
      BY <1>3, <2>2
    <3>2. s.nonce < nextNonce[s.key] /\ s.key \in Keys /\ s.nonce \in Nat
      BY <1>4, <3>1 DEF NoncesUsedOnce, Sent
    <3>3. QED
      BY <1>2, <3>2
  <2>3. QED
    BY <2>1, <2>2
<1>7. t \notin effective \cup reverted
  BY <1>1, <1>2, <1>3 DEF NoncesUsedOnce
<1>8. \A s \in effective : ~(s.key = t.key /\ s.nonce = t.nonce)
  BY <1>1, <1>2, <1>3, <1>4 DEF NoncesUsedOnce, Sent
<1>9. QED
  BY <1>3, <1>5, <1>6, <1>7, <1>8 DEF NoncesUsedOnce

-----------------------------------------------------------------------------
(***************************************************************************)
(* Answers stay true, and lines of the log those of answers.               *)
(***************************************************************************)
\* Nothing is said of r, and what was said of the others still holds.
LEMMA UnansweredStep ==
  ASSUME TypeOK, SuccessIsOnLedger, RefusedHasNoEffect, LoggedIsAnswered,
         NEW r \in Requests, Status(r) = 0, Status(r)' = 0,
         \A q \in Requests \ {r} : request'[q] = request[q],
         \A t \in pool' : t \in pool \/ t.of = r,
         effective' = effective, UNCHANGED auditLog
  PROVE  SuccessIsOnLedger' /\ RefusedHasNoEffect' /\ LoggedIsAnswered'
<1>1. \A q \in Requests \ {r} : /\ Status(q)' = Status(q)
                               /\ SignedTx(q)' = SignedTx(q)
                               /\ AuditLine(q)' = AuditLine(q)
  BY DEF Status, SignedTx, AuditLine, KeyOf, SignerOf
<1>2. SuccessIsOnLedger'
  BY <1>1 DEF SuccessIsOnLedger
<1>3. RefusedHasNoEffect'
  BY <1>1 DEF RefusedHasNoEffect
<1>4. \A i \in 1 .. Len(auditLog) : \E q \in Requests :
            Status(q)' = 200 /\ auditLog[i] = AuditLine(q)'
  BY <1>1 DEF LoggedIsAnswered
<1>5. LoggedIsAnswered'
  BY <1>4 DEF LoggedIsAnswered
<1>6. QED
  BY <1>2, <1>3, <1>5

\* The line of a fresh success differs from all others: it names a
\* transaction of its own.
LEMMA FreshLine ==
  ASSUME WritesInv, NEW r \in Requests, InFlight(r), SignedTx(r) \in effective
  PROVE  \A i \in 1 .. Len(auditLog) : auditLog[i] # AuditLine(r)
<1> SUFFICES ASSUME NEW i \in 1 .. Len(auditLog), auditLog[i] = AuditLine(r)
             PROVE  FALSE
  OBVIOUS
<1>1. PICK q \in Requests : Status(q) = 200 /\ auditLog[i] = AuditLine(q)
  BY DEF WritesInv, LoggedIsAnswered
<1>2. q # r
  BY <1>1 DEF WritesInv, UnderWayUnanswered, Status, InFlight
<1>3. SignedTx(q) \in effective
  BY <1>1 DEF WritesInv, SuccessIsOnLedger
<1>4. SignedTx(q).key = SignedTx(r).key /\ SignedTx(q).nonce = SignedTx(r).nonce
  BY <1>1 DEF AuditLine, SignedTx, KeyOf
<1>5. SignedTx(q) = SignedTx(r)
  BY <1>3, <1>4 DEF WritesInv, NoncesUsedOnce
<1>6. QED
  BY <1>2, <1>5 DEF SignedTx

LEMMA AnswerStep ==
  ASSUME WritesInv, NEW r \in Requests, InFlight(r), NEW status \in Statuses,
         Answer(r, status), effective' = effective,
         status = 200 => SignedTx(r) \in effective,
         \A t \in pool' : t \in pool \/ t.of = r,
         status \in {400, 403} => \A t \in pool' \cup effective : t.of # r,
         status < 400 => status = 200
  PROVE  SuccessIsOnLedger' /\ RefusedHasNoEffect' /\ LoggedIsAnswered'
<1> USE DEF WritesInv
<1>1. Ends(r, status)
  BY AnswerEnds
<1>2. \A q \in Requests : /\ SignedTx(q)' = SignedTx(q)
                          /\ AuditLine(q)' = AuditLine(q)
  BY <1>1, EndsKeepsTx
<1>3. /\ Status(r) = 0
      /\ Status(r)' = status
      /\ \A q \in Requests \ {r} : Status(q)' = Status(q)
  BY <1>1, NothingAssumption
     DEF UnderWayUnanswered, Status, InFlight, Ends, Continues
<1>4. SuccessIsOnLedger'
  BY <1>2, <1>3 DEF SuccessIsOnLedger
<1>5. RefusedHasNoEffect'
  BY <1>3 DEF RefusedHasNoEffect
<1>6. \A i \in 1 .. Len(auditLog) : \E q \in Requests :
            Status(q)' = 200 /\ auditLog[i] = AuditLine(q)'
  BY <1>2, <1>3 DEF LoggedIsAnswered
<1>7. LoggedIsAnswered'
  <2>1. CASE status < 400 /\ auditLog' = Append(auditLog, AuditLine(r))
    <3>1. /\ Len(auditLog') = Len(auditLog) + 1
          /\ Len(auditLog) \in Nat
          /\ \A i \in 1 .. Len(auditLog) : auditLog'[i] = auditLog[i]
          /\ auditLog'[Len(auditLog) + 1] = AuditLine(r)
      <4>1. AuditLine(r) \in AuditEntry
        BY InFlightRequest DEF AuditLine, AuditEntry, Request
      <4>2. QED
        BY <2>1, <4>1 DEF TypeOK
    <3>2. \A i \in 1 .. Len(auditLog') :
            i \in 1 .. Len(auditLog) \/ i = Len(auditLog) + 1
      BY <3>1
    <3>3. \A i \in 1 .. Len(auditLog') : \E q \in Requests :
            Status(q)' = 200 /\ auditLog'[i] = AuditLine(q)'
      BY <1>2, <1>3, <1>6, <2>1, <3>1, <3>2
    <3>4. \A i \in 1 .. Len(auditLog) : auditLog[i] # AuditLine(r)
      BY <2>1, FreshLine
    <3>5. \A i, j \in 1 .. Len(auditLog') :
            auditLog'[i] = auditLog'[j] => i = j
      BY <3>1, <3>2, <3>4 DEF LoggedIsAnswered
    <3>6. QED
      BY <3>3, <3>5 DEF LoggedIsAnswered
  <2>2. CASE UNCHANGED auditLog
    BY <1>6, <2>2 DEF LoggedIsAnswered
  <2>3. QED
    BY <2>1, <2>2 DEF Answer, AuditWrite
<1>8. QED
  BY <1>4, <1>5, <1>7

-----------------------------------------------------------------------------
LEMMA InitInv == Init => WritesInv
<1> SUFFICES ASSUME Init PROVE WritesInv
  OBVIOUS
<1>1. TypeOK /\ UnderWayUnanswered
  BY InitType
<1>2. SentBySigners /\ NoncesUsedOnce
  BY DEF Init, SentBySigners, NoncesUsedOnce, Sent
<1>3. \A r \in Requests : Status(r) = 0
  BY DEF Init, Status
<1>4. SuccessIsOnLedger /\ RefusedHasNoEffect /\ LoggedIsAnswered
  BY <1>3 DEF Init, SuccessIsOnLedger, RefusedHasNoEffect, LoggedIsAnswered
<1>5. QED
  BY <1>1, <1>2, <1>4 DEF WritesInv

\* What is left to show of a step when the types are known to be kept.
StepInv ==
  /\ SentBySigners
  /\ NoncesUsedOnce
  /\ SuccessIsOnLedger
  /\ RefusedHasNoEffect
  /\ LoggedIsAnswered

LEMMA ReceiveInv ==
  ASSUME WritesInv, NEW r \in Requests, NEW role \in Roles, NEW op \in Ops,
         Receive(r, role, op)
  PROVE  StepInv'
<1> USE DEF WritesInv
<1>1. /\ request[r] = NoRequest
      /\ UNCHANGED <<ledger, auditLog>>
      /\ \A q \in Requests \ {r} : request'[q] = request[q]
  BY DEF Receive, AnswerFirst, TypeOK
<1>2. /\ Status(r) = 0
      /\ Status(r)' \in {0, 400, 403, 500, 502}
  BY <1>1, NothingAssumption
     DEF Receive, AnswerFirst, Status, TypeOK
<1>3. SentBySigners'
  BY <1>1, UnsentIsFree DEF Sent, ledger
<1>4. NoncesUsedOnce'
  BY <1>1 DEF NoncesUsedOnce, ledger
<1>5. \A t \in pool \cup effective : t.of # r
  BY <1>1 DEF SentBySigners, Sent
<1>6. \A q \in Requests \ {r} : /\ Status(q)' = Status(q)
                               /\ SignedTx(q)' = SignedTx(q)
                               /\ AuditLine(q)' = AuditLine(q)
  BY <1>1 DEF Status, SignedTx, AuditLine, KeyOf, SignerOf
<1>7. SuccessIsOnLedger'
  BY <1>1, <1>2, <1>6 DEF SuccessIsOnLedger, ledger
<1>8. RefusedHasNoEffect'
  BY <1>1, <1>5, <1>6 DEF RefusedHasNoEffect, ledger
<1>9. \A i \in 1 .. Len(auditLog) : \E q \in Requests :
            Status(q)' = 200 /\ auditLog[i] = AuditLine(q)'
  BY <1>2, <1>6 DEF LoggedIsAnswered
<1>10. LoggedIsAnswered'
  BY <1>1, <1>9 DEF LoggedIsAnswered
<1>11. QED
  BY <1>3, <1>4, <1>7, <1>8, <1>10 DEF StepInv

LEMMA NonceAnsweredInv ==
  ASSUME WritesInv, NEW r \in Requests, NonceAnswered(r)
  PROVE  StepInv'
<1> USE DEF WritesInv
<1>1. /\ At(r, "nonce")
      /\ InFlight(r)
      /\ request[r] \in Request
      /\ UNCHANGED <<ledger, auditLog>>
      /\ \A q \in Requests \ {r} : request'[q] = request[q]
      /\ request'[r].status = request[r].status
  BY InFlightRequest DEF NonceAnswered, At, InFlight, TypeOK, Request
<1>2. Status(r) = 0 /\ Status(r)' = 0
  BY <1>1 DEF Status, UnderWayUnanswered
<1>3. SentBySigners'
  BY <1>1, UnsentIsFree DEF Sent, ledger, At
<1>4. NoncesUsedOnce'
  BY <1>1 DEF NoncesUsedOnce, ledger
<1>5. SuccessIsOnLedger' /\ RefusedHasNoEffect' /\ LoggedIsAnswered'
  BY <1>1, <1>2, UnansweredStep DEF ledger
<1>6. QED
  BY <1>3, <1>4, <1>5 DEF StepInv

LEMMA BroadcastInv ==
  ASSUME WritesInv, NEW r \in Requests, Broadcast(r)
  PROVE  StepInv'
<1> USE DEF WritesInv
<1>1. /\ At(r, "gas")
      /\ InFlight(r)
      /\ request[r] \in Request
      /\ PoolTakes(SignedTx(r))
      /\ UNCHANGED <<nextNonce, effective, reverted, forgot, auditLog>>
  BY InFlightRequest DEF Broadcast, At, InFlight
<1>2. /\ Continues(r)
      /\ request'[r].stage = "receipt"
      /\ request'[r].nonce = request[r].nonce
      /\ request'[r].status = request[r].status
  BY <1>1 DEF Broadcast, Continues, TypeOK, Request, Stages
<1>3. SignedTx(r) \in Transaction
  BY <1>1, SignedTxType
<1>4. Status(r) = 0 /\ Status(r)' = 0
  BY <1>1, <1>2 DEF Status, UnderWayUnanswered
<1>5. \A t \in pool' : t \in pool \/ t.of = r
  BY <1>1, <1>3, PoolTakesOne DEF SignedTx
<1>6. SentBySigners'
  BY <1>1, <1>2, SendingIsSigned
<1>7. NoncesUsedOnce'
  BY <1>1, <1>3, SendingUsesNonce
<1>8. SuccessIsOnLedger' /\ RefusedHasNoEffect' /\ LoggedIsAnswered'
  BY <1>1, <1>2, <1>4, <1>5, UnansweredStep DEF Continues
<1>9. QED
  BY <1>6, <1>7, <1>8 DEF StepInv

LEMMA BroadcastReplyLostInv ==
  ASSUME WritesInv, NEW r \in Requests, BroadcastReplyLost(r)
  PROVE  StepInv'
<1> USE DEF WritesInv
<1>1. /\ At(r, "gas")
      /\ InFlight(r)
      /\ PoolTakes(SignedTx(r))
      /\ Answer(r, 502)
      /\ UNCHANGED <<nextNonce, effective, reverted, forgot>>
  BY DEF BroadcastReplyLost, At, InFlight, ErrorStatus
<1>2. Ends(r, 502)
  BY <1>1, AnswerEnds DEF Statuses
<1>3. SignedTx(r) \in Transaction
  BY <1>1, SignedTxType
<1>4. \A t \in pool' : t \in pool \/ t.of = r
  BY <1>1, <1>3, PoolTakesOne DEF SignedTx
<1>5. SentBySigners'
  BY <1>1, <1>2, SendingIsSigned DEF Ends
<1>6. NoncesUsedOnce'
  BY <1>1, <1>3, SendingUsesNonce
<1>7. SuccessIsOnLedger' /\ RefusedHasNoEffect' /\ LoggedIsAnswered'
  <2>1. 502 \in Statuses /\ 502 \notin {400, 403} /\ ~(502 < 400)
    BY DEF Statuses
  <2>2. QED
    BY <1>1, <1>4, <2>1, AnswerStep
<1>8. QED
  BY <1>5, <1>6, <1>7 DEF StepInv

\* A handler that ends without sending: its answer is true of the ledger.
LEMMA EndingInv ==
  ASSUME WritesInv, NEW r \in Requests, NodeFails(r) \/ Answered(r)
  PROVE  StepInv'
<1> USE DEF WritesInv
<1>1. InFlight(r) /\ UNCHANGED ledger
  BY DEF NodeFails, Answered, EstimateRefused, BroadcastRefused, Confirmed,
         RevertedOnChain, Replaced, At, InFlight
<1>2. \A t \in Sent : t.of \in Requests /\ t = SignedTx(t.of)
  BY DEF SentBySigners, TypeOK, Sent, Transaction
<1>3. PICK status \in {200, 400, 502} :
            /\ Answer(r, status)
            /\ status = 200 => SignedTx(r) \in effective
            /\ status = 400 => \A t \in pool \cup effective : t.of # r
  <2>1. CASE NodeFails(r) \/ BroadcastRefused(r)
    BY <2>1 DEF NodeFails, BroadcastRefused, ErrorStatus
  <2>2. CASE Confirmed(r)
    BY <2>2 DEF Confirmed
  <2>3. CASE EstimateRefused(r)
    <3>1. \A t \in pool \cup effective : t.of # r
      BY <2>3 DEF EstimateRefused, At, SentBySigners, Sent
    <3>2. QED
      BY <2>3, <3>1 DEF EstimateRefused, ErrorStatus
  <2>4. CASE RevertedOnChain(r)
    <3>1. SignedTx(r) \notin effective \cup pool
      BY <2>4 DEF RevertedOnChain, NoncesUsedOnce, TypeOK, Transaction
    <3>2. \A t \in pool \cup effective : t.of # r
      BY <1>2, <3>1 DEF Sent
    <3>3. QED
      BY <2>4, <3>2 DEF RevertedOnChain, ErrorStatus
  <2>5. CASE Replaced(r)
    <3>1. SignedTx(r) \in Transaction
      BY <1>1, SignedTxType
    <3>2. SignedTx(r) \notin pool
      BY <2>5, <3>1 DEF Replaced, NoncesUsedOnce, SignedTx, TypeOK, Transaction
    <3>3. \A t \in pool \cup effective : t.of # r
      BY <1>2, <2>5, <3>2 DEF Replaced, Sent
    <3>4. QED
      BY <2>5, <3>3 DEF Replaced, ErrorStatus
  <2>6. QED
    BY <2>1, <2>2, <2>3, <2>4, <2>5 DEF Answered
<1>4. status \in Statuses
  BY DEF Statuses
<1>5. Ends(r, status)
  BY <1>1, <1>3, <1>4, AnswerEnds
<1>6. SentBySigners'
  BY <1>1, <1>5, EndingIsSigned DEF Sent, ledger
<1>7. NoncesUsedOnce'
  BY <1>1 DEF NoncesUsedOnce, ledger
<1>8. SuccessIsOnLedger' /\ RefusedHasNoEffect' /\ LoggedIsAnswered'
  <2>1. /\ effective' = effective
        /\ \A t \in pool' : t \in pool \/ t.of = r
        /\ status \in {400, 403} => \A t \in pool' \cup effective : t.of # r
        /\ status < 400 => status = 200
    BY <1>1, <1>3 DEF ledger
  <2>2. QED
    BY <1>1, <1>3, <1>4, <2>1, AnswerStep
<1>9. QED
  BY <1>6, <1>7, <1>8 DEF StepInv

\* The node acts on its own: no request is touched.
LEMMA LedgerStep ==
  ASSUME WritesInv, UNCHANGED <<request, auditLog>>, Sent' \subseteq Sent,
         effective \subseteq effective',
         pool' \cup effective' \subseteq pool \cup effective
  PROVE  /\ SentBySigners' /\ SuccessIsOnLedger' /\ RefusedHasNoEffect'
         /\ LoggedIsAnswered'
<1> USE DEF WritesInv
<1>1. \A q : /\ Status(q)' = Status(q)
             /\ SignedTx(q)' = SignedTx(q)
             /\ AuditLine(q)' = AuditLine(q)
  BY DEF Status, SignedTx, AuditLine, KeyOf, SignerOf
<1>2. SentBySigners'
  BY <1>1 DEF SentBySigners
<1>3. SuccessIsOnLedger' /\ RefusedHasNoEffect'
  BY <1>1 DEF SuccessIsOnLedger, RefusedHasNoEffect
<1>4. LoggedIsAnswered'
  BY <1>1 DEF LoggedIsAnswered
<1>5. QED
  BY <1>2, <1>3, <1>4

LEMMA RestartInv ==
  ASSUME WritesInv, Restart
  PROVE  StepInv'
<1> USE DEF WritesInv
<1>1. ASSUME NEW r \in Requests
      PROVE  /\ request'[r] = NoRequest <=> request[r] = NoRequest
             /\ request[r] # NoRequest => request'[r].stage \in {request[r].stage, "over"}
             /\ Status(r)' = Status(r)
             /\ SignedTx(r)' = SignedTx(r)
             /\ AuditLine(r)' = AuditLine(r)
  <2>1. CASE InFlight(r)
    <3>1. request'[r] = [request[r] EXCEPT !.stage = "over"]
      BY <2>1 DEF Restart
    <3>2. request[r] \in Request /\ request'[r] \in Request
      BY <2>1, <3>1, InFlightRequest DEF Request, Stages
    <3>3. /\ request'[r].stage = "over"
          /\ request'[r].role = request[r].role
          /\ request'[r].op = request[r].op
          /\ request'[r].nonce = request[r].nonce
          /\ request'[r].status = request[r].status
      BY <3>1, <3>2 DEF Request
    <3>4. request[r] # NoRequest /\ request'[r] # NoRequest
      BY <3>2, NothingAssumption
    <3>5. QED
      BY <3>3, <3>4 DEF Status, SignedTx, AuditLine, KeyOf, SignerOf
  <2>2. CASE ~InFlight(r)
    BY <2>2 DEF Restart, Status, SignedTx, AuditLine, KeyOf, SignerOf
  <2>3. QED
    BY <2>1, <2>2
<1>2. UNCHANGED <<pool, nextNonce, effective, reverted, auditLog>>
  BY DEF Restart, ledger
<1>3. SentBySigners'
  <2> SUFFICES ASSUME NEW t \in Sent
               PROVE  /\ request'[t.of] # NoRequest
                      /\ request'[t.of].stage \in {"receipt", "over"}
                      /\ t = SignedTx(t.of)'
    BY <1>2 DEF SentBySigners, Sent
  <2>1. t.of \in Requests
    BY DEF TypeOK, Sent, Transaction
  <2>2. QED
    BY <1>1, <2>1 DEF SentBySigners
<1>4. NoncesUsedOnce'
  BY <1>2 DEF NoncesUsedOnce
<1>5. SuccessIsOnLedger' /\ RefusedHasNoEffect'
  BY <1>1, <1>2 DEF SuccessIsOnLedger, RefusedHasNoEffect
<1>6. \A i \in 1 .. Len(auditLog) : \E q \in Requests :
            Status(q)' = 200 /\ auditLog[i] = AuditLine(q)'
  BY <1>1 DEF LoggedIsAnswered
<1>7. LoggedIsAnswered'
  BY <1>2, <1>6 DEF LoggedIsAnswered
<1>8. QED
  BY <1>3, <1>4, <1>5, <1>7 DEF StepInv

LEMMA NextInv == WritesInv /\ [Next]_vars => WritesInv'
<1> SUFFICES ASSUME WritesInv, [Next]_vars PROVE WritesInv'
  OBVIOUS
<1>1. TypeOK' /\ UnderWayUnanswered'
  BY NextType DEF WritesInv
<1>2. StepInv'
  <2>1. ASSUME NEW t \in pool, Mine(t)
        PROVE  StepInv'
    <3>1. NoncesUsedOnce'
      BY <2>1, MiningUsesNonce DEF WritesInv
    <3>2. /\ UNCHANGED <<request, auditLog>>
          /\ Sent' \subseteq Sent
          /\ effective \subseteq effective'
          /\ pool' \cup effective' \subseteq pool \cup effective
      BY <2>1 DEF Mine, Sent
    <3>3. QED
      BY <3>1, <3>2, LedgerStep DEF StepInv
  <2>2. ASSUME NEW t \in pool, Forget(t)
        PROVE  StepInv'
    <3>1. NoncesUsedOnce'
      BY <2>2 DEF Forget, WritesInv, NoncesUsedOnce
    <3>2. /\ UNCHANGED <<request, auditLog>>
          /\ Sent' \subseteq Sent
          /\ effective \subseteq effective'
          /\ pool' \cup effective' \subseteq pool \cup effective
      BY <2>2 DEF Forget, Sent
    <3>3. QED
      BY <3>1, <3>2, LedgerStep DEF StepInv
  <2>3. CASE UNCHANGED vars
    <3>1. NoncesUsedOnce' /\ UNCHANGED <<request, auditLog>>
      BY <2>3 DEF vars, ledger, WritesInv, NoncesUsedOnce
    <3>2. /\ Sent' \subseteq Sent
          /\ effective \subseteq effective'
          /\ pool' \cup effective' \subseteq pool \cup effective
      BY <2>3 DEF vars, ledger, Sent
    <3>3. QED
      BY <3>1, <3>2, LedgerStep DEF StepInv
  <2>4. QED
    BY <2>1, <2>2, <2>3, ReceiveInv, NonceAnsweredInv, BroadcastInv,
       BroadcastReplyLostInv, EndingInv, RestartInv DEF Next
<1>3. QED
  BY <1>1, <1>2 DEF WritesInv, StepInv

THEOREM WritesInvariant == Spec => []WritesInv
BY InitInv, NextInv, PTL DEF Spec

\* Success means done, for good.
THEOREM SuccessStands == Spec => []SuccessIsOnLedger
BY WritesInvariant, PTL DEF WritesInv

\* A refusal means not done, ever.
THEOREM RefusalStands == Spec => []RefusedHasNoEffect
BY WritesInvariant, PTL DEF WritesInv

\* An answer can be relied on.
THEOREM AnswersAreTrue == Spec => []AnswersTrue
<1>1. WritesInv => AnswersTrue
  BY DEF WritesInv, AnswersTrue
<1>2. QED
  BY <1>1, WritesInvariant, PTL

LEMMA OneTransaction == WritesInv => OneTransactionPerRequest
BY DEF WritesInv, SentBySigners, OneTransactionPerRequest

\* What was asked once is sent once.
THEOREM SentOnce == Spec => []OneTransactionPerRequest
BY WritesInvariant, OneTransaction, PTL

LEMMA LinesAreTrue == WritesInv => AuditTellsTheTruth
<1> SUFFICES ASSUME WritesInv, NEW i \in 1 .. Len(auditLog)
             PROVE  \E t \in effective :
                        /\ t.op = auditLog[i].op
                        /\ t.nonce = auditLog[i].nonce
                        /\ t.key = SignerOf(auditLog[i].role, auditLog[i].op)
  BY DEF WritesInv, LoggedIsAnswered, AuditTellsTheTruth
<1>1. PICK r \in Requests : Status(r) = 200 /\ auditLog[i] = AuditLine(r)
  BY DEF WritesInv, LoggedIsAnswered
<1>2. SignedTx(r) \in effective
  BY <1>1 DEF WritesInv, SuccessIsOnLedger
<1>3. QED
  BY <1>1, <1>2 DEF SignedTx, AuditLine, KeyOf

\* Every line of the audit log is a write that happened, and none has two.
THEOREM LogIsTrue == Spec => []AuditTellsTheTruth
BY WritesInvariant, LinesAreTrue, PTL

-----------------------------------------------------------------------------
(***************************************************************************)
(* No gap in the nonces of an account until the node forgets what it has   *)
(* pooled: below what a handler is about to use, and so below what it      *)
(* sends, every nonce is used or pooled.                                   *)
(***************************************************************************)
GapInv == NoNonceGap /\ NoGapToCome

LEMMA InitGap == Init => GapInv
BY DEF Init, GapInv, NoNonceGap, NoGapToCome, At

\* What is asked of a step: the nonces still to come of an account stay
\* pooled, and no new ones are spoken of.
LEMMA GapKept ==
  ASSUME GapInv, ~forgot,
         \A t \in pool' \ pool : \E r \in Requests :
            At(r, "gas") /\ t = SignedTx(r),
         \A r \in Requests : At(r, "gas")' => request'[r] = request[r],
         \A key \in Keys, nonce \in Nat :
            NoGapBelow(key, nonce) => NoGapBelow(key, nonce)',
         TypeOK', TypeOK, UnderWayUnanswered
  PROVE  GapInv'
<1>1. NoNonceGap'
  <2> SUFFICES ASSUME NEW t \in pool' PROVE NoGapBelow(t.key, t.nonce)'
    BY DEF NoNonceGap
  <2>1. t.key \in Keys /\ t.nonce \in Nat
    BY DEF TypeOK, Transaction
  <2>2. NoGapBelow(t.key, t.nonce)
    BY DEF GapInv, NoNonceGap, NoGapToCome, SignedTx
  <2>3. QED
    BY <2>1, <2>2
<1>2. ASSUME NEW r \in Requests, At(r, "gas")'
      PROVE  NoGapBelow(KeyOf(r), request[r].nonce)'
  <2>1. request'[r] = request[r] /\ At(r, "gas") /\ InFlight(r)
    BY <1>2 DEF At, InFlight
  <2>2. KeyOf(r) \in Keys /\ request[r].nonce \in Nat
    BY <2>1, SignedTxType DEF SignedTx, Transaction
  <2>3. NoGapBelow(KeyOf(r), request[r].nonce)
    BY <2>1 DEF GapInv, NoGapToCome
  <2>4. QED
    BY <2>1, <2>2, <2>3 DEF NoGapBelow, KeyOf, Pooled
<1>3. QED
  BY <1>1, <1>2 DEF GapInv, NoGapToCome

\* Such is any step that takes nothing from the pool and mines nothing.
LEMMA PoolGrows ==
  ASSUME UNCHANGED nextNonce,
         \A key, nonce : Pooled(key, nonce) => Pooled(key, nonce)'
  PROVE  \A key \in Keys, nonce \in Nat :
            NoGapBelow(key, nonce) => NoGapBelow(key, nonce)'
BY DEF NoGapBelow

LEMMA ForgottenForGood == [Next]_vars => (forgot => forgot')
<1> SUFFICES ASSUME [Next]_vars PROVE forgot' = forgot \/ forgot' = TRUE
  OBVIOUS
<1>1. ASSUME NEW r \in Requests,
             \/ \E role \in Roles, op \in Ops : Receive(r, role, op)
             \/ NonceAnswered(r)
             \/ Broadcast(r)
             \/ BroadcastReplyLost(r)
      PROVE  forgot' = forgot
  BY <1>1 DEF Receive, NonceAnswered, Broadcast, BroadcastReplyLost, ledger
<1>2. ASSUME NEW r \in Requests, NodeFails(r) \/ Answered(r)
      PROVE  forgot' = forgot
  BY <1>2 DEF NodeFails, Answered, EstimateRefused, BroadcastRefused,
              Confirmed, RevertedOnChain, Replaced, ledger
<1>3. ASSUME NEW t \in pool, Mine(t)
      PROVE  forgot' = forgot
  BY <1>3 DEF Mine
<1>4. ASSUME NEW t \in pool, Forget(t)
      PROVE  forgot' = TRUE
  BY <1>4 DEF Forget
<1>5. CASE Restart \/ UNCHANGED vars
  BY <1>5 DEF Restart, vars, ledger
<1>6. QED
  BY <1>1, <1>2, <1>3, <1>4, <1>5 DEF Next

LEMMA NextGap == WritesInv /\ GapInv /\ [Next]_vars => GapInv'
<1> SUFFICES ASSUME WritesInv, GapInv, [Next]_vars PROVE GapInv'
  OBVIOUS
<1> SUFFICES ASSUME ~forgot' PROVE GapInv'
  BY DEF GapInv, NoNonceGap, NoGapToCome
<1>f. ~forgot
  BY ForgottenForGood
<1> USE DEF WritesInv
<1>t. TypeOK'
  BY NextType
<1>u. ASSUME UNCHANGED <<pool, nextNonce>>
      PROVE  \A key \in Keys, nonce \in Nat :
                NoGapBelow(key, nonce) => NoGapBelow(key, nonce)'
  BY <1>u DEF NoGapBelow, Pooled
<1>1. ASSUME NEW r \in Requests, NEW role \in Roles, NEW op \in Ops,
             Receive(r, role, op)
      PROVE  GapInv'
  <2>1. /\ UNCHANGED <<pool, nextNonce>>
        /\ \A q \in Requests : At(q, "gas")' => request'[q] = request[q]
    BY <1>1 DEF Receive, AnswerFirst, ledger, At, TypeOK
  <2>2. QED
    BY <1>t, <1>u, <2>1, <1>f, GapKept
<1>2. ASSUME NEW r \in Requests, NonceAnswered(r)
      PROVE  GapInv'
  <2>1. request[r] \in Request /\ UNCHANGED <<pool, nextNonce>>
    BY <1>2, InFlightRequest DEF NonceAnswered, At, InFlight, ledger
  <2>2. PICK n \in Nonces :
            /\ NonceIsPending(n, KeyOf(r))
            /\ request' = [request EXCEPT ![r].stage = "gas", ![r].nonce = n]
    BY <1>2 DEF NonceAnswered
  <2>3. NoNonceGap'
    BY <1>f, <2>1 DEF GapInv, NoNonceGap, NoGapBelow, Pooled
  <2>4. ASSUME NEW q \in Requests, At(q, "gas")'
        PROVE  NoGapBelow(KeyOf(q), request[q].nonce)'
    <3>1. CASE q = r
      <4>1. /\ request'[r].nonce = n
            /\ request'[r].role = request[r].role
            /\ request'[r].op = request[r].op
        BY <2>1, <2>2 DEF TypeOK, Request
      <4>2. NoGapBelow(KeyOf(r), n)
        BY <2>2 DEF NonceIsPending
      <4>3. QED
        BY <2>1, <3>1, <4>1, <4>2 DEF NoGapBelow, KeyOf, Pooled
    <3>2. CASE q # r
      <4>1. request'[q] = request[q]
        BY <2>2, <3>2 DEF TypeOK
      <4>2. NoGapBelow(KeyOf(q), request[q].nonce)
        BY <1>f, <2>4, <4>1 DEF At, GapInv, NoGapToCome
      <4>3. QED
        BY <2>1, <4>1, <4>2 DEF NoGapBelow, KeyOf, Pooled
    <3>3. QED
      BY <3>1, <3>2
  <2>5. QED
    BY <2>3, <2>4 DEF GapInv, NoGapToCome
<1>3. ASSUME NEW r \in Requests, Broadcast(r) \/ BroadcastReplyLost(r)
      PROVE  GapInv'
  <2>1. InFlight(r) /\ request[r] \in Request /\ At(r, "gas")
    BY <1>3, InFlightRequest DEF Broadcast, BroadcastReplyLost, At, InFlight
  <2>2. /\ PoolTakes(SignedTx(r))
        /\ UNCHANGED nextNonce
        /\ \A q \in Requests : At(q, "gas")' => request'[q] = request[q]
    BY <1>3, <2>1
       DEF Broadcast, BroadcastReplyLost, Answer, At, TypeOK, Request
  <2>3. SignedTx(r) \in Transaction
    BY <2>1, SignedTxType
  <2>4. \A t \in pool' \ pool : t = SignedTx(r)
    BY <2>2, <2>3, PoolTakesOne
  <2>5. QED
    BY <1>t, <2>1, <2>2, <2>3, <2>4, PoolTakesOne, PoolGrows, <1>f, GapKept
<1>4. ASSUME NEW r \in Requests, NodeFails(r) \/ Answered(r)
      PROVE  GapInv'
  <2>1. InFlight(r) /\ request[r] \in Request
    BY <1>4, InFlightRequest
       DEF NodeFails, Answered, EstimateRefused, BroadcastRefused, Confirmed,
           RevertedOnChain, Replaced, At, InFlight
  <2>2. UNCHANGED ledger /\ \E status \in Statuses : Answer(r, status)
    BY <1>4 DEF NodeFails, Answered, EstimateRefused, BroadcastRefused,
                Confirmed, RevertedOnChain, Replaced, ErrorStatus, Statuses
  <2>3. \A q \in Requests : At(q, "gas")' => request'[q] = request[q]
    BY <2>1, <2>2 DEF Answer, At, TypeOK, Request
  <2>4. QED
    BY <1>t, <1>u, <2>2, <2>3, <1>f, GapKept DEF ledger
<1>5. ASSUME NEW t \in pool, Mine(t)
      PROVE  GapInv'
  <2>1. /\ t.key \in Keys
        /\ t.nonce = nextNonce[t.key]
        /\ nextNonce[t.key] \in Nat
        /\ nextNonce' = [nextNonce EXCEPT ![t.key] = @ + 1]
        /\ pool' = pool \ {t}
        /\ UNCHANGED request
    BY <1>5 DEF Mine, TypeOK, Transaction
  <2>2. ASSUME NEW key \in Keys, NEW nonce \in Nat, NoGapBelow(key, nonce),
               NEW n \in nextNonce'[key] .. nonce - 1
        PROVE  Pooled(key, n)'
    <3>1. /\ n \in nextNonce[key] .. nonce - 1
          /\ ~(key = t.key /\ n = t.nonce)
      BY <2>1, <2>2 DEF TypeOK
    <3>2. PICK s \in pool : s.key = key /\ s.nonce = n
      BY <2>2, <3>1 DEF NoGapBelow, Pooled
    <3>3. s \in pool'
      BY <2>1, <3>1, <3>2
    <3>4. QED
      BY <3>2, <3>3 DEF Pooled
  <2>3. \A key \in Keys, nonce \in Nat :
            NoGapBelow(key, nonce) => NoGapBelow(key, nonce)'
    BY <2>2 DEF NoGapBelow
  <2>4. QED
    BY <1>t, <2>1, <2>3, <1>f, GapKept DEF At
<1>6. ASSUME NEW t \in pool, Forget(t)
      PROVE  GapInv'
  BY <1>6 DEF Forget
<1>7. CASE Restart
  <2>1. UNCHANGED <<pool, nextNonce>>
    BY <1>7 DEF Restart, ledger
  <2>2. ASSUME NEW r \in Requests, At(r, "gas")'
        PROVE  request'[r] = request[r]
    <3>1. CASE InFlight(r)
      <4>1. request'[r] = [request[r] EXCEPT !.stage = "over"]
        BY <1>7, <3>1 DEF Restart
      <4>2. QED
        BY <2>2, <3>1, <4>1, InFlightRequest DEF At, Request
    <3>2. CASE ~InFlight(r)
      BY <1>7, <3>2 DEF Restart
    <3>3. QED
      BY <3>1, <3>2
  <2>3. QED
    BY <1>t, <1>u, <2>1, <2>2, <1>f, GapKept
<1>8. CASE UNCHANGED vars
  BY <1>t, <1>u, <1>8, <1>f, GapKept DEF vars, ledger
<1>9. QED
  BY <1>1, <1>2, <1>3, <1>4, <1>5, <1>6, <1>7, <1>8 DEF Next

\* No write of an account waits behind a nonce nobody has used.
THEOREM NoncesHaveNoGap == Spec => []NoNonceGap
<1>1. Init => WritesInv /\ GapInv
  BY InitInv, InitGap
<1>2. WritesInv /\ GapInv /\ [Next]_vars => WritesInv' /\ GapInv'
  BY NextInv, NextGap
<1>3. GapInv => NoNonceGap
  BY DEF GapInv
<1>4. QED
  BY <1>1, <1>2, <1>3, PTL DEF Spec

-----------------------------------------------------------------------------
(***************************************************************************)
(* Every write that waits for a receipt is served.  This is what liveness  *)
(* rests on: while the node forgets nothing, no waiting write is stuck,    *)
(* however the requests, the blocks and a restart come between each other. *)
(***************************************************************************)
Held(key, nonce) == nextNonce[key] > nonce \/ Pooled(key, nonce)

\* What is asked of a step: what is held stays held, and a request that comes
\* to wait for a receipt is held.
LEMMA HeldKept ==
  ASSUME SentIsHeld, ~forgot, TypeOK, UnderWayUnanswered,
         \A key \in Keys, nonce \in Nat :
            Held(key, nonce) => Held(key, nonce)',
         \A q \in Requests : At(q, "receipt")' =>
            \/ At(q, "receipt") /\ request'[q] = request[q]
            \/ Held(KeyOf(q), request[q].nonce)'
  PROVE  SentIsHeld'
<1> SUFFICES ASSUME NEW q \in Requests, At(q, "receipt")',
                    At(q, "receipt"), request'[q] = request[q]
             PROVE  Held(KeyOf(q), request[q].nonce)'
  BY DEF SentIsHeld, Held
<1>1. KeyOf(q) \in Keys /\ request[q].nonce \in Nat
  BY SignedTxType DEF SignedTx, Transaction, At, InFlight
<1>2. Held(KeyOf(q), request[q].nonce)
  BY DEF SentIsHeld, Held
<1>3. Held(KeyOf(q), request[q].nonce)'
  <2> DEFINE key == KeyOf(q)
             nonce == request[q].nonce
  <2>1. KeyOf(q)' = key /\ request'[q].nonce = nonce
    BY DEF KeyOf
  <2>2. Held(key, nonce)
    BY <1>2
  <2>3. key \in Keys /\ nonce \in Nat
    BY <1>1
  <2>4. nextNonce'[key] > nonce \/ \E t \in pool' : t.key = key /\ t.nonce = nonce
    <3> HIDE DEF key, nonce
    <3>1. QED
      BY <2>2, <2>3 DEF Held, Pooled
  <2>5. QED
    BY <2>1, <2>4 DEF Held, Pooled
<1>4. QED
  BY <1>3

LEMMA NextHeld == WritesInv /\ SentIsHeld /\ [Next]_vars => SentIsHeld'
<1> SUFFICES ASSUME WritesInv, SentIsHeld, [Next]_vars, ~forgot'
             PROVE  SentIsHeld'
  BY DEF SentIsHeld
<1>f. ~forgot
  BY ForgottenForGood
<1> USE DEF WritesInv
<1>u. ASSUME UNCHANGED nextNonce,
             \A key, nonce : Pooled(key, nonce) => Pooled(key, nonce)'
      PROVE  \A key \in Keys, nonce \in Nat :
                Held(key, nonce) => Held(key, nonce)'
  BY <1>u DEF Held
<1>p. ASSUME UNCHANGED pool
      PROVE  \A key, nonce : Pooled(key, nonce) => Pooled(key, nonce)'
  BY <1>p DEF Pooled
<1>1. ASSUME NEW r \in Requests, NEW role \in Roles, NEW op \in Ops,
             Receive(r, role, op)
      PROVE  SentIsHeld'
  <2>1. /\ UNCHANGED <<pool, nextNonce>>
        /\ \A q \in Requests : At(q, "receipt")' => request'[q] = request[q]
    BY <1>1 DEF Receive, AnswerFirst, ledger, At, TypeOK
  <2>2. \A q \in Requests : At(q, "receipt")' => At(q, "receipt")
    BY <2>1 DEF At
  <2>3. QED
    BY <1>u, <1>p, <2>1, <2>2, <1>f, HeldKept
<1>2. ASSUME NEW r \in Requests, NonceAnswered(r)
      PROVE  SentIsHeld'
  <2>1. request[r] \in Request /\ UNCHANGED <<pool, nextNonce>>
    BY <1>2, InFlightRequest DEF NonceAnswered, At, InFlight, ledger
  <2>2. \A q \in Requests : At(q, "receipt")' => request'[q] = request[q]
    BY <1>2, <2>1 DEF NonceAnswered, At, TypeOK, Request
  <2>3. \A q \in Requests : At(q, "receipt")' => At(q, "receipt")
    BY <2>2 DEF At
  <2>4. QED
    BY <1>u, <1>p, <2>1, <2>2, <2>3, <1>f, HeldKept
<1>3. ASSUME NEW r \in Requests, Broadcast(r) \/ BroadcastReplyLost(r)
      PROVE  SentIsHeld'
  <2>1. InFlight(r) /\ request[r] \in Request /\ At(r, "gas")
    BY <1>3, InFlightRequest DEF Broadcast, BroadcastReplyLost, At, InFlight
  <2>2. PoolTakes(SignedTx(r)) /\ UNCHANGED nextNonce
    BY <1>3 DEF Broadcast, BroadcastReplyLost
  <2>3. SignedTx(r) \in Transaction
    BY <2>1, SignedTxType
  <2>4. /\ \A key, nonce : Pooled(key, nonce) => Pooled(key, nonce)'
        /\ SignedTx(r) \in pool'
    BY <2>2, <2>3, PoolTakesOne DEF PoolTakes
  <2>c. Continues(r) /\ request'[r].nonce = request[r].nonce
    <3>1. CASE Broadcast(r)
      BY <2>1, <3>1 DEF Broadcast, Continues, TypeOK, Request, Stages
    <3>2. CASE BroadcastReplyLost(r)
      <4>1. Ends(r, ErrorStatus(FALSE))
        BY <2>1, <3>2, AnswerEnds
           DEF BroadcastReplyLost, ErrorStatus, Statuses
      <4>2. QED
        BY <4>1 DEF Ends
    <3>3. QED
      BY <1>3, <3>1, <3>2
  <2>5. ASSUME NEW q \in Requests, At(q, "receipt")'
        PROVE  \/ At(q, "receipt") /\ request'[q] = request[q]
               \/ Held(KeyOf(q), request[q].nonce)'
    <3>1. CASE q = r
      <4>1. /\ request'[r].nonce = request[r].nonce
            /\ request'[r].role = request[r].role
            /\ request'[r].op = request[r].op
        BY <2>c DEF Continues
      <4>2. QED
        BY <2>4, <2>c, <3>1, <4>1 DEF Held, Pooled, SignedTx, KeyOf
    <3>2. CASE q # r
      <4>1. request'[q] = request[q]
        BY <2>c, <3>2 DEF Continues
      <4>2. QED
        BY <2>5, <4>1 DEF At
    <3>3. QED
      BY <3>1, <3>2
  <2>6. QED
    BY <1>u, <2>2, <2>4, <2>5, <1>f, HeldKept
<1>4. ASSUME NEW r \in Requests, NodeFails(r) \/ Answered(r)
      PROVE  SentIsHeld'
  <2>1. InFlight(r) /\ request[r] \in Request
    BY <1>4, InFlightRequest
       DEF NodeFails, Answered, EstimateRefused, BroadcastRefused, Confirmed,
           RevertedOnChain, Replaced, At, InFlight
  <2>2. UNCHANGED ledger /\ \E status \in Statuses : Answer(r, status)
    BY <1>4 DEF NodeFails, Answered, EstimateRefused, BroadcastRefused,
                Confirmed, RevertedOnChain, Replaced, ErrorStatus, Statuses
  <2>3. \A q \in Requests : At(q, "receipt")' => request'[q] = request[q]
    BY <2>1, <2>2 DEF Answer, At, TypeOK, Request
  <2>4. \A q \in Requests : At(q, "receipt")' => At(q, "receipt")
    BY <2>3 DEF At
  <2>5. QED
    BY <1>u, <1>p, <2>2, <2>3, <2>4, <1>f, HeldKept DEF ledger
<1>5. ASSUME NEW t \in pool, Mine(t)
      PROVE  SentIsHeld'
  <2>1. /\ t.key \in Keys
        /\ t.nonce = nextNonce[t.key]
        /\ nextNonce[t.key] \in Nat
        /\ nextNonce' = [nextNonce EXCEPT ![t.key] = @ + 1]
        /\ pool' = pool \ {t}
        /\ UNCHANGED request
    BY <1>5 DEF Mine, TypeOK, Transaction
  <2>2. ASSUME NEW key \in Keys, NEW nonce \in Nat, Held(key, nonce)
        PROVE  Held(key, nonce)'
    <3>1. CASE key = t.key /\ nonce <= t.nonce
      BY <2>1, <3>1 DEF Held, TypeOK
    <3>2. CASE ~(key = t.key /\ nonce <= t.nonce) /\ nextNonce[key] > nonce
      BY <2>1, <3>2 DEF Held, TypeOK
    <3>3. CASE ~(key = t.key /\ nonce <= t.nonce) /\ Pooled(key, nonce)
      <4>1. PICK s \in pool : s.key = key /\ s.nonce = nonce
        BY <3>3 DEF Pooled
      <4>2. s \in pool'
        BY <2>1, <3>3, <4>1
      <4>3. QED
        BY <4>1, <4>2 DEF Held, Pooled
    <3>4. QED
      BY <2>2, <3>1, <3>2, <3>3 DEF Held
  <2>3. \A q \in Requests : At(q, "receipt")' => At(q, "receipt")
    BY <2>1 DEF At
  <2>4. QED
    BY <2>1, <2>2, <2>3, <1>f, HeldKept
<1>6. ASSUME NEW t \in pool, Forget(t)
      PROVE  SentIsHeld'
  BY <1>6 DEF Forget
<1>7. CASE Restart
  <2>1. UNCHANGED <<pool, nextNonce>>
    BY <1>7 DEF Restart, ledger
  <2>2. ASSUME NEW r \in Requests, At(r, "receipt")'
        PROVE  request'[r] = request[r]
    <3>1. CASE InFlight(r)
      <4>1. request'[r] = [request[r] EXCEPT !.stage = "over"]
        BY <1>7, <3>1 DEF Restart
      <4>2. QED
        BY <2>2, <3>1, <4>1, InFlightRequest DEF At, Request
    <3>2. CASE ~InFlight(r)
      BY <1>7, <3>2 DEF Restart
    <3>3. QED
      BY <3>1, <3>2
  <2>3. \A q \in Requests : At(q, "receipt")' => At(q, "receipt")
    BY <2>2 DEF At
  <2>4. QED
    BY <1>u, <1>p, <2>1, <2>2, <2>3, <1>f, HeldKept
<1>8. CASE UNCHANGED vars
  <2>1. \A q \in Requests : At(q, "receipt")' => At(q, "receipt")
    BY <1>8 DEF At, vars
  <2>2. QED
    BY <1>u, <1>p, <1>8, <2>1, <1>f, HeldKept DEF vars, ledger
<1>9. QED
  BY <1>1, <1>2, <1>3, <1>4, <1>5, <1>6, <1>7, <1>8 DEF Next

\* What holds up a write that is held has no gap below it.
LEMMA HeldIsServed ==
  WritesInv /\ GapInv /\ SentIsHeld => WaitersAreServed
<1> SUFFICES ASSUME WritesInv, GapInv, SentIsHeld, ~forgot,
                    NEW r \in Requests, At(r, "receipt"),
                    ~(nextNonce[KeyOf(r)] > request[r].nonce)
             PROVE  \E t \in pool : /\ t.key = KeyOf(r)
                                    /\ t.nonce = nextNonce[t.key]
                                    /\ t.nonce <= request[r].nonce
  BY DEF WaitersAreServed
<1> DEFINE key == KeyOf(r)
           nonce == request[r].nonce
<1>1. key \in Keys /\ nonce \in Nat /\ nextNonce[key] \in Nat
  BY SignedTxType DEF WritesInv, SignedTx, Transaction, At, InFlight, TypeOK
<1>2. PICK s \in pool : s.key = key /\ s.nonce = nonce
  BY DEF SentIsHeld, Pooled
<1>3. NoGapBelow(key, nonce)
  BY <1>2 DEF GapInv, NoNonceGap
<1>4. ~(nextNonce[key] > nonce)
  OBVIOUS
<1> HIDE DEF key, nonce
<1>5. \E t \in pool : /\ t.key = key
                      /\ t.nonce = nextNonce[t.key]
                      /\ t.nonce <= nonce
  <2>1. CASE nextNonce[key] = nonce
    BY <1>1, <1>2, <2>1
  <2>2. CASE nextNonce[key] # nonce
    <3>1. nextNonce[key] \in nextNonce[key] .. nonce - 1
      BY <1>1, <1>4, <2>2
    <3>2. PICK t \in pool : t.key = key /\ t.nonce = nextNonce[key]
      BY <1>3, <3>1 DEF NoGapBelow, Pooled
    <3>3. QED
      BY <1>1, <1>4, <3>2
  <2>3. QED
    BY <2>1, <2>2
<1>6. QED
  BY <1>5 DEF key, nonce

\* A write that waits for its receipt never waits for nothing: its nonce is
\* used, and the answer there to be given, or the next transaction of its
\* account is pooled and is it or comes before it.
THEOREM NobodyWaitsInVain == Spec => []WaitersAreServed
<1>1. Init => WritesInv /\ GapInv /\ SentIsHeld
  BY InitInv, InitGap DEF Init, SentIsHeld, At
<1>2. WritesInv /\ GapInv /\ SentIsHeld /\ [Next]_vars
        => WritesInv' /\ GapInv' /\ SentIsHeld'
  BY NextInv, NextGap, NextHeld
<1>3. WritesInv /\ GapInv /\ SentIsHeld => WaitersAreServed
  BY HeldIsServed
<1>4. QED
  BY <1>1, <1>2, <1>3, PTL DEF Spec

-----------------------------------------------------------------------------
(***************************************************************************)
(* The write path implements WriteOnce.  Each request is told one thing at *)
(* a time; a step of the node or of the handler moves one request on in    *)
(* the abstract specification, a restart gives up all those under way, and *)
(* what concerns nonces, the pool and the log is not seen there.           *)
(***************************************************************************)
LEMMA InitPermitted == Init => OnlyPermitted
BY DEF Init, OnlyPermitted, InFlight, Sent

\* A request whose role and operation stay is as permitted as it was.
LEMMA PermittedKept ==
  ASSUME OnlyPermitted, NEW r \in Requests,
         request'[r].role = request[r].role,
         request'[r].op = request[r].op,
         InFlight(r) \/ \E t \in Sent : t.of = r
  PROVE  /\ MayPerform(request'[r].role, request'[r].op)
         /\ HasSigner(request'[r].role, request'[r].op)
BY DEF OnlyPermitted

\* A handler goes on, or ends, and sends at most its own transaction.
LEMMA OnePermitted ==
  ASSUME OnlyPermitted, NEW r \in Requests, InFlight(r), Continues(r),
         \A t \in Sent' : t \in Sent \/ t.of = r
  PROVE  OnlyPermitted'
<1> SUFFICES ASSUME NEW q \in Requests, InFlight(q)' \/ \E t \in Sent' : t.of = q
             PROVE  /\ MayPerform(request'[q].role, request'[q].op)
                    /\ HasSigner(request'[q].role, request'[q].op)
  BY DEF OnlyPermitted
<1>1. CASE q = r
  BY <1>1, PermittedKept DEF Continues
<1>2. CASE q # r
  BY <1>2, PermittedKept DEF Continues, InFlight
<1>3. QED
  BY <1>1, <1>2

LEMMA NextPermitted == WritesInv /\ OnlyPermitted /\ [Next]_vars => OnlyPermitted'
<1> SUFFICES ASSUME WritesInv, OnlyPermitted, [Next]_vars PROVE OnlyPermitted'
  OBVIOUS
<1> USE DEF WritesInv
<1>1. ASSUME NEW r \in Requests, NEW role \in Roles, NEW op \in Ops,
             Receive(r, role, op)
      PROVE  OnlyPermitted'
  <2>1. Sent' = Sent /\ request[r] = NoRequest
    BY <1>1 DEF Receive, ledger, Sent
  <2>2. \A q \in Requests \ {r} : request'[q] = request[q]
    BY <1>1 DEF Receive, AnswerFirst, TypeOK
  <2>3. InFlight(r)' => /\ MayPerform(request'[r].role, request'[r].op)
                       /\ HasSigner(request'[r].role, request'[r].op)
    <3>1. CASE \E status : AnswerFirst(r, role, op, status)
      BY <3>1 DEF AnswerFirst, TypeOK, InFlight
    <3>2. CASE /\ MayPerform(role, op) /\ HasSigner(role, op)
               /\ request' = [request EXCEPT
                    ![r] = [stage |-> "nonce", role |-> role, op |-> op,
                            nonce |-> 0, status |-> 0]]
      BY <3>2 DEF TypeOK
    <3>3. QED
      BY <1>1, <3>1, <3>2 DEF Receive
  <2>4. ~\E t \in Sent : t.of = r
    BY <2>1 DEF SentBySigners
  <2>5. QED
    BY <2>1, <2>2, <2>3, <2>4 DEF OnlyPermitted, InFlight
<1>2. ASSUME NEW r \in Requests, NonceAnswered(r)
      PROVE  OnlyPermitted'
  <2>1. InFlight(r) /\ request[r] \in Request
    BY <1>2, InFlightRequest DEF NonceAnswered, At, InFlight
  <2>2. Continues(r)
    <3>1. PICK n \in Nonces :
            request' = [request EXCEPT ![r].stage = "gas", ![r].nonce = n]
      BY <1>2 DEF NonceAnswered
    <3>2. n \in Nat
      BY NoncesAreNat
    <3>3. request'[r] = [request[r] EXCEPT !.stage = "gas", !.nonce = n]
      BY <3>1 DEF TypeOK
    <3>4. request'[r] \in Request
      BY <2>1, <3>2, <3>3 DEF Request, Stages
    <3>5. QED
      BY <2>1, <3>1, <3>3, <3>4 DEF Continues, TypeOK, Request
  <2>3. Sent' = Sent
    BY <1>2 DEF NonceAnswered, ledger, Sent
  <2>4. QED
    BY <2>1, <2>2, <2>3, OnePermitted
<1>3. ASSUME NEW r \in Requests, Broadcast(r) \/ BroadcastReplyLost(r)
      PROVE  OnlyPermitted'
  <2>1. InFlight(r) /\ request[r] \in Request
    BY <1>3, InFlightRequest DEF Broadcast, BroadcastReplyLost, At, InFlight
  <2>2. Continues(r)
    <3>1. CASE Broadcast(r)
      BY <2>1, <3>1 DEF Broadcast, Continues, TypeOK, Request, Stages
    <3>2. CASE BroadcastReplyLost(r)
      BY <2>1, <3>2, AnswerEnds
         DEF BroadcastReplyLost, ErrorStatus, Statuses, Ends
    <3>3. QED
      BY <1>3, <3>1, <3>2
  <2>3. /\ PoolTakes(SignedTx(r)) /\ SignedTx(r) \in Transaction
        /\ UNCHANGED <<effective, reverted>>
    BY <1>3, <2>1, SignedTxType DEF Broadcast, BroadcastReplyLost
  <2>4. \A t \in Sent' : t \in Sent \/ t.of = r
    BY <2>3, PoolTakesOne DEF Sent, SignedTx
  <2>5. QED
    BY <2>1, <2>2, <2>4, OnePermitted
<1>4. ASSUME NEW r \in Requests, NodeFails(r) \/ Answered(r)
      PROVE  OnlyPermitted'
  <2>1. InFlight(r)
    BY <1>4 DEF NodeFails, Answered, EstimateRefused, BroadcastRefused,
                Confirmed, RevertedOnChain, Replaced, At, InFlight
  <2>2. Sent' = Sent /\ \E status \in Statuses : Answer(r, status)
    BY <1>4 DEF NodeFails, Answered, EstimateRefused, BroadcastRefused,
                Confirmed, RevertedOnChain, Replaced, ErrorStatus, Statuses,
                ledger, Sent
  <2>3. QED
    BY <2>1, <2>2, AnswerEnds, OnePermitted DEF Ends
<1>5. ASSUME NEW t \in pool, Mine(t) \/ Forget(t)
      PROVE  OnlyPermitted'
  <2>1. UNCHANGED request /\ Sent' \subseteq Sent
    BY <1>5 DEF Mine, Forget, Sent
  <2>2. QED
    BY <2>1 DEF OnlyPermitted, InFlight
<1>6. CASE Restart
  <2>1. Sent' = Sent
    BY <1>6 DEF Restart, ledger, Sent
  <2>2. ASSUME NEW q \in Requests
        PROVE  /\ ~InFlight(q)'
               /\ \/ request'[q] = request[q]
                  \/ /\ InFlight(q)
                     /\ request'[q].role = request[q].role
                     /\ request'[q].op = request[q].op
    <3>1. CASE InFlight(q)
      <4>1. request'[q] = [request[q] EXCEPT !.stage = "over"]
        BY <1>6, <3>1 DEF Restart
      <4>2. QED
        BY <3>1, <4>1, InFlightRequest DEF Request, InFlight
    <3>2. CASE ~InFlight(q)
      BY <1>6, <3>2 DEF Restart, TypeOK, InFlight
    <3>3. QED
      BY <3>1, <3>2
  <2>3. QED
    BY <2>1, <2>2 DEF OnlyPermitted
<1>7. CASE UNCHANGED vars
  BY <1>7 DEF vars, ledger, OnlyPermitted, InFlight, Sent
<1>8. QED
  BY <1>1, <1>2, <1>3, <1>4, <1>5, <1>6, <1>7 DEF Next

\* Only who may perform a write has it signed and sent.
THEOREM PermittedOnly == Spec => []OnlyPermitted
BY InitInv, NextInv, InitPermitted, NextPermitted, PTL DEF Spec

\* What is told of a request not asked yet, and of one under way.
LEMMA ToldFirst ==
  ASSUME NEW r
  PROVE  /\ request[r] = NoRequest => Told(r) = "nothing"
         /\ InFlight(r) => Told(r) = "open"
         /\ InFlight(r)' => Told(r)' = "open"
BY DEF Told, InFlight

LEMMA PromisedInit == Init => Promised!Init
<1> SUFFICES ASSUME Init PROVE Promised!Init
  OBVIOUS
<1>1. \A r \in Requests : request[r] = NoRequest
  BY DEF Init
<1>2. AskedFor = [r \in Requests |-> <<>>]
  BY <1>1 DEF AskedFor
<1>3. WasTold = [r \in Requests |-> "nothing"]
  BY <1>1, ToldFirst DEF WasTold
<1>4. DoneWrites = {}
  BY DEF Init, DoneWrites
<1>5. QED
  BY <1>2, <1>3, <1>4 DEF Promised!Init

\* What a request asked for and was told, one request at a time.
Asks(r) == IF request[r] = NoRequest THEN <<>> ELSE <<request[r].role, request[r].op>>

LEMMA MappingIs ==
  /\ AskedFor = [r \in Requests |-> Asks(r)]
  /\ AskedFor' = [r \in Requests |-> Asks(r)']
  /\ WasTold = [r \in Requests |-> Told(r)]
  /\ WasTold' = [r \in Requests |-> Told(r)']
BY DEF AskedFor, Asks, WasTold

LEMMA SameDone == effective' = effective => DoneWrites' = DoneWrites
BY DEF DoneWrites

LEMMA SameRequest ==
  ASSUME NEW r, request'[r] = request[r]
  PROVE  Told(r)' = Told(r) /\ Asks(r)' = Asks(r)
BY DEF Told, Asks, InFlight, Status

\* A step that leaves requests under way and answers none is not seen.
LEMMA NothingSeen ==
  ASSUME effective' = effective,
         \A r \in Requests : Told(r)' = Told(r) /\ Asks(r)' = Asks(r)
  PROVE  UNCHANGED Promised!vars
<1>1. AskedFor' = AskedFor /\ WasTold' = WasTold
  BY MappingIs
<1>2. QED
  BY <1>1, SameDone DEF Promised!vars

LEMMA UnderWayTold ==
  ASSUME TypeOK, NEW r \in Requests, InFlight(r)
  PROVE  /\ Told(r) = "open" /\ WasTold[r] = "open"
         /\ Asks(r) = <<request[r].role, request[r].op>>
         /\ AskedFor[r] = Asks(r)
<1>1. request[r] # NoRequest
  BY DEF InFlight
<1>2. QED
  BY <1>1, MappingIs, ToldFirst DEF Asks

\* Only the transaction it signed performs a request.
LEMMA PerformedIs ==
  ASSUME WritesInv, NEW r \in Requests
  PROVE  Promised!Performed(r) <=>
            request[r] # NoRequest /\ SignedTx(r) \in effective
<1>1. ASSUME Promised!Performed(r)
      PROVE  request[r] # NoRequest /\ SignedTx(r) \in effective
  <2>1. PICK t \in effective : t.of = r
    BY <1>1 DEF Promised!Performed, DoneWrites
  <2>2. t \in Sent
    BY DEF Sent
  <2>3. QED
    BY <2>1, <2>2 DEF WritesInv, SentBySigners
<1>2. ASSUME SignedTx(r) \in effective
      PROVE  Promised!Performed(r)
  <2> DEFINE t == SignedTx(r)
             e == [of |-> t.of, signer |-> t.key, op |-> t.op]
  <2>1. t.of = r
    BY DEF SignedTx
  <2>2. e \in DoneWrites /\ e.of = r
    BY <1>2, <2>1 DEF DoneWrites
  <2> HIDE DEF e
  <2>3. QED
    BY <2>2 DEF Promised!Performed
<1>3. QED
  BY <1>1, <1>2

\* An answer is what the request is told.
LEMMA AnswerTold ==
  ASSUME WritesInv, NEW r \in Requests, InFlight(r), NEW status \in Statuses,
         Answer(r, status)
  PROVE  /\ AskedFor' = AskedFor
         /\ WasTold' = [WasTold EXCEPT ![r] =
                IF status = 200 THEN "done"
                ELSE IF status \in {400, 403} THEN "refused"
                ELSE "unsure"]
<1> USE DEF WritesInv
<1>1. Ends(r, status)
  BY AnswerEnds
<1>2. request[r] # NoRequest /\ request'[r] # NoRequest
  BY <1>1, NothingAssumption DEF InFlight, Ends, Continues
<1>3. Asks(r)' = Asks(r)
  BY <1>1, <1>2 DEF Asks, Ends, Continues
<1>4. Told(r)' = IF status = 200 THEN "done"
                 ELSE IF status \in {400, 403} THEN "refused"
                 ELSE "unsure"
  BY <1>1, <1>2 DEF Told, InFlight, Status, Ends
<1>5. \A q \in Requests : q # r => Told(q)' = Told(q) /\ Asks(q)' = Asks(q)
  BY <1>1, SameRequest DEF Ends, Continues
<1>6. AskedFor' = AskedFor
  BY <1>3, <1>5, MappingIs
<1>7. QED
  BY <1>4, <1>5, <1>6, MappingIs

LEMMA GivingUpImplements ==
  ASSUME WritesInv, NEW r \in Requests, InFlight(r),
         Answer(r, ErrorStatus(FALSE)), effective' = effective
  PROVE  Promised!Next
<1>1. /\ AskedFor' = AskedFor
      /\ WasTold' = [WasTold EXCEPT ![r] = "unsure"]
  BY AnswerTold DEF ErrorStatus, Statuses
<1>2. WasTold[r] = "open" /\ DOMAIN WasTold = Requests
  BY UnderWayTold, MappingIs DEF WritesInv
<1>3. WasTold' = [q \in Requests |-> IF q \in {r} THEN "unsure" ELSE WasTold[q]]
  BY <1>1, <1>2, MappingIs
<1>4. Promised!GiveUp({r})
  BY <1>1, <1>2, <1>3, SameDone DEF Promised!GiveUp
<1>5. {r} \in SUBSET Requests
  OBVIOUS
<1>6. QED
  BY <1>4, <1>5 DEF Promised!Next

LEMMA RefusalImplements ==
  ASSUME WritesInv, NEW r \in Requests, InFlight(r),
         Answer(r, ErrorStatus(TRUE)), effective' = effective,
         SignedTx(r) \notin effective
  PROVE  Promised!Next
<1>1. /\ AskedFor' = AskedFor
      /\ WasTold' = [WasTold EXCEPT ![r] = "refused"]
  BY AnswerTold DEF ErrorStatus, Statuses
<1>2. WasTold[r] = "open"
  BY UnderWayTold DEF WritesInv
<1>3. Promised!Refuse(r)
  BY <1>1, <1>2, SameDone, PerformedIs DEF Promised!Refuse
<1>4. QED
  BY <1>3 DEF Promised!Next

LEMMA AnsweredImplements ==
  ASSUME WritesInv, NEW r \in Requests, Answered(r)
  PROVE  Promised!Next
<1> USE DEF WritesInv
<1>1. InFlight(r) /\ effective' = effective
  BY DEF Answered, EstimateRefused, BroadcastRefused, Confirmed,
         RevertedOnChain, Replaced, At, InFlight, ledger
<1>2. CASE EstimateRefused(r)
  <2>1. SignedTx(r) \notin effective
    <3>1. request[r].stage = "gas"
      BY <1>2 DEF EstimateRefused, At
    <3>2. SignedTx(r).of = r
      BY DEF SignedTx
    <3>3. QED
      BY <3>1, <3>2 DEF SentBySigners, Sent
  <2>2. QED
    BY <1>1, <1>2, <2>1, RefusalImplements DEF EstimateRefused
<1>3. CASE BroadcastRefused(r)
  BY <1>1, <1>3, GivingUpImplements DEF BroadcastRefused
<1>4. CASE Confirmed(r)
  <2>1. SignedTx(r) \in effective /\ Answer(r, 200)
    BY <1>4 DEF Confirmed
  <2>2. AskedFor' = AskedFor /\ WasTold' = [WasTold EXCEPT ![r] = "done"]
    BY <1>1, <2>1, AnswerTold DEF Statuses
  <2>3. Promised!Performed(r)
    BY <1>1, <2>1, PerformedIs DEF InFlight
  <2>4. WasTold[r] = "open"
    BY <1>1, UnderWayTold
  <2>5. Promised!Confirm(r)
    BY <1>1, <2>2, <2>3, <2>4, SameDone DEF Promised!Confirm
  <2>6. QED
    BY <2>5 DEF Promised!Next
<1>5. CASE RevertedOnChain(r)
  <2>1. SignedTx(r) \notin effective
    BY <1>5 DEF RevertedOnChain, NoncesUsedOnce
  <2>2. QED
    BY <1>1, <1>5, <2>1, RefusalImplements DEF RevertedOnChain
<1>6. CASE Replaced(r)
  BY <1>1, <1>6, RefusalImplements DEF Replaced
<1>7. QED
  BY <1>2, <1>3, <1>4, <1>5, <1>6 DEF Answered

LEMMA ReceiveImplements ==
  ASSUME WritesInv, NEW r \in Requests, NEW role \in Roles, NEW op \in Ops,
         Receive(r, role, op)
  PROVE  Promised!Next
<1> DEFINE write == <<role, op>>
<1>1. write \in Roles \X AllOps /\ op \in AllOps
  BY WritesAssumption
<1>2. /\ request[r] = NoRequest
      /\ DOMAIN request = Requests
      /\ effective' = effective
  BY DEF Receive, ledger, WritesInv, TypeOK
<1>3. WasTold[r] = "nothing"
  BY <1>2, MappingIs, ToldFirst
<1>4. \A q \in Requests : q # r => Told(q)' = Told(q) /\ Asks(q)' = Asks(q)
  <2>1. \A q \in Requests : q # r => request'[q] = request[q]
    BY <1>2 DEF Receive, AnswerFirst
  <2>2. QED
    BY <2>1, SameRequest
<1>5. ASSUME NEW answer \in {"open", "refused", "unsure"},
             Asks(r)' = write, Told(r)' = answer,
             write \in PermittedWrites \/ answer = "refused"
      PROVE  Promised!Next
  <2>1. /\ AskedFor' = [AskedFor EXCEPT ![r] = write]
        /\ WasTold' = [WasTold EXCEPT ![r] = answer]
    BY <1>4, <1>5, MappingIs
  <2> HIDE DEF write
  <2>2. Promised!Ask(r, write, answer)
    BY <1>2, <1>3, <1>5, <2>1, SameDone DEF Promised!Ask
  <2>3. QED
    BY <1>1, <2>2 DEF Promised!Next
<1>6. MayPerform(role, op) /\ HasSigner(role, op) => write \in PermittedWrites
  BY <1>1 DEF PermittedWrites
<1>7. ASSUME NEW status \in {400, 403, 500, 502},
             AnswerFirst(r, role, op, status),
             status \in {500, 502} => MayPerform(role, op) /\ HasSigner(role, op)
      PROVE  Promised!Next
  <2>1. request'[r] = [stage |-> "over", role |-> role, op |-> op, nonce |-> 0,
                       status |-> status]
    BY <1>2, <1>7 DEF AnswerFirst
  <2>2. request'[r] \in Request
    BY <1>1, <2>1 DEF Request, Stages, Statuses
  <2>3. request'[r] # NoRequest
    BY <2>2, NothingAssumption
  <2>4. Asks(r)' = write
    BY <2>1, <2>3 DEF Asks
  <2>5. Told(r)' = IF status \in {400, 403} THEN "refused" ELSE "unsure"
    BY <2>1, <2>3 DEF Told, InFlight, Status
  <2>6. QED
    BY <1>5, <1>6, <1>7, <2>4, <2>5
<1>8. ASSUME MayPerform(role, op), HasSigner(role, op),
             request' = [request EXCEPT
                ![r] = [stage |-> "nonce", role |-> role, op |-> op,
                        nonce |-> 0, status |-> 0]]
      PROVE  Promised!Next
  <2>1. request'[r] = [stage |-> "nonce", role |-> role, op |-> op, nonce |-> 0,
                       status |-> 0]
    BY <1>2, <1>8
  <2>2. request'[r] \in Request
    BY <1>1, <2>1 DEF Request, Stages, Statuses
  <2>3. request'[r] # NoRequest
    BY <2>2, NothingAssumption
  <2>4. Asks(r)' = write /\ Told(r)' = "open"
    BY <2>1, <2>3, ToldFirst DEF Asks, InFlight
  <2>5. QED
    BY <1>5, <1>6, <1>8, <2>4
<1>9. QED
  BY <1>7, <1>8 DEF Receive

\* The handler goes on: what it asked for stays and no answer is given.
LEMMA GoingOnImplements ==
  ASSUME WritesInv, NEW r \in Requests, NonceAnswered(r) \/ Broadcast(r)
  PROVE  UNCHANGED Promised!vars
<1>1. InFlight(r) /\ request[r] \in Request /\ effective' = effective
  BY InFlightRequest
  DEF WritesInv, NonceAnswered, Broadcast, At, InFlight, ledger
<1>2. /\ \A q \in Requests : q # r => request'[q] = request[q]
      /\ request'[r].stage \in {"gas", "receipt"}
      /\ request'[r].role = request[r].role
      /\ request'[r].op = request[r].op
      /\ request'[r] \in Request
  <2>1. CASE NonceAnswered(r)
    <3>1. PICK n \in Nonces :
            request' = [request EXCEPT ![r].stage = "gas", ![r].nonce = n]
      BY <2>1 DEF NonceAnswered
    <3>2. n \in Nat
      BY NoncesAreNat
    <3>3. request'[r] = [request[r] EXCEPT !.stage = "gas", !.nonce = n]
      BY <3>1 DEF WritesInv, TypeOK
    <3>4. request'[r] \in Request
      BY <1>1, <3>2, <3>3 DEF Request, Stages
    <3>5. QED
      BY <1>1, <3>1, <3>3, <3>4 DEF WritesInv, TypeOK, Request
  <2>2. CASE Broadcast(r)
    <3>1. request' = [request EXCEPT ![r].stage = "receipt"]
      BY <2>2 DEF Broadcast
    <3>2. request'[r] = [request[r] EXCEPT !.stage = "receipt"]
      BY <3>1 DEF WritesInv, TypeOK
    <3>3. request'[r] \in Request
      BY <1>1, <3>2 DEF Request, Stages
    <3>4. QED
      BY <1>1, <3>1, <3>2, <3>3 DEF WritesInv, TypeOK, Request
  <2>3. QED
    BY <2>1, <2>2
<1>3. request[r] # NoRequest /\ request'[r] # NoRequest
  BY <1>1, <1>2, NothingAssumption DEF InFlight
<1>4. Told(r)' = Told(r) /\ Asks(r)' = Asks(r)
  BY <1>1, <1>2, <1>3, ToldFirst DEF Asks, InFlight
<1>5. \A q \in Requests : Told(q)' = Told(q) /\ Asks(q)' = Asks(q)
  BY <1>2, <1>4, SameRequest
<1>6. QED
  BY <1>1, <1>5, NothingSeen

LEMMA MiningImplements ==
  ASSUME WritesInv, OnlyPermitted, NEW t \in pool, Mine(t),
         effective' = effective \cup {t}
  PROVE  Promised!Next
<1> DEFINE r == t.of
           entry == [of |-> t.of, signer |-> t.key, op |-> t.op]
<1> USE DEF WritesInv
<1>1. t \in Sent /\ r \in Requests
  BY DEF Sent, TypeOK, Transaction
<1>2. /\ request[r] # NoRequest /\ request[r] \in Request
      /\ t = SignedTx(r)
      /\ request[r].stage \in {"receipt", "over"}
  BY <1>1 DEF SentBySigners, TypeOK
<1>3. t \notin effective
  <2>1. t.nonce >= nextNonce[t.key]
    BY DEF NoncesUsedOnce
  <2>2. t.nonce \in Nat /\ nextNonce[t.key] \in Nat
    BY DEF TypeOK, Transaction
  <2>3. t \in effective => t.nonce < nextNonce[t.key]
    BY DEF NoncesUsedOnce
  <2>4. QED
    BY <2>1, <2>2, <2>3
<1>4. Status(r) \notin {200, 400, 403}
  BY <1>1, <1>2, <1>3 DEF SuccessIsOnLedger, RefusedHasNoEffect
<1> HIDE DEF r
<1>5. Told(r) \in {"open", "unsure"}
  BY <1>2, <1>4 DEF Told
<1>6. ~Promised!Performed(r)
  BY <1>1, <1>2, <1>3, PerformedIs
<1>7. /\ request[r].role \in Roles /\ request[r].op \in AllOps
      /\ MayPerform(request[r].role, request[r].op)
  BY <1>1, <1>2 DEF OnlyPermitted, Request, r
<1>8. HasSigner(request[r].role, request[r].op)
  BY <1>1 DEF OnlyPermitted, r
<1>9. Asks(r) = <<request[r].role, request[r].op>> /\ Asks(r) \in PermittedWrites
  BY <1>2, <1>7, <1>8 DEF Asks, PermittedWrites
<1>10. /\ AskedFor[r] = Asks(r) /\ WasTold[r] = Told(r)
  BY <1>1, MappingIs
<1>11. Promised!Entry(r) = entry
  <2>1. /\ t.of = r
        /\ t.key = SignerOf(request[r].role, request[r].op)
        /\ t.op = request[r].op
    BY <1>2 DEF SignedTx, KeyOf
  <2>2. Asks(r)[1] = request[r].role /\ Asks(r)[2] = request[r].op
    BY <1>9
  <2>3. QED
    BY <1>9, <1>10, <2>1, <2>2 DEF Promised!Entry
<1>12. DoneWrites' = DoneWrites \cup {entry}
  BY DEF DoneWrites
<1>13. AskedFor' = AskedFor /\ WasTold' = WasTold
  <2>1. UNCHANGED request
    BY DEF Mine
  <2>2. \A q \in Requests : Told(q)' = Told(q) /\ Asks(q)' = Asks(q)
    BY <2>1, SameRequest
  <2>3. QED
    BY <2>2, MappingIs
<1> HIDE DEF entry
<1>14. Promised!Perform(r)
  BY <1>5, <1>6, <1>9, <1>10, <1>11, <1>12, <1>13 DEF Promised!Perform
<1>15. QED
  BY <1>1, <1>14 DEF Promised!Next

LEMMA RestartImplements ==
  ASSUME WritesInv, Restart
  PROVE  Promised!Next
<1> DEFINE S == {r \in Requests : InFlight(r)}
<1> USE DEF WritesInv
<1>1. ASSUME NEW r \in Requests
      PROVE  /\ Asks(r)' = Asks(r)
             /\ Told(r)' = IF InFlight(r) THEN "unsure" ELSE Told(r)
  <2>1. CASE InFlight(r)
    <3>1. request'[r] = [request[r] EXCEPT !.stage = "over"]
      BY <2>1 DEF Restart
    <3>2. request[r] \in Request /\ request'[r] \in Request
      BY <2>1, <3>1, InFlightRequest DEF Request, Stages
    <3>3. /\ request'[r].stage = "over"
          /\ request'[r].role = request[r].role
          /\ request'[r].op = request[r].op
          /\ request'[r].status = request[r].status
      BY <3>1, <3>2 DEF Request
    <3>4. request[r] # NoRequest /\ request'[r] # NoRequest
      BY <3>2, NothingAssumption
    <3>5. request[r].status = 0
      BY <2>1 DEF UnderWayUnanswered
    <3>6. QED
      BY <2>1, <3>3, <3>4, <3>5 DEF Told, Asks, InFlight, Status
  <2>2. CASE ~InFlight(r)
    BY <2>2, SameRequest DEF Restart
  <2>3. QED
    BY <2>1, <2>2
<1>2. AskedFor' = AskedFor
  BY <1>1, MappingIs
<1>3. \A r \in S : WasTold[r] = "open"
  BY UnderWayTold
<1>4. WasTold' = [r \in Requests |-> IF r \in S THEN "unsure" ELSE WasTold[r]]
  BY <1>1, MappingIs
<1>5. DoneWrites' = DoneWrites
  BY SameDone DEF Restart, ledger
<1>6. S \in SUBSET Requests
  OBVIOUS
<1> HIDE DEF S
<1>7. Promised!GiveUp(S)
  BY <1>2, <1>3, <1>4, <1>5 DEF Promised!GiveUp
<1>8. QED
  BY <1>6, <1>7 DEF Promised!Next

LEMMA PromisedStep ==
  ASSUME WritesInv, OnlyPermitted, [Next]_vars
  PROVE  [Promised!Next]_(Promised!vars)
<1>1. ASSUME NEW r \in Requests, BroadcastReplyLost(r) \/ NodeFails(r)
      PROVE  Promised!Next
  <2>1. InFlight(r) /\ Answer(r, ErrorStatus(FALSE)) /\ effective' = effective
    BY <1>1 DEF BroadcastReplyLost, NodeFails, At, InFlight, ledger
  <2>2. QED
    BY <2>1, GivingUpImplements
<1>2. ASSUME NEW t \in pool, Mine(t)
      PROVE  [Promised!Next]_(Promised!vars)
  <2>1. CASE effective' = effective \cup {t}
    BY <1>2, <2>1, MiningImplements
  <2>2. CASE effective' = effective
    <3>1. UNCHANGED request
      BY <1>2 DEF Mine
    <3>2. QED
      BY <2>2, <3>1, SameRequest, NothingSeen
  <2>3. QED
    BY <1>2, <2>1, <2>2 DEF Mine
<1>3. ASSUME UNCHANGED <<request, effective>>
      PROVE  UNCHANGED Promised!vars
  BY <1>3, SameRequest, NothingSeen
<1>4. ASSUME NEW t \in pool, Forget(t)
      PROVE  UNCHANGED Promised!vars
  BY <1>3, <1>4 DEF Forget
<1>5. CASE UNCHANGED vars
  BY <1>3, <1>5 DEF vars, ledger
<1>6. QED
  BY <1>1, <1>2, <1>4, <1>5, ReceiveImplements, GoingOnImplements,
     AnsweredImplements, RestartImplements
  DEF Next

\* Whatever fails between the API, its nodes and the blocks, clients see
\* writes performed at most once, by who may and in that role's name; what
\* they were told was done is done, and what was refused never is (send and
\* the POST handlers of api/lib/chain.js and api/routes.js).
THEOREM WritesRefined == Spec => ImplementsWrites
<1>1. WritesInv /\ OnlyPermitted /\ [Next]_vars => OnlyPermitted'
  BY NextPermitted
<1>2. WritesInv /\ OnlyPermitted /\ [Next]_vars
        => [Promised!Next]_(Promised!vars)
  BY PromisedStep
<1>3. QED
  BY <1>1, <1>2, PromisedInit, InitPermitted, WritesInvariant, PTL
  DEF Spec, ImplementsWrites, Promised!Spec
=============================================================================
