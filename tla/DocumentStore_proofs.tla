------------------------- MODULE DocumentStore_proofs -------------------------
(***************************************************************************)
(* The document store keeps its types, what it acknowledged can be         *)
(* verified, the first upload stands and the quota is passed by no more    *)
(* than the requests under way: for every number of requests, every set    *)
(* of files and sizes and every cap.                                       *)
(***************************************************************************)
EXTENDS DocumentStore, FiniteSetTheorems, TLAPS

(***************************************************************************)
(* Every variable keeps its type.                                          *)
(***************************************************************************)
LEMMA InitType == Init => TypeOK
BY DEF Init, TypeOK, Usage

LEMMA LogUploadType ==
  ASSUME TypeOK, NEW u \in Requests, At(u, "record"), LogUpload(u)
  PROVE  usage' \in [Roles -> Usage]
BY QuotaAssumption DEF TypeOK, At, LogUpload, Request, Usage

LEMMA InsertType ==
  ASSUME TypeOK, NEW file \in Files, NEW name \in Names, Insert(file, name)
  PROVE  documents' \in [Files -> Row \cup {NoRow}]
BY DEF TypeOK, Insert, Row

LEMMA AwaitNextType ==
  ASSUME TypeOK, NEW u \in Requests, request[u] # NoRequest,
         NEW stage \in {"put", "record"}, AwaitNext(u, stage)
  PROVE  request' \in [Requests -> Request \cup {NoRequest}]
BY DEF TypeOK, AwaitNext, Request

LEMMA EndType ==
  ASSUME TypeOK, NEW u \in Requests, End(u)
  PROVE  request' \in [Requests -> Request \cup {NoRequest}]
BY DEF TypeOK, End

LEMMA NextType == TypeOK /\ [Next]_vars => TypeOK'
<1> SUFFICES ASSUME TypeOK, [Next]_vars PROVE TypeOK'
  OBVIOUS
<1>1. ASSUME NEW u \in Requests, NEW r \in Roles, NEW f \in Files,
             NEW n \in Names, Receive(u, r, f, n)
      PROVE  TypeOK'
  BY <1>1 DEF Receive, TypeOK, Request
<1>2. ASSUME NEW u \in Requests, CheckQuota(u)
      PROVE  TypeOK'
  <2>1. request' \in [Requests -> Request \cup {NoRequest}]
    BY <1>2, AwaitNextType, EndType DEF CheckQuota, At
  <2>2. QED
    BY <1>2, <2>1 DEF CheckQuota, TypeOK
<1>3. ASSUME NEW u \in Requests, Put(u)
      PROVE  TypeOK'
  <2>1. request[u] # NoRequest /\ request[u] \in Request
    BY <1>3 DEF Put, At, TypeOK
  <2>2. documents' \in [Files -> Row \cup {NoRow}]
    BY <1>3, <2>1, InsertType DEF Put, Request
  <2>3. request' \in [Requests -> Request \cup {NoRequest}]
    BY <1>3, <2>1, AwaitNextType DEF Put
  <2>4. QED
    BY <1>3, <2>2, <2>3 DEF Put, TypeOK
<1>4. ASSUME NEW u \in Requests, RecordUpload(u)
      PROVE  TypeOK'
  <2>1. request[u].file \in Files
    BY <1>4 DEF RecordUpload, At, TypeOK, Request
  <2>2. QED
    BY <1>4, <2>1, LogUploadType, EndType DEF RecordUpload, TypeOK
<1>5. ASSUME NEW u \in Requests, PutFails(u)
      PROVE  TypeOK'
  <2>1. request[u] \in Request
    BY <1>5 DEF PutFails, At, TypeOK
  <2>2. documents' \in [Files -> Row \cup {NoRow}]
    BY <1>5, <2>1, InsertType DEF PutFails, Request, TypeOK
  <2>3. QED
    BY <1>5, <2>2, EndType DEF PutFails, TypeOK
<1>6. ASSUME NEW u \in Requests, OtherQueryFails(u)
      PROVE  TypeOK'
  BY <1>6, LogUploadType, EndType DEF OtherQueryFails, TypeOK
<1>7. CASE Restart
  BY <1>7 DEF Restart, TypeOK
<1>8. CASE Midnight
  BY <1>8 DEF Midnight, TypeOK, Usage
<1>9. ASSUME NEW hash \in Files, NEW content \in Files, Tamper(hash, content)
      PROVE  TypeOK'
  BY <1>9 DEF Tamper, TypeOK, Row
<1>10. CASE UNCHANGED vars
  BY <1>10 DEF vars, TypeOK
<1>11. QED
  BY <1>1, <1>2, <1>3, <1>4, <1>5, <1>6, <1>7, <1>8, <1>9, <1>10 DEF Next

THEOREM StoreTypeCorrect == Spec => []TypeOK
BY InitType, NextType, PTL DEF Spec

-----------------------------------------------------------------------------
(***************************************************************************)
(* Rows stay, whatever is done to them.                                    *)
(***************************************************************************)
LEMMA InsertKeeps ==
  ASSUME TypeOK, NEW file \in Files, NEW name \in Names, Insert(file, name)
  PROVE  /\ documents'[file] # NoRow
         /\ \A f \in Files :
                documents[f] # NoRow => documents'[f] = documents[f]
         /\ \A f \in Files :
                documents[f] = NoRow /\ documents'[f] # NoRow
                    => documents'[f].content = f
<1>1. [content |-> file, filename |-> name] # NoRow
  BY NothingAssumption DEF Row
<1>2. QED
  BY <1>1 DEF TypeOK, Insert

LEMMA TamperKeeps ==
  ASSUME TypeOK, NEW hash \in Files, NEW content \in Files,
         Tamper(hash, content)
  PROVE  \A f \in Files :
            /\ documents[f] # NoRow <=> documents'[f] # NoRow
            /\ documents[f] # NoRow
                    => documents'[f].filename = documents[f].filename
            /\ f # hash => documents'[f] = documents[f]
<1>1. documents[hash] \in Row
  BY DEF TypeOK, Tamper
<1>2. /\ documents'[hash] \in Row
      /\ documents'[hash].filename = documents[hash].filename
  BY <1>1 DEF TypeOK, Tamper, Row
<1>3. QED
  BY <1>1, <1>2, NothingAssumption DEF TypeOK, Tamper

LEMMA NextDocuments ==
  ASSUME TypeOK, [Next]_vars
  PROVE  /\ \A f \in Files :
                documents[f] # NoRow =>
                    /\ documents'[f] # NoRow
                    /\ documents'[f].filename = documents[f].filename
                    /\ f \notin tampered'
                            => documents'[f].content = documents[f].content
         /\ \A f \in Files :
                documents[f] = NoRow /\ documents'[f] # NoRow
                    => documents'[f].content = f
         /\ tampered \subseteq tampered'
<1>1. ASSUME NEW u \in Requests, Put(u) \/ PutFails(u),
             Insert(request[u].file, request[u].name)
      PROVE  /\ \A f \in Files :
                    documents[f] # NoRow => documents'[f] = documents[f]
             /\ \A f \in Files :
                    documents[f] = NoRow /\ documents'[f] # NoRow
                        => documents'[f].content = f
             /\ tampered' = tampered
  <2>1. request[u].file \in Files /\ request[u].name \in Names
    BY <1>1 DEF Put, PutFails, At, TypeOK, Request
  <2>2. QED
    BY <1>1, <2>1, InsertKeeps DEF Put, PutFails
<1>2. ASSUME NEW hash \in Files, NEW content \in Files, Tamper(hash, content)
      PROVE  /\ tampered' = tampered \cup {hash}
             /\ \A f \in Files : documents[f] # NoRow <=> documents'[f] # NoRow
             /\ \A f \in Files : documents[f] # NoRow
                    => documents'[f].filename = documents[f].filename
             /\ \A f \in Files : f # hash => documents'[f] = documents[f]
  BY <1>2, TamperKeeps DEF Tamper
<1>3. \/ UNCHANGED documents /\ UNCHANGED tampered
      \/ \E u \in Requests : /\ Put(u) \/ PutFails(u)
                             /\ Insert(request[u].file, request[u].name)
      \/ \E hash, content \in Files : Tamper(hash, content)
  BY DEF Next, vars, Receive, CheckQuota, Put, RecordUpload, PutFails,
         OtherQueryFails, Restart, Midnight
<1>4. QED
  BY <1>1, <1>2, <1>3

(***************************************************************************)
(* The first upload of a file stands.                                      *)
(***************************************************************************)
THEOREM FirstStands == Spec => FirstUploadStands
<1>1. TypeOK /\ [Next]_vars =>
        [\A f \in Files :
            documents[f] # NoRow =>
                /\ documents'[f] # NoRow
                /\ documents'[f].filename = documents[f].filename
                /\ f \notin tampered'
                        => documents'[f].content = documents[f].content]_vars
  BY NextDocuments
<1>2. QED
  BY <1>1, StoreTypeCorrect, PTL DEF Spec, FirstUploadStands

(***************************************************************************)
(* A file that was acknowledged is stored, and verifies unless its row was *)
(* changed in the database.                                                *)
(***************************************************************************)
LEMMA NextStored ==
  ASSUME TypeOK, StoredBeforeAnswer, [Next]_vars
  PROVE  StoredBeforeAnswer'
<1>1. \A f \in acknowledged' : documents'[f] # NoRow
  <2>1. ASSUME NEW u \in Requests, RecordUpload(u)
        PROVE  /\ acknowledged' = acknowledged \cup {request[u].file}
               /\ request[u].file \in Files
               /\ documents[request[u].file] # NoRow
    BY <2>1 DEF RecordUpload, StoredBeforeAnswer, At, TypeOK, Request
  <2>2. UNCHANGED acknowledged \/ \E u \in Requests : RecordUpload(u)
    BY DEF Next, vars, Receive, CheckQuota, Put, PutFails, OtherQueryFails,
           Restart, Midnight, Tamper
  <2>3. QED
    BY <2>1, <2>2, NextDocuments DEF StoredBeforeAnswer, TypeOK
<1>2. ASSUME NEW u \in Requests, At(u, "record")'
      PROVE  documents'[request'[u].file] # NoRow
  <2>1. ASSUME NEW v \in Requests, Put(v)
        PROVE  documents'[request'[u].file] # NoRow
    <3>1. request[v].file \in Files /\ request[v].name \in Names
      BY <2>1 DEF Put, At, TypeOK, Request
    <3>2. CASE u = v
      <4>1. request'[u].file = request[u].file
        BY <2>1, <3>2 DEF Put, AwaitNext, At, TypeOK, Request
      <4>2. QED
        BY <2>1, <3>1, <3>2, <4>1, InsertKeeps DEF Put
    <3>3. CASE u # v
      <4>1. request'[u] = request[u]
        BY <2>1, <3>3 DEF Put, AwaitNext, TypeOK
      <4>2. At(u, "record") /\ request[u].file \in Files
        BY <1>2, <4>1 DEF At, TypeOK, Request
      <4>3. QED
        BY <4>1, <4>2, NextDocuments DEF StoredBeforeAnswer
    <3>4. QED
      BY <3>2, <3>3
  <2>2. ASSUME ~ \E v \in Requests : Put(v)
        PROVE  request'[u] = request[u]
    <3>1. ASSUME NEW v \in Requests, NEW r \in Roles, NEW f \in Files,
                 NEW n \in Names, Receive(v, r, f, n)
          PROVE  request'[u] = request[u]
      BY <1>2, <3>1 DEF Receive, At, TypeOK
    <3>2. ASSUME NEW v \in Requests, CheckQuota(v)
          PROVE  request'[u] = request[u]
      BY <1>2, <3>2 DEF CheckQuota, AwaitNext, End, At, TypeOK, Request
    <3>3. ASSUME NEW v \in Requests, End(v)
          PROVE  request'[u] = request[u]
      BY <1>2, <3>3 DEF End, At, TypeOK
    <3>4. CASE Restart
      BY <1>2, <3>4 DEF Restart, At
    <3>5. QED
      BY <2>2, <3>1, <3>2, <3>3, <3>4
      DEF Next, vars, RecordUpload, PutFails, OtherQueryFails, Midnight, Tamper
  <2>3. ASSUME request'[u] = request[u]
        PROVE  documents'[request'[u].file] # NoRow
    <3>1. At(u, "record") /\ request[u].file \in Files
      BY <1>2, <2>3 DEF At, TypeOK, Request
    <3>2. QED
      BY <2>3, <3>1, NextDocuments DEF StoredBeforeAnswer
  <2>4. QED
    BY <2>1, <2>2, <2>3
<1>3. \A f \in Files \ tampered' :
            documents'[f] # NoRow => documents'[f].content = f
  BY NextDocuments DEF StoredBeforeAnswer
<1>4. QED
  BY <1>1, <1>2, <1>3 DEF StoredBeforeAnswer

THEOREM AcknowledgedIsStored == Spec => []AcknowledgedVerifies
<1>1. Init => StoredBeforeAnswer
  BY DEF Init, StoredBeforeAnswer, At
<1>2. TypeOK /\ StoredBeforeAnswer /\ [Next]_vars => StoredBeforeAnswer'
  BY NextStored
<1>3. TypeOK /\ StoredBeforeAnswer => AcknowledgedVerifies
  BY DEF TypeOK, StoredBeforeAnswer, AcknowledgedVerifies, Verify
<1>4. QED
  BY <1>1, <1>2, <1>3, StoreTypeCorrect, PTL DEF Spec

-----------------------------------------------------------------------------
(***************************************************************************)
(* The quota is passed by at most one upload for each request beyond the   *)
(* first: the uploads past the check are among the requests, and each      *)
(* counts once, before it is accounted for or after.                       *)
(***************************************************************************)
LEMMA UnaccountedFinite ==
  ASSUME NEW r \in Roles
  PROVE  /\ IsFiniteSet(Unaccounted(r))
         /\ Cardinality(Unaccounted(r)) \in Nat
         /\ Cardinality(Unaccounted(r)) <= Cardinality(Requests)
BY RequestsAssumption, FS_Subset, FS_CardinalityType DEF Unaccounted

LEMMA NextUnaccounted ==
  ASSUME TypeOK, [Next]_vars, NEW r \in Roles
  PROVE  \/ /\ Unaccounted(r)' \subseteq Unaccounted(r)
            /\ usage'[r] = usage[r] \/ usage'[r].count = 0
         \/ /\ usage[r].count < MaxUploads
            /\ usage'[r] = usage[r]
         \/ \E u \in Unaccounted(r) :
                /\ Unaccounted(r)' = Unaccounted(r) \ {u}
                /\ usage'[r].count = usage[r].count + 1
<1>1. ASSUME NEW u \in Requests, NEW s \in Roles, NEW f \in Files,
             NEW n \in Names, Receive(u, s, f, n)
      PROVE  Unaccounted(r)' \subseteq Unaccounted(r) /\ usage'[r] = usage[r]
  BY <1>1 DEF Receive, Unaccounted, TypeOK, Request
<1>2. ASSUME NEW u \in Requests, CheckQuota(u)
      PROVE  /\ usage'[r] = usage[r]
             /\ \/ Unaccounted(r)' \subseteq Unaccounted(r)
                \/ usage[r].count < MaxUploads
  <2>1. CASE AwaitNext(u, "put") /\ WithinQuota(usage[request[u].role],
                                               Size[request[u].file])
    BY <1>2, <2>1
    DEF CheckQuota, AwaitNext, WithinQuota, Unaccounted, At, TypeOK, Request
  <2>2. CASE End(u)
    BY <1>2, <2>2 DEF CheckQuota, End, Unaccounted, TypeOK
  <2>3. QED
    BY <1>2, <2>1, <2>2 DEF CheckQuota
<1>3. ASSUME NEW u \in Requests, Put(u)
      PROVE  Unaccounted(r)' \subseteq Unaccounted(r) /\ usage'[r] = usage[r]
  BY <1>3 DEF Put, AwaitNext, Unaccounted, At, TypeOK, Request
<1>4. ASSUME NEW u \in Requests, End(u)
      PROVE  Unaccounted(r)' = Unaccounted(r) \ {u}
  BY <1>4 DEF End, Unaccounted, TypeOK
<1>5. ASSUME NEW u \in Requests, At(u, "record"), LogUpload(u), End(u)
      PROVE  \/ /\ Unaccounted(r)' \subseteq Unaccounted(r)
                /\ usage'[r] = usage[r]
             \/ \E v \in Unaccounted(r) :
                    /\ Unaccounted(r)' = Unaccounted(r) \ {v}
                    /\ usage'[r].count = usage[r].count + 1
  <2>1. CASE request[u].role = r
    BY <1>4, <1>5, <2>1 DEF LogUpload, Unaccounted, At, TypeOK, Usage
  <2>2. CASE request[u].role # r
    BY <1>4, <1>5, <2>2 DEF LogUpload, TypeOK
  <2>3. QED
    BY <2>1, <2>2
<1>6. CASE Restart
  BY <1>6 DEF Restart, Unaccounted
<1>7. CASE Midnight
  BY <1>7 DEF Midnight, Unaccounted
<1>8. QED
  BY <1>1, <1>2, <1>3, <1>4, <1>5, <1>6, <1>7
  DEF Next, vars, RecordUpload, PutFails, OtherQueryFails, Tamper, Unaccounted

CountBounded ==
  \A r \in Roles :
    usage[r].count + Cardinality(Unaccounted(r))
        <= MaxUploads + Cardinality(Requests) - 1

\* The number of a role's uploads of a day, those past the check included,
\* passes the cap by at most one for each request beyond the first.
THEOREM CountOvershoot == Spec => []CountBounded
<1>1. Cardinality(Requests) \in Nat \ {0}
  BY RequestsAssumption, FS_CardinalityType, FS_EmptySet
<1>2. Init => CountBounded
  <2> SUFFICES ASSUME Init, NEW r \in Roles
               PROVE  usage[r].count + Cardinality(Unaccounted(r))
                        <= MaxUploads + Cardinality(Requests) - 1
    BY DEF CountBounded
  <2>1. Unaccounted(r) = {} /\ usage[r].count = 0
    BY DEF Init, Unaccounted
  <2>2. QED
    BY <1>1, <2>1, FS_EmptySet, QuotaAssumption
<1>3. TypeOK /\ CountBounded /\ [Next]_vars => CountBounded'
  <2> SUFFICES ASSUME TypeOK, CountBounded, [Next]_vars, TypeOK',
                      NEW r \in Roles
               PROVE  usage'[r].count + Cardinality(Unaccounted(r)')
                        <= MaxUploads + Cardinality(Requests) - 1
    BY NextType DEF CountBounded
  <2> DEFINE now == Cardinality(Unaccounted(r))
             then == Cardinality(Unaccounted(r)')
  <2>1. /\ usage[r].count \in Nat /\ usage'[r].count \in Nat
        /\ now \in Nat /\ then \in Nat /\ then <= Cardinality(Requests)
        /\ IsFiniteSet(Unaccounted(r))
        /\ usage[r].count + now <= MaxUploads + Cardinality(Requests) - 1
    <3>1. \A S \in SUBSET Requests :
            /\ Cardinality(S) \in Nat
            /\ Cardinality(S) <= Cardinality(Requests)
      BY RequestsAssumption, FS_Subset, FS_CardinalityType
    <3>2. Unaccounted(r)' \in SUBSET Requests
      BY DEF Unaccounted
    <3>3. QED
      BY <3>1, <3>2, UnaccountedFinite DEF TypeOK, Usage, CountBounded
  <2>2. CASE /\ Unaccounted(r)' \subseteq Unaccounted(r)
             /\ usage'[r] = usage[r] \/ usage'[r].count = 0
    <3>1. then <= now
      BY <2>1, <2>2, FS_Subset
    <3>2. QED
      BY <1>1, <2>1, <2>2, <3>1, QuotaAssumption
  <2>3. CASE usage[r].count < MaxUploads /\ usage'[r] = usage[r]
    BY <1>1, <2>1, <2>3, QuotaAssumption
  <2>4. CASE \E u \in Unaccounted(r) :
                /\ Unaccounted(r)' = Unaccounted(r) \ {u}
                /\ usage'[r].count = usage[r].count + 1
    <3>1. then = now - 1
      BY <2>1, <2>4, FS_RemoveElement
    <3>2. QED
      BY <1>1, <2>1, <2>4, <3>1, QuotaAssumption
  <2>5. QED
    BY <2>2, <2>3, <2>4, NextUnaccounted
<1>4. QED
  BY <1>2, <1>3, StoreTypeCorrect, PTL DEF Spec

-----------------------------------------------------------------------------
(***************************************************************************)
(* The bytes.  An upload past the check may be larger than the room that   *)
(* is left when it is accounted for, but the one that passed it last had   *)
(* room for itself, and each other one is at most of the largest size.     *)
(***************************************************************************)
Worth(k) == k * MaxSize

LEMMA WorthGrows ==
  /\ \A k \in Nat : Worth(k) \in Nat /\ Worth(k + 1) = Worth(k) + MaxSize
  /\ \A j, k \in Nat : j <= k => Worth(j) <= Worth(k)
<1>1. \A k \in Nat : Worth(k) \in Nat /\ Worth(k + 1) = Worth(k) + MaxSize
  BY QuotaAssumption DEF Worth
<1>2. ASSUME NEW j \in Nat, NEW k \in Nat, j <= k
      PROVE  j * MaxSize <= k * MaxSize
  <2>1. PICK d \in Nat : k = j + d
    <3>1. k - j \in Nat /\ k = j + (k - j)
      BY <1>2
    <3>2. QED
      BY <3>1
  <2>2. k * MaxSize = j * MaxSize + d * MaxSize /\ d * MaxSize \in Nat
    BY <2>1, QuotaAssumption
  <2>3. j * MaxSize \in Nat
    BY QuotaAssumption
  <2>4. QED
    BY <2>2, <2>3
<1>3. QED
  BY <1>1, <1>2 DEF Worth

SizeOf(u) == Size[request[u].file]

LEMMA SizeIsBounded ==
  ASSUME TypeOK, NEW u \in Requests, request[u] # NoRequest
  PROVE  SizeOf(u) \in Nat /\ SizeOf(u) <= MaxSize
BY QuotaAssumption DEF TypeOK, Request, SizeOf

\* What a step does to the uploads of a role past the check, and to its bytes.
LEMMA NextBytes ==
  ASSUME TypeOK, [Next]_vars, NEW r \in Roles
  PROVE  /\ \A u \in Unaccounted(r)' :
                request[u] # NoRequest /\ SizeOf(u)' = SizeOf(u)
         /\ \/ /\ Unaccounted(r)' \subseteq Unaccounted(r)
               /\ usage'[r] = usage[r] \/ usage'[r].bytes = 0
            \/ \E u \in Unaccounted(r)' :
                /\ usage[r].bytes + SizeOf(u) <= MaxBytes
                /\ usage'[r] = usage[r]
            \/ \E u \in Unaccounted(r) :
                /\ Unaccounted(r)' = Unaccounted(r) \ {u}
                /\ usage'[r].bytes = usage[r].bytes + SizeOf(u)
<1> USE DEF SizeOf
<1>1. ASSUME NEW u \in Requests, NEW s \in Roles, NEW f \in Files,
             NEW n \in Names, Receive(u, s, f, n)
      PROVE  /\ Unaccounted(r)' \subseteq Unaccounted(r)
             /\ usage'[r] = usage[r]
             /\ \A v \in Unaccounted(r)' : request'[v] = request[v]
  BY <1>1 DEF Receive, Unaccounted, TypeOK, Request
<1>2. ASSUME NEW u \in Requests, CheckQuota(u)
      PROVE  /\ usage'[r] = usage[r]
             /\ \A v \in Unaccounted(r)' :
                    /\ request[v] # NoRequest
                    /\ request'[v].file = request[v].file
             /\ \/ Unaccounted(r)' \subseteq Unaccounted(r)
                \/ /\ u \in Unaccounted(r)'
                   /\ usage[r].bytes + SizeOf(u) <= MaxBytes
  <2>1. CASE AwaitNext(u, "put") /\ WithinQuota(usage[request[u].role],
                                               Size[request[u].file])
    BY <1>2, <2>1
    DEF CheckQuota, AwaitNext, WithinQuota, Unaccounted, At, TypeOK, Request
  <2>2. CASE End(u)
    BY <1>2, <2>2 DEF CheckQuota, End, Unaccounted, TypeOK
  <2>3. QED
    BY <1>2, <2>1, <2>2 DEF CheckQuota
<1>3. ASSUME NEW u \in Requests, Put(u)
      PROVE  /\ Unaccounted(r)' \subseteq Unaccounted(r)
             /\ usage'[r] = usage[r]
             /\ \A v \in Unaccounted(r)' :
                    /\ request[v] # NoRequest
                    /\ request'[v].file = request[v].file
  BY <1>3 DEF Put, AwaitNext, Unaccounted, At, TypeOK, Request
<1>4. ASSUME NEW u \in Requests, End(u)
      PROVE  /\ Unaccounted(r)' = Unaccounted(r) \ {u}
             /\ \A v \in Unaccounted(r)' : request'[v] = request[v]
  BY <1>4 DEF End, Unaccounted, TypeOK
<1>5. ASSUME NEW u \in Requests, At(u, "record"), LogUpload(u), End(u)
      PROVE  \/ /\ Unaccounted(r)' \subseteq Unaccounted(r)
                /\ usage'[r] = usage[r]
             \/ \E v \in Unaccounted(r) :
                    /\ Unaccounted(r)' = Unaccounted(r) \ {v}
                    /\ usage'[r].bytes = usage[r].bytes + SizeOf(v)
  <2>1. CASE request[u].role = r
    BY <1>4, <1>5, <2>1 DEF LogUpload, Unaccounted, At, TypeOK, Usage
  <2>2. CASE request[u].role # r
    BY <1>4, <1>5, <2>2 DEF LogUpload, TypeOK
  <2>3. QED
    BY <2>1, <2>2
<1>6. CASE Restart
  BY <1>6 DEF Restart, Unaccounted
<1>7. CASE Midnight
  BY <1>7 DEF Midnight, Unaccounted
<1>8. ASSUME NEW hash \in Files, NEW content \in Files, Tamper(hash, content)
      PROVE  UNCHANGED <<usage, request>>
  BY <1>8 DEF Tamper
<1>e. ASSUME NEW u \in Requests, End(u)
      PROVE  \A v \in Unaccounted(r)' :
                request[v] # NoRequest /\ SizeOf(v)' = SizeOf(v)
  BY <1>4, <1>e DEF Unaccounted
<1>9. ASSUME NEW u \in Requests,
             RecordUpload(u) \/ PutFails(u) \/ OtherQueryFails(u)
      PROVE  /\ End(u)
             /\ usage'[r] = usage[r] \/ (At(u, "record") /\ LogUpload(u))
  BY <1>9 DEF RecordUpload, PutFails, OtherQueryFails
<1>10. CASE UNCHANGED vars
  BY <1>10 DEF vars, Unaccounted
<1>11. ASSUME UNCHANGED <<usage, request>>
       PROVE  /\ usage'[r] = usage[r]
              /\ Unaccounted(r)' = Unaccounted(r)
              /\ \A v \in Unaccounted(r) : request[v] # NoRequest
  BY <1>11 DEF Unaccounted
<1>12. CASE \E u \in Requests :
                RecordUpload(u) \/ PutFails(u) \/ OtherQueryFails(u)
  BY <1>12, <1>9, <1>e, <1>4, <1>5
<1>13. QED
  BY <1>1, <1>2, <1>3, <1>6, <1>7, <1>8, <1>10, <1>11, <1>12
     DEF Next, vars, Unaccounted

\* What the bytes of a role will be when those past the check are counted in,
\* u with its own size and the others with the largest.
Expected(r, u) ==
  usage[r].bytes + SizeOf(u) + Worth(Cardinality(Unaccounted(r)) - 1)

Limit == MaxBytes + Worth(Cardinality(Requests) - 1)

BytesInv(r) ==
  /\ usage[r].bytes <= Limit
  /\ Unaccounted(r) # {} => \E u \in Unaccounted(r) : Expected(r, u) <= Limit

\* It stays below the limit when uploads leave, accounted for or not.
LEMMA LeavingKeepsBytes ==
  ASSUME TypeOK, TypeOK', NEW r \in Roles, BytesInv(r),
         Unaccounted(r)' \subseteq Unaccounted(r),
         \A u \in Unaccounted(r)' : SizeOf(u)' = SizeOf(u),
         \/ usage'[r].bytes <= usage[r].bytes
         \/ \E v \in Unaccounted(r) :
                /\ Unaccounted(r)' = Unaccounted(r) \ {v}
                /\ usage'[r].bytes = usage[r].bytes + SizeOf(v)
  PROVE  BytesInv(r)'
<1> DEFINE now == Cardinality(Unaccounted(r))
           then == Cardinality(Unaccounted(r)')
           past == Unaccounted(r)
           next == Unaccounted(r)'
           b == usage[r].bytes
           c == usage'[r].bytes
<1>1. /\ b \in Nat /\ c \in Nat /\ Limit \in Int
      /\ IsFiniteSet(past) /\ IsFiniteSet(next)
      /\ now \in Nat /\ then \in Nat
      /\ past \subseteq Requests /\ next \subseteq past
  <2>1. Cardinality(Requests) \in Nat \ {0}
    BY RequestsAssumption, FS_CardinalityType, FS_EmptySet
  <2>2. Limit \in Int
    <3>1. Cardinality(Requests) - 1 \in Nat
      BY <2>1
    <3>2. QED
      BY <3>1, WorthGrows, QuotaAssumption DEF Limit
  <2>3. past \subseteq Requests
    BY DEF Unaccounted
  <2>4. IsFiniteSet(past) /\ IsFiniteSet(next)
    BY <2>3, RequestsAssumption, FS_Subset
  <2>5. QED
    BY <2>2, <2>3, <2>4, FS_CardinalityType DEF TypeOK, Usage
<1>2. \A u \in past : SizeOf(u) \in Nat /\ SizeOf(u) <= MaxSize
  BY SizeIsBounded DEF Unaccounted
<1>3. MaxSize \in Nat
  BY QuotaAssumption
<1>4. past # {} => now >= 1
  BY <1>1, FS_EmptySet
<1>5. next # {} => then >= 1
  BY <1>1, FS_EmptySet
<1>6. next # past => then <= now - 1
  <2> SUFFICES ASSUME next # past PROVE then <= now - 1
    OBVIOUS
  <2>1. PICK x \in past : x \notin next
    BY <1>1
  <2>2. next \subseteq past \ {x} /\ IsFiniteSet(past \ {x})
    BY <1>1, <2>1, FS_RemoveElement
  <2>3. then <= Cardinality(past \ {x})
    BY <2>2, FS_Subset
  <2>4. Cardinality(past \ {x}) = now - 1
    BY <1>1, <2>1, FS_RemoveElement
  <2>5. QED
    BY <2>3, <2>4
<1>n. then <= now
  BY <1>1, FS_Subset
<1>7. b <= Limit
  BY DEF BytesInv
<1>8. past # {} => \E u \in past : b + SizeOf(u) + Worth(now - 1) <= Limit
  BY DEF BytesInv, Expected
<1>9. \/ c <= b
      \/ \E v \in past : next = past \ {v} /\ c = b + SizeOf(v)
  OBVIOUS
<1>10. \A u \in next : SizeOf(u)' = SizeOf(u)
  OBVIOUS
<1>11. /\ c <= Limit
       /\ next # {} =>
            \E u \in next : c + SizeOf(u) + Worth(then - 1) <= Limit
  <2> HIDE DEF now, then, past, next, b, c
  <2>1. CASE past = {}
    BY <1>1, <1>7, <1>9, <2>1
  <2>2. CASE past # {}
    <3>1. PICK u \in past : b + SizeOf(u) + Worth(now - 1) <= Limit
      BY <1>8, <2>2
    <3>2. /\ now - 1 \in Nat /\ Worth(now - 1) \in Nat
          /\ SizeOf(u) \in Nat /\ SizeOf(u) <= MaxSize
      BY <1>1, <1>2, <1>4, <2>2, WorthGrows
    <3>3. ASSUME now >= 2
          PROVE  /\ Worth(now - 2) \in Nat
                 /\ Worth(now - 1) = Worth(now - 2) + MaxSize
      <4>1. now - 2 \in Nat /\ (now - 2) + 1 = now - 1
        BY <1>1, <3>3
      <4>2. QED
        BY <4>1, WorthGrows
    <3>4. ASSUME next # {}, next # past
          PROVE  /\ now >= 2
                 /\ Worth(then - 1) \in Nat
                 /\ Worth(then - 1) <= Worth(now - 2)
      <4>1. then >= 1 /\ then <= now - 1
        BY <1>5, <1>6, <3>4
      <4>2. then - 1 \in Nat /\ now - 2 \in Nat /\ then - 1 <= now - 2
        BY <1>1, <4>1
      <4>3. QED
        BY <1>1, <4>2, WorthGrows
    <3>5. CASE c <= b
      <4>1. c <= Limit
        BY <1>1, <1>7, <3>5
      <4>2. CASE u \in next
        <5>1. Worth(then - 1) \in Nat /\ Worth(then - 1) <= Worth(now - 1)
          <6>1. then - 1 \in Nat /\ then - 1 <= now - 1
            BY <1>1, <1>5, <1>n, <4>2
          <6>2. QED
            BY <3>2, <6>1, WorthGrows
        <5>2. QED
          BY <1>1, <3>1, <3>2, <3>5, <4>1, <4>2, <5>1
      <4>3. CASE u \notin next /\ next # {}
        <5>1. PICK w \in next : TRUE
          BY <4>3
        <5>2. SizeOf(w) \in Nat /\ SizeOf(w) <= MaxSize
          BY <1>1, <1>2, <5>1
        <5>3. c + SizeOf(w) + Worth(then - 1) <= Limit
          BY <1>1, <1>3, <3>1, <3>2, <3>3, <3>4, <3>5, <4>3, <5>2
        <5>4. QED
          BY <4>1, <5>1, <5>3
      <4>4. QED
        BY <4>1, <4>2, <4>3
    <3>6. ASSUME NEW v \in past, next = past \ {v}, c = b + SizeOf(v)
          PROVE  /\ c <= Limit
                 /\ next # {} =>
                        \E w \in next :
                            c + SizeOf(w) + Worth(then - 1) <= Limit
      <4>1. SizeOf(v) \in Nat /\ SizeOf(v) <= MaxSize
        BY <1>2
      <4>2. CASE u = v
        <5>1. c <= Limit
          BY <1>1, <3>1, <3>2, <3>6, <4>2
        <5>2. ASSUME NEW w \in next
              PROVE  c + SizeOf(w) + Worth(then - 1) <= Limit
          <6>1. SizeOf(w) \in Nat /\ SizeOf(w) <= MaxSize
            BY <1>1, <1>2
          <6>2. next # {} /\ next # past
            BY <3>6, <5>2
          <6>3. QED
            BY <1>1, <1>3, <3>1, <3>2, <3>3, <3>4, <3>6, <4>1, <4>2, <6>1, <6>2
        <5>3. QED
          BY <5>1, <5>2
      <4>3. CASE u # v
        <5>1. u \in next /\ next # {} /\ next # past
          BY <3>6, <4>3
        <5>2. c + SizeOf(u) + Worth(then - 1) <= Limit
          BY <1>1, <1>3, <3>1, <3>2, <3>3, <3>4, <3>6, <4>1, <5>1
        <5>3. c <= Limit
          BY <1>1, <3>2, <3>4, <5>1, <5>2
        <5>4. QED
          BY <5>1, <5>2, <5>3
      <4>4. QED
        BY <4>2, <4>3
    <3>7. QED
      BY <1>9, <3>5, <3>6
  <2>3. QED
    BY <2>1, <2>2
<1>12. QED
  BY <1>10, <1>11 DEF BytesInv, Expected, Limit

LEMMA NextBytesInv ==
  ASSUME TypeOK, TypeOK', [Next]_vars, NEW r \in Roles, BytesInv(r)
  PROVE  BytesInv(r)'
<1>1. CASE /\ Unaccounted(r)' \subseteq Unaccounted(r)
           /\ usage'[r] = usage[r] \/ usage'[r].bytes = 0
  <2>1. usage'[r].bytes <= usage[r].bytes
    BY <1>1 DEF TypeOK, Usage
  <2>2. QED
    BY <1>1, <2>1, NextBytes, LeavingKeepsBytes
<1>2. ASSUME NEW u \in Unaccounted(r)',
             usage[r].bytes + SizeOf(u) <= MaxBytes,
             usage'[r] = usage[r]
      PROVE  BytesInv(r)'
  <2> DEFINE then == Cardinality(Unaccounted(r)')
             size == SizeOf(u)
  <2>1. /\ size \in Nat
        /\ SizeOf(u)' = size
        /\ usage[r].bytes \in Nat
    <3>1. u \in Requests /\ request[u] # NoRequest /\ SizeOf(u)' = size
      BY NextBytes DEF Unaccounted
    <3>2. QED
      BY <3>1, SizeIsBounded DEF TypeOK, Usage
  <2>2. /\ then \in Nat /\ then >= 1 /\ then <= Cardinality(Requests)
        /\ Cardinality(Requests) \in Nat
    <3>1. Unaccounted(r)' \subseteq Requests
      BY DEF Unaccounted
    <3>2. IsFiniteSet(Unaccounted(r)') /\ then <= Cardinality(Requests)
      BY <3>1, RequestsAssumption, FS_Subset
    <3>3. QED
      BY <3>2, RequestsAssumption, FS_CardinalityType, FS_EmptySet
  <2>3. /\ Worth(then - 1) \in Nat /\ Worth(Cardinality(Requests) - 1) \in Nat
        /\ Worth(then - 1) <= Worth(Cardinality(Requests) - 1)
    <3> HIDE DEF then
    <3>1. /\ then - 1 \in Nat /\ Cardinality(Requests) - 1 \in Nat
          /\ then - 1 <= Cardinality(Requests) - 1
      BY <2>2
    <3>2. QED
      BY <3>1, WorthGrows
  <2>4. usage'[r].bytes + size + Worth(then - 1) <= Limit
    <3> HIDE DEF then, size
    <3>1. usage[r].bytes + size <= MaxBytes
      BY <1>2 DEF size
    <3>2. QED
      BY <1>2, <2>1, <2>3, <3>1, QuotaAssumption DEF Limit
  <2>5. usage'[r].bytes <= Limit
    <3> HIDE DEF then, size
    <3>1. usage[r].bytes + size <= MaxBytes
      BY <1>2 DEF size
    <3>2. QED
      BY <1>2, <2>1, <2>3, <3>1, QuotaAssumption DEF Limit
  <2>6. QED
    BY <2>1, <2>4, <2>5 DEF BytesInv, Expected, Limit
<1>3. ASSUME NEW u \in Unaccounted(r),
             Unaccounted(r)' = Unaccounted(r) \ {u},
             usage'[r].bytes = usage[r].bytes + SizeOf(u)
      PROVE  BytesInv(r)'
  <2>1. Unaccounted(r)' \subseteq Unaccounted(r)
    BY <1>3
  <2>2. QED
    BY <1>3, <2>1, NextBytes, LeavingKeepsBytes
<1>4. QED
  BY <1>1, <1>2, <1>3, NextBytes

\* Together the caps are passed by at most one upload for each request beyond
\* the first, in number and in bytes.
THEOREM QuotaOvershoot == Spec => []OvershootBounded
<1> DEFINE Inv == \A r \in Roles : BytesInv(r)
<1>1. Init => Inv
  <2> SUFFICES ASSUME Init, NEW r \in Roles PROVE BytesInv(r)
    OBVIOUS
  <2>1. Unaccounted(r) = {} /\ usage[r].bytes = 0
    BY DEF Init, Unaccounted
  <2>2. Worth(Cardinality(Requests) - 1) \in Nat
    <3>1. Cardinality(Requests) \in Nat \ {0}
      BY RequestsAssumption, FS_CardinalityType, FS_EmptySet
    <3>2. Cardinality(Requests) - 1 \in Nat
      BY <3>1
    <3>3. QED
      BY <3>2, WorthGrows
  <2>3. QED
    BY <2>1, <2>2, QuotaAssumption DEF BytesInv, Limit
<1>2. TypeOK /\ TypeOK' /\ Inv /\ [Next]_vars => Inv'
  BY NextBytesInv
<1>3. CountBounded /\ Inv => OvershootBounded
  <2> SUFFICES ASSUME CountBounded, NEW r \in Roles, BytesInv(r)
               PROVE  /\ usage[r].count + Cardinality(Unaccounted(r))
                            <= MaxUploads + (Cardinality(Requests) - 1)
                      /\ usage[r].bytes
                            <= MaxBytes + (Cardinality(Requests) - 1) * MaxSize
    BY DEF OvershootBounded
  <2>1. Cardinality(Requests) \in Nat /\ MaxUploads \in Nat
    BY RequestsAssumption, QuotaAssumption, FS_CardinalityType
  <2>2. MaxUploads + (Cardinality(Requests) - 1)
            = MaxUploads + Cardinality(Requests) - 1
    BY <2>1
  <2>3. QED
    BY <2>2 DEF CountBounded, BytesInv, Limit, Worth
<1> HIDE DEF Inv
<1>4. QED
  BY <1>1, <1>2, <1>3, StoreTypeCorrect, CountOvershoot, PTL DEF Spec

=============================================================================
