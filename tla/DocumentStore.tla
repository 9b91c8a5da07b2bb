---------------------------- MODULE DocumentStore ----------------------------
(***************************************************************************)
(* The off-chain document store of the API: the upload handler of          *)
(* api/routes.documents.js, the store of api/lib/documents.js and the two  *)
(* tables of api/schema.sql.  Only a file's SHA-256 goes on the ledger;    *)
(* the row under that hash is what the hash is later checked against.      *)
(*                                                                         *)
(* Each query of the handler is awaited, so requests interleave between    *)
(* queries, and a query is one step of the database.  A query may fail,    *)
(* with or without having taken effect, and the API may stop at any time;  *)
(* the tables stay.  What a query that failed did to a table it has done   *)
(* by the time its handler learns of the failure: a statement the database *)
(* carries out later still, for a handler that is gone, is left out.  A    *)
(* file stands for its hash: the hash is taken to tell files apart.        *)
(***************************************************************************)
EXTENDS Integers, FiniteSets

CONSTANTS
    Requests,        \* uploads that may be under way at the same time
    Roles,           \* the logged-in organisations
    Files,           \* the files they upload
    Names,           \* file names they give
    Size,            \* file -> its size in bytes
    NoRow,           \* no document under a hash
    NoRequest,
    MaxSize,         \* MAX_UPLOAD: a larger body never gets to the handler
    MaxUploads,      \* MAX_UPLOADS_PER_DAY
    MaxBytes         \* MAX_BYTES_PER_DAY

ASSUME RequestsAssumption ==
    /\ IsFiniteSet(Requests)
    /\ Requests # {}

ASSUME QuotaAssumption ==
    /\ MaxSize \in Nat
    /\ Size \in [Files -> 1 .. MaxSize]
    /\ MaxUploads \in Nat
    /\ MaxBytes \in Nat

VARIABLES
    documents,      \* hash -> row of the documents table
    usage,          \* role -> rows and bytes in upload_log since midnight
    request,        \* upload -> where its handler is
    acknowledged,   \* history: files whose upload was answered with success
    tampered        \* history: hashes whose row was changed behind the API

vars == <<documents, usage, request, acknowledged, tampered>>

Row == [content : Files, filename : Names]

Usage == [count : Nat, bytes : Nat]

\* "usage", "put" and "record" name the query the handler awaits.
Request ==
    [stage : {"usage", "put", "record"}, role : Roles, file : Files,
     name : Names]

ASSUME NothingAssumption == NoRow \notin Row /\ NoRequest \notin Request

TypeOK ==
    /\ documents \in [Files -> Row \cup {NoRow}]
    /\ usage \in [Roles -> Usage]
    /\ request \in [Requests -> Request \cup {NoRequest}]
    /\ acknowledged \in SUBSET Files
    /\ tampered \in SUBSET Files

Init ==
    /\ documents = [f \in Files |-> NoRow]
    /\ usage = [r \in Roles |-> [count |-> 0, bytes |-> 0]]
    /\ request = [u \in Requests |-> NoRequest]
    /\ acknowledged = {}
    /\ tampered = {}

-----------------------------------------------------------------------------

At(u, stage) == request[u] # NoRequest /\ request[u].stage = stage

AwaitNext(u, stage) == request' = [request EXCEPT ![u].stage = stage]

End(u) == request' = [request EXCEPT ![u] = NoRequest]

\* A body and a content type that pass the checks made before any query.
Receive(u, role, file, name) ==
    /\ request[u] = NoRequest
    /\ request' = [request EXCEPT
            ![u] = [stage |-> "usage", role |-> role, file |-> file,
                    name |-> name]]
    /\ UNCHANGED <<documents, usage, acknowledged, tampered>>

\* Mutant: the count is allowed to reach the cap before it refuses.
WithinQuotaInclusive(used, size) ==
    /\ used.count <= MaxUploads
    /\ used.bytes + size <= MaxBytes

WithinQuota(used, size) ==
    /\ used.count < MaxUploads
    /\ used.bytes + size <= MaxBytes

\* The answer to dailyUploadUsage, and the check made on it: 429 or go on.
CheckQuota(u) ==
    /\ At(u, "usage")
    /\ IF WithinQuota(usage[request[u].role], Size[request[u].file])
       THEN AwaitNext(u, "put")
       ELSE End(u)
    /\ UNCHANGED <<documents, usage, acknowledged, tampered>>

\* INSERT ... ON CONFLICT (hash) DO NOTHING
Insert(file, name) ==
    documents' = IF documents[file] = NoRow
                 THEN [documents EXCEPT
                        ![file] = [content |-> file, filename |-> name]]
                 ELSE documents

Put(u) ==
    /\ At(u, "put")
    /\ Insert(request[u].file, request[u].name)
    /\ AwaitNext(u, "record")
    /\ UNCHANGED <<usage, acknowledged, tampered>>

LogUpload(u) ==
    usage' = [usage EXCEPT
        ![request[u].role] = [count |-> @.count + 1,
                              bytes |-> @.bytes + Size[request[u].file]]]

\* The upload is accounted for and answered.
RecordUpload(u) ==
    /\ At(u, "record")
    /\ LogUpload(u)
    /\ acknowledged' = acknowledged \cup {request[u].file}
    /\ End(u)
    /\ UNCHANGED <<documents, tampered>>

\* Mutant: a failed insert is ignored and the upload accounted for.
PutFailsSilently(u) ==
    /\ At(u, "put")
    /\ AwaitNext(u, "record")
    /\ UNCHANGED <<documents, usage, acknowledged, tampered>>

\* The insert fails: the handler ends in an error, whether or not the row
\* was written.
PutFails(u) ==
    /\ At(u, "put")
    /\ Insert(request[u].file, request[u].name) \/ UNCHANGED documents
    /\ End(u)
    /\ UNCHANGED <<usage, acknowledged, tampered>>

\* Likewise for the two other queries.
OtherQueryFails(u) ==
    /\ \/ At(u, "usage") /\ UNCHANGED usage
       \/ At(u, "record") /\ (LogUpload(u) \/ UNCHANGED usage)
    /\ End(u)
    /\ UNCHANGED <<documents, acknowledged, tampered>>

\* The process stops and is started again: the handlers are gone.  A query
\* that was under way is one that failed first.
Restart ==
    /\ request' = [u \in Requests |-> NoRequest]
    /\ UNCHANGED <<documents, usage, acknowledged, tampered>>

\* date_trunc('day', now()) moves on, past the rows of yesterday.
Midnight ==
    /\ usage' = [r \in Roles |-> [count |-> 0, bytes |-> 0]]
    /\ UNCHANGED <<documents, request, acknowledged, tampered>>

\* Someone changes the bytes of a row in the database.
Tamper(hash, content) ==
    /\ documents[hash] # NoRow
    /\ content # documents[hash].content
    /\ documents' = [documents EXCEPT ![hash].content = content]
    /\ tampered' = tampered \cup {hash}
    /\ UNCHANGED <<usage, request, acknowledged>>

Next ==
    \/ \E u \in Requests :
            \/ \E r \in Roles, f \in Files, n \in Names : Receive(u, r, f, n)
            \/ CheckQuota(u)
            \/ Put(u)
            \/ RecordUpload(u)
            \/ PutFails(u)
            \/ OtherQueryFails(u)
    \/ Restart
    \/ Midnight
    \/ \E hash, content \in Files : Tamper(hash, content)

Spec == Init /\ [][Next]_vars

-----------------------------------------------------------------------------

\* The answer of GET /:hash/verify: the stored bytes, hashed again, against
\* the hash asked for.
Verify(hash) ==
    [stored |-> documents[hash] # NoRow,
     match |-> documents[hash] # NoRow /\ documents[hash].content = hash]

\* A hash a client was given to put on the ledger can be checked ever after:
\* its row is there, and verifies unless somebody changed the database.
AcknowledgedVerifies ==
    \A f \in acknowledged :
        /\ Verify(f).stored
        /\ f \notin tampered => Verify(f).match

\* Why it holds: a handler accounts for an upload, and answers it, with the
\* row in place, and the API writes no bytes under a hash but those hashed.
StoredBeforeAnswer ==
    /\ \A f \in acknowledged : documents[f] # NoRow
    /\ \A u \in Requests :
            At(u, "record") => documents[request[u].file] # NoRow
    /\ \A f \in Files \ tampered :
            documents[f] # NoRow => documents[f].content = f

\* The API never rewrites a stored document: uploading the same file again,
\* under another name or by another organisation, leaves the first row, and
\* bytes that differ were changed behind the API.
FirstUploadStands ==
    [][\A f \in Files :
            documents[f] # NoRow =>
                /\ documents'[f] # NoRow
                /\ documents'[f].filename = documents[f].filename
                /\ f \notin tampered'
                        => documents'[f].content = documents[f].content]_vars

\* Uploads of a role past the check and not yet accounted for.
Unaccounted(r) ==
    {u \in Requests : /\ request[u] # NoRequest
                      /\ request[u].stage \in {"put", "record"}
                      /\ request[u].role = r}

\* The quota is read before the upload and the upload accounted for after,
\* so requests under way together may pass the caps; by no more than one
\* upload each beyond the first, in number and in bytes, on any day.
OvershootBounded ==
    \A r \in Roles :
        LET others == Cardinality(Requests) - 1
        IN  /\ usage[r].count + Cardinality(Unaccounted(r))
                    <= MaxUploads + others
            /\ usage[r].bytes <= MaxBytes + others * MaxSize

=============================================================================
