# A verification development for MACL

MACL keeps programme agreements between a donor, an NGO and an audit ministry
on a private QBFT ledger: three Solidity contracts hold the agreements, the
compliance records and the votes; a Node API signs transactions on behalf of
the organisations and serves reads to a browser dashboard. This directory holds
TLA+ models of it, TLC configurations that check them on small instances, and
TLAPS proofs of their safety properties for all instances.

## 1. Inventory

| part | state it keeps | operations | talks to |
|---|---|---|---|
| Agreement contract (`contracts/contracts/AgreementContract.sol`) | registry of organisations and its list, agreements, targets, committed spend, address of Compliance | register/remove, create, edit draft, finalise, commit | called by Compliance |
| Compliance Evaluation contract (`ComplianceEvaluationContract.sol`) | records, failing counters, spend requests, address of Verification | report (judged at once), request, mark approved / spent / final / unverified | reads Agreement and calls its `commitSpend`; called by Verification |
| Verification Workflow contract (`VerificationWorkflowContract.sol`) | window, votes and counters of records and requests, pinned block hashes | endorse, decline, mark unverified, set window | reads and calls Compliance |
| Deployment (`contracts/scripts/deploy.js`) | none | deploys, wires, registers, sets the window, one transaction at a time | the contracts |
| API chain library (`api/lib/chain.js`) | event-log cache, scans in flight | cached scans, multi-call reads, node comparison, signed writes | three validators |
| API sessions (`api/lib/auth.js`, `routes.auth.js`) | revoked token ids with their timers, in memory | login, verify, logout | the pages, through every call |
| API routes and audit log (`api/routes.js`, `lib/audit.js`) | append-only file | role check, write, audit | chain library |
| Document store (`api/lib/documents.js`, `routes.documents.js`) | documents by hash, upload log in Postgres | quota check, store, verify, download | Postgres |
| Dashboard, session (`dashboard/js/chain.js`, `ui.js`, `login.js`) | token and role in a localStorage all tabs share | sign in and out, a 401 drops the session | API sessions |
| Dashboard, forms (`views/spend.js`, `views/reports.js`) | file picked and its hash, lists loaded, selects, warning | upload, check, submit, settle | document store, routes |
| Dashboard, agreements (`views/agreements.js`) | the list as last read, the modal | create with its targets, edit and remove by position, finalise | multi-call reads, routes |
| Dashboard, tables and overview (`views/audit.js`, `spend.js`, `overview.js`) | rows as last read | show status, to-do list and badge, offer votes and closing | multi-call reads, routes |
| Network (`blockchain/`) | the QBFT chain | | external (Hyperledger Besu) |
| Evaluation (`evaluation/`) | none of the system's | drives the API and measures | API |

What is hard. On the ledger every transaction is atomic and serial, so the
difficulty is in *sequences*: counters kept beside the flags they count, an
outcome settled by equality with a threshold, a window that the owner moves
while records are open, two pending requests competing for one budget, an
approval in one contract and its commit in another, a draft edited until the
moment records depend on it, and a deployment that may stop half-way. In the
API the difficulty is concurrency: scans shared by readers, reads made of many
calls while blocks arrive, a quota checked before a store that takes time,
nonces handed out to requests that overlap, revocations that live in memory and
on timers. In the dashboard it is replies: no control is disabled while a call
is out, so replies come late, in any order, to a form or a session that has
moved on, or not at all though the call was carried out.
`PROJECT.json` lists each of these under `hazards` with its line.

## 2. Modules

| module | models |
|---|---|
| `AgreementContract` | the Agreement contract; one operator per external function |
| `ComplianceEvaluationContract` | the Compliance contract, on top of it |
| `VerificationWorkflowContract` | the Verification contract, on top of both |
| `MACL` | the three contracts on one ledger, the block clock, both initial states, the properties and the inductive invariant |
| `RecordVerification` | abstract specification: what a reader may rely on about one record |
| `SpendBudget` | abstract specification: what a reader may rely on about one budget |
| `WriteOnce` | abstract specification: what a client may rely on about the writes it asks for |
| `MACLRefinement` | the refinement mappings from `MACL` to the two |
| `Deployment` | `deploy.js` as a process over `MACL` that may stop anywhere, everybody else, the owner included, acting meanwhile |
| `LogCache` | `queryLogs` of `api/lib/chain.js`: the cache of one event, shared scans, paging |
| `DocumentStore` | the upload handler, the store and its two tables |
| `SignedWrites` | the write routes, signing and sending, the audit log; the refinement mapping to `WriteOnce` |
| `Sessions` | tokens, deny-list, timers and restarts of the API; the storage and the pages of a browser with several tabs |
| `EvidenceForm` | the file half of the spend and report forms, and the settlement with a receipt |
| `SpendForm` | the agreement and amount half of the spend form: old lists, the budget check, the compliance warning |
| `NodePanel` | `getNodeStates` and the overview's integrity panel |
| `AgreementEditor` | the agreements page over the Agreement contract, with the reads of `getAgreements` |
| `Dashboard` | the last four together: one page is open at a time |
| `LedgerPages` | rows of the audit trail, the request table, the to-do list and the badge, read call by call over `MACL` |
| `MCMACL`, `MCDeployment`, `MCLedgerPages`, `MCDocumentStore`, `MCDashboard` | values for TLC |
| `MACL_proofs` | proofs: types and inductive invariant of the ledger |
| `MACLSteps_proofs` | proofs: what no transaction may do, the deployment, sums, the two refinements |
| `LedgerPages_proofs` | proofs: rows are true |
| `Dashboard_proofs` | proofs: each page, and the pages together |
| `LogCache_proofs`, `DocumentStore_proofs`, `SignedWrites_proofs`, `Sessions_proofs` | proofs about the module of that name |

How the model corresponds to the contracts:

- One operator stands for one external function, with `msg.sender` as its first
  parameter. A failing `require` reverts the whole transaction, so every
  `require`, those of called contracts included, is a conjunct of the guard. A
  call into another contract is a conjunct of the caller's operator:
  `EndorseSpend` contains `MarkSpendApproved`, which contains `CommitSpend`, so
  a commit that does not fit takes the vote down with it. Where another module
  asks whether a call would be accepted, the `require`s have a name of their own
  (`MayEndorse`, `MayCommit`, ...).
- Mappings are total functions whose unset entries hold Solidity's zero value;
  ids start at 1. A mapping from an address to a flag is the set of addresses
  whose flag is up, which is also how the signatories array is held
  (`isSignatory` is its only reader).
- Checked arithmetic matters in one place, `evaluatedAt + verificationWindow`,
  where the window is the owner's free choice: `DeadlineComputable` bounds the
  sum by `MaxUint`, and a call that computes a larger one reverts. All other
  sums are bounded by a budget or count calls.
- `now` is `block.timestamp`; `NextBlock` moves it. Any number of transactions
  may share a block. The block hash pinned at the threshold is identified by the
  timestamp of the block that pins it.
- Left out: names, indicators, units, purposes, the times a request was raised
  and settled, and events; no `require` and no property reads them. The owner
  wires the addresses `deploy.js` wires, not arbitrary ones.

How the model corresponds to the API:

- The API is one thread of Node.js, so everything a handler does between two
  awaits is one step. In `LogCache` a step is the answer to one request to the
  node (`HeadAnswered`, `PageAnswered`, or `NodeFails`); in `DocumentStore` it
  is the answer to one query (`CheckQuota`, `Put`, `RecordUpload`, or a query
  that fails with or without effect).
- In `LogCache` a list of logs is the number of copies of each log: nothing in
  `queryLogs` depends on their order. The nine cached events have keys of their
  own and share nothing, so one is modelled; `warmCache` is one more reader.
  The node answers with the head it has when it answers. The provider's own
  short-lived reuse of identical requests is outside `src/` and left out.
- In `DocumentStore` a file stands for its SHA-256, which is taken to be
  injective on the files at hand. `usage` is what `dailyUploadUsage` computes
  from `upload_log`, and `Midnight` moves `date_trunc('day', now())` past the
  rows of the day. A query that fails has had its effect, if any, by the time
  its handler ends. A statement that Postgres carried out only after its
  connection was given up is left out; were there such, an upload no request
  stands for any more could still be accounted for, and the caps be passed by
  one more upload for each than `OvershootBounded` says.
- In `SignedWrites` a write asks for the next nonce (`NonceAnswered`), has the
  gas estimated and is refused there (`EstimateRefused`) or broadcast
  (`Broadcast`, `BroadcastRefused`, `BroadcastReplyLost`), and waits for its
  receipt (`Confirmed`, `RevertedOnChain`, `Replaced`); any of these calls may
  fail (`NodeFails`). The steps are those of an ethers wallet's
  `sendTransaction` and `wait`; the wallet is made anew for each write, so it
  remembers no nonce. The error handler of the code, `send`, decides the answer
  (`ErrorStatus`): an error with a reason, of a replaced transaction too, is a
  400. Writing the audit line and answering are one step, as `res.json` is
  wrapped. The contracts are free to accept or refuse a call, in the estimate
  and again in the block. `Mine`, `Forget` and the pool are the node's. For
  `WriteOnce` a request has been told nothing, is open, or was answered that it
  is done (200), refused (400, 403) or neither (anything else, or no answer); a
  write is performed when its transaction takes effect.
- In `Sessions` a token is its place in the order of issue. A call carries the
  token stored when it is made; the API handles it in one step (`LoginGranted`,
  `LogoutServed`, `Served`, `Refused`), its answer is another (`Answered`), and
  either may be lost. Passwords and the limit on attempts are one
  nondeterministic refusal. `Forgotten` is the timer that clears a revocation;
  `Restart` clears them all.
- `LedgerPages` reads a row by the calls of `getRecords`, `getSpend` and
  `getIntegrity` in their order, any transaction of `MACL` coming between two.
  `AgreementEditor` does the same for `getAgreements`; `NodePanel` asks all
  nodes for their heights and then, at the lowest, for their blocks.
- Variables marked *history* or *ghost* only record what properties need (what was
  acknowledged, owed to a reader, or changed behind the API).

How the model corresponds to the dashboard:

- A page is one thread. A handler up to its next `await` is one step
  (`PickFile`, `Send`, `ClickMarkSpent`, ...), the reply another (`UploadReply`,
  `SpendRecorded`, ...), and a failure comes in two kinds: the call was carried out,
  or it was not. Nothing orders replies, and nothing stops a user from acting
  before one.
- Each page keeps as much of the server as its properties need: `EvidenceForm`
  the hashes stored and recorded, `SpendForm` budgets and commitments of a few
  agreements, `AgreementEditor` and `LedgerPages` the contracts themselves.
- Only one page is open in a tab and only its scripts run, so `Dashboard` adds
  up the pages' states and does not multiply them. What two tabs share, the
  localStorage, is in `Sessions`; what two users share, the ledger, is in
  `AgreementEditor` (the donor's other tab) and `LedgerPages`.

`Spec` of `MACL` starts from the three constructors: wiring and registration
are ordinary
transactions of the owner that anyone else's may precede. `DeployedSpec` starts
from the ledger `deploy.js` leaves; `Deployment_script` checks that it does.

## 3. What is checked

| run | instance | what it shows |
|---|---|---|
| `MACL_records` | three organisations, one agreement, two records, windows 1, 2 and one that overflows, clock to 4 | `FinalisedByTwoSignatories`, `OutcomesExclusive`, `SettledOnItsSideOfTheDeadline`, `HistoryAppendOnly`; the contracts implement `RecordVerification` |
| `MACL_spend` | one agreement, budgets 2 and 3, three requests of one or two units, two receipts | `ApprovedByTwoOthers`, `CommittedIsApproved`, `NeverOverspent`, `HistoryAppendOnly`; the contracts implement `SpendBudget` |
| `MACL_drafts` | one agreement with up to two targets, one record and one request, edits and reports in any order | `TypeOK`, `VerdictRecomputable` |
| `Deployment_script` | from the constructors, three registrations by the script or others, one record and one request | `WiredBeforeSettling`, `ScriptLeavesDeployed` |
| `LogCache_reads` | two readers, pages of two blocks, two chains of up to two blocks beyond genesis | `CacheExact`, `AnswersReachFarEnough`, `AnswersNeverShrink`, `ScansAdvance`; `AnsweredEventually`, under fairness |
| `DocumentStore_uploads` | two uploads, two organisations, two files of sizes 1 and 2, two names, caps of 2 uploads and 3 bytes | `AcknowledgedVerifies`, `OvershootBounded` |
| `SignedWrites_answers` | two requests, four kinds of write, a node that may forget | `AnswersTrue`, `AuditTellsTheTruth`, `NoNonceGap`; the write path implements `WriteOnce` (`ImplementsWrites`); `EveryWriteAnswered`, under fairness |
| `Sessions_tabs` | two tabs, two identities, two tokens of life 1, clock to 1, three acts of users, one fault | `SignedOutStaysOut`, `WritesAsShown`, `LiveSessionKept`; `DeadSessionEnds`, under fairness |
| `Dashboard_pages` | per page: two files, two picks, submissions and settlements; two agreements, two reads of the list and two checks; three nodes that part after genesis; one draft of up to two targets, three reads, two clicks | `RecordedIsStored`, `UnhurriedAttachesPicked`; `BudgetMirrored`, `WarningNeverMissing`; `PanelTellsForks`; `FinalListExact`, `UndisturbedEditHitsShown`, `MadeIsPrefix` |
| `LedgerPages_rows` | one record, or two requests that compete for a budget of one; signed by two organisations or by all three; two nodes, windows 1, 2 and one that overflows, clock to 3, two reads | `RowsTrue`, `OffersRight` |

The type invariants of `LogCache`, `DocumentStore`, `SignedWrites` and
`Sessions`, those of the pages, and some properties (`LedgerInv`,
`FailingCountExact`, `PinnedAtTheThreshold`, `UnaffordableForGood`,
`TermsFrozen`, `FirstUploadStands`, `OneTransactionPerRequest`,
`OnlyPermitted`, `WaitersAreServed`, `WaitersHaveAScan`, `NoStaleCard`, `OfferedIsFundable`) are in no run's list: they are proved
(section 5).

`OffersRight` says that a button the audit trail or the request table shows is
one the contracts would accept, if nothing has changed since the row was read,
with two exceptions (`OfferedInVain`), in which they refuse it for certain:

- the tables offer votes and closing to an organisation that is not a signatory
  of the agreement;
- a request that fitted the budget when it was raised stays PENDING, and offered,
  after another one has used the budget up; the endorsement that would approve
  it reverts in `commitSpend`, though the ledger has been quiet.

What the contracts accept is written with their guards (`Accepts`), each of them
the one the transaction itself is guarded by, so that it can be reasoned about.

`ScansAdvance` is what keeps `AnsweredEventually` from depending on the bound of
its run: `MaxHead` would let a scan that runs after the head come to rest at the
bound, so the run also checks that a scan keeps to the head it was told first.

What the dashboard's properties say is often weaker than a reader may hope,
and that is what they are for. A file reaches a request as picked *if the user
waits*. A row is true in the outcomes it shows, but of no single moment; its
buttons are right *if the ledger is quiet*, and not even then about a budget that
is used up. The panel
marks one of two nodes that differ; which one is right it can tell only if the
nodes of the main chain are the majority of those that answered.

Bounds. Two votes settle a subject and a third must change nothing, so three
accounts with votes are needed and a fourth would repeat a role. Two requests
are the least that compete for a budget and a third can be refused because of
both; the amounts are chosen so that both fit when raised and only one when
approved. Clock values reach past the shorter windows and stay inside the
longest. Two targets are the least for an edit of the wrong one, or a shift by
`removeTarget`, to show. Two readers are one that starts a scan and one that
joins it or scans after it; a chain of three blocks takes two pages, or is
scanned in pieces by successive scans, and a second chain is the least to be
cached from the first. Two uploads are the least to pass a check that has room
for one, and the caps let either the count or the bytes be what refuses; the
bound on the bytes is reached. Two
write requests are the least that get the same nonce, or of which one is the
client's retry of the other; the theorems cover any number. Two picks are the
least whose replies can be swapped, two reads the least of which the older can
arrive last, and a third read lets a click come between them; two targets again
for an edit by position to hit the wrong one. Three nodes are the least with a
majority. Two tabs and two tokens are one session dropped or replaced under a
page that shows the other; three acts are signing in, in both tabs, and one
thing more. `LedgerPages` looks at the first record or the first request; a
second request is what can use its budget up before it is approved, and a
signatory list without one organisation shows what that one is offered.
`TheRestStandsStill`, an action constraint of its run, holds the requests
still while a record is looked at, and the records, the window and the clock
while a request is: neither row, nor what the contracts say of its buttons,
reads anything of the other. The proofs are without it.

`LogCache_reads` and `DocumentStore_uploads` check for deadlock. In the other
runs a behaviour may end: all write requests are over, a user does nothing
more, or a bound on ids, clicks or the clock is reached where the program would
go on.

Statements of the repository that the code does not keep. Two have a violation
run, and a finding in `PROJECT.json`:

- `SignedWrites_audit`: the audit log is a log "of every write request that the
  API performs" (`api/lib/audit.js:2`); a write whose reply was lost after the
  node took it is performed, answered with a 502 and not logged.
  `AuditTellsTheTruth` is the direction that holds.
- `EvidenceForm_race`: `pendingHash` is the hash "of the file picked in the
  request form (or null)" (`views/spend.js:34`); with two uploads under way it
  is the hash of whichever answered last, and a request is recorded with the
  file picked before.

Others were met while modelling and can be read off a few lines:

- `organisationCount` is the number of addresses "ever registered"
  (`AgreementContract.sol:108`), but one that is removed and registered again
  is counted twice (line 76).
- A record that misses its window "can no longer be finalised"
  (`VerificationWorkflowContract.sol:16`), until the owner lengthens the window
  (line 64), which applies to records already judged.
- UNVERIFIED is "a terminal state that ends the workflow" (line 127), yet
  `decline` still records dissent on it (line 153 asks for `finalised` only).
- The "per-role, per-day upload caps" (`routes.documents.js:20`) are passed by
  two uploads that are both checked before either is accounted for;
  `OvershootBounded` says by how much, in number and in bytes.
- A restart clears the deny-list, "which only ever errs on the safe side"
  (`api/lib/auth.js:22`): a token signed out with is accepted again until it
  expires. `SignedOutStaysOut` speaks of the tokens revoked since the
  API was started (`signedOut`). With a `JWT_TTL` beyond the 24.8 days a
  timer can wait, a revocation would be cleared at once; `TtlAssumption` excludes it.
- The overview's interval is set only after the first refresh has succeeded
  (`overview.js:32`), so a page whose first refresh fails shows an old session
  and an empty panel for good; other pages notice a session that is over only
  at the next action.
- The toast "Agreement created ... with n target(s)" (`agreements.js`, end of
  the modal's handler) is also shown when a call for a target has failed.
- The portfolio reads agreements before requests (`spend.js:37`), so it may
  show more spent than committed for a moment; the names of those who endorsed
  a request stay blank (`spend.js:326`), as the list it reads does not carry them.
- A finalised record takes one more endorsement, offered "only for a signatory
  who hasn't acted yet" (`views/audit.js:147`); the condition (line 148) does not
  ask who the signatories are, nor do the other buttons. The dashboard makes
  agreements of all three organisations (`agreements.js:14`), the API of any
  (`api/routes.js:102`).
- A pending request is listed as one that "needs your approval" (`overview.js:103`)
  and offered for endorsement (`spend.js:249`) when the budget no longer covers it
  and no vote can approve it any more (`UnaffordableForGood`); it is not
  shown as rejected until two organisations have declined it.

## 4. Fairness

The contract specifications state none: every transaction is the free decision
of an organisation, and nothing in the code makes one send it. So nothing is
claimed to happen eventually on the ledger; in particular an expired record
stays open until a signatory closes it.

`LogCache` assumes weak fairness of `NodeAnswers(r)` for each reader: a request
that is left to the node long enough is answered, or refused. Nothing is assumed
of new blocks, which may keep coming, or of readers, who may never ask. The
code awaits the node with no time limit of its own, so without an answer a
reader, and everyone who joined it, would wait for good.

`SignedWrites` assumes that a call to a node is answered (or fails) and that the
validators go on sealing blocks with whatever pooled transaction is next. A
restart ends the requests under way, which counts as their end. `tx.wait()` has
no time limit, so the request of a transaction the node has forgotten waits for
good: `EveryWriteAnswered` excepts it, by the history variable `forgot`.

`Sessions` assumes that a page that is being loaded is loaded, that the
overview's interval fires, and that a call is carried out and answered. Nothing
is assumed of users and of the clock, and calls, answers and the API may be
lost, a bounded number of times. `DeadSessionEnds` excepts a page whose first
refresh failed (`halted`), which never refreshes again.

The pages state none: what they do is answer to a user who need not act.

## 5. What is proved

Every safety and action property the passing runs check is a theorem, and so
are the three refinements; what stays with TLC is at the end of this section.
The theorems hold for every finite set of accounts, every set of
dates, thresholds, deadlines, budgets, amounts, values, windows and signatory
lists, any number of requests, readers, tabs, nodes, clicks and replies, and
every bound. The assumptions are those stated in the modules
(`AccountsAssumption`, `TermsAssumption`, ...), which TLC evaluates on each run:
constants have the kind of value the code gives them, a placeholder such as
`NoReader` is none of the values it stands beside, the script's organisations
are listed once each with a role (`SeedAssumption`), and for the rows of
`LedgerPages` all accounts are seed organisations (`PagesAssumption`).

- `MACL_proofs`: `TypeCorrect` and `DeployedTypeCorrect`; `LedgerInvariant` and
  `DeployedLedgerInvariant`, and from them `TwoSignatories`, `OneOutcome`,
  `TwoOtherSignatories`, `BudgetKept`.
- `MACLSteps_proofs`: `FinalTermsFrozen`, `SettledInTime`,
  `VerdictsRecomputable`, `HistoryIsAppendOnly`, `PinnedOnce`,
  `FailuresCounted`, `UnaffordableStays`; `SettlingNeedsWires`, `ScriptDeploys`,
  and of the time while the script runs or after it stopped half-way,
  `SoundWhileDeploying` and `PromisesWhileDeploying`;
  `CommittedExact`, `BudgetRefined` (the contracts implement `SpendBudget`) and
  `VerificationRefined` (they implement `RecordVerification`).
- `LedgerPages_proofs`: `RowsAreTrue`, `OffersAreRight`.
- `LogCache_proofs`: `CacheTypeCorrect`, `CacheIsExact`, `AnswersReach`,
  `AnswersDoNotShrink`; `NobodyIsForgotten`, `ScansEnd`.
- `DocumentStore_proofs`: `StoreTypeCorrect`, `AcknowledgedIsStored`,
  `FirstStands`, `QuotaOvershoot`.
- `SignedWrites_proofs`: `WritesTypeCorrect`, `AnswersAreTrue`, `PermittedOnly`,
  `SentOnce`, `LogIsTrue`, `WritesRefined` (the write path implements
  `WriteOnce`), and, until the node forgets a pooled transaction,
  `NoncesHaveNoGap` and `NobodyWaitsInVain`.
- `Sessions_proofs`: `SessionsInvariant`, `SessionsTypeCorrect`,
  `SignedOutTokensStayOut`, `BarTellsWhoWrites`, `LiveSessionsAreKept`.
- `Dashboard_proofs`: `FormTypeCorrect`, `EvidenceIsStored`, `CardIsNotStale`,
  `WaitingAttachesPicked`; `SpendFormTypeCorrect`, `OffersAreFundable`,
  `CheckMirrorsContract`, `WarningIsNotMissed`; `PanelTypeCorrect`,
  `PanelTells`; `EditorTypeCorrect`, `FinalListsExact`, `MadePrefix`,
  `EditsHitShown`; and of all pages together `PagesTypeCorrect`, `PagesCorrect`.

The argument for the ledger. None of the properties is inductive alone.
`LedgerInv` adds:

- *ids are handed out in order and what is not handed out is zero*
  (`AgreementsInOrder`, `RecordsInOrder`, `RequestsInOrder`). Without it a new
  record could inherit votes, or take the place of a final one.
- *the counters are the sizes of the flag sets* (`VotesCounted`). The code
  compares a counter with the threshold, the property speaks of parties.
- *every record and request hangs on a finalised agreement*. Its signatories
  can then not change under the votes (lemma `AgreementNextFrame`: no
  transaction to the Agreement contract touches a finalised agreement).
- *nothing is committed before finalisation* (`CommittedAfterFinalisation`). It
  makes `setBudget`, which never looks at what is committed, harmless.

Each kind of transaction has its lemma, with one step per conjunct it disturbs.
`FinalTermsFrozen` adds to `AgreementNextFrame` that outside the Agreement
contract agreements change only by a commit; `VerdictsRecomputable` follows, as
a record's agreement was final when it was reported on.

`HistoryIsAppendOnly` sorts the transactions by what they may write to the
history at all (`HistoryTx`: a new record, a new request, a vote on one of
them, or nothing) and shows for each what it keeps (`HistoryKept`).
`SettlingNeedsWires` needs that a link once set never changes and that every
outcome passed through both. `FailuresCounted` follows from reports being the
only writers of the counter and of verdicts. `UnaffordableStays`: what is left
of a budget that is final never grows.

`CommittedExact` relates a running total to a sum over a growing set. The sum is
defined by choosing one element after the other, so what has to be shown is
that the choice does not matter: removing any element takes away its amount
(`MACLSteps_proofs`, "Sums of amounts"). The provers have no induction over
finite sets; instead the proof takes a subset for which the claim fails and
that has no smaller one (lemma `SmallestSubset`), and removes its chosen
element. With that, an approval adds one amount to both sides, and no other
transaction touches either, as approvals are never taken back
(`HistoryKept`) and an agreement that has requests is final.

The refinements take one lemma for each action of the abstract specification;
every other transaction leaves the status of every record, or the charge of
every budget, alone. For `SpendBudget`, `CommittedExact` makes the check in
`commitSpend`, against a counter, the abstract check against the sum.

`ScriptDeploys` rests on `ScriptInv`: after so many transactions of the script,
the links it has set are set and the organisations it has registered are the
registry, in order. Other parties cannot write there, as both are the owner's
alone; and the script sends one transaction at a time and stops at a failure.

`SoundWhileDeploying` and `PromisesWhileDeploying` say that nobody has to wait
for the script: the properties of the ledger, and the two refinements, hold
while it runs and after it stopped half-way. They do not follow from the
theorems about `Spec`, since a step of the script need not be one of `Next`:
the script registers every organisation of its list, `Next` only those of the
constant `Registrable`. So a step is one of `Next` or a registration (`DeploymentSteps`),
and a registration changes nothing but the registry and its list
(`RegistersFrame`), which no property of agreements, records or requests reads.

The argument for the rows. A row is put together from answers of different
moments, but the item is read first, and the ledger under it only grows
(`NothingTakenBack`): flags, votes and pinned references stay. So each answer
still holds, or is exceeded, when the last one comes (`RecordRow`, `SpendRow`,
`BadgeRow`), and a row whose item was final has read everything that finality
brought after it.

`OffersAreRight` is about rows read while the ledger stands still. Whatever such
a row has been answered so far is what the ledger holds now (`UpToDate`), and a
complete one has asked for every organisation's votes (`OfferCallsAsked`). So
what the dashboard asks before it shows a button, or leaves an item off the
to-do list, can be read off the ledger and compared with each `require`: those
of the contract called and those of the contracts it calls in turn, for which
the links are set and the agreement is there (`Settleable`). Who the
signatories are and what is left of the budget the tables do not ask, hence the
two exceptions; other requests may have been raised and approved at any time.

The argument for the log cache. `CacheInv` says that scans run one at a time
(so whoever stores an entry built it on the entry it replaces), that a scan's
pages so far are the history between what is cached and where it is, and that
the cache is never ahead of the head (so a new block changes no range that was
read, lemma `LogsFinal`). Ranges that meet add up (lemma `LogsSplit`).
For `AnswersReach`, `SharedInv` says that whoever waits waits for the one scan
there is, which is bound for at least the block they are owed: joining is safe
whether or not the scan has its head already. `AnswersDoNotShrink` must also
hold where the cache is *not* exact, after the chain was replaced by one that
has outgrown what was scanned of the old one unnoticed. `ListsInv` keeps what is
left then: no list holds a log twice, all of a list's logs are of its range and
were on some chain, and what any reader was told of the present chain is in
the cache or, while that is empty, in the scan under way or ahead of it.
`NobodyIsForgotten` and `ScansEnd` are what `AnsweredEventually` rests on besides
a node that answers: whoever waits waits for a scan under way, and each answer
brings a scan nearer to its end, whatever blocks or readers come meanwhile,
since its last block is fixed once it has the head (`ScanInv`).

The argument for the document store. An upload is answered only after its row
is in place, and `ON CONFLICT DO NOTHING` never changes a row
(`StoredBeforeAnswer`, `NextDocuments`). For the quota, uploads past the check
and not yet accounted for count as used: the sum grows only when the check
passes, when it is at most `MaxUploads - 1` plus the number of requests. For the
bytes (`BytesInv`) one of them counts with its own size and the others with the
largest: the one that passed the check last had room for itself, and whichever
is accounted for or fails first, another can take its place in the sum.

The argument for the writes. `WritesInv` says that a transaction is the one its
request signed, so a request has at most one and none before it broadcasts
(`SentBySigners`), and that the nonces of an account are used in order and once
(`NoncesUsedOnce`). The first makes a refusal before the broadcast harmless, the
second makes one after it harmless: a transaction that was reverted, or whose
nonce went to another, can no longer take effect. A line of the log is that of a
request answered with success, and two such name two transactions (`FreshLine`).
A gap cannot arise because a handler that has its nonce has everything below it
used or pooled (`NoGapToCome`), which nothing but forgetting undoes. What was
broadcast stays pooled, or another in its place, until its nonce is used
(`SentIsHeld`); with no gap below it there is always a transaction of the
account to be mined next. So a write that waits is never stuck
(`NobodyWaitsInVain`), which `EveryWriteAnswered` rests on.

`WritesRefined` takes a lemma for each thing a client can see: a write is
received, gives up, is refused or confirmed, or takes effect in a block; a
restart gives up all those under way at once; the rest is not seen. That a
write is performed at most once, by who may, needs the two parts of `WritesInv`
and `OnlyPermitted`: who asked is not looked at again after the first step.

The argument for the sessions. `SessionsInv` has a part for each owner of
state. A revocation is due exactly when its token expires, so its timer takes
nothing away that is still needed (`RevocationsOK`). Token and role are stored
and dropped together (`StorageOK`); a page not overtaken by a sign-in elsewhere
shows the session stored (`PagesOK`). A call carries the role of its token, and
one that was refused would be refused again until a restart, because tokens
only ever die (`CallsOK`, lemma `RefusedStays`): hence a late refusal can end a
session only if it is for another token. Each part is shown for the API's steps,
the browser's and the way of a call between them.

The argument for the forms. Every hash a form holds, has sent or has recorded
is stored already, as the server stores before it answers. For a user who waits
(`Unhurried`) at most one reply is outstanding, so it belongs to what the form
shows. A list, finished or being read, is older than the ledger
(`ListsAreOlder`), and of an older state budgets are the same once final and
commitments smaller: so the check may let too much pass and never too little.
For the warning the invariant follows the check asked for last: it is out, or
has been answered with what was known when it was asked.

The argument for the panel. A height answered is one its node has reached, so the
lowest of them is a height all nodes asked for a block have; the block answered
is that of the side the node is on, unless it resynced (`AnswersHold`). Two
different answers cannot both equal the one the panel takes for the majority's.
That one is whichever reaches the most supporters first; when the main chain has
more than half of those that answered, no other block can reach as many.

The argument for the agreements page. A final row is exact because the flag is
read before count and targets, and a final agreement does not change
(`ListsExact`, which follows the list shown and every list still being read).
The modal adds its targets one call at a time, and goes on only after the last
was answered; a call that failed may or may not have been executed, and the
loop then ends (`MadeInOrder`). For a donor alone who waits (`Undisturbed`),
at most one thing is under way: a call, a read of the list, or the modal; and
unless one is, the list shown is the ledger's. The invariant says in each of the
cases what the ledger may already be.

The pages together. `Dashboard` has one page open and the others stand still, so
each step is a step of one page or leaves it alone: a behaviour of `Dashboard`
is one of each page's specification (lemma `PagesBehave`), and the theorems of the
pages carry over (`PagesCorrect`).

Model-checked only. The liveness properties `AnsweredEventually`,
`EveryWriteAnswered` and `DeadSessionEnds`, as TLAPS does not reason about
fairness here; of the first two the safety core is proved. The inductive invariants were checked with TLC on
the instances of section 3 before they were proved.

## 6. Not modelled

`PROJECT.json` lists every component with its status. QBFT consensus is Besu's:
the model takes from it that transactions are serial, atomic and never undone
(`LogCache` alone lets the chain be replaced, as its code provides for "a fresh
genesis / redeploy"). The evaluation scripts drive the API, measure, and keep no state
of the system. Of the report form, the selects that find an agreement's targets
are left out; they are filled from rows such as `AgreementEditor` reads. Views
that nothing else reads (recent events, filters, exports, charts), logging and
layout are left out.

## 7. Plan

1. Done: the ledger and its deployment, the API's cache, store, writes and
   sessions, and the pages of the dashboard; proofs of every safety property
   the runs check, of the three refinements, and of the ledger while it is
   being deployed.
2. Next: the selects of the report form over a list that is being reloaded, as
   an extension of `AgreementEditor`.
3. Proofs: the pages over one ledger in place of one each.
