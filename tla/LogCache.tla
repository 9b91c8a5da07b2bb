------------------------------ MODULE LogCache ------------------------------
(***************************************************************************)
(* The incremental event-log cache of the API (api/lib/chain.js,           *)
(* queryLogs): one event of one contract, read by any number of concurrent *)
(* requests.  A scan asks the node for its head, then pages through the    *)
(* blocks that were not scanned before; readers that arrive meanwhile      *)
(* share it.                                                               *)
(*                                                                         *)
(* The API is one thread, so what it does between two awaits is one step,  *)
(* and a step here is the answer to one request to the node.  Nothing in   *)
(* the code uses the order of the logs, so a list of logs is the number of *)
(* copies it holds of each.  The node is external: its chain grows, and    *)
(* may be replaced by a fresh one ("a fresh genesis / redeploy").          *)
(***************************************************************************)
EXTENDS Integers

CONSTANTS
    Readers,    \* requests that may be under way at the same time
    NoReader,
    NoEntry,    \* the cache holds nothing under the key
    Window,     \* LOGS_WINDOW
    MaxHead,    \* bound: height of a chain
    MaxChains   \* bound: chains, one after the other

ASSUME LogCacheAssumption ==
    /\ NoReader \notin Readers
    /\ Window \in Nat \ {0}
    /\ MaxHead \in Nat
    /\ MaxChains \in Nat \ {0}

Blocks == 0 .. MaxHead

\* A log, named by its chain and its block.
Logs == (1 .. MaxChains) \X Blocks

\* How many copies of each log a list holds.
LogList == [Logs -> Nat]

ASSUME NoEntryAssumption == NoEntry \notin [logs : LogList, scannedTo : Blocks]

VARIABLES
    chain,     \* the chain the node is on
    head,      \* its head
    marked,    \* its blocks that carry a log of the event
    logCache,  \* what is cached under the key
    inFlight,  \* the reader whose scan is shared under the key
    scan,      \* reader -> the scan it runs
    awaits,    \* reader -> the reader whose scan it awaits
    answer,    \* reader -> the logs it got last
    failed,    \* reader -> whether its latest query ended in an error
    owed,      \* history: reader -> block its answer has to reach
    clean      \* history: no replacement since the cache was last empty

nodeVars == <<chain, head, marked>>

vars == <<nodeVars, logCache, inFlight, scan, awaits, answer, failed, owed,
          clean>>

-----------------------------------------------------------------------------

Entry == [logs : LogList, scannedTo : Blocks]

Scan ==
    [phase : {"none", "head", "paging"},
     hit : Entry \cup {NoEntry},
     latest : Blocks,
     next : Nat,
     out : LogList]

NoLogs == [l \in Logs |-> 0]

Plus(s, t) == [l \in Logs |-> s[l] + t[l]]

NoScan ==
    [phase |-> "none", hit |-> NoEntry, latest |-> 0, next |-> 0,
     out |-> NoLogs]

\* The logs in a range of blocks, when chain c carries them in the blocks m.
LogsOf(c, m, from, to) ==
    [l \in Logs |->
        IF l[1] = c /\ l[2] \in m /\ from <= l[2] /\ l[2] <= to
        THEN 1 ELSE 0]

\* The logs the node returns for a range of blocks.
LogsBetween(from, to) == LogsOf(chain, marked, from, to)

TypeOK ==
    /\ chain \in 1 .. MaxChains
    /\ head \in Blocks
    /\ marked \in SUBSET Blocks
    /\ logCache \in Entry \cup {NoEntry}
    /\ inFlight \in Readers \cup {NoReader}
    /\ scan \in [Readers -> Scan]
    /\ awaits \in [Readers -> Readers \cup {NoReader}]
    /\ answer \in [Readers -> LogList]
    /\ failed \in [Readers -> BOOLEAN]
    /\ owed \in [Readers -> Blocks]
    /\ clean \in BOOLEAN

Init ==
    /\ chain = 1
    /\ head = 0
    /\ marked = {}
    /\ logCache = NoEntry
    /\ inFlight = NoReader
    /\ scan = [r \in Readers |-> NoScan]
    /\ awaits = [r \in Readers |-> NoReader]
    /\ answer = [r \in Readers |-> NoLogs]
    /\ failed = [r \in Readers |-> FALSE]
    /\ owed = [r \in Readers |-> 0]
    /\ clean = TRUE

-----------------------------------------------------------------------------
(* The node. *)

NewBlock ==
    /\ head < MaxHead
    /\ head' = head + 1
    /\ \/ marked' = marked \cup {head + 1}
       \/ UNCHANGED marked
    /\ UNCHANGED <<chain, logCache, inFlight, scan, awaits, answer, failed,
                   owed, clean>>

\* The network is set up anew; nothing is owed to readers of the old chain.
ReplaceChain ==
    /\ chain < MaxChains
    /\ chain' = chain + 1
    /\ head' = 0
    /\ marked' = {}
    /\ owed' = [r \in Readers |-> 0]
    /\ clean' = /\ logCache = NoEntry
                /\ \A r \in Readers : scan[r].phase # "paging"
    /\ UNCHANGED <<logCache, inFlight, scan, awaits, answer, failed>>

-----------------------------------------------------------------------------
(* A query. *)

StartScan(r) ==
    /\ inFlight' = r
    /\ awaits' = [awaits EXCEPT ![r] = r]
    /\ scan' = [scan EXCEPT ![r] = [NoScan EXCEPT !.phase = "head"]]
    /\ owed' = [owed EXCEPT ![r] = head]

\* A reader that joins before the head is known gets what it would have got
\* alone; one that joins later gets what that scan will reach.
JoinScan(r) ==
    /\ awaits' = [awaits EXCEPT ![r] = inFlight]
    /\ owed' = [owed EXCEPT ![r] =
            IF scan[inFlight].phase = "paging"
            THEN scan[inFlight].latest
            ELSE head]
    /\ UNCHANGED <<inFlight, scan>>

\* Mutant: every reader runs a scan of its own.
QueryUnshared(r) ==
    /\ awaits[r] = NoReader
    /\ StartScan(r)
    /\ UNCHANGED <<nodeVars, logCache, answer, failed, clean>>

Query(r) ==
    /\ awaits[r] = NoReader
    /\ IF inFlight # NoReader THEN JoinScan(r) ELSE StartScan(r)
    /\ UNCHANGED <<nodeVars, logCache, answer, failed, clean>>

\* The scan r runs ends.
Settle(r) ==
    /\ awaits' = [x \in Readers |->
            IF awaits[x] = r THEN NoReader ELSE awaits[x]]
    /\ scan' = [scan EXCEPT ![r] = NoScan]
    /\ inFlight' = NoReader

\* Everyone who shares the scan of r gets a copy of the same logs.
Resolve(r, logs) ==
    /\ answer' = [x \in Readers |->
            IF awaits[x] = r THEN logs ELSE answer[x]]
    /\ failed' = [x \in Readers |-> failed[x] /\ awaits[x] # r]
    /\ Settle(r)

\* The part of the cache a scan may build on: nothing of a chain that is now
\* shorter than what was scanned.
Usable(latest) ==
    IF logCache # NoEntry /\ latest < logCache.scannedTo
    THEN NoEntry
    ELSE logCache

\* Mutant: one block short of the head is taken for up to date.
NothingMuchNew(hit, latest) == hit # NoEntry /\ hit.scannedTo + 1 >= latest

NothingNew(hit, latest) == hit # NoEntry /\ hit.scannedTo = latest

\* Mutant: the last block scanned is scanned again.
FirstUnscannedAgain(hit) == IF hit = NoEntry THEN 0 ELSE hit.scannedTo

FirstUnscanned(hit) == IF hit = NoEntry THEN 0 ELSE hit.scannedTo + 1

HeadAnswered(r) ==
    LET hit == Usable(head)
    IN  /\ scan[r].phase = "head"
        /\ logCache' = hit
        /\ clean' = (clean \/ hit = NoEntry)
        /\ IF NothingNew(hit, head)
           THEN Resolve(r, hit.logs)
           ELSE /\ scan' = [scan EXCEPT ![r] =
                        [phase |-> "paging",
                         hit |-> hit,
                         latest |-> head,
                         next |-> FirstUnscanned(hit),
                         out |-> NoLogs]]
                /\ UNCHANGED <<inFlight, awaits, answer, failed>>
        /\ UNCHANGED <<nodeVars, owed>>

NextPage(from) == from + Window

LastOfPage(s) ==
    IF s.next + Window - 1 < s.latest THEN s.next + Window - 1 ELSE s.latest

\* The entry a scan leaves when its pages are out.
EntryOf(s, out) ==
    [logs |-> IF s.hit = NoEntry THEN out ELSE Plus(s.hit.logs, out),
     scannedTo |-> s.latest]

\* Mutant: every page goes for the head of the moment.
PageAnsweredChasing(r) ==
    LET s   == [scan[r] EXCEPT !.latest = head]
        out == Plus(s.out, LogsBetween(s.next, LastOfPage(s)))
    IN  /\ s.phase = "paging"
        /\ IF NextPage(s.next) <= s.latest
           THEN /\ scan' = [scan EXCEPT ![r] =
                        [s EXCEPT !.out = out, !.next = NextPage(s.next)]]
                /\ UNCHANGED <<logCache, inFlight, awaits, answer, failed>>
           ELSE /\ logCache' = EntryOf(s, out)
                /\ Resolve(r, EntryOf(s, out).logs)
        /\ UNCHANGED <<nodeVars, owed, clean>>

\* The answer to the last page also stores the entry and ends the scan.
PageAnswered(r) ==
    LET s   == scan[r]
        out == Plus(s.out, LogsBetween(s.next, LastOfPage(s)))
    IN  /\ s.phase = "paging"
        /\ IF NextPage(s.next) <= s.latest
           THEN /\ scan' = [scan EXCEPT ![r].out = out,
                                        ![r].next = NextPage(s.next)]
                /\ UNCHANGED <<logCache, inFlight, awaits, answer, failed>>
           ELSE /\ logCache' = EntryOf(s, out)
                /\ Resolve(r, EntryOf(s, out).logs)
        /\ UNCHANGED <<nodeVars, owed, clean>>

\* Mutant: a scan that is refused starts over, as often as it takes.
NodeFailsRetry(r) ==
    /\ scan[r].phase # "none"
    /\ scan' = [scan EXCEPT ![r] = [NoScan EXCEPT !.phase = "head"]]
    /\ UNCHANGED <<nodeVars, logCache, inFlight, awaits, answer, failed, owed,
                   clean>>

\* The node refuses a request: everyone who shares the scan gets the error,
\* and the cache stays as it was.
NodeFails(r) ==
    /\ scan[r].phase # "none"
    /\ failed' = [x \in Readers |-> failed[x] \/ awaits[x] = r]
    /\ Settle(r)
    /\ UNCHANGED <<nodeVars, logCache, answer, owed, clean>>

NodeAnswers(r) == HeadAnswered(r) \/ PageAnswered(r)

Next ==
    \/ NewBlock
    \/ ReplaceChain
    \/ \E r \in Readers : Query(r) \/ NodeAnswers(r) \/ NodeFails(r)

Spec == Init /\ [][Next]_vars

\* The node answers a request that is left to it; it may also refuse it.
FairSpec == Spec /\ \A r \in Readers : WF_vars(NodeAnswers(r))

-----------------------------------------------------------------------------

\* The logs of the chain up to a block, each exactly once.
Exactly(logs, to) == logs = LogsBetween(0, to)

\* What is cached is the history of the chain up to scannedTo, nothing twice
\* and nothing missing, however scans, failures and new blocks interleave;
\* and again so after the chain was replaced and the replacement noticed.
CacheExact ==
    clean /\ logCache # NoEntry => Exactly(logCache.logs, logCache.scannedTo)

\* Why it holds: scans run one at a time, a scan builds on what is cached,
\* and its pages so far are the history from there on, up to where it is.
OneScan == \A r \in Readers : scan[r].phase # "none" => inFlight = r

ScanExact(s) ==
    /\ s.hit = logCache
    /\ FirstUnscanned(s.hit) <= s.next
    /\ s.next <= s.latest
    /\ s.latest <= head
    /\ s.out = LogsBetween(FirstUnscanned(s.hit), s.next - 1)

ScansExact ==
    clean => \A r \in Readers : scan[r].phase = "paging" => ScanExact(scan[r])

CacheBehind == clean /\ logCache # NoEntry => logCache.scannedTo <= head

CacheInv == OneScan /\ ScansExact /\ CacheBehind /\ CacheExact

Answered(r) ==
    /\ awaits[r] # NoReader
    /\ awaits'[r] = NoReader
    /\ ~failed'[r]

\* An answer reaches the block it owes its reader: the head when it asked
\* or, if it joined a scan already paging, the head that scan set out for.
AnswersReachFarEnough ==
    [][\A r \in Readers :
            Answered(r) /\ clean' =>
                \A l \in Logs :
                    l[1] = chain /\ l[2] \in marked /\ l[2] <= owed[r] =>
                        answer'[r][l] > 0]_vars

\* Reading again never loses a log of the chain, although answers come out
\* of scans that others started and the cache is overwritten by each scan.
AnswersNeverShrink ==
    [][\A r \in Readers, l \in Logs :
            l[1] = chain => answer'[r][l] >= answer[r][l]]_vars

\* Every reader is answered, also while blocks keep coming and requests are
\* refused: no wake-up is lost.  MaxHead bounds what can come; that a scan
\* ends however long the chain gets is ScansAdvance.
AnsweredEventually ==
    \A r \in Readers : awaits[r] # NoReader ~> awaits[r] = NoReader

\* What this rests on, besides a node that answers.  Nobody waits for a scan
\* that is not under way: a scan that ends, well or not, wakes all its readers.
WaitersHaveAScan ==
    \A r \in Readers : awaits[r] # NoReader => scan[awaits[r]].phase # "none"

\* The blocks a scan still has to ask for, more than there can be while it
\* does not know the head.
BlocksLeft(s) ==
    CASE s.phase = "none" -> 0
      [] s.phase = "head" -> MaxHead + 2
      [] s.phase = "paging" -> s.latest + 1 - s.next

\* A scan does not run after the head: whatever blocks, replacements,
\* refusals and readers come between its pages, a scan under way only ever
\* changes by getting nearer to its end, since it keeps to the head it was
\* told first.
ScansAdvance ==
    [][\A r \in Readers :
            \/ scan[r].phase = "none"
            \/ scan'[r] = scan[r]
            \/ BlocksLeft(scan'[r]) < BlocksLeft(scan[r])]_vars

=============================================================================
