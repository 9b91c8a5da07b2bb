---------------------------- MODULE LogCache_proofs ----------------------------
(***************************************************************************)
(* The log cache keeps its types, and what it holds is the history of the  *)
(* chain, each log once; an answer reaches the block its reader is owed,   *)
(* and the next one has every log of the chain the last one had: for any   *)
(* number of readers, any page size and chains of any length.              *)
(***************************************************************************)
EXTENDS LogCache, TLAPS

-----------------------------------------------------------------------------
(* Lists of logs. *)

LEMMA BlocksAreNat == \A b \in Blocks : b \in Nat
BY LogCacheAssumption DEF Blocks

LEMMA LogBlocks == \A l \in Logs : l[2] \in Nat
BY LogCacheAssumption DEF Logs, Blocks

LEMMA LogsBetweenType == ASSUME NEW a \in Int, NEW b \in Int
                         PROVE  LogsBetween(a, b) \in LogList
BY DEF LogsBetween, LogsOf, LogList

LEMMA PlusType == ASSUME NEW s \in LogList, NEW t \in LogList
                  PROVE  Plus(s, t) \in LogList
BY DEF Plus, LogList

LEMMA NoLogsType == NoLogs \in LogList
BY DEF NoLogs, LogList

\* Two adjoining ranges hold what the whole range holds.
LEMMA LogsSplit ==
  ASSUME NEW n, NEW m,
         NEW a \in Int, NEW b \in Int, NEW c \in Int, a <= b, b <= c + 1
  PROVE  Plus(LogsOf(n, m, a, b - 1), LogsOf(n, m, b, c)) = LogsOf(n, m, a, c)
<1>1. ASSUME NEW l \in Logs
      PROVE  LogsOf(n, m, a, b - 1)[l] + LogsOf(n, m, b, c)[l]
                = LogsOf(n, m, a, c)[l]
  <2>1. l[2] \in Nat
    BY LogBlocks
  <2>2. QED
    BY <2>1 DEF LogsOf
<1>2. QED
  BY <1>1 DEF Plus, LogsOf

LEMMA LogsEmpty ==
  ASSUME NEW n, NEW m, NEW a \in Int
  PROVE  LogsOf(n, m, a, a - 1) = NoLogs
BY LogBlocks DEF LogsOf, NoLogs

\* A new block adds nothing to the ranges below it.
LEMMA LogsFinal ==
  ASSUME TypeOK, NewBlock, NEW a \in Int, NEW b \in Int, b <= head
  PROVE  LogsOf(chain', marked', a, b) = LogsOf(chain, marked, a, b)
<1>1. chain' = chain /\ \A n \in Nat : n <= head => (n \in marked' <=> n \in marked)
  BY BlocksAreNat DEF NewBlock, TypeOK
<1>2. ASSUME NEW l \in Logs
      PROVE  (l[2] \in marked' /\ l[2] <= b) <=> (l[2] \in marked /\ l[2] <= b)
  <2>1. l[2] \in Nat /\ head \in Int
    BY LogBlocks, BlocksAreNat DEF TypeOK
  <2>2. QED
    BY <1>1, <2>1
<1>3. QED
  BY <1>1, <1>2 DEF LogsOf

-----------------------------------------------------------------------------
(* Types. *)

LEMMA EntryFields ==
  ASSUME NEW e \in Entry
  PROVE  e # NoEntry /\ e.logs \in LogList /\ e.scannedTo \in Blocks
BY NoEntryAssumption DEF Entry

LEMMA ScanFields ==
  ASSUME TypeOK, NEW r \in Readers
  PROVE  /\ scan[r] \in Scan
         /\ scan[r].hit \in Entry \cup {NoEntry}
         /\ scan[r].latest \in Blocks
         /\ scan[r].latest \in Nat
         /\ scan[r].next \in Nat
         /\ scan[r].out \in LogList
BY BlocksAreNat DEF TypeOK, Scan

LEMMA NoScanType == NoScan \in Scan /\ [NoScan EXCEPT !.phase = "head"] \in Scan
BY NoLogsType, LogCacheAssumption DEF NoScan, Scan, Blocks

LEMMA FirstUnscannedType ==
  ASSUME NEW hit \in Entry \cup {NoEntry}
  PROVE  FirstUnscanned(hit) \in Nat
<1>1. hit \in Entry => hit.scannedTo \in Nat
  BY EntryFields, BlocksAreNat
<1>2. QED
  BY <1>1 DEF FirstUnscanned

LEMMA LastOfPageType ==
  ASSUME TypeOK, NEW r \in Readers
  PROVE  LastOfPage(scan[r]) \in Int
BY ScanFields, LogCacheAssumption DEF LastOfPage

LEMMA EntryOfType ==
  ASSUME TypeOK, NEW r \in Readers, NEW out \in LogList
  PROVE  EntryOf(scan[r], out) \in Entry
<1>1. CASE scan[r].hit = NoEntry
  BY <1>1, ScanFields DEF EntryOf, Entry
<1>2. CASE scan[r].hit \in Entry
  <2>1. Plus(scan[r].hit.logs, out) \in LogList
    BY <1>2, EntryFields, PlusType
  <2>2. QED
    BY <1>2, <2>1, EntryFields, ScanFields DEF EntryOf, Entry
<1>3. QED
  BY <1>1, <1>2, ScanFields

LEMMA SettleType ==
  ASSUME TypeOK, NEW r \in Readers, Settle(r)
  PROVE  /\ awaits' \in [Readers -> Readers \cup {NoReader}]
         /\ scan' \in [Readers -> Scan]
         /\ inFlight' \in Readers \cup {NoReader}
BY NoScanType DEF TypeOK, Settle

LEMMA ResolveType ==
  ASSUME TypeOK, NEW r \in Readers, NEW logs \in LogList, Resolve(r, logs)
  PROVE  /\ answer' \in [Readers -> LogList]
         /\ failed' \in [Readers -> BOOLEAN]
         /\ awaits' \in [Readers -> Readers \cup {NoReader}]
         /\ scan' \in [Readers -> Scan]
         /\ inFlight' \in Readers \cup {NoReader}
BY SettleType DEF TypeOK, Resolve

LEMMA InitType == Init => TypeOK
BY NoLogsType, NoScanType, LogCacheAssumption DEF Init, TypeOK, Blocks

LEMMA QueryType ==
  ASSUME TypeOK, NEW r \in Readers, Query(r)
  PROVE  TypeOK'
<1>1. CASE StartScan(r)
  BY <1>1, NoScanType DEF Query, StartScan, TypeOK, nodeVars
<1>2. CASE JoinScan(r) /\ inFlight # NoReader
  BY <1>2, ScanFields DEF Query, JoinScan, TypeOK, nodeVars
<1>3. QED
  BY <1>1, <1>2 DEF Query

LEMMA HeadAnsweredType ==
  ASSUME TypeOK, NEW r \in Readers, HeadAnswered(r)
  PROVE  TypeOK'
<1> DEFINE hit == Usable(head)
<1>1. hit \in Entry \cup {NoEntry}
  BY DEF Usable, TypeOK
<1>2. CASE NothingNew(hit, head)
  <2>1. hit.logs \in LogList
    BY <1>1, <1>2, EntryFields DEF NothingNew
  <2>2. QED
    BY <1>1, <1>2, <2>1, ResolveType DEF HeadAnswered, TypeOK, nodeVars
<1>3. CASE ~NothingNew(hit, head)
  <2> DEFINE s == [phase |-> "paging", hit |-> hit, latest |-> head,
                   next |-> FirstUnscanned(hit), out |-> NoLogs]
  <2>1. s \in Scan
    BY <1>1, NoLogsType, FirstUnscannedType DEF Scan, TypeOK
  <2>2. scan' = [scan EXCEPT ![r] = s]
    BY <1>3 DEF HeadAnswered
  <2>3. QED
    BY <1>1, <1>3, <2>1, <2>2 DEF HeadAnswered, TypeOK, nodeVars
<1>4. QED
  BY <1>2, <1>3

LEMMA PageAnsweredType ==
  ASSUME TypeOK, NEW r \in Readers, PageAnswered(r)
  PROVE  TypeOK'
<1> DEFINE s   == scan[r]
           out == Plus(s.out, LogsBetween(s.next, LastOfPage(s)))
<1>1. out \in LogList
  BY ScanFields, LastOfPageType, LogsBetweenType, PlusType
<1>2. CASE NextPage(s.next) <= s.latest
  <2>1. NextPage(s.next) \in Nat
    BY ScanFields, LogCacheAssumption DEF NextPage
  <2>2. scan' \in [Readers -> Scan]
    BY <1>1, <1>2, <2>1, ScanFields DEF PageAnswered, TypeOK, Scan
  <2>3. QED
    BY <1>2, <2>2 DEF PageAnswered, TypeOK, nodeVars
<1>3. CASE ~(NextPage(s.next) <= s.latest)
  <2>1. EntryOf(s, out) \in Entry
    BY <1>1, EntryOfType
  <2>2. EntryOf(s, out).logs \in LogList
    BY <2>1, EntryFields
  <2>3. QED
    BY <1>3, <2>1, <2>2, ResolveType DEF PageAnswered, TypeOK, nodeVars
<1>4. QED
  BY <1>2, <1>3

LEMMA NextType == TypeOK /\ [Next]_vars => TypeOK'
<1> SUFFICES ASSUME TypeOK, [Next]_vars PROVE TypeOK'
  OBVIOUS
<1>1. CASE NewBlock
  <2>1. head' \in Blocks /\ head + 1 \in Blocks
    BY <1>1, LogCacheAssumption DEF NewBlock, TypeOK, Blocks
  <2>2. marked' \in SUBSET Blocks
    BY <1>1, <2>1 DEF NewBlock, TypeOK
  <2>3. QED
    BY <1>1, <2>1, <2>2 DEF NewBlock, TypeOK
<1>2. CASE ReplaceChain
  BY <1>2, LogCacheAssumption DEF ReplaceChain, TypeOK, Blocks
<1>3. ASSUME NEW r \in Readers, NodeFails(r)
      PROVE  TypeOK'
  BY <1>3, SettleType DEF NodeFails, TypeOK, nodeVars
<1>4. CASE UNCHANGED vars
  BY <1>4 DEF vars, nodeVars, TypeOK
<1>5. QED
  BY <1>1, <1>2, <1>3, <1>4, QueryType, HeadAnsweredType, PageAnsweredType
  DEF Next, NodeAnswers

(***************************************************************************)
(* Every variable keeps its type.                                          *)
(***************************************************************************)
THEOREM CacheTypeCorrect == Spec => []TypeOK
BY InitType, NextType, PTL DEF Spec

-----------------------------------------------------------------------------
(* The invariant. *)

LEMMA InitInv == Init => CacheInv
BY DEF Init, CacheInv, OneScan, ScansExact, CacheBehind, CacheExact, NoScan

\* After the scan of r ended, nothing is scanned.
LEMMA SettleInv ==
  ASSUME TypeOK, OneScan, NEW r \in Readers, scan[r].phase # "none", Settle(r)
  PROVE  /\ OneScan'
         /\ \A x \in Readers : scan'[x].phase = "none"
<1>1. \A x \in Readers : scan'[x].phase = "none"
  BY LogCacheAssumption DEF OneScan, Settle, NoScan, TypeOK
<1>2. QED
  BY <1>1 DEF OneScan

LEMMA NewBlockInv ==
  ASSUME TypeOK, CacheInv, NewBlock
  PROVE  CacheInv'
<1>1. head \in Nat /\ head' = head + 1
  BY BlocksAreNat DEF NewBlock, TypeOK
<1>2. OneScan'
  BY DEF CacheInv, OneScan, NewBlock
<1>3. CacheBehind' /\ CacheExact'
  <2> SUFFICES ASSUME clean, logCache # NoEntry
               PROVE  /\ logCache.scannedTo <= head'
                      /\ Exactly(logCache.logs, logCache.scannedTo)'
    BY DEF NewBlock, CacheBehind, CacheExact
  <2>1. /\ logCache.scannedTo \in Nat
        /\ logCache.scannedTo <= head
        /\ logCache.logs = LogsBetween(0, logCache.scannedTo)
    BY EntryFields, BlocksAreNat
    DEF TypeOK, CacheInv, CacheBehind, CacheExact, Exactly
  <2>2. LogsOf(chain', marked', 0, logCache.scannedTo)
            = LogsBetween(0, logCache.scannedTo)
    BY <2>1, LogsFinal DEF LogsBetween
  <2>3. QED
    BY <1>1, <2>1, <2>2 DEF Exactly, NewBlock, LogsBetween
<1>4. ScansExact'
  <2> SUFFICES ASSUME clean, NEW r \in Readers, scan[r].phase = "paging"
               PROVE  ScanExact(scan[r])'
    BY DEF NewBlock, ScansExact
  <2>1. ScanExact(scan[r])
    BY DEF CacheInv, ScansExact
  <2> DEFINE a == FirstUnscanned(scan[r].hit)
             b == scan[r].next - 1
  <2>2. a \in Int /\ b \in Int /\ b <= head
    BY <1>1, <2>1, ScanFields, FirstUnscannedType DEF ScanExact
  <2>3. LogsOf(chain', marked', a, b) = LogsBetween(a, b)
    BY <2>2, LogsFinal DEF LogsBetween
  <2>4. scan[r].latest <= head'
    BY <1>1, <2>1, ScanFields DEF ScanExact
  <2>5. QED
    BY <2>1, <2>3, <2>4
    DEF ScanExact, NewBlock, FirstUnscanned, LogsBetween
<1>5. QED
  BY <1>2, <1>3, <1>4 DEF CacheInv

LEMMA HeadAnsweredInv ==
  ASSUME TypeOK, CacheInv, NEW r \in Readers, HeadAnswered(r)
  PROVE  CacheInv'
<1> DEFINE hit == Usable(head)
<1>1. /\ hit \in Entry \cup {NoEntry}
      /\ logCache' = hit
      /\ hit = NoEntry \/ hit = logCache
      /\ clean' => clean \/ hit = NoEntry
      /\ chain' = chain /\ marked' = marked /\ head' = head
      /\ scan[r].phase = "head" /\ head \in Nat
  BY BlocksAreNat DEF Usable, TypeOK, HeadAnswered, nodeVars
<1>2. CacheBehind' /\ CacheExact'
  BY <1>1 DEF CacheInv, CacheBehind, CacheExact, Exactly, LogsBetween
<1>3. CASE NothingNew(hit, head)
  <2>1. Settle(r)
    BY <1>3 DEF HeadAnswered, Resolve
  <2>2. OneScan' /\ \A x \in Readers : scan'[x].phase = "none"
    BY <1>1, <2>1, SettleInv DEF CacheInv
  <2>3. QED
    BY <1>2, <2>2 DEF CacheInv, ScansExact
<1>4. CASE ~NothingNew(hit, head)
  <2> DEFINE s == [phase |-> "paging", hit |-> hit, latest |-> head,
                   next |-> FirstUnscanned(hit), out |-> NoLogs]
  <2>1. scan' = [scan EXCEPT ![r] = s] /\ inFlight' = inFlight
    BY <1>4 DEF HeadAnswered
  <2>2. \A x \in Readers : x # r => scan'[x].phase = "none"
    BY <1>1, <2>1 DEF CacheInv, OneScan, TypeOK
  <2>3. OneScan'
    BY <1>1, <2>1, <2>2 DEF CacheInv, OneScan, TypeOK
  <2>4. scan'[r] = s
    BY <2>1 DEF TypeOK
  <2>5. FirstUnscanned(hit) \in Nat /\ FirstUnscanned(hit) <= head
    <3>1. CASE hit = NoEntry
      BY <1>1, <3>1 DEF FirstUnscanned
    <3>2. CASE hit # NoEntry
      <4>1. hit.scannedTo \in Nat /\ hit.scannedTo # head
        BY <1>1, <1>4, <3>2, EntryFields, BlocksAreNat DEF NothingNew
      <4>2. hit.scannedTo <= head
        BY <1>1, <3>2, <4>1 DEF Usable
      <4>3. QED
        BY <1>1, <3>2, <4>1, <4>2 DEF FirstUnscanned
    <3>3. QED
      BY <3>1, <3>2
  <2>6. LogsOf(chain', marked', FirstUnscanned(hit), FirstUnscanned(hit) - 1)
            = NoLogs
    BY <2>5, LogsEmpty
  <2>7. ASSUME clean' PROVE ScanExact(scan[r])'
    BY <1>1, <2>4, <2>5, <2>6 DEF ScanExact, LogsBetween, FirstUnscanned
  <2>8. QED
    BY <1>2, <2>2, <2>3, <2>7 DEF CacheInv, ScansExact
<1>5. QED
  BY <1>3, <1>4

LEMMA PageAnsweredInv ==
  ASSUME TypeOK, CacheInv, NEW r \in Readers, PageAnswered(r)
  PROVE  CacheInv'
<1> DEFINE s   == scan[r]
           a   == FirstUnscanned(s.hit)
           out == Plus(s.out, LogsBetween(s.next, LastOfPage(s)))
<1>1. /\ s.phase = "paging"
      /\ chain' = chain /\ marked' = marked /\ head' = head /\ clean' = clean
      /\ s.next \in Nat /\ s.latest \in Nat /\ a \in Nat
      /\ head \in Nat /\ Window \in Nat \ {0}
  BY ScanFields, FirstUnscannedType, BlocksAreNat, LogCacheAssumption
  DEF PageAnswered, nodeVars, TypeOK
<1>2. ASSUME clean, NEW last \in Int, LastOfPage(s) = last, s.next <= last + 1
      PROVE  ScanExact(s) /\ out = LogsBetween(a, last)
  <2>1. ScanExact(s)
    BY <1>1, <1>2 DEF CacheInv, ScansExact
  <2>2. Plus(LogsBetween(a, s.next - 1), LogsBetween(s.next, last))
            = LogsBetween(a, last)
    BY <1>1, <1>2, <2>1, LogsSplit DEF ScanExact, LogsBetween
  <2>3. QED
    BY <1>2, <2>1, <2>2 DEF ScanExact
<1>3. CASE NextPage(s.next) <= s.latest
  <2>1. LastOfPage(s) = s.next + Window - 1 /\ NextPage(s.next) = s.next + Window
    BY <1>1, <1>3 DEF LastOfPage, NextPage
  <2>2. /\ logCache' = logCache /\ inFlight' = inFlight
        /\ scan' = [scan EXCEPT ![r].out = out,
                                ![r].next = NextPage(s.next)]
    BY <1>3 DEF PageAnswered
  <2>3. OneScan'
    BY <1>1, <2>2 DEF CacheInv, OneScan, TypeOK
  <2>4. CacheBehind' /\ CacheExact'
    BY <1>1, <2>2
    DEF CacheInv, CacheBehind, CacheExact, Exactly, LogsBetween
  <2>5. ASSUME clean PROVE ScanExact(scan[r])'
    <3>1. ScanExact(s) /\ out = LogsBetween(a, s.next + Window - 1)
      BY <1>1, <1>2, <2>1, <2>5
    <3>2. /\ scan'[r].hit = s.hit /\ scan'[r].latest = s.latest
          /\ scan'[r].next = s.next + Window /\ scan'[r].out = out
      BY <2>1, <2>2, ScanFields DEF TypeOK, Scan
    <3>3. s.next + Window - 1 = scan'[r].next - 1
      BY <1>1, <3>2
    <3>4. out = LogsOf(chain', marked', a, scan'[r].next - 1)
      BY <1>1, <2>5, <3>1, <3>3 DEF LogsBetween
    <3>5. QED
      <4>1. a <= scan'[r].next /\ scan'[r].next <= s.latest
        BY <1>1, <1>3, <2>1, <3>1, <3>2 DEF ScanExact
      <4>2. QED
        BY <1>1, <2>2, <3>1, <3>2, <3>4, <4>1
        DEF ScanExact, FirstUnscanned, LogsBetween
  <2>6. \A x \in Readers : x # r => scan'[x].phase # "paging"
    BY <1>1, <2>2 DEF CacheInv, OneScan, TypeOK
  <2>7. QED
    BY <1>1, <2>3, <2>4, <2>5, <2>6 DEF CacheInv, ScansExact
<1>4. CASE ~(NextPage(s.next) <= s.latest)
  <2>1. LastOfPage(s) = s.latest
    BY <1>1, <1>4 DEF LastOfPage, NextPage
  <2>2. logCache' = EntryOf(s, out) /\ Settle(r)
    BY <1>4 DEF PageAnswered, Resolve
  <2>3. OneScan' /\ ScansExact'
    BY <1>1, <2>2, SettleInv DEF CacheInv, ScansExact
  <2>4. EntryOf(s, out).scannedTo = s.latest
    BY DEF EntryOf
  <2>5. ASSUME clean
        PROVE  s.latest <= head /\ EntryOf(s, out).logs = LogsBetween(0, s.latest)
    <3>1. ScanExact(s)
      BY <1>1, <2>5 DEF CacheInv, ScansExact
    <3>2. s.next <= s.latest /\ s.latest <= head
      BY <3>1 DEF ScanExact
    <3>3. out = LogsBetween(a, s.latest)
      BY <1>1, <1>2, <2>1, <2>5, <3>2
    <3>4. CASE s.hit = NoEntry
      BY <3>2, <3>3, <3>4 DEF EntryOf, FirstUnscanned
    <3>5. CASE s.hit # NoEntry
      <4>1. s.hit \in Entry /\ s.hit = logCache
        BY <3>1, <3>5, ScanFields DEF ScanExact
      <4>2. s.hit.scannedTo \in Nat /\ a = s.hit.scannedTo + 1 /\ a <= s.latest
        <5>1. s.hit.scannedTo \in Nat /\ a = s.hit.scannedTo + 1
          BY <3>5, <4>1, EntryFields, BlocksAreNat DEF FirstUnscanned
        <5>2. QED
          BY <1>1, <3>1, <3>2, <5>1 DEF ScanExact
      <4>3. s.hit.logs = LogsBetween(0, a - 1)
        <5>1. s.hit.logs = LogsBetween(0, s.hit.scannedTo)
          BY <2>5, <3>5, <4>1 DEF CacheInv, CacheExact, Exactly
        <5>2. a - 1 = s.hit.scannedTo
          BY <4>2
        <5>3. QED
          BY <5>1, <5>2
      <4>4. Plus(s.hit.logs, out) = LogsBetween(0, s.latest)
        BY <1>1, <3>3, <4>2, <4>3, LogsSplit DEF LogsBetween
      <4>5. QED
        BY <3>2, <3>5, <4>4 DEF EntryOf
    <3>6. QED
      BY <3>4, <3>5
  <2>6. CacheBehind' /\ CacheExact'
    BY <1>1, <2>2, <2>4, <2>5
    DEF CacheBehind, CacheExact, Exactly, LogsBetween
  <2>7. QED
    BY <2>3, <2>6 DEF CacheInv
<1>5. QED
  BY <1>3, <1>4

LEMMA NextInv == TypeOK /\ CacheInv /\ [Next]_vars => CacheInv'
<1> SUFFICES ASSUME TypeOK, CacheInv, [Next]_vars PROVE CacheInv'
  OBVIOUS
<1>1. CASE ReplaceChain
  BY <1>1 DEF ReplaceChain, CacheInv, OneScan, ScansExact, CacheBehind,
              CacheExact
<1>2. ASSUME NEW r \in Readers, Query(r)
      PROVE  CacheInv'
  <2>1. /\ UNCHANGED <<nodeVars, logCache, clean>>
        /\ \A x \in Readers : scan'[x].phase = "paging" => scan'[x] = scan[x]
    BY <1>2 DEF Query, StartScan, JoinScan, TypeOK, NoScan
  <2>2. OneScan'
    BY <1>2, LogCacheAssumption
    DEF CacheInv, OneScan, Query, StartScan, JoinScan, TypeOK
  <2>3. ScansExact'
    BY <2>1 DEF CacheInv, ScansExact, ScanExact, LogsBetween, nodeVars
  <2>4. QED
    BY <2>1, <2>2, <2>3
    DEF CacheInv, CacheBehind, CacheExact, Exactly, LogsBetween, nodeVars
<1>3. ASSUME NEW r \in Readers, NodeFails(r)
      PROVE  CacheInv'
  <2>1. OneScan' /\ \A x \in Readers : scan'[x].phase = "none"
    BY <1>3, SettleInv DEF NodeFails, CacheInv
  <2>2. QED
    BY <1>3, <2>1
    DEF CacheInv, ScansExact, CacheBehind, CacheExact, Exactly, LogsBetween,
        NodeFails, nodeVars
<1>4. CASE UNCHANGED vars
  BY <1>4 DEF vars, nodeVars, CacheInv, OneScan, ScansExact, ScanExact,
              CacheBehind, CacheExact, Exactly, LogsBetween
<1>5. QED
  BY <1>1, <1>2, <1>3, <1>4, NewBlockInv, HeadAnsweredInv, PageAnsweredInv
  DEF Next, NodeAnswers

(***************************************************************************)
(* What is cached is the history of the chain up to where it was scanned,  *)
(* each log once.                                                          *)
(***************************************************************************)
THEOREM CacheIsExact == Spec => []CacheExact
<1>1. CacheInv => CacheExact
  BY DEF CacheInv
<1>2. QED
  BY <1>1, InitInv, NextInv, CacheTypeCorrect, PTL DEF Spec

-----------------------------------------------------------------------------
(* How far an answer reaches. *)

\* Everyone who waits shares the one scan, which is bound for the block it
\* owes them or, before it knows the head, for at least that.
SharedInv ==
    \A r \in Readers : awaits[r] # NoReader =>
        /\ awaits[r] = inFlight
        /\ owed[r] <= IF scan[inFlight].phase = "paging"
                      THEN scan[inFlight].latest
                      ELSE head

LEMMA SharedInit == Init => SharedInv
BY DEF Init, SharedInv

\* A scan that ends releases everyone.
LEMMA AllReleased ==
  ASSUME OneScan, SharedInv, NEW r \in Readers, scan[r].phase # "none",
         Settle(r)
  PROVE  \A x \in Readers : /\ awaits'[x] = NoReader
                            /\ awaits[x] # NoReader => awaits[x] = r
BY DEF OneScan, SharedInv, Settle

LEMMA QueryShared ==
  ASSUME TypeOK, OneScan, SharedInv, NEW r \in Readers, Query(r)
  PROVE  SharedInv'
<1>1. head \in Nat /\ head' = head
  BY BlocksAreNat DEF Query, nodeVars, TypeOK
<1>2. CASE inFlight = NoReader
  <2>1. /\ inFlight' = r
        /\ awaits' = [awaits EXCEPT ![r] = r]
        /\ scan' = [scan EXCEPT ![r] = [NoScan EXCEPT !.phase = "head"]]
        /\ owed' = [owed EXCEPT ![r] = head]
    BY <1>2 DEF Query, StartScan
  <2>2. scan'[r].phase = "head"
    BY <2>1 DEF TypeOK, NoScan
  <2>3. \A x \in Readers : x # r => awaits'[x] = NoReader
    BY <1>2, <2>1 DEF SharedInv, TypeOK
  <2>4. owed'[r] = head /\ awaits'[r] = r
    BY <2>1 DEF TypeOK
  <2> QED
    BY <1>1, <2>1, <2>2, <2>3, <2>4 DEF SharedInv
<1>3. CASE inFlight # NoReader
  <2>1. /\ inFlight' = inFlight /\ scan' = scan /\ inFlight \in Readers
        /\ awaits' = [awaits EXCEPT ![r] = inFlight]
        /\ owed' = [owed EXCEPT ![r] =
                IF scan[inFlight].phase = "paging"
                THEN scan[inFlight].latest
                ELSE head]
    BY <1>3 DEF Query, JoinScan, TypeOK
  <2>2. scan[inFlight].latest \in Nat
    BY <2>1, ScanFields
  <2> SUFFICES ASSUME NEW x \in Readers, awaits'[x] # NoReader
               PROVE  /\ awaits'[x] = inFlight
                      /\ owed'[x] <= IF scan[inFlight].phase = "paging"
                                     THEN scan[inFlight].latest
                                     ELSE head
    BY <1>1, <2>1 DEF SharedInv
  <2>3. CASE x = r
    BY <1>1, <2>1, <2>2, <2>3 DEF TypeOK
  <2>4. CASE x # r
    BY <2>1, <2>4 DEF SharedInv, TypeOK
  <2> QED
    BY <2>3, <2>4
<1> QED
  BY <1>2, <1>3

\* What an answer of the node does to the readers: nothing yet, or everyone
\* who waits gets what is then cached, which reaches what they are owed.
Served(r) ==
    /\ logCache' \in Entry
    /\ Resolve(r, logCache'.logs)
    /\ \A x \in Readers : awaits[x] # NoReader =>
            awaits[x] = r /\ owed[x] <= logCache'.scannedTo

LEMMA NodeServes ==
  ASSUME TypeOK, OneScan, SharedInv, NEW r \in Readers, NodeAnswers(r)
  PROVE  /\ UNCHANGED nodeVars
         /\ Served(r) \/ (UNCHANGED <<awaits, answer>> /\ SharedInv')
<1>1. scan[r].phase # "none" /\ UNCHANGED <<nodeVars, owed>> /\ inFlight = r
  BY DEF NodeAnswers, HeadAnswered, PageAnswered, OneScan
<1>2. /\ head \in Nat /\ head' = head
  BY <1>1, BlocksAreNat DEF nodeVars, TypeOK
<1>3. CASE HeadAnswered(r)
  <2> DEFINE hit == Usable(head)
  <2>1. hit \in Entry \cup {NoEntry} /\ logCache' = hit
        /\ scan[r].phase = "head"
    BY <1>3 DEF HeadAnswered, Usable, TypeOK
  <2>2. \A x \in Readers : awaits[x] # NoReader =>
            awaits[x] = r /\ owed[x] <= head
    BY <1>1, <2>1 DEF SharedInv
  <2>3. CASE NothingNew(hit, head)
    <3>1. hit \in Entry /\ hit.scannedTo = head
      BY <2>1, <2>3 DEF NothingNew
    <3>2. Resolve(r, logCache'.logs)
      BY <1>3, <2>1, <2>3 DEF HeadAnswered
    <3>3. Served(r)
      BY <2>1, <2>2, <3>1, <3>2 DEF Served
    <3> QED
      BY <1>1, <3>3
  <2>4. CASE ~NothingNew(hit, head)
    <3> DEFINE s == [phase |-> "paging", hit |-> hit, latest |-> head,
                     next |-> FirstUnscanned(hit), out |-> NoLogs]
    <3>1. scan' = [scan EXCEPT ![r] = s]
          /\ UNCHANGED <<inFlight, awaits, answer>>
      BY <1>3, <2>4 DEF HeadAnswered
    <3>2. scan'[r].phase = "paging" /\ scan'[r].latest = head
      BY <3>1 DEF TypeOK
    <3>3. SharedInv'
      BY <1>1, <2>2, <3>1, <3>2 DEF SharedInv
    <3> QED
      BY <1>1, <3>1, <3>3
  <2> QED
    BY <2>3, <2>4
<1>4. CASE PageAnswered(r)
  <2> DEFINE s == scan[r]
             out == Plus(s.out, LogsBetween(s.next, LastOfPage(s)))
  <2>1. s.phase = "paging"
    BY <1>4 DEF PageAnswered
  <2>2. \A x \in Readers : awaits[x] # NoReader =>
            awaits[x] = r /\ owed[x] <= s.latest
    BY <1>1, <2>1 DEF SharedInv
  <2>3. CASE NextPage(s.next) <= s.latest
    <3>1. /\ scan' = [scan EXCEPT ![r].out = out,
                                  ![r].next = NextPage(s.next)]
          /\ UNCHANGED <<inFlight, awaits, answer>>
      BY <1>4, <2>3 DEF PageAnswered
    <3>2. scan'[r].phase = "paging" /\ scan'[r].latest = s.latest
      BY <2>1, <3>1, ScanFields DEF TypeOK, Scan
    <3>3. SharedInv'
      BY <1>1, <2>2, <3>1, <3>2 DEF SharedInv
    <3> QED
      BY <1>1, <3>1, <3>3
  <2>4. CASE ~(NextPage(s.next) <= s.latest)
    <3>1. logCache' = EntryOf(s, out) /\ Resolve(r, EntryOf(s, out).logs)
      BY <1>4, <2>4 DEF PageAnswered
    <3>2. out \in LogList
      BY ScanFields, LastOfPageType, LogsBetweenType, PlusType
    <3>3. EntryOf(s, out) \in Entry /\ EntryOf(s, out).scannedTo = s.latest
      BY <3>2, EntryOfType DEF EntryOf
    <3> HIDE DEF s, out
    <3>4. Served(r)
      BY <2>2, <3>1, <3>3 DEF Served
    <3> QED
      BY <1>1, <3>4
  <2> QED
    BY <2>3, <2>4
<1> QED
  BY <1>3, <1>4 DEF NodeAnswers

LEMMA ServedShared ==
  ASSUME OneScan, SharedInv, NEW r \in Readers, Served(r)
  PROVE  SharedInv'
<1>1. \A x \in Readers : awaits'[x] = NoReader
  BY DEF Served, Resolve, Settle
<1> QED
  BY <1>1 DEF SharedInv

LEMMA SharedNext ==
  TypeOK /\ CacheInv /\ SharedInv /\ [Next]_vars => SharedInv'
<1> SUFFICES ASSUME TypeOK, OneScan, SharedInv, [Next]_vars PROVE SharedInv'
  BY DEF CacheInv
<1>1. CASE NewBlock
  <2>1. head \in Nat /\ head' = head + 1 /\ \A x \in Readers : owed[x] \in Nat
    BY <1>1, BlocksAreNat DEF NewBlock, TypeOK
  <2> QED
    BY <1>1, <2>1 DEF NewBlock, SharedInv
<1>2. CASE ReplaceChain
  <2>1. inFlight \in Readers => scan[inFlight].latest \in Nat
    BY ScanFields
  <2>2. \A x \in Readers : awaits[x] # NoReader => inFlight \in Readers
    BY DEF SharedInv, TypeOK
  <2> QED
    BY <1>2, <2>1, <2>2 DEF ReplaceChain, SharedInv
<1>3. ASSUME NEW r \in Readers, NodeFails(r) PROVE SharedInv'
  <2>1. \A x \in Readers : awaits'[x] = NoReader
    BY <1>3, AllReleased DEF NodeFails
  <2> QED
    BY <2>1 DEF SharedInv
<1>4. CASE UNCHANGED vars
  BY <1>4 DEF vars, nodeVars, SharedInv
<1> QED
  BY <1>1, <1>2, <1>3, <1>4, QueryShared, NodeServes, ServedShared
  DEF Next

Reaches(r) ==
    Answered(r) /\ clean' =>
        \A l \in Logs :
            l[1] = chain /\ l[2] \in marked /\ l[2] <= owed[r] =>
                answer'[r][l] > 0

LEMMA ReachesNext ==
  ASSUME TypeOK, CacheInv, SharedInv, [Next]_vars, TypeOK', CacheInv',
         NEW r \in Readers
  PROVE  Reaches(r)
<1> SUFFICES ASSUME Answered(r), clean',
                    NEW l \in Logs, l[1] = chain, l[2] \in marked,
                    l[2] <= owed[r]
             PROVE  answer'[r][l] > 0
  BY DEF Reaches
<1>1. awaits[r] # NoReader /\ awaits'[r] # awaits[r] /\ ~failed'[r]
  BY DEF Answered
<1>2. ASSUME NEW x \in Readers, Query(x) PROVE FALSE
  BY <1>1, <1>2 DEF Query, StartScan, JoinScan, TypeOK
<1>3. ASSUME NEW x \in Readers, NodeFails(x) PROVE FALSE
  <2>1. awaits[r] = x
    BY <1>1, <1>3 DEF NodeFails, Settle
  <2> QED
    BY <1>1, <1>3, <2>1 DEF NodeFails
<1>4. PICK x \in Readers : NodeAnswers(x)
  BY <1>1, <1>2, <1>3 DEF Next, NewBlock, ReplaceChain, vars
<1>5. Served(x) /\ UNCHANGED nodeVars
  BY <1>1, <1>4, NodeServes DEF CacheInv
<1>6. awaits[r] = x /\ owed[r] <= logCache'.scannedTo
      /\ logCache' # NoEntry /\ logCache'.scannedTo \in Nat
  BY <1>1, <1>5, EntryFields, BlocksAreNat DEF Served
<1>7. answer'[r] = logCache'.logs
  BY <1>5, <1>6 DEF Served, Resolve
<1>8. logCache'.logs = LogsOf(chain, marked, 0, logCache'.scannedTo)
  BY <1>5, <1>6 DEF CacheInv, CacheExact, Exactly, LogsBetween, nodeVars
<1>9. l[2] \in Nat /\ owed[r] \in Nat
  BY LogBlocks, BlocksAreNat DEF TypeOK
<1>10. l[2] <= logCache'.scannedTo
  BY <1>6, <1>9
<1> QED
  BY <1>7, <1>8, <1>9, <1>10 DEF LogsOf

\* An answer reaches the block its reader is owed, for any number of readers
\* who share scans, any page size and however the chain grows (chain.js,
\* queryLogs).
THEOREM AnswersReach == Spec => AnswersReachFarEnough
<1>1. /\ TypeOK /\ CacheInv /\ SharedInv
      /\ TypeOK' /\ CacheInv'
      /\ [Next]_vars
      => [\A r \in Readers :
            Answered(r) /\ clean' =>
                \A l \in Logs :
                    l[1] = chain /\ l[2] \in marked /\ l[2] <= owed[r] =>
                        answer'[r][l] > 0]_vars
  BY ReachesNext DEF Reaches
<1> QED
  BY <1>1, InitType, NextType, InitInv, NextInv, SharedInit, SharedNext, PTL
  DEF Spec, AnswersReachFarEnough

-----------------------------------------------------------------------------
(* Answers do not shrink. *)

\* A list of logs of a range of blocks, each at most once, of the chains so
\* far: of chain c what it carries.
Listed(c, m, logs, from, to) ==
    \A l \in Logs :
        /\ logs[l] <= 1
        /\ logs[l] > 0 => /\ from <= l[2] /\ l[2] <= to
                          /\ l[1] < c \/ (l[1] = c /\ l[2] \in m)

MarkedBelow == \A b \in marked : b <= head

CacheListed ==
    logCache # NoEntry =>
        Listed(chain, marked, logCache.logs, 0, logCache.scannedTo)

AnswersListed ==
    \A x \in Readers : Listed(chain, marked, answer[x], 0, MaxHead)

\* A log of the chain that a reader was told of.
Told(x, l) == l[1] = chain /\ answer[x][l] > 0

AnswersHeld ==
    logCache # NoEntry =>
        \A x \in Readers, l \in Logs : Told(x, l) => logCache.logs[l] > 0

\* Where the cache is empty, the scan has it or is yet to come to it.
ScanCovers(s) ==
    s.hit = NoEntry =>
        \A x \in Readers, l \in Logs : Told(x, l) =>
            s.out[l] > 0 \/ (s.next <= l[2] /\ l[2] <= s.latest)

ScanListed(s) ==
    /\ s.hit = logCache
    /\ FirstUnscanned(s.hit) <= s.next
    /\ s.next <= s.latest
    /\ Listed(chain, marked, s.out, FirstUnscanned(s.hit), s.next - 1)
    /\ ScanCovers(s)

ScansListed ==
    \A x \in Readers : scan[x].phase = "paging" => ScanListed(scan[x])

ListsInv ==
    /\ MarkedBelow
    /\ CacheListed
    /\ AnswersListed
    /\ AnswersHeld
    /\ ScansListed

LEMMA ListsInit == Init => ListsInv
<1> SUFFICES ASSUME Init PROVE ListsInv
  OBVIOUS
<1>1. \A x \in Readers : answer[x] = NoLogs /\ scan[x].phase = "none"
  BY DEF Init, NoScan
<1>2. \A l \in Logs : NoLogs[l] = 0
  BY DEF NoLogs
<1>3. logCache = NoEntry /\ marked = {}
  BY DEF Init
<1> QED
  BY <1>1, <1>2, <1>3
  DEF ListsInv, MarkedBelow, CacheListed, AnswersListed, Listed, AnswersHeld,
      ScansListed

\* The chain grows: what was listed stays listed.
LEMMA ListedGrows ==
  ASSUME NEW c \in Nat, NEW m, NEW more, m \subseteq more, NEW logs, NEW a,
         NEW b, Listed(c, m, logs, a, b)
  PROVE  Listed(c, more, logs, a, b)
BY DEF Listed

\* The chain is replaced: no list has a log of the new one.
LEMMA ListedReplaced ==
  ASSUME NEW c \in Nat, NEW m, NEW logs \in LogList, NEW a, NEW b,
         Listed(c, m, logs, a, b)
  PROVE  /\ Listed(c + 1, {}, logs, a, b)
         /\ \A l \in Logs : l[1] = c + 1 => ~(logs[l] > 0)
<1>1. \A l \in Logs : l[1] \in Nat /\ logs[l] \in Nat
  BY LogCacheAssumption DEF Logs, LogList
<1> QED
  BY <1>1 DEF Listed

LEMMA PageListed ==
  ASSUME TypeOK, NEW a \in Int, NEW b \in Int
  PROVE  /\ Listed(chain, marked, LogsBetween(a, b), a, b)
         /\ \A l \in Logs : l[1] = chain /\ l[2] \in marked /\ a <= l[2]
                            /\ l[2] <= b => LogsBetween(a, b)[l] = 1
         /\ \A l \in Logs : LogsBetween(a, b)[l] \in Nat
BY DEF LogsBetween, LogsOf, Listed

\* Two adjoining lists are one.
LEMMA ListedPlus ==
  ASSUME NEW c, NEW m, NEW s \in LogList, NEW t \in LogList, NEW a \in Int,
         NEW b \in Int, NEW d \in Int, a <= b, b <= d + 1,
         Listed(c, m, s, a, b - 1), Listed(c, m, t, b, d)
  PROVE  Listed(c, m, Plus(s, t), a, d)
<1> SUFFICES ASSUME NEW l \in Logs
             PROVE  /\ Plus(s, t)[l] <= 1
                    /\ Plus(s, t)[l] > 0 =>
                          /\ a <= l[2] /\ l[2] <= d
                          /\ l[1] < c \/ (l[1] = c /\ l[2] \in m)
  BY DEF Listed
<1>1. /\ Plus(s, t)[l] = s[l] + t[l]
      /\ s[l] \in Nat /\ t[l] \in Nat /\ l[2] \in Nat
  BY LogBlocks DEF Plus, LogList
<1>2. s[l] <= 1 /\ t[l] <= 1
  BY DEF Listed
<1>3. s[l] > 0 => /\ a <= l[2] /\ l[2] <= b - 1
                  /\ l[1] < c \/ (l[1] = c /\ l[2] \in m)
  BY DEF Listed
<1>4. t[l] > 0 => /\ b <= l[2] /\ l[2] <= d
                  /\ l[1] < c \/ (l[1] = c /\ l[2] \in m)
  BY DEF Listed
<1>5. CASE s[l] > 0
  <2>1. t[l] = 0
    BY <1>1, <1>3, <1>4, <1>5
  <2> QED
    BY <1>1, <1>2, <1>3, <1>5, <2>1
<1>6. CASE s[l] = 0
  BY <1>1, <1>2, <1>4, <1>6
<1> QED
  BY <1>1, <1>5, <1>6

LEMMA MarkedNext ==
  ASSUME TypeOK, MarkedBelow, [Next]_vars
  PROVE  MarkedBelow'
<1>1. head \in Nat /\ \A b \in marked : b \in Nat
  BY BlocksAreNat DEF TypeOK
<1>2. CASE NewBlock
  BY <1>1, <1>2 DEF NewBlock, MarkedBelow
<1>3. CASE ReplaceChain
  BY <1>3 DEF ReplaceChain, MarkedBelow
<1>4. CASE UNCHANGED nodeVars
  BY <1>4 DEF nodeVars, MarkedBelow
<1> QED
  BY <1>2, <1>3, <1>4
  DEF Next, Query, NodeAnswers, HeadAnswered, PageAnswered, NodeFails, vars

\* What a new block or a new network does to the lists.
LEMMA NodeLists ==
  ASSUME TypeOK, ListsInv, NewBlock \/ ReplaceChain, [Next]_vars
  PROVE  ListsInv'
<1>1. UNCHANGED <<logCache, scan, answer>>
  BY DEF NewBlock, ReplaceChain
<1>2. chain \in Nat
  BY DEF TypeOK
<1>3. ASSUME NEW logs \in LogList, NEW a, NEW b, Listed(chain, marked, logs, a, b)
      PROVE  /\ Listed(chain', marked', logs, a, b)
             /\ \A l \in Logs : l[1] = chain' /\ logs[l] > 0 => chain' = chain
  <2>1. CASE NewBlock
    <3>1. chain' = chain /\ marked \subseteq marked'
      BY <2>1 DEF NewBlock
    <3> QED
      BY <1>2, <1>3, <3>1, ListedGrows
  <2>2. CASE ReplaceChain
    <3>1. chain' = chain + 1 /\ marked' = {}
      BY <2>2 DEF ReplaceChain
    <3> QED
      BY <1>2, <1>3, <3>1, ListedReplaced
  <2> QED
    BY <2>1, <2>2
<1>4. CacheListed'
  <2> SUFFICES ASSUME logCache # NoEntry
               PROVE  Listed(chain', marked', logCache.logs, 0, logCache.scannedTo)
    BY <1>1 DEF CacheListed
  <2>1. logCache.logs \in LogList
    BY EntryFields DEF TypeOK
  <2> QED
    BY <1>3, <2>1 DEF ListsInv, CacheListed
<1>5. AnswersListed' /\ \A x \in Readers, l \in Logs : Told(x, l)' => Told(x, l)
  <2>1. \A x \in Readers : /\ answer[x] \in LogList
                           /\ Listed(chain, marked, answer[x], 0, MaxHead)
    BY DEF TypeOK, ListsInv, AnswersListed
  <2> QED
    BY <1>1, <1>3, <2>1 DEF AnswersListed, Told
<1>6. AnswersHeld'
  BY <1>1, <1>5 DEF ListsInv, AnswersHeld
<1>7. ASSUME NEW x \in Readers, scan[x].phase = "paging"
      PROVE  ScanListed(scan[x])'
  <2>1. ScanListed(scan[x]) /\ scan[x].out \in LogList
    BY <1>7, ScanFields DEF ListsInv, ScansListed
  <2>2. Listed(chain', marked', scan[x].out, FirstUnscanned(scan[x].hit),
               scan[x].next - 1)
    BY <1>3, <2>1 DEF ScanListed
  <2>3. ScanCovers(scan[x])'
    BY <1>1, <1>5, <2>1 DEF ScanListed, ScanCovers
  <2> QED
    BY <1>1, <2>1, <2>2, <2>3 DEF ScanListed, FirstUnscanned
<1> QED
  BY <1>1, <1>4, <1>5, <1>6, <1>7, MarkedNext DEF ListsInv, ScansListed

\* Steps that change neither node, cache nor answers, and no scan that pages.
LEMMA ListsKept ==
  ASSUME ListsInv, UNCHANGED <<nodeVars, logCache, answer>>,
         \A x \in Readers : scan'[x].phase = "paging" => scan'[x] = scan[x]
  PROVE  ListsInv'
<1>1. MarkedBelow' /\ CacheListed' /\ AnswersListed' /\ AnswersHeld'
  BY DEF ListsInv, MarkedBelow, CacheListed, AnswersListed, AnswersHeld, Told,
         Listed, nodeVars
<1>2. ASSUME NEW x \in Readers, scan'[x].phase = "paging"
      PROVE  ScanListed(scan[x])'
  <2>1. ScanListed(scan[x]) /\ scan'[x] = scan[x]
    BY <1>2 DEF ListsInv, ScansListed
  <2> QED
    BY <2>1
    DEF ScanListed, ScanCovers, Told, Listed, FirstUnscanned, nodeVars
<1> QED
  BY <1>1, <1>2 DEF ListsInv, ScansListed

\* What readers were told of the chain is in what is cached after a step.
HeldOn ==
    logCache' # NoEntry =>
        \A x \in Readers, l \in Logs : Told(x, l) => logCache'.logs[l] > 0

LEMMA OtherScans ==
  ASSUME TypeOK, OneScan, NEW r \in Readers, scan[r].phase # "none"
  PROVE  \A x \in Readers : x # r => scan[x].phase = "none"
BY DEF OneScan

\* A scan that ends well: what it leaves in the cache is listed, and holds
\* all that readers were told.
LEMMA ServedLists ==
  ASSUME TypeOK, OneScan, ListsInv, NEW r \in Readers,
         scan[r].phase # "none", UNCHANGED nodeVars, logCache' \in Entry,
         Resolve(r, logCache'.logs),
         Listed(chain, marked, logCache'.logs, 0, logCache'.scannedTo),
         \A x \in Readers, l \in Logs : Told(x, l) => logCache'.logs[l] > 0
  PROVE  ListsInv' /\ HeldOn
<1> DEFINE logs == logCache'.logs
<1>1. chain' = chain /\ marked' = marked /\ head' = head
  BY DEF nodeVars
<1>2. \A x \in Readers : scan'[x].phase = "none"
  BY SettleInv DEF Resolve
<1>3. \A x \in Readers : answer'[x] = logs \/ answer'[x] = answer[x]
  BY DEF Resolve
<1>4. MarkedBelow'
  BY <1>1 DEF ListsInv, MarkedBelow
<1>5. CacheListed'
  BY <1>1 DEF CacheListed
<1>6. logCache'.scannedTo \in Nat /\ logCache'.scannedTo <= MaxHead
  BY EntryFields, LogCacheAssumption DEF Blocks
<1>7. Listed(chain, marked, logs, 0, MaxHead)
  <2>1. \A l \in Logs : l[2] \in Nat /\ MaxHead \in Nat
    BY LogBlocks, LogCacheAssumption
  <2> QED
    BY <1>6, <2>1 DEF Listed
<1>8. AnswersListed'
  <2> SUFFICES ASSUME NEW x \in Readers
               PROVE  Listed(chain, marked, answer'[x], 0, MaxHead)
    BY <1>1 DEF AnswersListed
  <2>1. Listed(chain, marked, answer[x], 0, MaxHead)
    BY DEF ListsInv, AnswersListed
  <2> HIDE DEF logs
  <2> QED
    BY <1>3, <1>7, <2>1
<1>9. AnswersHeld'
  <2> SUFFICES ASSUME NEW x \in Readers, NEW l \in Logs, Told(x, l)'
               PROVE  logs[l] > 0
    BY DEF AnswersHeld
  <2>1. l[1] = chain /\ answer'[x][l] > 0
    BY <1>1 DEF Told
  <2>2. CASE answer'[x] = answer[x]
    BY <2>1, <2>2 DEF Told
  <2>3. CASE answer'[x] = logs
    BY <2>1, <2>3
  <2> QED
    BY <1>3, <2>2, <2>3
<1> QED
  BY <1>2, <1>4, <1>5, <1>8, <1>9 DEF ListsInv, ScansListed, HeldOn

\* A step of a scan under way, which leaves the answers alone.
LEMMA PagingLists ==
  ASSUME TypeOK, OneScan, ListsInv, NEW r \in Readers,
         scan[r].phase # "none", UNCHANGED <<nodeVars, answer>>,
         logCache' \in {logCache, NoEntry},
         NEW s, scan' = [scan EXCEPT ![r] = s],
         s.hit = logCache',
         FirstUnscanned(s.hit) <= s.next, s.next <= s.latest,
         Listed(chain, marked, s.out, FirstUnscanned(s.hit), s.next - 1),
         ScanCovers(s)
  PROVE  ListsInv' /\ HeldOn
<1>1. chain' = chain /\ marked' = marked /\ head' = head /\ answer' = answer
  BY DEF nodeVars
<1>2. MarkedBelow' /\ CacheListed' /\ AnswersListed' /\ AnswersHeld'
  BY <1>1 DEF ListsInv, MarkedBelow, CacheListed, AnswersListed, AnswersHeld,
              Told, Listed
<1>3. scan'[r] = s /\ \A x \in Readers : x # r => scan'[x].phase = "none"
  BY OtherScans DEF TypeOK
<1>4. ScanCovers(scan[r])'
  BY <1>1, <1>3 DEF ScanCovers, Told
<1>5. ScanListed(scan[r])'
  BY <1>1, <1>3, <1>4 DEF ScanListed, FirstUnscanned
<1>6. HeldOn
  BY DEF ListsInv, AnswersHeld, HeldOn
<1> QED
  BY <1>2, <1>3, <1>5, <1>6 DEF ListsInv, ScansListed

\* What readers were told of is a log the chain carries.
LEMMA ToldCarried ==
  ASSUME TypeOK, ListsInv, NEW x \in Readers, NEW l \in Logs, Told(x, l)
  PROVE  /\ l[2] \in marked /\ l[2] <= head /\ l[2] \in Nat
         /\ answer[x][l] = 1
<1>1. /\ answer[x][l] > 0 /\ l[1] = chain /\ chain \in Nat
      /\ answer[x][l] \in Nat
  BY DEF Told, TypeOK, LogList
<1>2. answer[x][l] <= 1 /\ (l[1] < chain \/ l[2] \in marked)
  BY <1>1 DEF ListsInv, AnswersListed, Listed
<1> QED
  BY <1>1, <1>2, LogBlocks DEF ListsInv, MarkedBelow

LEMMA HeadLists ==
  ASSUME TypeOK, OneScan, ListsInv, NEW r \in Readers, HeadAnswered(r)
  PROVE  ListsInv' /\ HeldOn
<1> DEFINE hit == Usable(head)
<1>1. /\ hit \in Entry \cup {NoEntry} /\ logCache' = hit
      /\ hit = NoEntry \/ hit = logCache
      /\ scan[r].phase # "none" /\ UNCHANGED nodeVars /\ head \in Nat
  BY BlocksAreNat DEF Usable, TypeOK, HeadAnswered
<1>2. CASE NothingNew(hit, head)
  <2>1. hit \in Entry /\ hit = logCache /\ hit # NoEntry
    BY <1>1, <1>2 DEF NothingNew
  <2>2. Resolve(r, logCache'.logs)
    BY <1>1, <1>2 DEF HeadAnswered
  <2>3. Listed(chain, marked, hit.logs, 0, hit.scannedTo)
        /\ \A x \in Readers, l \in Logs : Told(x, l) => hit.logs[l] > 0
    BY <2>1 DEF ListsInv, CacheListed, AnswersHeld
  <2> HIDE DEF hit
  <2> QED
    BY <1>1, <2>1, <2>2, <2>3, ServedLists
<1>3. CASE ~NothingNew(hit, head)
  <2> DEFINE s == [phase |-> "paging", hit |-> hit, latest |-> head,
                   next |-> FirstUnscanned(hit), out |-> NoLogs]
  <2>1. scan' = [scan EXCEPT ![r] = s] /\ UNCHANGED answer
    BY <1>3 DEF HeadAnswered
  <2>2. FirstUnscanned(hit) \in Nat /\ FirstUnscanned(hit) <= head
    <3>1. CASE hit = NoEntry
      BY <1>1, <3>1 DEF FirstUnscanned
    <3>2. CASE hit # NoEntry
      <4>1. hit.scannedTo \in Nat /\ hit.scannedTo # head
        BY <1>1, <1>3, <3>2, EntryFields, BlocksAreNat DEF NothingNew
      <4>2. hit.scannedTo <= head
        BY <1>1, <3>2, <4>1 DEF Usable
      <4> QED
        BY <1>1, <3>2, <4>1, <4>2 DEF FirstUnscanned
    <3> QED
      BY <3>1, <3>2
  <2>3. Listed(chain, marked, NoLogs, FirstUnscanned(hit),
               FirstUnscanned(hit) - 1)
    BY DEF Listed, NoLogs
  <2>4. \A x \in Readers, l \in Logs : Told(x, l) => 0 <= l[2] /\ l[2] <= head
    BY ToldCarried
  <2>5. ScanCovers(s)
    BY <2>4 DEF ScanCovers, FirstUnscanned
  <2>6. /\ s.hit = logCache' /\ FirstUnscanned(s.hit) <= s.next
        /\ s.next <= s.latest
        /\ Listed(chain, marked, s.out, FirstUnscanned(s.hit), s.next - 1)
    BY <1>1, <2>2, <2>3
  <2>7. logCache' \in {logCache, NoEntry} /\ UNCHANGED <<nodeVars, answer>>
    BY <1>1, <2>1
  <2> HIDE DEF s, hit
  <2> QED
    BY <1>1, <2>1, <2>5, <2>6, <2>7, PagingLists
<1> QED
  BY <1>2, <1>3

\* A page adds what it lists; what it had to cover it has.
LEMMA PageAdds ==
  ASSUME TypeOK, ListsInv, NEW r \in Readers, scan[r].phase = "paging",
         NEW last \in Int, scan[r].next <= last + 1
  PROVE  LET s   == scan[r]
             out == Plus(s.out, LogsBetween(s.next, last))
         IN  /\ Listed(chain, marked, out, FirstUnscanned(s.hit), last)
             /\ s.hit = NoEntry =>
                    \A x \in Readers, l \in Logs : Told(x, l) =>
                        out[l] > 0 \/ (last + 1 <= l[2] /\ l[2] <= s.latest)
<1> DEFINE s   == scan[r]
           t   == LogsBetween(s.next, last)
           out == Plus(s.out, t)
<1>1. ScanListed(s) /\ s.next \in Nat /\ s.out \in LogList
      /\ FirstUnscanned(s.hit) \in Nat
  BY ScanFields, FirstUnscannedType DEF ListsInv, ScansListed
<1>2. t \in LogList /\ Listed(chain, marked, t, s.next, last)
  BY <1>1, LogsBetweenType, PageListed
<1>3. Listed(chain, marked, out, FirstUnscanned(s.hit), last)
  <2>1. Listed(chain, marked, s.out, FirstUnscanned(s.hit), s.next - 1)
        /\ FirstUnscanned(s.hit) <= s.next
    BY <1>1 DEF ScanListed
  <2> HIDE DEF t
  <2> QED
    BY <1>1, <1>2, <2>1, ListedPlus
<1>4. ASSUME s.hit = NoEntry, NEW x \in Readers, NEW l \in Logs, Told(x, l)
      PROVE  out[l] > 0 \/ (last + 1 <= l[2] /\ l[2] <= s.latest)
  <2>1. l[1] = chain /\ l[2] \in marked /\ l[2] \in Nat
    BY <1>4, ToldCarried DEF Told
  <2>2. s.out[l] > 0 \/ (s.next <= l[2] /\ l[2] <= s.latest)
    BY <1>1, <1>4 DEF ScanListed, ScanCovers
  <2>3. out[l] = s.out[l] + t[l] /\ s.out[l] \in Nat /\ t[l] \in Nat
    BY <1>1, <1>2 DEF Plus, LogList
  <2>4. s.next <= l[2] /\ l[2] <= last => t[l] = 1
    BY <1>1, <2>1, PageListed
  <2> HIDE DEF out, t
  <2>5. CASE l[2] <= last
    BY <2>2, <2>3, <2>4, <2>5
  <2>6. CASE ~(l[2] <= last)
    BY <2>1, <2>2, <2>3, <2>6
  <2> QED
    BY <2>5, <2>6
<1> QED
  BY <1>3, <1>4

LEMMA PageLists ==
  ASSUME TypeOK, OneScan, ListsInv, NEW r \in Readers, PageAnswered(r)
  PROVE  ListsInv' /\ HeldOn
<1> DEFINE s    == scan[r]
           last == LastOfPage(s)
           out  == Plus(s.out, LogsBetween(s.next, last))
<1>1. s.phase = "paging" /\ UNCHANGED nodeVars
  BY DEF PageAnswered
<1>2. ScanListed(s)
  BY <1>1 DEF ListsInv, ScansListed
<1>3. /\ s.next \in Nat /\ s.latest \in Nat /\ last \in Int
      /\ FirstUnscanned(s.hit) \in Nat /\ Window \in Nat \ {0}
  BY ScanFields, FirstUnscannedType, LastOfPageType, LogCacheAssumption
<1>4. s.next <= last + 1
  BY <1>2, <1>3 DEF LastOfPage, ScanListed
<1>5. /\ Listed(chain, marked, out, FirstUnscanned(s.hit), last)
      /\ s.hit = NoEntry =>
            \A x \in Readers, l \in Logs : Told(x, l) =>
                out[l] > 0 \/ (last + 1 <= l[2] /\ l[2] <= s.latest)
  BY <1>1, <1>3, <1>4, PageAdds
<1>6. CASE NextPage(s.next) <= s.latest
  <2> DEFINE t == [s EXCEPT !.out = out, !.next = NextPage(s.next)]
  <2>1. last = s.next + Window - 1 /\ NextPage(s.next) = last + 1
    BY <1>3, <1>6 DEF LastOfPage, NextPage
  <2>2. scan' = [scan EXCEPT ![r].out = out, ![r].next = NextPage(s.next)]
        /\ UNCHANGED <<logCache, answer>>
    BY <1>6 DEF PageAnswered
  <2>3. scan' = [scan EXCEPT ![r] = t]
    BY <2>2 DEF TypeOK
  <2>4. /\ t.hit = s.hit /\ t.latest = s.latest
        /\ t.next = last + 1 /\ t.out = out
    BY <2>1, ScanFields DEF Scan
  <2>5. /\ t.hit = logCache' /\ FirstUnscanned(t.hit) <= t.next
        /\ t.next <= t.latest
    <3>1. s.hit = logCache /\ FirstUnscanned(s.hit) <= s.next
      BY <1>2 DEF ScanListed
    <3> HIDE DEF t, out, last
    <3> QED
      BY <1>3, <1>4, <1>6, <2>1, <2>2, <2>4, <3>1
  <2>6. Listed(chain, marked, t.out, FirstUnscanned(t.hit), t.next - 1)
    <3>1. t.next - 1 = last
      BY <1>3, <2>4
    <3> HIDE DEF t, out, last
    <3> QED
      BY <1>5, <2>4, <3>1
  <2>7. ScanCovers(t)
    <3> HIDE DEF t, out, last
    <3> QED
      BY <1>5, <2>4 DEF ScanCovers
  <2>8. logCache' \in {logCache, NoEntry} /\ UNCHANGED <<nodeVars, answer>>
    BY <1>1, <2>2
  <2>9. scan[r].phase # "none"
    BY <1>1
  <2> HIDE DEF t, out, last
  <2> QED
    BY <2>3, <2>5, <2>6, <2>7, <2>8, <2>9, PagingLists
<1>7. CASE ~(NextPage(s.next) <= s.latest)
  <2> DEFINE e == EntryOf(s, out)
  <2>1. last = s.latest
    BY <1>3, <1>7 DEF LastOfPage, NextPage
  <2>2. logCache' = e /\ Resolve(r, e.logs)
    BY <1>7 DEF PageAnswered
  <2>3. out \in LogList
    BY <1>3, ScanFields, LogsBetweenType, PlusType
  <2>4. e \in Entry /\ e.scannedTo = s.latest
    BY <2>3, EntryOfType DEF EntryOf
  <2>5. s.hit = NoEntry \/ s.hit \in Entry
    BY ScanFields
  <2>6. CASE s.hit = NoEntry
    <3>1. e.logs = out /\ FirstUnscanned(s.hit) = 0
      BY <2>6 DEF EntryOf, FirstUnscanned
    <3>2. Listed(chain, marked, e.logs, 0, e.scannedTo)
      <4> HIDE DEF e, out, last
      <4> QED
        BY <1>5, <2>1, <2>4, <3>1
    <3>3. ASSUME NEW x \in Readers, NEW l \in Logs, Told(x, l)
          PROVE  e.logs[l] > 0
      <4>1. l[2] \in Nat
        BY LogBlocks
      <4> HIDE DEF e, out, last
      <4>2. out[l] > 0 \/ (last + 1 <= l[2] /\ l[2] <= s.latest)
        BY <1>5, <2>6, <3>3
      <4> QED
        BY <1>3, <2>1, <3>1, <4>1, <4>2
    <3>4. scan[r].phase # "none"
      BY <1>1
    <3> HIDE DEF e, out, last
    <3> QED
      BY <1>1, <2>2, <2>4, <3>2, <3>3, <3>4, ServedLists
  <2>7. CASE s.hit \in Entry
    <3>1. s.hit # NoEntry /\ s.hit = logCache
          /\ s.hit.logs \in LogList /\ s.hit.scannedTo \in Nat
      BY <1>2, <2>7, EntryFields, BlocksAreNat DEF ScanListed
    <3>2. /\ e.logs = Plus(s.hit.logs, out)
          /\ FirstUnscanned(s.hit) = s.hit.scannedTo + 1
      BY <3>1 DEF EntryOf, FirstUnscanned
    <3>3. Listed(chain, marked, s.hit.logs, 0, s.hit.scannedTo)
          /\ \A x \in Readers, l \in Logs : Told(x, l) => s.hit.logs[l] > 0
      BY <3>1 DEF ListsInv, CacheListed, AnswersHeld
    <3>4. FirstUnscanned(s.hit) <= s.latest
      BY <1>2, <1>3 DEF ScanListed
    <3>5. Listed(chain, marked, e.logs, 0, e.scannedTo)
      <4> DEFINE b == s.hit.scannedTo + 1
      <4>1. b \in Int /\ 0 <= b /\ b <= last + 1 /\ b - 1 = s.hit.scannedTo
        BY <1>3, <2>1, <3>1, <3>2, <3>4
      <4>2. Listed(chain, marked, s.hit.logs, 0, b - 1)
        BY <3>3, <4>1
      <4>3. Listed(chain, marked, out, b, last)
        BY <1>5, <3>2
      <4> HIDE DEF e, out, last, b
      <4>4. Listed(chain, marked, Plus(s.hit.logs, out), 0, last)
        BY <1>3, <2>3, <3>1, <4>1, <4>2, <4>3, ListedPlus
      <4> QED
        BY <2>1, <2>4, <3>2, <4>4
    <3>6. ASSUME NEW x \in Readers, NEW l \in Logs, Told(x, l)
          PROVE  e.logs[l] > 0
      <4>1. s.hit.logs[l] > 0
        BY <3>3, <3>6
      <4>2. s.hit.logs[l] \in Nat /\ out[l] \in Nat
        BY <2>3, <3>1 DEF LogList
      <4>3. e.logs[l] = s.hit.logs[l] + out[l]
        BY <3>2 DEF Plus
      <4> HIDE DEF e, out, last
      <4> QED
        BY <4>1, <4>2, <4>3
    <3>7. scan[r].phase # "none"
      BY <1>1
    <3> HIDE DEF e, out, last
    <3> QED
      BY <1>1, <2>2, <2>4, <3>5, <3>6, <3>7, ServedLists
  <2> QED
    BY <2>5, <2>6, <2>7
<1> QED
  BY <1>6, <1>7

LEMMA ListsNext ==
  TypeOK /\ CacheInv /\ ListsInv /\ [Next]_vars => ListsInv'
<1> SUFFICES ASSUME TypeOK, OneScan, ListsInv, [Next]_vars PROVE ListsInv'
  BY DEF CacheInv
<1>1. ASSUME NEW r \in Readers, Query(r) PROVE ListsInv'
  <2>1. /\ UNCHANGED <<nodeVars, logCache, answer>>
        /\ \A x \in Readers : scan'[x].phase = "paging" => scan'[x] = scan[x]
    BY <1>1 DEF Query, StartScan, JoinScan, TypeOK, NoScan
  <2> QED
    BY <2>1, ListsKept
<1>2. ASSUME NEW r \in Readers, NodeFails(r) PROVE ListsInv'
  <2>1. \A x \in Readers : scan'[x].phase = "none"
    BY <1>2, SettleInv DEF NodeFails
  <2>2. UNCHANGED <<nodeVars, logCache, answer>>
    BY <1>2 DEF NodeFails
  <2> QED
    BY <2>1, <2>2, ListsKept
<1>3. CASE UNCHANGED vars
  BY <1>3, ListsKept DEF vars
<1> QED
  BY <1>1, <1>2, <1>3, NodeLists, HeadLists, PageLists DEF Next, NodeAnswers

NeverLess(r, l) == l[1] = chain => answer'[r][l] >= answer[r][l]

LEMMA NeverLessNext ==
  ASSUME TypeOK, CacheInv, SharedInv, ListsInv, ListsInv', [Next]_vars,
         NEW r \in Readers, NEW l \in Logs
  PROVE  NeverLess(r, l)
<1> SUFFICES ASSUME l[1] = chain PROVE answer'[r][l] >= answer[r][l]
  BY DEF NeverLess
<1>1. answer[r][l] \in Nat
  BY DEF TypeOK, LogList
<1>2. CASE answer' = answer
  BY <1>1, <1>2
<1>3. ASSUME NEW x \in Readers, Served(x), HeldOn
      PROVE  answer'[r][l] >= answer[r][l]
  <2>1. answer'[r] = logCache'.logs \/ answer'[r] = answer[r]
    BY <1>3 DEF Served, Resolve
  <2>2. logCache' # NoEntry /\ logCache'.logs[l] \in Nat
    BY <1>3, EntryFields DEF Served, LogList
  <2>3. CASE answer'[r] = answer[r]
    BY <1>1, <2>3
  <2>4. CASE answer'[r] = logCache'.logs /\ ~(answer[r][l] > 0)
    BY <1>1, <2>2, <2>4
  <2>5. CASE answer[r][l] > 0
    <3>1. answer[r][l] = 1
      BY <2>5, ToldCarried DEF Told
    <3>2. CASE answer'[r] = logCache'.logs
      <4>1. logCache'.logs[l] > 0
        BY <1>3, <2>2, <2>5 DEF HeldOn, Told
      <4> QED
        BY <2>2, <3>1, <3>2, <4>1
    <3> QED
      BY <2>1, <2>3, <3>2
  <2> QED
    BY <2>1, <2>3, <2>4, <2>5
<1>4. ASSUME NEW x \in Readers, NodeAnswers(x)
      PROVE  answer'[r][l] >= answer[r][l]
  <2>1. HeldOn
    BY <1>4, HeadLists, PageLists DEF NodeAnswers, CacheInv
  <2> QED
    BY <1>2, <1>3, <1>4, <2>1, NodeServes DEF CacheInv
<1> QED
  BY <1>2, <1>4
  DEF Next, NewBlock, ReplaceChain, Query, NodeFails, vars

\* Reading again never loses a log of the chain, for any number of readers
\* and whatever scans fail or the cache is overwritten by (chain.js,
\* queryLogs).
THEOREM AnswersDoNotShrink == Spec => AnswersNeverShrink
<1>1. /\ TypeOK /\ CacheInv /\ SharedInv /\ ListsInv /\ ListsInv'
      /\ [Next]_vars
      => [\A r \in Readers, l \in Logs :
            l[1] = chain => answer'[r][l] >= answer[r][l]]_vars
  BY NeverLessNext DEF NeverLess
<1> QED
  BY <1>1, InitType, NextType, InitInv, NextInv, SharedInit, SharedNext,
     ListsInit, ListsNext, PTL
  DEF Spec, AnswersNeverShrink

-----------------------------------------------------------------------------
(* What AnsweredEventually rests on: no reader is forgotten, and every scan  *)
(* has an end that no step puts off.                                         *)

\* The shared scan is under way, and one that pages has a page to come.
ScanInv ==
    /\ inFlight # NoReader => scan[inFlight].phase # "none"
    /\ \A r \in Readers : scan[r].phase = "paging" => scan[r].next <= scan[r].latest

LEMMA PagesStart ==
  ASSUME TypeOK, NEW hit, hit = Usable(head), ~NothingNew(hit, head)
  PROVE  FirstUnscanned(hit) \in Nat /\ FirstUnscanned(hit) <= head
<1>1. hit \in Entry \cup {NoEntry} /\ head \in Nat
  BY BlocksAreNat DEF Usable, TypeOK
<1>2. CASE hit = NoEntry
  BY <1>1, <1>2 DEF FirstUnscanned
<1>3. CASE hit # NoEntry
  <2>1. hit.scannedTo \in Nat /\ hit.scannedTo # head
    BY <1>1, <1>3, EntryFields, BlocksAreNat DEF NothingNew
  <2>2. hit.scannedTo <= head
    BY <1>1, <1>3, <2>1 DEF Usable
  <2> QED
    BY <1>1, <1>3, <2>1, <2>2 DEF FirstUnscanned
<1> QED
  BY <1>2, <1>3

LEMMA ScanSettles ==
  ASSUME TypeOK, OneScan, NEW r \in Readers, scan[r].phase # "none", Settle(r)
  PROVE  ScanInv' /\ scan'[r].phase = "none"
<1>1. \A x \in Readers : scan'[x].phase = "none"
  BY SettleInv
<1> QED
  BY <1>1 DEF ScanInv, Settle

\* One answer of the node brings the scan nearer to its end.
LEMMA AnswerAdvances ==
  ASSUME TypeOK, OneScan, ScanInv, NEW r \in Readers, NodeAnswers(r)
  PROVE  /\ ScanInv'
         /\ BlocksLeft(scan'[r]) < BlocksLeft(scan[r])
         /\ \A x \in Readers : x # r => scan'[x] = scan[x]
<1>1. /\ scan[r].phase \in {"head", "paging"}
      /\ scan[r].next \in Nat /\ scan[r].latest \in Nat
      /\ scan[r].phase = "paging" => scan[r].next <= scan[r].latest
      /\ MaxHead \in Nat /\ Window \in Nat \ {0}
  BY ScanFields, LogCacheAssumption
  DEF NodeAnswers, HeadAnswered, PageAnswered, ScanInv
<1>2. BlocksLeft(scan[r]) > 0
  BY <1>1 DEF BlocksLeft
<1>3. CASE Settle(r)
  <2>1. ScanInv' /\ scan'[r].phase = "none"
    BY <1>1, <1>3, ScanSettles
  <2>2. \A x \in Readers : x # r => scan'[x] = scan[x]
    BY <1>3 DEF Settle
  <2> QED
    BY <1>2, <2>1, <2>2 DEF BlocksLeft
<1>4. CASE HeadAnswered(r) /\ ~Settle(r)
  <2> DEFINE hit == Usable(head)
             s == [phase |-> "paging", hit |-> hit, latest |-> head,
                   next |-> FirstUnscanned(hit), out |-> NoLogs]
  <2>1. ~NothingNew(hit, head)
    BY <1>4 DEF HeadAnswered, Resolve
  <2>2. scan' = [scan EXCEPT ![r] = s] /\ inFlight' = inFlight
        /\ scan[r].phase = "head"
    BY <1>4, <2>1 DEF HeadAnswered
  <2>3. FirstUnscanned(hit) \in Nat /\ FirstUnscanned(hit) <= head
    BY <2>1, PagesStart
  <2>4. head \in 0 .. MaxHead
    BY DEF TypeOK, Blocks
  <2>5. s.phase = "paging" /\ s.next <= s.latest /\ s.next \in Nat
        /\ s.latest \in 0 .. MaxHead
    BY <2>3, <2>4
  <2> HIDE DEF s
  <2>6. scan'[r] = s /\ \A x \in Readers : x # r => scan'[x] = scan[x]
    BY <2>2 DEF TypeOK
  <2>7. BlocksLeft(s) < BlocksLeft(scan[r])
    BY <1>1, <2>2, <2>5 DEF BlocksLeft
  <2>8. ScanInv'
    BY <2>2, <2>5, <2>6 DEF ScanInv, TypeOK
  <2> QED
    BY <2>6, <2>7, <2>8
<1>5. CASE PageAnswered(r) /\ ~Settle(r)
  <2> DEFINE out == Plus(scan[r].out, LogsBetween(scan[r].next, LastOfPage(scan[r])))
             s == [scan[r] EXCEPT !.out = out, !.next = NextPage(scan[r].next)]
  <2>1. /\ scan[r].phase = "paging" /\ inFlight' = inFlight
        /\ NextPage(scan[r].next) <= scan[r].latest
        /\ scan' = [scan EXCEPT ![r].out = out,
                                ![r].next = NextPage(scan[r].next)]
    BY <1>5 DEF PageAnswered, Resolve
  <2>2. scan'[r] = s /\ \A x \in Readers : x # r => scan'[x] = scan[x]
    BY <2>1 DEF TypeOK
  <2>3. /\ s.phase = "paging" /\ s.latest = scan[r].latest
        /\ s.next = NextPage(scan[r].next)
    BY <2>1, ScanFields DEF Scan
  <2> HIDE DEF s
  <2>4. BlocksLeft(s) < BlocksLeft(scan[r])
    BY <1>1, <2>1, <2>3 DEF BlocksLeft, NextPage
  <2>5. ScanInv'
    BY <2>1, <2>2, <2>3 DEF ScanInv, TypeOK
  <2> QED
    BY <2>2, <2>4, <2>5
<1> QED
  BY <1>3, <1>4, <1>5 DEF NodeAnswers

\* What one step may do to a scan under way.
Advances(r) ==
    \/ scan[r].phase = "none"
    \/ scan'[r] = scan[r]
    \/ BlocksLeft(scan'[r]) < BlocksLeft(scan[r])

LEMMA ScanStep ==
  ASSUME TypeOK, OneScan, ScanInv, [Next]_vars
  PROVE  ScanInv' /\ \A r \in Readers : Advances(r)
<1>1. CASE NewBlock \/ ReplaceChain \/ UNCHANGED vars
  BY <1>1 DEF NewBlock, ReplaceChain, vars, ScanInv, Advances
<1>2. ASSUME NEW r \in Readers, Query(r)
      PROVE  ScanInv' /\ \A x \in Readers : Advances(x)
  <2>1. CASE inFlight # NoReader
    BY <1>2, <2>1 DEF Query, JoinScan, ScanInv, Advances
  <2>2. CASE inFlight = NoReader
    <3>1. /\ inFlight' = r
          /\ scan' = [scan EXCEPT ![r] = [NoScan EXCEPT !.phase = "head"]]
      BY <1>2, <2>2 DEF Query, StartScan
    <3>2. \A x \in Readers : scan[x].phase = "none"
      BY <2>2, LogCacheAssumption DEF OneScan
    <3>3. scan'[r].phase = "head" /\ \A x \in Readers : x # r => scan'[x] = scan[x]
      BY <3>1 DEF TypeOK, NoScan
    <3> QED
      BY <3>1, <3>2, <3>3 DEF ScanInv, Advances
  <2> QED
    BY <2>1, <2>2
<1>3. ASSUME NEW r \in Readers, NodeFails(r)
      PROVE  ScanInv' /\ \A x \in Readers : Advances(x)
  <2>1. scan[r].phase # "none" /\ Settle(r)
    BY <1>3 DEF NodeFails
  <2>2. ScanInv' /\ scan'[r].phase = "none"
    BY <2>1, ScanSettles
  <2>3. \A x \in Readers : x # r => scan'[x] = scan[x]
    BY <2>1 DEF Settle
  <2>4. BlocksLeft(scan[r]) > 0
    <3>1. /\ scan[r].phase \in {"head", "paging"}
          /\ scan[r].phase = "paging" => scan[r].next <= scan[r].latest
          /\ scan[r].next \in Nat /\ scan[r].latest \in Nat
          /\ MaxHead \in Nat
      BY <2>1, ScanFields, LogCacheAssumption DEF Scan, ScanInv
    <3> QED
      BY <3>1 DEF BlocksLeft
  <2> QED
    BY <2>2, <2>3, <2>4 DEF Advances, BlocksLeft
<1>4. ASSUME NEW r \in Readers, NodeAnswers(r)
      PROVE  ScanInv' /\ \A x \in Readers : Advances(x)
  BY <1>4, AnswerAdvances DEF Advances
<1> QED
  BY <1>1, <1>2, <1>3, <1>4 DEF Next

LEMMA ScanInit == Init => ScanInv
BY DEF Init, ScanInv, NoScan

\* No lost wake-up: whoever waits for a scan waits for one that is under way
\* (chain.js, queryLogs and logInFlight).
THEOREM NobodyIsForgotten == Spec => []WaitersHaveAScan
<1>1. TypeOK /\ SharedInv /\ ScanInv => WaitersHaveAScan
  BY LogCacheAssumption DEF TypeOK, SharedInv, ScanInv, WaitersHaveAScan
<1>2. TypeOK /\ CacheInv /\ ScanInv /\ [Next]_vars => ScanInv'
  BY ScanStep DEF CacheInv
<1> QED
  BY <1>1, <1>2, InitType, NextType, InitInv, NextInv, SharedInit, SharedNext,
     ScanInit, PTL DEF Spec

\* No starvation by blocks: a scan keeps the head it saw first, so whatever
\* happens meanwhile it only gets nearer to its end.
THEOREM ScansEnd == Spec => ScansAdvance
<1>1. TypeOK /\ CacheInv /\ ScanInv /\ [Next]_vars => ScanInv'
  BY ScanStep DEF CacheInv
<1>2. TypeOK /\ CacheInv /\ ScanInv /\ [Next]_vars
        => [\A r \in Readers :
                \/ scan[r].phase = "none"
                \/ scan'[r] = scan[r]
                \/ BlocksLeft(scan'[r]) < BlocksLeft(scan[r])]_vars
  BY ScanStep DEF CacheInv, Advances
<1> QED
  BY <1>1, <1>2, InitType, NextType, InitInv, NextInv, ScanInit, PTL
  DEF Spec, ScansAdvance

=============================================================================
