-------------------------- MODULE Dashboard_proofs ---------------------------
(***************************************************************************)
(* The pages of the dashboard, for any files, agreements, amounts, nodes   *)
(* and lists of targets, any number of uploads, submissions, settlements,  *)
(* checks, refreshes and reads of a list, and every order of their         *)
(* replies.                                                                *)
(*                                                                         *)
(*   - the form with the evidence: no hash on the ledger is without its    *)
(*     file, no result card stands over new input, and a user who waits    *)
(*     for each reply gets the file the form shows;                        *)
(*   - the form with agreement and amount: what is offered is fundable,    *)
(*     the budget check mirrors the contract's, no warning is missed;      *)
(*   - the integrity panel: two sides of a fork never look in sync, and a  *)
(*     node of the majority's chain is not accused for being behind;       *)
(*   - the agreements page: final rows are exact, an agreement is made of  *)
(*     the targets entered and no others, and an edit hits the target      *)
(*     shown to a donor who works alone and waits;                         *)
(*   - the dashboard: the page that is open behaves as it does alone.      *)
(***************************************************************************)
EXTENDS Dashboard, FiniteSetTheorems, WellFoundedInduction, SequenceTheorems,
        TLAPS

(***************************************************************************)
(* Every variable keeps its type.                                          *)
(***************************************************************************)
LEMMA BoundsAreNat ==
  MaxPicks \in Nat /\ MaxSubmits \in Nat /\ MaxSettles \in Nat
BY FormAssumption

LEMMA FormInitType == FormInit => FormTypeOK
<1> SUFFICES ASSUME FormInit PROVE FormTypeOK
  OBVIOUS
<1>1. {fresh, card, failed, raced} \subseteq BOOLEAN
  BY Zenon DEF FormInit
<1>2. picks \in 0 .. MaxPicks /\ sent \in 0 .. MaxSubmits
      /\ settles \in 0 .. MaxSettles
  BY BoundsAreNat DEF FormInit
<1> QED
  BY <1>1, <1>2 DEF FormInit, FormTypeOK

LEMMA HashType == \A f \in Files : Hash(f) \in Hashes /\ Hash(f) # NoHash
BY FormAssumption DEF Hash, Hashes

LEMMA PickType ==
  ASSUME FormTypeOK, NEW f \in Files, PickFile(f)
  PROVE  FormTypeOK'
<1>1. picks + 1 \in 1 .. MaxPicks
  BY BoundsAreNat DEF FormTypeOK, PickFile
<1>2. uploads' \subseteq [pick : 1 .. MaxPicks, file : Files]
  BY <1>1 DEF FormTypeOK, PickFile
<1>3. raced' \in BOOLEAN
  BY DEF FormTypeOK, PickFile, Racing
<1>4. {fresh', card', failed', raced'} \subseteq BOOLEAN
  BY <1>3, Zenon DEF FormTypeOK, PickFile
<1>5. picks' \in 0 .. MaxPicks
  BY <1>1, BoundsAreNat DEF PickFile
<1> QED
  BY <1>2, <1>4, <1>5 DEF FormTypeOK, PickFile, submitVars, settleVars

LEMMA UnpickType == ASSUME FormTypeOK, UnpickFile PROVE FormTypeOK'
<1>1. raced' \in BOOLEAN
  BY DEF FormTypeOK, UnpickFile, Racing
<1> QED
  BY <1>1 DEF FormTypeOK, UnpickFile, submitVars, settleVars

LEMMA UploadReplyType ==
  ASSUME FormTypeOK, NEW u \in uploads, UploadReply(u)
  PROVE  FormTypeOK'
<1>1. Hash(u.file) \in Hashes
  BY HashType DEF FormTypeOK
<1> QED
  BY <1>1 DEF FormTypeOK, UploadReply, submitVars, settleVars

LEMMA UploadFailsType ==
  ASSUME FormTypeOK, NEW u \in uploads, UploadFails(u)
  PROVE  FormTypeOK'
<1>1. Hash(u.file) \in Hashes
  BY HashType DEF FormTypeOK
<1>2. stored' \subseteq Hashes
  BY <1>1 DEF FormTypeOK, UploadFails
<1>3. failed' \in BOOLEAN
  BY DEF FormTypeOK, UploadFails
<1> QED
  BY <1>2, <1>3 DEF FormTypeOK, UploadFails, submitVars, settleVars

LEMMA MeantType == FormTypeOK => Meant \in Hashes \cup {NoHash}
BY HashType DEF FormTypeOK, Meant

LEMMA SendType == ASSUME FormTypeOK, Send PROVE FormTypeOK'
<1>1. sent + 1 \in 1 .. MaxSubmits
  BY BoundsAreNat DEF FormTypeOK, Send
<1>2. submits' \subseteq [n : 1 .. MaxSubmits, hash : Hashes \cup {NoHash},
                          meant : Hashes \cup {NoHash}]
  BY <1>1, MeantType DEF FormTypeOK, Send
<1>3. raced' \in BOOLEAN
  BY DEF FormTypeOK, Send, Racing
<1> QED
  BY <1>1, <1>2, <1>3, BoundsAreNat
  DEF FormTypeOK, Send, pickVars, settleVars

LEMMA RecordedType ==
  ASSUME FormTypeOK, NEW s \in submits, SpendRecorded(s) \/ ReportRecorded(s)
  PROVE  FormTypeOK'
<1>1. CASE SpendRecorded(s)
  BY <1>1 DEF FormTypeOK, SpendRecorded, ClearForm, settleVars
<1>2. CASE ReportRecorded(s)
  BY <1>2 DEF FormTypeOK, ReportRecorded, ClearForm, settleVars
<1> QED
  BY <1>1, <1>2

LEMMA SubmitFailsType ==
  ASSUME FormTypeOK, NEW s \in submits, SubmitFails(s)
  PROVE  FormTypeOK'
BY DEF FormTypeOK, SubmitFails, pickVars, settleVars

LEMMA TypeInFormType == ASSUME FormTypeOK, TypeInForm PROVE FormTypeOK'
BY DEF FormTypeOK, TypeInForm, submitVars, settleVars

LEMMA ClickType ==
  ASSUME FormTypeOK, NEW f \in Files, ClickMarkSpent(f)
  PROVE  FormTypeOK'
<1>1. settles + 1 \in 1 .. MaxSettles
  BY BoundsAreNat DEF FormTypeOK, ClickMarkSpent
<1>2. settling' \subseteq [n : 1 .. MaxSettles, file : Files,
                           hash : Hashes \cup {NoHash}]
  BY <1>1 DEF FormTypeOK, ClickMarkSpent
<1> QED
  BY <1>1, <1>2, BoundsAreNat
  DEF FormTypeOK, ClickMarkSpent, pickVars, submitVars

LEMMA ReceiptType ==
  ASSUME FormTypeOK, NEW c \in settling,
         ReceiptStored(c) \/ ReceiptNotStored(c) \/ ReceiptPinned(c)
  PROVE  FormTypeOK'
<1>1. Hash(c.file) \in Hashes
  BY HashType DEF FormTypeOK
<1>2. CASE ReceiptStored(c)
  <2>1. settling' \subseteq [n : 1 .. MaxSettles, file : Files,
                             hash : Hashes \cup {NoHash}]
    BY <1>1, <1>2 DEF FormTypeOK, ReceiptStored
  <2> QED
    BY <1>1, <1>2, <2>1 DEF FormTypeOK, ReceiptStored, pickVars, submitVars
<1>3. CASE ReceiptNotStored(c)
  BY <1>1, <1>3 DEF FormTypeOK, ReceiptNotStored, pickVars, submitVars
<1>4. CASE ReceiptPinned(c)
  BY <1>4 DEF FormTypeOK, ReceiptPinned, pickVars, submitVars
<1> QED
  BY <1>2, <1>3, <1>4

LEMMA FormNextType == FormTypeOK /\ [FormNext]_formVars => FormTypeOK'
<1> SUFFICES ASSUME FormTypeOK, [FormNext]_formVars PROVE FormTypeOK'
  OBVIOUS
<1>1. CASE UNCHANGED formVars
  BY <1>1 DEF FormTypeOK, formVars, pickVars, submitVars, settleVars
<1>2. CASE FormNext
  BY <1>2, PickType, ClickType, UnpickType, UploadReplyType, UploadFailsType,
     SendType, RecordedType, SubmitFailsType, TypeInFormType, ReceiptType
  DEF FormNext, SubmitSpend, SubmitReportForm
<1> QED
  BY <1>1, <1>2

\* Every variable of the forms keeps its type.
THEOREM FormTypeCorrect == FormSpec => []FormTypeOK
<1> QED
  BY FormInitType, FormNextType, PTL DEF FormSpec

(***************************************************************************)
(* Every hash the page holds, in whatever variable or call, is one the     *)
(* server had stored, so what ends up on the ledger is too.                *)
(***************************************************************************)
HeldIsStored(h) == h # NoHash => h \in stored

HashesStored ==
    /\ HeldIsStored(pendingHash)
    /\ \A s \in submits \cup recorded : HeldIsStored(s.hash)
    /\ \A c \in settling : HeldIsStored(c.hash)
    /\ HeldIsStored(receipt)

LEMMA HashesStoredInit == FormInit => HashesStored
BY DEF FormInit, HashesStored, HeldIsStored

LEMMA StoredGrows ==
  ASSUME FormTypeOK, [FormNext]_formVars
  PROVE  stored \subseteq stored'
BY DEF FormNext, formVars, PickFile, ClickMarkSpent, UnpickFile, UploadReply,
       UploadFails, SubmitSpend, SubmitReportForm, Send, SpendRecorded,
       ReportRecorded, SubmitFails, TypeInForm, ReceiptStored,
       ReceiptNotStored, ReceiptPinned

LEMMA HashesStoredNext ==
  FormTypeOK /\ HashesStored /\ [FormNext]_formVars => HashesStored'
<1> SUFFICES ASSUME FormTypeOK, HashesStored, [FormNext]_formVars
             PROVE  HashesStored'
  OBVIOUS
<1>0. stored \subseteq stored'
  BY StoredGrows
<1>1. CASE UNCHANGED formVars
  BY <1>1 DEF HashesStored, HeldIsStored, formVars, pickVars, submitVars,
              settleVars
<1>2. ASSUME NEW f \in Files, PickFile(f) PROVE HashesStored'
  BY <1>2 DEF HashesStored, HeldIsStored, PickFile, submitVars, settleVars
<1>3. ASSUME NEW f \in Files, ClickMarkSpent(f) PROVE HashesStored'
  BY <1>3 DEF HashesStored, HeldIsStored, ClickMarkSpent, submitVars
<1>4. CASE UnpickFile
  BY <1>4 DEF HashesStored, HeldIsStored, UnpickFile, submitVars, settleVars
<1>5. ASSUME NEW u \in uploads, UploadReply(u) \/ UploadFails(u)
      PROVE  HashesStored'
  BY <1>0, <1>5 DEF HashesStored, HeldIsStored, UploadReply, UploadFails,
                    submitVars, settleVars
<1>6. CASE SubmitSpend \/ SubmitReportForm
  BY <1>6 DEF HashesStored, HeldIsStored, SubmitSpend, SubmitReportForm, Send,
              settleVars
<1>7. ASSUME NEW s \in submits, SpendRecorded(s) \/ ReportRecorded(s)
      PROVE  HashesStored'
  BY <1>7 DEF HashesStored, HeldIsStored, SpendRecorded, ReportRecorded,
              ClearForm, settleVars
<1>8. ASSUME NEW s \in submits, SubmitFails(s) PROVE HashesStored'
  BY <1>8 DEF HashesStored, HeldIsStored, SubmitFails, settleVars
<1>9. CASE TypeInForm
  BY <1>9 DEF HashesStored, HeldIsStored, TypeInForm, submitVars, settleVars
<1>10. ASSUME NEW c \in settling, ReceiptStored(c) PROVE HashesStored'
  <2>1. \A d \in settling' : HeldIsStored(d.hash)'
    BY <1>0, <1>10 DEF FormTypeOK, HashesStored, HeldIsStored, ReceiptStored
  <2> QED
    BY <1>0, <1>10, <2>1 DEF HashesStored, HeldIsStored, ReceiptStored,
                             submitVars
<1>11. ASSUME NEW c \in settling, ReceiptNotStored(c) PROVE HashesStored'
  BY <1>0, <1>11 DEF HashesStored, HeldIsStored, ReceiptNotStored, submitVars
<1>12. ASSUME NEW c \in settling, ReceiptPinned(c) PROVE HashesStored'
  BY <1>12 DEF HashesStored, HeldIsStored, ReceiptPinned, submitVars
<1> QED
  BY <1>1, <1>2, <1>3, <1>4, <1>5, <1>6, <1>7, <1>8, <1>9, <1>10, <1>11,
     <1>12 DEF FormNext

\* No hash reaches the ledger without its file being in the document store,
\* in whatever order uploads and submissions were answered (spend.js:135,
\* 158, 375).
THEOREM EvidenceIsStored == FormSpec => []RecordedIsStored
<1>1. HashesStored => RecordedIsStored
  BY DEF HashesStored, HeldIsStored, RecordedIsStored
<1> QED
  BY <1>1, FormInitType, FormNextType, HashesStoredInit, HashesStoredNext, PTL
  DEF FormSpec

(***************************************************************************)
(* The card and new input: each handler that marks the form as touched     *)
(* hides the card, and the one that shows the card clears the form.        *)
(***************************************************************************)
LEMMA NoStaleCardNext == NoStaleCard /\ [FormNext]_formVars => NoStaleCard'
<1> SUFFICES ASSUME NoStaleCard, [FormNext]_formVars PROVE NoStaleCard'
  OBVIOUS
<1>1. CASE UNCHANGED formVars
  BY <1>1 DEF NoStaleCard, formVars, pickVars
<1>2. CASE FormNext
  BY <1>2 DEF NoStaleCard, FormNext, pickVars, PickFile, ClickMarkSpent,
     UnpickFile, UploadReply, UploadFails, SubmitSpend, SubmitReportForm, Send,
     SpendRecorded, ReportRecorded, ClearForm, SubmitFails, TypeInForm,
     ReceiptStored, ReceiptNotStored, ReceiptPinned
<1> QED
  BY <1>1, <1>2

\* The result card of a report never stands over the input of the next one,
\* also when the answer comes late (reports.js:158, 171, 177).
THEOREM CardIsNotStale == FormSpec => []NoStaleCard
<1>1. FormInit => NoStaleCard
  BY DEF FormInit, NoStaleCard
<1> QED
  BY <1>1, NoStaleCardNext, PTL DEF FormSpec

(***************************************************************************)
(* The user who waits.  Until the user acts with a reply outstanding, one  *)
(* call at most is out; if it is an upload it is that of the file in the   *)
(* input, and when there is none pendingHash is what the form shows.       *)
(***************************************************************************)
Unhurried ==
    /\ \A u \in uploads : u.pick = picks /\ u.file = picked /\ ~failed
    /\ uploads = {} \/ submits = {}
    /\ uploads = {} => pendingHash = Meant
    /\ \A s \in submits \cup recorded : s.hash = s.meant

UnhurriedInv == ~raced => Unhurried

LEMMA UnhurriedInit == FormInit => UnhurriedInv
BY DEF FormInit, UnhurriedInv, Unhurried, Meant

LEMMA QuietBefore ==
  ASSUME UnhurriedInv, Racing, ~raced'
  PROVE  ~raced /\ Unhurried /\ uploads = {} /\ submits = {}
BY DEF UnhurriedInv, Racing

LEMMA UnhurriedPick ==
  ASSUME UnhurriedInv, NEW f \in Files, PickFile(f)
  PROVE  UnhurriedInv'
<1> SUFFICES ASSUME ~raced' PROVE Unhurried'
  BY DEF UnhurriedInv
<1>1. Unhurried /\ uploads = {} /\ submits = {}
  BY QuietBefore DEF PickFile
<1>2. uploads' = {[pick |-> picks', file |-> f]}
  BY <1>1 DEF PickFile
<1>3. submits' = {} /\ recorded' = recorded
  BY <1>1 DEF PickFile, submitVars
<1>4. \A u \in uploads' : u.pick = picks' /\ u.file = picked' /\ ~failed'
  BY <1>2 DEF PickFile
<1>5. uploads' # {}
  BY <1>2
<1> QED
  BY <1>1, <1>3, <1>4, <1>5 DEF Unhurried

LEMMA UnhurriedUnpick ==
  ASSUME UnhurriedInv, UnpickFile
  PROVE  UnhurriedInv'
<1> SUFFICES ASSUME ~raced' PROVE Unhurried'
  BY DEF UnhurriedInv
<1>1. Unhurried /\ uploads = {} /\ submits = {}
  BY QuietBefore DEF UnpickFile
<1> QED
  BY <1>1 DEF Unhurried, Meant, UnpickFile, submitVars

LEMMA UnhurriedSend ==
  ASSUME UnhurriedInv, Send
  PROVE  UnhurriedInv'
<1> SUFFICES ASSUME ~raced' PROVE Unhurried'
  BY DEF UnhurriedInv
<1>1. Unhurried /\ uploads = {} /\ submits = {}
  BY QuietBefore DEF Send
<1>2. Meant' = Meant
  BY DEF Send, pickVars, Meant
<1> QED
  BY <1>1, <1>2 DEF Unhurried, Send, pickVars

LEMMA UnhurriedUploadEnds ==
  ASSUME FormTypeOK, UnhurriedInv, NEW u \in uploads,
         UploadReply(u) \/ UploadFails(u)
  PROVE  UnhurriedInv'
<1> SUFFICES ASSUME ~raced' PROVE Unhurried'
  BY DEF UnhurriedInv
<1>1. Unhurried
  BY DEF UnhurriedInv, UploadReply, UploadFails
<1>2. uploads = {u}
  <2>1. \A v \in uploads : v.pick = u.pick /\ v.file = u.file
    BY <1>1 DEF Unhurried
  <2> QED
    BY <2>1 DEF FormTypeOK
<1>3. uploads' = {}
  BY <1>2 DEF UploadReply, UploadFails
<1>4. u.pick = picks /\ u.file = picked /\ ~failed /\ submits = {}
  BY <1>1 DEF Unhurried
<1>5. picked # NoFile
  BY <1>4, FormAssumption DEF FormTypeOK
<1>6. pendingHash' = Meant'
  <2>1. CASE UploadReply(u)
    BY <1>4, <1>5, <2>1 DEF UploadReply, Meant
  <2>2. CASE UploadFails(u)
    BY <1>4, <2>2 DEF UploadFails, Meant
  <2> QED
    BY <2>1, <2>2
<1> QED
  BY <1>1, <1>3, <1>6 DEF Unhurried, UploadReply, UploadFails, submitVars

LEMMA UnhurriedRecorded ==
  ASSUME UnhurriedInv, NEW s \in submits, SpendRecorded(s) \/ ReportRecorded(s)
  PROVE  UnhurriedInv'
<1> SUFFICES ASSUME ~raced' PROVE Unhurried'
  BY DEF UnhurriedInv
<1>1. Unhurried /\ uploads = {}
  BY DEF UnhurriedInv, Unhurried, SpendRecorded, ReportRecorded
<1>2. ClearForm /\ submits' = submits \ {s} /\ recorded' = recorded \cup {s}
  BY DEF SpendRecorded, ReportRecorded
<1> QED
  BY <1>1, <1>2 DEF Unhurried, ClearForm, Meant

LEMMA UnhurriedSubmitFails ==
  ASSUME UnhurriedInv, NEW s \in submits, SubmitFails(s)
  PROVE  UnhurriedInv'
<1> SUFFICES ASSUME ~raced' PROVE Unhurried'
  BY DEF UnhurriedInv
<1>1. Unhurried
  BY DEF UnhurriedInv, SubmitFails
<1>2. Meant' = Meant
  BY DEF SubmitFails, pickVars, Meant
<1> QED
  BY <1>1, <1>2 DEF Unhurried, SubmitFails, pickVars

LEMMA UnhurriedOther ==
  ASSUME UnhurriedInv,
         UNCHANGED <<picked, picks, uploads, failed, pendingHash, submitVars,
                     raced>>
  PROVE  UnhurriedInv'
<1>1. Meant' = Meant
  BY DEF Meant
<1> QED
  BY <1>1 DEF UnhurriedInv, Unhurried, submitVars

LEMMA UnhurriedNext ==
  FormTypeOK /\ UnhurriedInv /\ [FormNext]_formVars => UnhurriedInv'
<1> SUFFICES ASSUME FormTypeOK, UnhurriedInv, [FormNext]_formVars
             PROVE  UnhurriedInv'
  OBVIOUS
<1>1. CASE \/ UNCHANGED formVars
           \/ TypeInForm
           \/ \E f \in Files : ClickMarkSpent(f)
           \/ \E c \in settling : \/ ReceiptStored(c)
                                   \/ ReceiptNotStored(c)
                                   \/ ReceiptPinned(c)
  <2>1. UNCHANGED <<picked, picks, uploads, failed, pendingHash, submitVars,
                    raced>>
    BY <1>1 DEF formVars, pickVars, TypeInForm, ClickMarkSpent, ReceiptStored,
                ReceiptNotStored, ReceiptPinned
  <2> QED
    BY <2>1, UnhurriedOther
<1>2. ASSUME NEW f \in Files, PickFile(f) PROVE UnhurriedInv'
  BY <1>2, UnhurriedPick
<1>3. CASE UnpickFile
  BY <1>3, UnhurriedUnpick
<1>4. CASE SubmitSpend \/ SubmitReportForm
  BY <1>4, UnhurriedSend DEF SubmitSpend, SubmitReportForm
<1>5. ASSUME NEW u \in uploads, UploadReply(u) \/ UploadFails(u)
      PROVE  UnhurriedInv'
  BY <1>5, UnhurriedUploadEnds
<1>6. ASSUME NEW s \in submits, SpendRecorded(s) \/ ReportRecorded(s)
      PROVE  UnhurriedInv'
  BY <1>6, UnhurriedRecorded
<1>7. ASSUME NEW s \in submits, SubmitFails(s) PROVE UnhurriedInv'
  BY <1>7, UnhurriedSubmitFails
<1> QED
  BY <1>1, <1>2, <1>3, <1>4, <1>5, <1>6, <1>7 DEF FormNext

\* Who waits for every reply gets what the form shows, from one submission to
\* the next (spend.js:131-138, 424; reports.js:158).
THEOREM WaitingAttachesPicked == FormSpec => []UnhurriedAttachesPicked
<1>1. UnhurriedInv => UnhurriedAttachesPicked
  BY DEF UnhurriedInv, Unhurried, UnhurriedAttachesPicked
<1> QED
  BY <1>1, FormInitType, FormNextType, UnhurriedInit, UnhurriedNext, PTL
  DEF FormSpec

(***************************************************************************)
(* The spend form: what its list, however old, says of a finalised         *)
(* agreement still bounds what the ledger says now.                        *)
(***************************************************************************)
LEMMA SpendBounds ==
  /\ MaxLoads \in Nat /\ MaxChecks \in Nat
  /\ FormBudgets \subseteq Nat /\ FormAmounts \subseteq Nat
  /\ NoAmount \notin Nat /\ NoAgreement \notin Agreements
BY SpendFormAssumption

\* The part of the type the argument needs.
FormState ==
    /\ ledger \in [Agreements -> Account]
    /\ loaded \in [Agreements -> Account]
    /\ selected \in Agreements \cup {NoAgreement}
    /\ amount \in FormAmounts \cup {NoAmount}

\* An account read earlier and the same account now.
Older(then, latest) ==
    then.finalised => /\ latest.finalised
                      /\ latest.budget = then.budget
                      /\ then.committed <= latest.committed

\* A list read so far; it is complete when it covers all agreements.
ListIsOlder(l) ==
    /\ l \in [DOMAIN l -> Account]
    /\ DOMAIN l \subseteq Agreements
    /\ \A a \in DOMAIN l : Older(l[a], ledger[a])

ListsAreOlder ==
    /\ \A a \in Agreements : Older(loaded[a], ledger[a])
    /\ \A l \in reading : ListIsOlder(l)

PickIsChecked ==
    /\ selected # NoAgreement => selected \in Fundable
    /\ disabled <=> Over(selected, amount)

SpendFormInv ==
    /\ FormState
    /\ ListsAreOlder
    /\ PickIsChecked

LEMMA OlderRefl == ASSUME NEW x \in Account PROVE Older(x, x)
BY DEF Older, Account

LEMMA OlderTrans ==
  ASSUME NEW x \in Account, NEW y \in Account, NEW z \in Account,
         Older(x, y), Older(y, z)
  PROVE  Older(x, z)
BY DEF Older, Account

LEMMA SpendFormInvInit == SpendFormInit => SpendFormInv
<1> SUFFICES ASSUME SpendFormInit PROVE SpendFormInv
  OBVIOUS
<1>1. Opened \in Account
  BY DEF Opened, Account
<1>2. FormState
  BY <1>1 DEF SpendFormInit, FormState
<1>3. ListsAreOlder
  BY <1>1, OlderRefl DEF SpendFormInit, ListsAreOlder
<1>4. PickIsChecked
  BY DEF SpendFormInit, PickIsChecked, Over
<1> QED
  BY <1>2, <1>3, <1>4 DEF SpendFormInit, SpendFormInv

(***************************************************************************)
(* The ledger never takes back what a list may have shown.                 *)
(***************************************************************************)
Aged == /\ ledger' \in [Agreements -> Account]
        /\ \A a \in Agreements : Older(ledger[a], ledger'[a])

LEMMA SameAges == ASSUME SpendFormInv, UNCHANGED ledger PROVE Aged
BY OlderRefl DEF SpendFormInv, FormState, Aged

LEMMA ChangedAges ==
  ASSUME SpendFormInv, NEW a \in Agreements, NEW x \in Account,
         Older(ledger[a], x), ledger' = [ledger EXCEPT ![a] = x]
  PROVE  Aged
<1>1. ledger \in [Agreements -> Account]
  BY DEF SpendFormInv, FormState
<1>2. ASSUME NEW b \in Agreements PROVE Older(ledger[b], ledger'[b])
  BY <1>1, OlderRefl
<1> QED
  BY <1>1, <1>2 DEF Aged

LEMMA BudgetAges ==
  ASSUME SpendFormInv, NEW a \in Agreements, NEW b \in FormBudgets,
         ~ledger[a].finalised, ledger' = [ledger EXCEPT ![a].budget = b]
  PROVE  Aged
<1> DEFINE x == [ledger[a] EXCEPT !.budget = b]
<1>1. ledger[a] \in Account
  BY DEF SpendFormInv, FormState
<1>2. x \in Account
  BY <1>1, SpendBounds DEF Account
<1>3. Older(ledger[a], x)
  BY DEF Older
<1>4. ledger' = [ledger EXCEPT ![a] = x]
  OBVIOUS
<1> HIDE DEF x
<1> QED
  BY <1>2, <1>3, <1>4, ChangedAges

LEMMA FinalAges ==
  ASSUME SpendFormInv, NEW a \in Agreements,
         ~ledger[a].finalised, ledger' = [ledger EXCEPT ![a].finalised = TRUE]
  PROVE  Aged
<1> DEFINE x == [ledger[a] EXCEPT !.finalised = TRUE]
<1>1. ledger[a] \in Account
  BY DEF SpendFormInv, FormState
<1>2. x \in Account
  BY <1>1 DEF Account
<1>3. Older(ledger[a], x)
  BY DEF Older
<1>4. ledger' = [ledger EXCEPT ![a] = x]
  OBVIOUS
<1> HIDE DEF x
<1> QED
  BY <1>2, <1>3, <1>4, ChangedAges

LEMMA CommitAges ==
  ASSUME SpendFormInv, NEW a \in Agreements, NEW y \in FormAmounts,
         ledger' = [ledger EXCEPT ![a].committed = @ + y]
  PROVE  Aged
<1> DEFINE x == [ledger[a] EXCEPT !.committed = @ + y]
<1>1. ledger[a] \in Account /\ y \in Nat
  BY SpendBounds DEF SpendFormInv, FormState
<1>2. x \in Account
  BY <1>1 DEF Account
<1>3. Older(ledger[a], x)
  BY <1>1 DEF Older, Account
<1>4. ledger' = [ledger EXCEPT ![a] = x]
  OBVIOUS
<1> HIDE DEF x
<1> QED
  BY <1>2, <1>3, <1>4, ChangedAges

LEMMA LedgerAges ==
  ASSUME SpendFormInv, [SpendFormNext]_spendFormVars
  PROVE  Aged
<1>1. ASSUME NEW a \in Agreements, LedgerMoves(a) PROVE Aged
  BY <1>1, SameAges, BudgetAges, FinalAges, CommitAges DEF LedgerMoves
<1>2. ASSUME NEW a \in Agreements, NEW b \in FormBudgets, SubmitBudget(a, b)
      PROVE  Aged
  BY <1>2, BudgetAges DEF SubmitBudget
<1>3. CASE UNCHANGED ledger
  BY <1>3, SameAges
<1> QED
  BY <1>1, <1>2, <1>3 DEF SpendFormNext, spendFormVars, spendLedgerVars,
     BeginLoad, ShowList, ReadAgreement, PickFundable, TypeAmount,
     ServerChecks, CheckAnswered, SubmitRequest, RequestRecorded, RequestFails

LEMMA ListAges ==
  ASSUME SpendFormInv, Aged, NEW l, ListIsOlder(l)
  PROVE  ListIsOlder(l)'
<1>1. ASSUME NEW a \in DOMAIN l PROVE Older(l[a], ledger'[a])
  <2>1. l[a] \in Account /\ ledger[a] \in Account /\ ledger'[a] \in Account
    BY DEF ListIsOlder, SpendFormInv, FormState, Aged
  <2>2. Older(l[a], ledger[a]) /\ Older(ledger[a], ledger'[a])
    BY DEF ListIsOlder, Aged
  <2> QED
    BY <2>1, <2>2, OlderTrans
<1> QED
  BY <1>1 DEF ListIsOlder

LEMMA NewListIsOlder == ListIsOlder(<<>>)'
BY DEF ListIsOlder

LEMMA ReadOn ==
  ASSUME SpendFormInv, UNCHANGED ledger, NEW l, ListIsOlder(l),
         NEW a \in Agreements, NEW m,
         m = [b \in DOMAIN l \cup {a} |-> IF b = a THEN ledger[a] ELSE l[b]]
  PROVE  ListIsOlder(m)'
<1>1. ledger[a] \in Account
  BY DEF SpendFormInv, FormState
<1>2. DOMAIN m = DOMAIN l \cup {a}
  OBVIOUS
<1>3. \A b \in DOMAIN m : m[b] = (IF b = a THEN ledger[a] ELSE l[b])
  OBVIOUS
<1>4. \A b \in DOMAIN m : m[b] \in Account /\ Older(m[b], ledger[b])
  BY <1>1, <1>2, <1>3, OlderRefl DEF ListIsOlder
<1>5. m \in [DOMAIN m -> Account]
  BY <1>4
<1>6. DOMAIN m \subseteq Agreements
  BY <1>2 DEF ListIsOlder
<1> QED
  BY <1>4, <1>5, <1>6 DEF ListIsOlder

LEMMA ReadingAges ==
  ASSUME SpendFormInv, [SpendFormNext]_spendFormVars, Aged,
         NEW l \in reading'
  PROVE  ListIsOlder(l)'
<1>1. CASE l \in reading
  BY <1>1, ListAges DEF SpendFormInv, ListsAreOlder
<1>2. CASE l = <<>>
  BY <1>2, NewListIsOlder
<1>3. ASSUME NEW k \in reading, NEW a \in Agreements, ReadAgreement(k, a)
      PROVE  ListIsOlder(l)'
  <2>1. CASE l \in reading
    BY <2>1, <1>1
  <2>2. CASE l = [b \in DOMAIN k \cup {a} |->
                    IF b = a THEN ledger[a] ELSE k[b]]
    BY <1>3, <2>2, ReadOn DEF SpendFormInv, ListsAreOlder, ReadAgreement,
       spendLedgerVars
  <2> QED
    BY <1>3, <2>1, <2>2 DEF ReadAgreement
<1>4. \/ l \in reading \/ l = <<>>
      \/ \E k \in reading, a \in Agreements : ReadAgreement(k, a)
  BY DEF SpendFormNext, spendFormVars, listVars, LedgerMoves, BeginLoad,
     ShowList, PickFundable, TypeAmount, ServerChecks, CheckAnswered,
     SubmitBudget, SubmitRequest, RequestRecorded, RequestFails
<1> QED
  BY <1>1, <1>2, <1>3, <1>4

LEMMA LoadedAges ==
  ASSUME SpendFormInv, [SpendFormNext]_spendFormVars, Aged
  PROVE  /\ loaded' \in [Agreements -> Account]
         /\ \A a \in Agreements : Older(loaded'[a], ledger'[a])
<1>1. CASE UNCHANGED loaded
  <2>1. ASSUME NEW a \in Agreements PROVE Older(loaded[a], ledger'[a])
    <3>1. /\ loaded[a] \in Account /\ ledger[a] \in Account
          /\ ledger'[a] \in Account
      BY DEF SpendFormInv, FormState, Aged
    <3>2. Older(loaded[a], ledger[a]) /\ Older(ledger[a], ledger'[a])
      BY DEF SpendFormInv, ListsAreOlder, Aged
    <3> QED
      BY <3>1, <3>2, OlderTrans
  <2> QED
    BY <1>1, <2>1 DEF SpendFormInv, FormState
<1>2. ASSUME NEW l \in reading, ShowList(l)
      PROVE  /\ loaded' \in [Agreements -> Account]
             /\ \A a \in Agreements : Older(loaded'[a], ledger'[a])
  <2>1. ListIsOlder(l) /\ DOMAIN l = Agreements /\ loaded' = l
        /\ ledger' = ledger
    BY <1>2 DEF SpendFormInv, ListsAreOlder, ShowList, spendLedgerVars
  <2> QED
    BY <2>1 DEF ListIsOlder
<1>3. UNCHANGED loaded \/ \E l \in reading : ShowList(l)
  BY DEF SpendFormNext, spendFormVars, listVars, LedgerMoves, BeginLoad,
     ReadAgreement, PickFundable, TypeAmount, ServerChecks, CheckAnswered,
     SubmitBudget, SubmitRequest, RequestRecorded, RequestFails
<1> QED
  BY <1>1, <1>2, <1>3

(***************************************************************************)
(* The button is disabled exactly while the amount is over what the list   *)
(* says remains, and only what the list offers can be picked.              *)
(***************************************************************************)
Chosen == /\ selected' \in Agreements \cup {NoAgreement}
          /\ amount' \in FormAmounts \cup {NoAmount}
          /\ PickIsChecked'

LEMMA Unpicked ==
  ASSUME Unpick, amount' \in FormAmounts \cup {NoAmount}
  PROVE  Chosen
BY DEF Unpick, Chosen, PickIsChecked, Over

LEMMA ChoiceKept ==
  ASSUME SpendFormInv, UNCHANGED <<loaded, selected, amount, disabled>>
  PROVE  Chosen
BY DEF SpendFormInv, FormState, Chosen, PickIsChecked, Over, Fundable

LEMMA ChoiceChecked ==
  ASSUME SpendFormInv, [SpendFormNext]_spendFormVars
  PROVE  Chosen
<1>1. CASE UNCHANGED <<loaded, selected, amount, disabled>>
  BY <1>1, ChoiceKept
<1>2. ASSUME NEW l \in reading, ShowList(l) PROVE Chosen
  BY <1>2, Unpicked DEF ShowList, SpendFormInv, FormState
<1>3. ASSUME NEW r \in sending, RequestRecorded(r) PROVE Chosen
  BY <1>3, Unpicked DEF RequestRecorded
<1>4. ASSUME NEW a \in Fundable, PickFundable(a) PROVE Chosen
  BY <1>4 DEF PickFundable, SpendFormInv, FormState, Chosen, PickIsChecked,
     Over, Fundable, listVars
<1>5. ASSUME NEW x \in FormAmounts, TypeAmount(x) PROVE Chosen
  BY <1>5 DEF TypeAmount, SpendFormInv, FormState, Chosen, PickIsChecked, Over,
     Fundable, listVars
<1> QED
  BY <1>1, <1>2, <1>3, <1>4, <1>5 DEF SpendFormNext, spendFormVars, listVars,
     fieldVars, LedgerMoves, BeginLoad, ReadAgreement, ServerChecks,
     CheckAnswered, SubmitBudget, SubmitRequest, RequestFails

LEMMA SpendFormInvNext ==
  SpendFormInv /\ [SpendFormNext]_spendFormVars => SpendFormInv'
<1> SUFFICES ASSUME SpendFormInv, [SpendFormNext]_spendFormVars
             PROVE  SpendFormInv'
  OBVIOUS
<1>1. Aged
  BY LedgerAges
<1>2. ListsAreOlder'
  BY <1>1, LoadedAges, ReadingAges DEF ListsAreOlder
<1>3. FormState'
  BY <1>1, LoadedAges, ChoiceChecked DEF FormState, Aged, Chosen
<1>4. PickIsChecked'
  BY ChoiceChecked DEF Chosen
<1> QED
  BY <1>2, <1>3, <1>4 DEF SpendFormInv

\* The inductive invariant of the spend form holds, for any agreements,
\* amounts, loads and checks.
THEOREM SpendFormInvariant == SpendFormSpec => []SpendFormInv
<1> QED
  BY SpendFormInvInit, SpendFormInvNext, PTL DEF SpendFormSpec

\* Whatever the form offers is finalised, with the budget shown, for good
\* (spend.js:81).
THEOREM OffersAreFundable == SpendFormSpec => []OfferedIsFundable
<1>1. SpendFormInv => OfferedIsFundable
  BY DEF SpendFormInv, FormState, ListsAreOlder, Older, OfferedIsFundable,
     Fundable
<1> QED
  BY <1>1, SpendFormInvariant, PTL

\* The over-budget check of the form is that of the contract, but for what
\* the ledger has committed since the list was read (spend.js:118,
\* ComplianceEvaluationContract.sol:173).
THEOREM CheckMirrorsContract == SpendFormSpec => []BudgetMirrored
<1>1. SpendFormInv => BudgetMirrored
  <2> SUFFICES ASSUME SpendFormInv, selected # NoAgreement, amount # NoAmount
               PROVE  /\ disabled => amount > Remaining(ledger[selected])
                      /\ loaded[selected] = ledger[selected] /\ amount > 0
                            => (disabled <=> ~Accepts(selected, amount))
    BY DEF BudgetMirrored
  <2>1. selected \in Agreements /\ selected \in Fundable /\ amount \in Nat
        /\ loaded[selected] \in Account /\ ledger[selected] \in Account
    BY SpendBounds DEF SpendFormInv, FormState, PickIsChecked
  <2>2. Older(loaded[selected], ledger[selected])
        /\ loaded[selected].finalised
    BY <2>1 DEF SpendFormInv, ListsAreOlder, Fundable
  <2>3. disabled <=> amount > Remaining(loaded[selected])
    BY DEF SpendFormInv, PickIsChecked, Over
  <2>4. Remaining(ledger[selected]) <= Remaining(loaded[selected])
        /\ Remaining(ledger[selected]) \in Int
        /\ Remaining(loaded[selected]) \in Int
    BY <2>1, <2>2 DEF Older, Remaining, Account
  <2>5. disabled => amount > Remaining(ledger[selected])
    BY <2>1, <2>3, <2>4
  <2>6. ASSUME loaded[selected] = ledger[selected], amount > 0
        PROVE  disabled <=> ~Accepts(selected, amount)
    BY <2>1, <2>2, <2>3, <2>4, <2>6 DEF Accepts
  <2> QED
    BY <2>5, <2>6
<1> QED
  BY <1>1, SpendFormInvariant, PTL

(***************************************************************************)
(* The compliance warning: while it is due and not up, the check that will *)
(* bring it is still out.                                                  *)
(***************************************************************************)
Check == [n : 1 .. MaxChecks, of : Agreements,
          answer : {"none", "failing", "clean"}]

\* Not yet answered, or answered with what the page is waiting for.
Awaited(c) == c.of = selected /\ c.answer # "clean"

WarningIsDue == known /\ ~lost /\ ~warned

WarningInv ==
    /\ warned \in BOOLEAN /\ known \in BOOLEAN /\ lost \in BOOLEAN
    /\ asked \in Nat
    /\ checks \subseteq Check
    /\ known => selected \in failing
    /\ WarningIsDue => \E c \in checks : Awaited(c)

LEMMA WarningInvInit == SpendFormInit => WarningInv
<1> SUFFICES ASSUME SpendFormInit PROVE WarningInv
  OBVIOUS
<1>1. warned \in BOOLEAN /\ known \in BOOLEAN /\ lost \in BOOLEAN
  BY Zenon DEF SpendFormInit
<1>2. asked \in Nat /\ checks \subseteq Check
  BY DEF SpendFormInit
<1>3. ~known
  BY Zenon DEF SpendFormInit
<1> QED
  BY <1>1, <1>2, <1>3 DEF WarningInv, WarningIsDue

LEMMA WarningUnpicked ==
  ASSUME WarningInv, Unpick, UNCHANGED <<asked, checks>>
  PROVE  WarningInv'
BY DEF WarningInv, WarningIsDue, Unpick

LEMMA WarningKept ==
  ASSUME WarningInv, failing \subseteq failing',
         UNCHANGED <<selected, warningVars>>
  PROVE  WarningInv'
BY DEF WarningInv, WarningIsDue, Awaited, warningVars

LEMMA WarningAsked ==
  ASSUME WarningInv, NEW a \in Fundable, PickFundable(a)
  PROVE  WarningInv'
<1>0. PICK c : c = [n |-> asked + 1, of |-> a, answer |-> "none"]
  OBVIOUS
<1>1. asked' = asked + 1 /\ asked' \in Nat /\ asked' \in 1 .. MaxChecks
  BY SpendBounds DEF WarningInv, PickFundable
<1>2. c \in Check
  BY <1>0, <1>1 DEF Check, Fundable
<1>3. checks' = checks \cup {c}
  BY <1>0 DEF PickFundable
<1>4. Awaited(c)'
  BY <1>0 DEF PickFundable, Awaited
<1>5. /\ known' => selected' \in failing'
      /\ warned' \in BOOLEAN /\ known' \in BOOLEAN /\ lost' \in BOOLEAN
  <2>1. selected' = a /\ known' = (a \in failing) /\ failing' = failing
    BY DEF PickFundable, spendLedgerVars
  <2>2. warned' = FALSE /\ lost' = FALSE
    BY DEF PickFundable
  <2>3. known' => selected' \in failing'
    BY <2>1
  <2>4. known' \in BOOLEAN
    BY <2>1
  <2> QED
    BY <2>2, <2>3, <2>4
<1>6. checks' \subseteq Check
  BY <1>2, <1>3 DEF WarningInv
<1>7. \E e \in checks' : Awaited(e)'
  BY <1>3, <1>4
<1> QED
  <2>1. (warned \in BOOLEAN /\ known \in BOOLEAN /\ lost \in BOOLEAN)'
    BY <1>5
  <2>2. (asked \in Nat)'
    BY <1>1
  <2>3. (checks \subseteq Check)'
    BY <1>6 DEF Check
  <2>4. (known => selected \in failing)'
    BY <1>5
  <2>5. (WarningIsDue => \E e \in checks : Awaited(e))'
    BY <1>7
  <2> QED
    BY <2>1, <2>2, <2>3, <2>4, <2>5 DEF WarningInv

LEMMA WarningServed ==
  ASSUME WarningInv, NEW c \in checks, ServerChecks(c)
  PROVE  WarningInv'
<1>0. PICK d : d = [c EXCEPT !.answer = IF c.of \in failing
                                         THEN "failing" ELSE "clean"]
  OBVIOUS
<1>1. c \in Check
  BY DEF WarningInv
<1>2. d \in Check /\ d.of = c.of
      /\ d.answer = (IF c.of \in failing THEN "failing" ELSE "clean")
  BY <1>0, <1>1 DEF Check
<1>3. checks' = (checks \ {c}) \cup {d}
  BY <1>0 DEF ServerChecks
<1>4. UNCHANGED <<selected, failing, asked, warned, known, lost>>
  BY DEF ServerChecks, spendLedgerVars, fieldVars
<1>5. ASSUME WarningIsDue' PROVE \E e \in checks' : Awaited(e)'
  <2>1. PICK e \in checks : Awaited(e)
    BY <1>4, <1>5 DEF WarningInv, WarningIsDue
  <2>2. selected \in failing
    BY <1>4, <1>5 DEF WarningInv, WarningIsDue
  <2>3. CASE e = c
    <3>1. Awaited(d)'
      BY <1>2, <1>4, <2>1, <2>2, <2>3 DEF Awaited
    <3> QED
      BY <1>3, <3>1
  <2>4. CASE e # c
    BY <1>3, <1>4, <2>1, <2>4 DEF Awaited
  <2> QED
    BY <2>3, <2>4
<1> QED
  BY <1>2, <1>3, <1>4, <1>5 DEF WarningInv

LEMMA WarningAnswered ==
  ASSUME WarningInv, NEW c \in checks, CheckAnswered(c)
  PROVE  WarningInv'
<1>1. UNCHANGED <<selected, failing, asked, known>> /\ checks' = checks \ {c}
      /\ c.answer # "none"
  BY DEF CheckAnswered, spendLedgerVars, fieldVars
<1>2. c.answer \in {"failing", "clean"}
  BY <1>1 DEF WarningInv, Check
<1>0. warned' \in BOOLEAN /\ lost' \in BOOLEAN
  BY DEF CheckAnswered, WarningInv
<1>3. ASSUME WarningIsDue' PROVE \E e \in checks' : Awaited(e)'
  <2>1. WarningIsDue
    BY <1>1, <1>3 DEF WarningIsDue, CheckAnswered, WarningInv
  <2>2. ~Awaited(c)
    BY <1>1, <1>2, <1>3 DEF WarningIsDue, CheckAnswered, Awaited, WarningInv
  <2>3. PICK e \in checks : Awaited(e)
    BY <2>1 DEF WarningInv
  <2>4. e \in checks' /\ Awaited(e)'
    BY <1>1, <2>2, <2>3 DEF Awaited
  <2> QED
    BY <2>4
<1> QED
  BY <1>0, <1>1, <1>3 DEF WarningInv

LEMMA FailingGrows ==
  ASSUME [SpendFormNext]_spendFormVars
  PROVE  failing \subseteq failing'
BY DEF SpendFormNext, spendFormVars, spendLedgerVars, LedgerMoves, BeginLoad,
     ShowList, ReadAgreement, PickFundable, TypeAmount, ServerChecks,
     CheckAnswered, SubmitBudget, SubmitRequest, RequestRecorded, RequestFails

LEMMA WarningInvNext ==
  WarningInv /\ [SpendFormNext]_spendFormVars => WarningInv'
<1> SUFFICES ASSUME WarningInv, [SpendFormNext]_spendFormVars
             PROVE  WarningInv'
  OBVIOUS
<1>1. CASE UNCHANGED <<selected, warningVars>>
  BY <1>1, FailingGrows, WarningKept
<1>2. ASSUME NEW l \in reading, ShowList(l) PROVE WarningInv'
  BY <1>2, WarningUnpicked DEF ShowList
<1>3. ASSUME NEW r \in sending, RequestRecorded(r) PROVE WarningInv'
  BY <1>3, WarningUnpicked DEF RequestRecorded
<1>4. ASSUME NEW a \in Fundable, PickFundable(a) PROVE WarningInv'
  BY <1>4, WarningAsked
<1>5. ASSUME NEW c \in checks, ServerChecks(c) PROVE WarningInv'
  BY <1>5, WarningServed
<1>6. ASSUME NEW c \in checks, CheckAnswered(c) PROVE WarningInv'
  BY <1>6, WarningAnswered
<1> QED
  BY <1>1, <1>2, <1>3, <1>4, <1>5, <1>6 DEF SpendFormNext, spendFormVars,
     fieldVars, LedgerMoves, BeginLoad, ReadAgreement, TypeAmount,
     SubmitBudget, SubmitRequest, RequestFails

\* No order of the answers to compliance checks loses a warning that is due
\* (spend.js:103).
THEOREM WarningIsNotMissed == SpendFormSpec => []WarningNeverMissing
<1>1. WarningInv => WarningNeverMissing
  BY DEF WarningInv, WarningIsDue, WarningNeverMissing
<1> QED
  BY <1>1, WarningInvInit, WarningInvNext, PTL DEF SpendFormSpec

(***************************************************************************)
(* Every variable of the spend form keeps its type.                        *)
(***************************************************************************)
SpendFormRest ==
    /\ failing \subseteq Agreements
    /\ loads \in 0 .. MaxLoads
    /\ disabled \in BOOLEAN
    /\ sending \subseteq Agreements \X FormAmounts
    /\ asked \in 0 .. MaxChecks

LEMMA SpendFormTypes ==
  SpendFormInv /\ WarningInv /\ SpendFormRest => SpendFormTypeOK
<1> SUFFICES ASSUME SpendFormInv, WarningInv, SpendFormRest
             PROVE  SpendFormTypeOK
  OBVIOUS
<1>1. \A l \in reading : DOMAIN l \subseteq Agreements
  BY DEF SpendFormInv, ListsAreOlder, ListIsOlder
<1>2. {disabled, warned, known, lost} \subseteq BOOLEAN
  BY Zenon DEF WarningInv, SpendFormRest
<1>3. FormState /\ checks \subseteq Check
  BY DEF SpendFormInv, WarningInv
<1> QED
  BY <1>1, <1>2, <1>3, Zenon
  DEF FormState, Check, SpendFormRest, SpendFormTypeOK

LEMMA SpendFormRestInit == SpendFormInit => SpendFormRest
<1> SUFFICES ASSUME SpendFormInit PROVE SpendFormRest
  OBVIOUS
<1>1. disabled \in BOOLEAN
  BY Zenon DEF SpendFormInit
<1>2. loads \in 0 .. MaxLoads /\ asked \in 0 .. MaxChecks
  BY SpendBounds DEF SpendFormInit
<1>3. failing = {} /\ sending = {}
  BY Zenon DEF SpendFormInit
<1> QED
  BY <1>1, <1>2, <1>3 DEF SpendFormRest

LEMMA SpendFormRestNext ==
  SpendFormInv /\ SpendFormRest /\ [SpendFormNext]_spendFormVars
    => SpendFormRest'
<1> SUFFICES ASSUME SpendFormInv, SpendFormRest, [SpendFormNext]_spendFormVars
             PROVE  SpendFormRest'
  OBVIOUS
<1>1. Over(selected, amount) \in BOOLEAN
      /\ \A a, x : Over(a, x) \in BOOLEAN
  BY DEF Over
<1>2. CASE UNCHANGED spendFormVars
  BY <1>2
  DEF spendFormVars, spendLedgerVars, listVars, fieldVars, warningVars,
      SpendFormRest
<1>3. ASSUME NEW a \in Agreements, LedgerMoves(a) PROVE SpendFormRest'
  BY <1>3 DEF LedgerMoves, listVars, fieldVars, warningVars, SpendFormRest
<1>4. ASSUME \/ BeginLoad
             \/ \E a \in Agreements, b \in FormBudgets : SubmitBudget(a, b)
      PROVE  SpendFormRest'
  BY <1>4, SpendBounds
  DEF BeginLoad, SubmitBudget, spendLedgerVars, fieldVars, warningVars,
      SpendFormRest
<1>5. ASSUME NEW l \in reading,
             ShowList(l) \/ \E a \in Agreements : ReadAgreement(l, a)
      PROVE  SpendFormRest'
  BY <1>5
  DEF ShowList, Unpick, ReadAgreement, spendLedgerVars, fieldVars, warningVars,
      SpendFormRest
<1>6. ASSUME NEW a \in Fundable, PickFundable(a) PROVE SpendFormRest'
  BY <1>1, <1>6, SpendBounds
  DEF PickFundable, spendLedgerVars, listVars, SpendFormRest
<1>7. ASSUME NEW x \in FormAmounts, TypeAmount(x) PROVE SpendFormRest'
  BY <1>1, <1>7
  DEF TypeAmount, spendLedgerVars, listVars, warningVars, SpendFormRest
<1>8. ASSUME NEW c \in checks, ServerChecks(c) \/ CheckAnswered(c)
      PROVE  SpendFormRest'
  BY <1>8
  DEF ServerChecks, CheckAnswered, spendLedgerVars, listVars, fieldVars,
      SpendFormRest
<1>9. CASE SubmitRequest
  <2>1. selected \in Agreements /\ amount \in FormAmounts
    BY <1>9 DEF SubmitRequest, SpendFormInv, FormState
  <2>2. sending' \subseteq Agreements \X FormAmounts
    BY <1>9, <2>1 DEF SubmitRequest
  <2>3. UNCHANGED <<failing, loads, disabled, asked>>
    BY <1>9 DEF SubmitRequest, spendLedgerVars, listVars, warningVars
  <2> QED
    BY <2>2, <2>3 DEF SpendFormRest
<1>10. ASSUME NEW r \in sending, RequestRecorded(r) \/ RequestFails(r)
       PROVE  SpendFormRest'
  <2>1. CASE RequestRecorded(r)
    <3>1. disabled' \in BOOLEAN
      BY <2>1, Zenon DEF RequestRecorded, Unpick
    <3>2. loads' \in 0 .. MaxLoads
      BY <2>1, SpendBounds DEF RequestRecorded, SpendFormRest
    <3>3. sending' = {} /\ UNCHANGED <<failing, asked>>
      BY <2>1 DEF RequestRecorded, spendLedgerVars
    <3> QED
      BY <3>1, <3>2, <3>3 DEF SpendFormRest
  <2>2. CASE RequestFails(r)
    <3>1. /\ sending' = {}
          /\ UNCHANGED <<failing, loads, disabled, asked>>
      BY <2>2
      DEF RequestFails, spendLedgerVars, listVars, warningVars
    <3> QED
      BY <3>1 DEF SpendFormRest
  <2> QED
    BY <1>10, <2>1, <2>2
<1> QED
  BY <1>2, <1>3, <1>4, <1>5, <1>6, <1>7, <1>8, <1>9, <1>10 DEF SpendFormNext

\* Every variable of the spend form keeps its type (spend.js).
THEOREM SpendFormTypeCorrect == SpendFormSpec => []SpendFormTypeOK
<1> QED
  BY SpendFormTypes, SpendFormInvInit, SpendFormInvNext, WarningInvInit,
     WarningInvNext, SpendFormRestInit, SpendFormRestNext, PTL
  DEF SpendFormSpec

-----------------------------------------------------------------------------
(* The integrity panel: types. *)

LEMMA PanelInitType == PanelInit => PanelTypeOK
BY PanelAssumption DEF PanelInit, PanelTypeOK

LEMMA HeightSets ==
  /\ Waiting = -2 /\ Unanswered = -1 /\ NoBlock = -3
  /\ Reachable \subseteq Nodes
BY DEF Waiting, Unanswered, NoBlock, Reachable

\* A nonempty set of heights has a lowest one.
LEMMA LowestOf ==
  ASSUME NEW S \in SUBSET Nat, S # {}
  PROVE  Min(S) \in S /\ \A h \in S : Min(S) <= h
<1>1. PICK x \in S : \A y \in S : <<y, x>> \notin OpToRel(<, Nat)
  BY WFMin, NatLessThanWellFounded
<1>2. ASSUME NEW y \in S PROVE x <= y
  <2>1. <<y, x>> \in Nat \X Nat /\ <<y, x>>[1] = y /\ <<y, x>>[2] = x
    OBVIOUS
  <2>2. ~(y < x)
    BY <1>1, <2>1 DEF OpToRel
  <2> QED
    BY <2>2
<1> QED
  BY <1>2 DEF Min

LEMMA HighestOf ==
  ASSUME NEW S \in SUBSET Nat, S # {}, NEW top \in Nat, \A h \in S : h <= top
  PROVE  Max(S) \in S /\ \A h \in S : h <= Max(S)
<1> DEFINE T == {top - h : h \in S}
<1>1. T \in SUBSET Nat /\ T # {}
  <2>1. \A h \in S : top - h \in Nat
    OBVIOUS
  <2> QED
    BY <2>1
<1> HIDE DEF T
<1>2. Min(T) \in T /\ \A t \in T : Min(T) <= t
  BY <1>1, LowestOf
<1>3. PICK x \in S : Min(T) = top - x
  BY <1>2 DEF T
<1>4. \A h \in S : top - h \in T
  BY DEF T
<1>5. \A h \in S : x >= h
  BY <1>2, <1>3, <1>4
<1> QED
  BY <1>5 DEF Max

\* The heights answered are those of nodes, and have a lowest.
Low == CommonHeight

LEMMA LowIs ==
  ASSUME PanelTypeOK, NEW n \in Reachable
  PROVE  Low \in Nat /\ \A k \in Reachable : Low <= heights[k]
<1> DEFINE S == {heights[k] : k \in Reachable}
<1>1. S \in SUBSET Nat /\ S # {}
  BY HeightSets DEF PanelTypeOK, Reachable
<1> HIDE DEF S
<1>2. Min(S) \in S /\ \A h \in S : Min(S) <= h
  BY <1>1, LowestOf
<1>3. Low = Min(S) /\ \A k \in Reachable : heights[k] \in S
  BY DEF S, Low, CommonHeight
<1> QED
  BY <1>1, <1>2, <1>3

-----------------------------------------------------------------------------
(* The integrity panel: what the answers say. *)

\* A height answered is one the node has reached, and a block answered is
\* the block at the lowest of them, on the side the node was on when the
\* refresh began if it has not resynced since.
AnswersHold ==
    /\ \A n \in Nodes : heights[n] <= height[n]
    /\ phase \in {"idle", "heights"} => \A n \in Nodes : blocks[n] = Waiting
    /\ \A n \in Nodes : blocks[n] \notin {Waiting, Unanswered} =>
            /\ n \in Reachable
            /\ blocks[n] \in {2 * Low, 2 * Low + 1}
            /\ n \notin rejoined => blocks[n] = Block(n, Low)
    /\ phase = "shown" => \A n \in Reachable : blocks[n] # Waiting

PanelInv == PanelTypeOK /\ AnswersHold

LEMMA PanelInvInit == PanelInit => PanelInv
<1> SUFFICES ASSUME PanelInit PROVE AnswersHold
  BY PanelInitType DEF PanelInv
<1>1. \A n \in Nodes : heights[n] = -2 /\ blocks[n] = Waiting
                       /\ height[n] \in Nat
  BY PanelAssumption DEF PanelInit, Waiting
<1> QED
  BY <1>1 DEF AnswersHold, PanelInit

\* While no new height comes in, the lowest stays.
LEMMA LowStays ==
  UNCHANGED heights => Reachable' = Reachable /\ Low' = Low
BY DEF Reachable, Low, CommonHeight

LEMMA MintKeeps ==
  ASSUME PanelInv, NEW n \in Nodes, MintBlock(n)
  PROVE  PanelInv'
<1>1. PanelTypeOK'
  BY PanelAssumption DEF PanelInv, PanelTypeOK, MintBlock
<1>2. Reachable' = Reachable /\ Low' = Low
  BY LowStays DEF MintBlock
<1>3. \A k \in Nodes : height[k] <= height'[k] /\ height'[k] \in Nat
  BY DEF PanelInv, PanelTypeOK, MintBlock
<1>4. \A k \in Nodes : heights'[k] <= height'[k]
  BY <1>3, HeightSets DEF PanelInv, PanelTypeOK, AnswersHold, MintBlock
<1>5. \A k : Block(k, Low)' = Block(k, Low)
  BY <1>2 DEF Block, MintBlock
<1> QED
  BY <1>1, <1>2, <1>4, <1>5 DEF PanelInv, AnswersHold, MintBlock

LEMMA ResyncKeeps ==
  ASSUME PanelInv, NEW n \in Nodes, Resync(n)
  PROVE  PanelInv'
<1>1. PanelTypeOK'
  BY DEF PanelInv, PanelTypeOK, Resync
<1>2. Reachable' = Reachable /\ Low' = Low
  BY LowStays DEF Resync
<1>3. \A k : k # n => Block(k, Low)' = Block(k, Low)
  BY <1>2 DEF Block, Resync
<1>4. n \in rejoined' /\ rejoined \subseteq rejoined'
  BY DEF Resync
<1>5. \A k \in Nodes : blocks'[k] \notin {Waiting, Unanswered} =>
            /\ k \in Reachable'
            /\ blocks'[k] \in {2 * Low', 2 * Low' + 1}
            /\ k \notin rejoined' => blocks'[k] = Block(k, Low)'
  BY <1>2, <1>3, <1>4 DEF PanelInv, AnswersHold, Resync
<1> QED
  BY <1>1, <1>2, <1>5 DEF PanelInv, AnswersHold, Resync

LEMMA BeginPollKeeps ==
  ASSUME PanelInv, BeginPoll
  PROVE  PanelInv'
<1>1. PanelTypeOK'
  BY PanelAssumption DEF PanelInv, PanelTypeOK, BeginPoll
<1>2. \A n \in Nodes : heights'[n] = -2 /\ blocks'[n] = Waiting
                       /\ height'[n] \in Nat
  BY DEF PanelInv, PanelTypeOK, BeginPoll, Waiting
<1> QED
  BY <1>1, <1>2 DEF PanelInv, AnswersHold, BeginPoll

LEMMA HeightKeeps ==
  ASSUME PanelInv, NEW n \in Nodes, AnswerHeight(n) \/ FailHeight(n)
  PROVE  PanelInv'
<1>1. PanelTypeOK'
  BY DEF PanelInv, PanelTypeOK, AnswerHeight, FailHeight
<1>2. \A k \in Nodes : blocks'[k] = Waiting
  BY DEF PanelInv, AnswersHold, AnswerHeight, FailHeight
<1>3. \A k \in Nodes : heights'[k] <= height'[k]
  BY HeightSets
  DEF PanelInv, PanelTypeOK, AnswersHold, AnswerHeight, FailHeight
<1>4. phase' = "heights"
  BY DEF AnswerHeight, FailHeight
<1> QED
  BY <1>1, <1>2, <1>3, <1>4 DEF PanelInv, AnswersHold

LEMMA RoundEndsKeeps ==
  ASSUME PanelInv, AskBlocks \/ ShowStates
  PROVE  PanelInv'
<1>1. PanelTypeOK'
  BY DEF PanelInv, PanelTypeOK, AskBlocks, ShowStates
<1>2. Reachable' = Reachable /\ Low' = Low
  BY LowStays DEF AskBlocks, ShowStates
<1>3. \A k : Block(k, Low)' = Block(k, Low)
  BY <1>2 DEF Block, AskBlocks, ShowStates
<1> QED
  BY <1>1, <1>2, <1>3 DEF PanelInv, AnswersHold, AskBlocks, ShowStates

LEMMA BlockKeeps ==
  ASSUME PanelInv, NEW n \in Nodes, AnswerBlock(n) \/ FailBlock(n)
  PROVE  PanelInv'
<1>1. Reachable' = Reachable /\ Low' = Low /\ n \in Reachable
  BY LowStays DEF AnswerBlock, FailBlock
<1>2. \A k : Block(k, Low)' = Block(k, Low)
  BY <1>1 DEF Block, AnswerBlock, FailBlock
<1>3. Low \in Nat /\ Low <= height[n]
  BY <1>1, LowIs, HeightSets DEF PanelInv, PanelTypeOK, AnswersHold, Reachable
<1>4. blocks'[n] \in {Unanswered, Block(n, Low)}
  BY <1>3 DEF PanelInv, PanelTypeOK, AnswerBlock, FailBlock, Low
<1>5. /\ Block(n, Low) \in {2 * Low, 2 * Low + 1}
      /\ Block(n, Low) \in Nat
  BY <1>3 DEF Block
<1>6. /\ blocks' = [blocks EXCEPT ![n] = blocks'[n]]
      /\ UNCHANGED <<forked, rejoined, height, minted, phase, polls, heights>>
      /\ phase = "blocks"
  BY DEF AnswerBlock, FailBlock, PanelInv, PanelTypeOK
<1>7. PanelTypeOK'
  <2>1. blocks'[n] \in {Waiting, Unanswered, NoBlock} \cup Nat
    BY <1>4, <1>5
  <2>2. blocks' \in [Nodes -> {Waiting, Unanswered, NoBlock} \cup Nat]
    BY <1>6, <2>1 DEF PanelInv, PanelTypeOK
  <2> QED
    BY <1>6, <2>2 DEF PanelInv, PanelTypeOK
<1>8. \A k \in Nodes : k # n => blocks'[k] = blocks[k]
  BY <1>6 DEF PanelInv, PanelTypeOK
<1>9. \A k \in Nodes : blocks'[k] \notin {Waiting, Unanswered} =>
            /\ k \in Reachable'
            /\ blocks'[k] \in {2 * Low', 2 * Low' + 1}
            /\ k \notin rejoined' => blocks'[k] = Block(k, Low)'
  <2> SUFFICES ASSUME NEW k \in Nodes, blocks'[k] \notin {Waiting, Unanswered}
               PROVE  /\ k \in Reachable
                      /\ blocks'[k] \in {2 * Low, 2 * Low + 1}
                      /\ k \notin rejoined => blocks'[k] = Block(k, Low)
    BY <1>1, <1>2, <1>6
  <2>1. CASE k = n
    BY <1>1, <1>4, <1>5, <2>1
  <2>2. CASE k # n
    BY <1>8, <2>2 DEF PanelInv, AnswersHold
  <2> QED
    BY <2>1, <2>2
<1> QED
  BY <1>6, <1>7, <1>9 DEF PanelInv, AnswersHold

LEMMA PanelInvNext ==
  ASSUME PanelInv, [PanelNext]_panelVars
  PROVE  PanelInv'
<1>1. CASE UNCHANGED panelVars
  <2>1. Reachable' = Reachable /\ Low' = Low
    BY <1>1, LowStays DEF panelVars
  <2> QED
    BY <1>1, <2>1 DEF panelVars, PanelInv, PanelTypeOK, AnswersHold, Block
<1> QED
  BY <1>1, MintKeeps, ResyncKeeps, BeginPollKeeps, HeightKeeps, RoundEndsKeeps,
     BlockKeeps DEF PanelNext

-----------------------------------------------------------------------------
(* The integrity panel: what it says. *)

\* Who answered both rounds and has not resynced answered with its side.
LEMMA HeardIs ==
  ASSUME PanelInv, phase = "shown", NEW n \in Heard
  PROVE  /\ n \in Answered
         /\ n \notin rejoined => blocks[n] = Block(n, Low)
<1>1. n \in Nodes /\ n \in Reachable /\ blocks[n] \notin {Waiting, Unanswered}
  BY HeightSets DEF PanelInv, AnswersHold, Heard
<1>2. blocks[n] \in {2 * Low, 2 * Low + 1} /\ Low \in Nat
  BY <1>1, LowIs DEF PanelInv, AnswersHold
<1> QED
  BY <1>1, <1>2 DEF PanelInv, AnswersHold, Answered

LEMMA ForksNoticed == PanelInv => ForkNoticed
<1> SUFFICES ASSUME PanelInv, phase = "shown",
                    NEW m \in Heard \ rejoined, NEW n \in Heard \ rejoined,
                    Block(m, Low) # Block(n, Low)
             PROVE  ~InSync /\ "fork" \in {Status(m), Status(n)}
  BY DEF ForkNoticed, Low, CommonHeight
<1>1. blocks[m] # blocks[n] /\ m \in Answered /\ n \in Answered
  BY HeardIs
<1>2. /\ m \in Reachable /\ n \in Reachable
      /\ m \in Nodes /\ n \in Nodes
  BY HeightSets DEF Heard
<1>3. Status(m) = "fork" \/ Status(n) = "fork"
  BY <1>1, <1>2 DEF Status
<1> QED
  BY <1>2, <1>3 DEF InSync

VotesFor(k, b) == Cardinality({n \in Supporters(b) : n <= k})

MostVotes == Max({Cardinality(Supporters(blocks[n])) : n \in Answered})

ReachedFirst == {k \in Answered : VotesFor(k, blocks[k]) = MostVotes}

LEMMA MajorityIs == MajorityBlock = blocks[Min(ReachedFirst)]
BY DEF MajorityBlock, MostVotes, ReachedFirst, VotesFor

LEMMA NodesFinite ==
  /\ IsFiniteSet(Nodes)
  /\ \A S \in SUBSET Nodes :
        /\ IsFiniteSet(S)
        /\ Cardinality(S) \in Nat
        /\ Cardinality(S) <= Cardinality(Nodes)
  /\ \A S \in SUBSET Nodes : \A T \in SUBSET S :
        Cardinality(T) <= Cardinality(S)
<1>1. IsFiniteSet(Nodes)
  BY PanelAssumption, FS_Interval DEF Nodes
<1>2. ASSUME NEW S \in SUBSET Nodes
      PROVE  /\ IsFiniteSet(S)
             /\ Cardinality(S) \in Nat
             /\ Cardinality(S) <= Cardinality(Nodes)
  BY <1>1, FS_Subset, FS_CardinalityType
<1>3. ASSUME NEW S \in SUBSET Nodes, NEW T \in SUBSET S
      PROVE  Cardinality(T) <= Cardinality(S)
  BY <1>2, FS_Subset
<1> QED
  BY <1>1, <1>2, <1>3

LEMMA VotersAreNodes ==
  /\ Answered \subseteq Nodes
  /\ \A b : Supporters(b) \subseteq Answered
  /\ \A k, b : {n \in Supporters(b) : n <= k} \subseteq Supporters(b)
BY HeightSets DEF Answered, Supporters

\* The block chosen has as many votes as any other that was answered.
LEMMA MajorityHasMost ==
  ASSUME NEW a \in Answered
  PROVE  /\ \E n \in Answered : blocks[n] = MajorityBlock
         /\ Cardinality(Supporters(blocks[a]))
                <= Cardinality(Supporters(MajorityBlock))
<1> DEFINE S == {Cardinality(Supporters(blocks[n])) : n \in Answered}
<1>1. /\ S \in SUBSET Nat /\ S # {}
      /\ \A h \in S : h <= Cardinality(Nodes)
      /\ Cardinality(Nodes) \in Nat
  BY NodesFinite, VotersAreNodes
<1>2. MostVotes = Max(S) /\ Cardinality(Supporters(blocks[a])) \in S
  BY DEF MostVotes
<1>3. \A h \in S : \E n \in Answered : h = Cardinality(Supporters(blocks[n]))
  OBVIOUS
<1> HIDE DEF S
<1>4. Max(S) \in S /\ \A h \in S : h <= Max(S)
  BY <1>1, HighestOf
<1>5. PICK best \in Answered : MostVotes = Cardinality(Supporters(blocks[best]))
  BY <1>2, <1>3, <1>4
\* The last of its supporters completes the count.
<1>6. ReachedFirst # {}
  <2> DEFINE T == Supporters(blocks[best])
  <2>1. best \in T /\ T \in SUBSET Nodes /\ T \subseteq Answered
    BY <1>5, VotersAreNodes DEF Supporters
  <2>2. \A n \in T : n \in Nat /\ n <= NodeCount /\ blocks[n] = blocks[best]
    BY <2>1 DEF Nodes, Supporters
  <2>3. T \in SUBSET Nat /\ T # {} /\ NodeCount \in Nat
    BY <2>1, <2>2, PanelAssumption
  <2> HIDE DEF T
  <2>4. Max(T) \in T /\ \A n \in T : n <= Max(T)
    BY <2>2, <2>3, HighestOf
  <2>5. {n \in T : n <= Max(T)} = T
    BY <2>4
  <2>6. blocks[Max(T)] = blocks[best] /\ Max(T) \in Answered
    BY <2>1, <2>2, <2>4
  <2>7. VotesFor(Max(T), blocks[Max(T)]) = MostVotes
    BY <1>5, <2>5, <2>6 DEF VotesFor, T
  <2> QED
    BY <2>6, <2>7 DEF ReachedFirst
<1>7. Min(ReachedFirst) \in ReachedFirst
  <2>1. Nodes \subseteq Nat
    BY PanelAssumption DEF Nodes
  <2>2. ReachedFirst \subseteq Nodes
    BY VotersAreNodes DEF ReachedFirst
  <2>3. ReachedFirst \in SUBSET Nat
    BY <2>1, <2>2
  <2> QED
    BY <1>6, <2>3, LowestOf
<1>8. PICK first \in Answered : /\ blocks[first] = MajorityBlock
                                /\ VotesFor(first, blocks[first]) = MostVotes
  BY <1>7, MajorityIs DEF ReachedFirst
<1>9. VotesFor(first, MajorityBlock) <= Cardinality(Supporters(MajorityBlock))
  <2>1. Supporters(MajorityBlock) \in SUBSET Nodes
    BY VotersAreNodes
  <2>2. {n \in Supporters(MajorityBlock) : n <= first}
            \in SUBSET Supporters(MajorityBlock)
    OBVIOUS
  <2> QED
    BY <2>1, <2>2, NodesFinite DEF VotesFor
<1>10. Cardinality(Supporters(blocks[a])) <= MostVotes
  BY <1>2, <1>4
<1>11. /\ Cardinality(Supporters(blocks[a])) \in Nat
       /\ Cardinality(Supporters(MajorityBlock)) \in Nat
       /\ MostVotes \in Nat
  BY <1>5, NodesFinite, VotersAreNodes
<1> QED
  BY <1>8, <1>9, <1>10, <1>11

LEMMA MainNotAccused == PanelInv => MainNeverAccused
<1> DEFINE main == Nodes \ (forked \cup rejoined)
<1> SUFFICES ASSUME PanelInv, phase = "shown",
                    2 * Cardinality(main \cap Answered) > Cardinality(Answered),
                    NEW n \in main, n \in Answered
             PROVE  blocks[n] = MajorityBlock
  <2>1. ASSUME NEW n \in main, n \in Answered => blocks[n] = MajorityBlock
        PROVE  Status(n) # "fork"
    BY <2>1 DEF Status
  <2> QED
    BY <2>1 DEF MainNeverAccused
<1>1. \A m \in main \cap Answered : blocks[m] = 2 * Low
  <2> SUFFICES ASSUME NEW m \in main, m \in Answered
               PROVE  blocks[m] = 2 * Low
    OBVIOUS
  <2>1. m \in Heard
    BY HeightSets DEF Heard, Answered
  <2> QED
    BY <2>1, HeardIs DEF Block
<1> DEFINE b == 2 * Low
           S == Supporters(b)
           W == Supporters(MajorityBlock)
<1>2. blocks[n] = b
  BY <1>1
<1> SUFFICES ASSUME MajorityBlock # b PROVE FALSE
  BY <1>2
<1>3. S \cap W = {} /\ S \subseteq Answered /\ W \subseteq Answered
      /\ main \cap Answered \subseteq S
  BY <1>1, VotersAreNodes DEF Supporters
<1>4. Cardinality(S) <= Cardinality(W)
  BY <1>2, MajorityHasMost
<1> HIDE DEF S, W, main, b
<1>5. /\ IsFiniteSet(S) /\ IsFiniteSet(W)
      /\ Cardinality(S) \in Nat /\ Cardinality(W) \in Nat
      /\ Cardinality(Answered) \in Nat
      /\ Cardinality(main \cap Answered) \in Nat
  BY <1>3, NodesFinite, VotersAreNodes
<1>6. Cardinality(main \cap Answered) <= Cardinality(S)
  BY <1>3, NodesFinite, VotersAreNodes
<1>7. Cardinality(S \cup W) <= Cardinality(Answered)
  <2>1. S \cup W \in SUBSET Answered /\ Answered \in SUBSET Nodes
    BY <1>3, VotersAreNodes
  <2> QED
    BY <2>1, NodesFinite
<1>8. Cardinality(S \cup W) = Cardinality(S) + Cardinality(W)
  <2>1. Cardinality(S \cup W)
            = Cardinality(S) + Cardinality(W) - Cardinality(S \cap W)
    BY <1>5, FS_Union
  <2>2. Cardinality(S \cap W) = 0
    BY <1>3, FS_EmptySet
  <2> QED
    BY <1>5, <2>1, <2>2
<1> QED
  BY <1>4, <1>5, <1>6, <1>7, <1>8

\* The panel never shows two sides in sync, and never accuses a node of the
\* majority's chain for being behind, for any number of nodes, heights and
\* refreshes (getNodeStates, chain.js:385; overview.js).
THEOREM PanelTells == PanelSpec => []PanelTellsForks
<1>1. PanelInv => PanelTellsForks
  BY ForksNoticed, MainNotAccused DEF PanelTellsForks
<1>2. PanelInit => PanelInv
  BY PanelInvInit
<1>3. PanelInv /\ [PanelNext]_panelVars => PanelInv'
  BY PanelInvNext
<1> QED
  BY <1>1, <1>2, <1>3, PTL DEF PanelSpec

\* Every variable of the panel keeps its type.
THEOREM PanelTypeCorrect == PanelSpec => []PanelTypeOK
<1>1. PanelInv => PanelTypeOK
  BY DEF PanelInv
<1> QED
  BY <1>1, PanelInvInit, PanelInvNext, PTL DEF PanelSpec

-----------------------------------------------------------------------------
(* The agreements page: the ledger under it. *)

LEMMA DonorIsAccount == Donor \in Accounts /\ Parties \in SUBSET Accounts
BY AccountsAssumption DEF Donor, Parties

\* What a transaction about draft id does not touch.
OnlyDraft(id) ==
    /\ AgreementTypeOK'
    /\ nextAgreementId' = nextAgreementId
    /\ agreements[id].id # 0
    /\ \A j \in AgreementIds :
            /\ agreements'[j].id = agreements[j].id
            /\ j # id => agreementTargets'[j] = agreementTargets[j]
            /\ agreements[j].finalised =>
                    /\ agreements'[j].finalised
                    /\ agreementTargets'[j] = agreementTargets[j]

LEMMA TargetsStep ==
  ASSUME AgreementTypeOK, NEW id \in AgreementIds, NEW ts \in Seq(Target),
         MayEditDraft(Donor, id),
         agreementTargets' = [agreementTargets EXCEPT ![id] = ts],
         UNCHANGED <<organisations, orgList, nextAgreementId, agreements,
                     complianceContract>>
  PROVE  OnlyDraft(id)
<1>1. agreementTargets' \in [AgreementIds -> Seq(Target)]
  BY DEF AgreementTypeOK
<1>2. AgreementTypeOK'
  BY <1>1 DEF AgreementTypeOK
<1>3. \A j \in AgreementIds :
            j # id => agreementTargets'[j] = agreementTargets[j]
  BY DEF AgreementTypeOK
<1>4. agreements[id].id # 0 /\ ~agreements[id].finalised
  BY DEF MayEditDraft
<1> QED
  BY <1>2, <1>3, <1>4 DEF OnlyDraft

LEMMA AddTargetStep ==
  ASSUME AgreementTypeOK, NEW id \in AgreementIds, NEW target \in Target,
         AddTarget(Donor, id, target)
  PROVE  OnlyDraft(id)
<1>1. Append(agreementTargets[id], target) \in Seq(Target)
  BY DEF AgreementTypeOK
<1> QED
  BY <1>1, TargetsStep DEF AddTarget

LEMMA EditTargetStep ==
  ASSUME AgreementTypeOK, NEW id \in AgreementIds, NEW target \in Target,
         NEW index \in 0 .. MaxTargets - 1, EditTarget(Donor, id, index, target)
  PROVE  OnlyDraft(id)
<1> DEFINE ts == [agreementTargets[id] EXCEPT ![index + 1] = target]
<1>1. index + 1 \in DOMAIN agreementTargets[id]
  BY AgreementBoundsAssumption DEF EditTarget, AgreementTypeOK, TargetCount
<1>2. ts \in Seq(Target)
  BY <1>1 DEF AgreementTypeOK
<1>3. agreementTargets' = [agreementTargets EXCEPT ![id] = ts]
  BY DEF EditTarget
<1> QED
  BY <1>2, <1>3, TargetsStep DEF EditTarget

LEMMA RemoveTargetStep ==
  ASSUME AgreementTypeOK, NEW id \in AgreementIds,
         NEW index \in 0 .. MaxTargets - 1, RemoveTarget(Donor, id, index)
  PROVE  OnlyDraft(id)
<1>1. RemoveAt(agreementTargets[id], index + 1) \in Seq(Target)
  BY AgreementBoundsAssumption
  DEF RemoveTarget, AgreementTypeOK, RemoveAt, TargetCount
<1> QED
  BY <1>1, TargetsStep DEF RemoveTarget

\* Dates, budget and finalising leave the targets alone.
LEMMA TermsStep ==
  ASSUME AgreementTypeOK, NEW id \in AgreementIds, NEW new \in Agreement,
         new.id = agreements[id].id, new.id # 0,
         agreements[id].finalised => new.finalised,
         agreements' = [agreements EXCEPT ![id] = new],
         UNCHANGED <<organisations, orgList, nextAgreementId, agreementTargets,
                     complianceContract>>
  PROVE  OnlyDraft(id)
<1>1. agreements' \in [AgreementIds -> Agreement]
  BY DEF AgreementTypeOK
<1>2. AgreementTypeOK'
  BY <1>1 DEF AgreementTypeOK
<1>3. agreements'[id] = new
      /\ \A j \in AgreementIds : j # id => agreements'[j] = agreements[j]
  BY DEF AgreementTypeOK
<1> QED
  BY <1>2, <1>3 DEF OnlyDraft

LEMMA UpdateDatesStep ==
  ASSUME AgreementTypeOK, NEW id \in AgreementIds, NEW start \in Dates,
         NEW end \in Dates, UpdateDates(Donor, id, start, end)
  PROVE  OnlyDraft(id)
<1> DEFINE new == [agreements[id] EXCEPT !.startDate = start, !.endDate = end]
<1>1. agreements[id] \in Agreement /\ start \in Nat /\ end \in Nat
  BY TermsAssumption DEF AgreementTypeOK
<1>2. new \in Agreement /\ new.id = agreements[id].id
      /\ new.finalised = agreements[id].finalised
  BY <1>1 DEF Agreement
<1>3. agreements' = [agreements EXCEPT ![id] = new]
  BY DEF UpdateDates, AgreementTypeOK
<1>4. agreements[id].id # 0
  BY DEF UpdateDates, MayEditDraft
<1> HIDE DEF new
<1> QED
  BY <1>2, <1>3, <1>4, TermsStep DEF UpdateDates

LEMMA SetBudgetStep ==
  ASSUME AgreementTypeOK, NEW id \in AgreementIds, NEW budget \in Budgets,
         SetBudget(Donor, id, budget)
  PROVE  OnlyDraft(id)
<1> DEFINE new == [agreements[id] EXCEPT !.budget = budget]
<1>1. agreements[id] \in Agreement /\ budget \in Nat
  BY TermsAssumption DEF AgreementTypeOK
<1>2. new \in Agreement /\ new.id = agreements[id].id
      /\ new.finalised = agreements[id].finalised
  BY <1>1 DEF Agreement
<1>3. agreements' = [agreements EXCEPT ![id] = new]
  BY DEF SetBudget, AgreementTypeOK
<1>4. agreements[id].id # 0
  BY DEF SetBudget, MayEditDraft
<1> HIDE DEF new
<1> QED
  BY <1>2, <1>3, <1>4, TermsStep DEF SetBudget

LEMMA FinaliseStep ==
  ASSUME AgreementTypeOK, NEW id \in AgreementIds, FinaliseAgreement(Donor, id)
  PROVE  OnlyDraft(id)
<1> DEFINE new == [agreements[id] EXCEPT !.finalised = TRUE]
<1>1. agreements[id] \in Agreement
  BY DEF AgreementTypeOK
<1>2. new \in Agreement /\ new.id = agreements[id].id /\ new.finalised = TRUE
  BY <1>1 DEF Agreement
<1>3. agreements' = [agreements EXCEPT ![id] = new]
  BY DEF FinaliseAgreement, AgreementTypeOK
<1>4. agreements[id].id # 0
  BY DEF FinaliseAgreement
<1> HIDE DEF new
<1> QED
  BY <1>2, <1>3, <1>4, TermsStep DEF FinaliseAgreement

LEMMA DraftTxStep ==
  ASSUME AgreementTypeOK, NEW id \in AgreementIds, DraftTx(Donor, id)
  PROVE  OnlyDraft(id)
<1>1. \A t \in Thresholds, d \in Deadlines :
            [threshold |-> t, deadline |-> d] \in Target
  BY TermsAssumption DEF Target
<1> QED
  BY <1>1, AddTargetStep, EditTargetStep, RemoveTargetStep, UpdateDatesStep,
     SetBudgetStep, FinaliseStep DEF DraftTx

\* A new agreement gets the next id and no targets yet.
Created ==
    /\ AgreementTypeOK'
    /\ nextAgreementId \in AgreementIds
    /\ nextAgreementId' = nextAgreementId + 1
    /\ agreementTargets' = agreementTargets
    /\ \A j \in AgreementIds :
            /\ j # nextAgreementId => agreements'[j].id = agreements[j].id
            /\ agreements'[j].finalised = agreements[j].finalised

LEMMA CreateStep ==
  ASSUME AgreementTypeOK, NEW start \in Dates, NEW end \in Dates,
         CreateAgreement(Donor, start, end, Parties)
  PROVE  Created
<1> DEFINE n == nextAgreementId
           new == [agreements[n] EXCEPT !.id = n, !.creator = Donor,
                                        !.startDate = start,
                                        !.endDate = end,
                                        !.signatories = Parties]
<1>1. n \in AgreementIds /\ n \in Nat /\ agreements[n] \in Agreement
  BY DEF CreateAgreement, AgreementTypeOK, AgreementIds
<1>2. new \in Agreement /\ new.finalised = agreements[n].finalised
  BY <1>1, DonorIsAccount, TermsAssumption DEF Agreement
<1>3. agreements' = [agreements EXCEPT ![n] = new]
  BY DEF CreateAgreement
<1> HIDE DEF new
<1>4. /\ agreements' \in [AgreementIds -> Agreement]
      /\ agreements'[n] = new
      /\ \A j \in AgreementIds : j # n => agreements'[j] = agreements[j]
  BY <1>1, <1>2, <1>3 DEF AgreementTypeOK
<1>5. nextAgreementId' \in 1 .. MaxAgreements + 1
  BY <1>1, AgreementBoundsAssumption
  DEF CreateAgreement, AgreementTypeOK, AgreementIds
<1>6. AgreementTypeOK'
  BY <1>4, <1>5 DEF CreateAgreement, AgreementTypeOK
<1> QED
  BY <1>1, <1>2, <1>4, <1>6 DEF CreateAgreement, Created

\* All a page or a tab of the donor can do to the ledger.
LedgerStep(id) ==
    \/ UNCHANGED agreementVars
    \/ Created
    \/ id \in AgreementIds /\ OnlyDraft(id)

FinalKept ==
    /\ AgreementTypeOK'
    /\ nextAgreementId <= nextAgreementId'
    /\ \A j \in AgreementIds :
            agreements[j].finalised =>
                /\ agreements'[j].finalised
                /\ agreementTargets'[j] = agreementTargets[j]

LEMMA LedgerStepKeeps ==
  ASSUME AgreementTypeOK, NEW id, LedgerStep(id)
  PROVE  FinalKept
<1>1. nextAgreementId \in Nat
  BY AgreementBoundsAssumption DEF AgreementTypeOK
<1>2. CASE UNCHANGED agreementVars
  BY <1>1, <1>2 DEF agreementVars, FinalKept, AgreementTypeOK
<1>3. CASE Created
  BY <1>1, <1>3 DEF Created, FinalKept
<1>4. CASE id \in AgreementIds /\ OnlyDraft(id)
  BY <1>1, <1>4 DEF OnlyDraft, FinalKept
<1> QED
  BY <1>2, <1>3, <1>4 DEF LedgerStep

-----------------------------------------------------------------------------
(* The agreements page: types. *)

Ops == {"edit", "remove", "add", "dates", "finalise"}

ButtonCall ==
    [n : Nat, op : Ops, id : AgreementIds, index : 0 .. MaxTargets - 1,
     target : [threshold : Thresholds, deadline : Deadlines],
     landed : BOOLEAN, meant : Target]

Fetch == [ids : 0 .. MaxAgreements, rows : Seq(Row)]

Making == [id : AgreementIds \cup {0}, entered : Seq(Target), next : Nat \ {0}]

ListOK ==
    /\ shown \in Seq(Row)
    /\ Len(shown) <= MaxAgreements
    /\ fetches \in SUBSET Fetch
    /\ \A f \in fetches : Len(f.rows) <= f.ids
    /\ fetched \in 0 .. MaxFetches

CallsOK ==
    /\ clicks \in 0 .. MaxClicks
    /\ calls \in SUBSET ButtonCall

MakingOK ==
    making # NoMaking =>
        /\ making \in Making
        /\ making.next <= Len(making.entered) + 1
        /\ making.id = 0 => making.next = 1

GhostsOK ==
    /\ made \in [AgreementIds -> Seq(Target)]
    /\ disturbed \in BOOLEAN
    /\ misapplied \in BOOLEAN

EditorState ==
    /\ AgreementTypeOK
    /\ ListOK
    /\ CallsOK
    /\ MakingOK
    /\ GhostsOK

LEMMA EditorStateType == EditorState => EditorTypeOK
<1> SUFFICES ASSUME EditorState PROVE EditorTypeOK
  OBVIOUS
<1>1. \A f \in fetches : /\ f.ids \in 0 .. MaxAgreements
                         /\ f.rows \in Seq(Row)
                         /\ Len(f.rows) <= f.ids
  BY DEF EditorState, ListOK, Fetch
<1>2. \A c \in calls : c.id \in AgreementIds /\ c.meant \in Target
  BY DEF EditorState, CallsOK, ButtonCall
<1>3. making # NoMaking => /\ making.id \in AgreementIds \cup {0}
                           /\ making.next \in 1 .. Len(making.entered) + 1
  BY DEF EditorState, MakingOK, Making
<1>4. {disturbed, misapplied} \subseteq BOOLEAN
  BY Zenon DEF EditorState, GhostsOK
<1> QED
  BY <1>1, <1>2, <1>3, <1>4
  DEF EditorState, ListOK, CallsOK, GhostsOK, EditorTypeOK

LEMMA IdsAre ==
  ASSUME AgreementTypeOK
  PROVE  /\ MaxAgreements \in Nat
         /\ nextAgreementId \in Nat /\ nextAgreementId - 1 \in 0 .. MaxAgreements
         /\ AgreementIds \subseteq Nat
         /\ \A i \in Nat : i # 0 /\ i <= MaxAgreements => i \in AgreementIds
BY AgreementBoundsAssumption DEF AgreementTypeOK, AgreementIds

LEMMA NewFetchIs ==
  ASSUME AgreementTypeOK
  PROVE  NewFetch \in Fetch /\ NewFetch.rows = <<>> /\ Len(<<>>) <= NewFetch.ids
<1>1. nextAgreementId - 1 \in 0 .. MaxAgreements
  BY IdsAre
<1> QED
  BY <1>1 DEF NewFetch, Fetch

LEMMA EditorInitPage ==
  ASSUME EditorInit
  PROVE  /\ shown = <<>>
         /\ fetches = {NewFetch}
         /\ fetched = 1
         /\ clicks = 0
         /\ calls = {}
         /\ making = NoMaking
         /\ made = [id \in AgreementIds |-> <<>>]
         /\ disturbed = FALSE
         /\ misapplied = FALSE
         /\ orgList = <<>>
         /\ complianceContract = ComplianceAddress
         /\ nextAgreementId = 1 \/ nextAgreementId = 2
BY Zenon DEF EditorInit, NewFetch

LEMMA EditorInitLedger ==
  ASSUME EditorInit
  PROVE  /\ AgreementTypeOK
         /\ \A j \in AgreementIds : j >= nextAgreementId =>
                agreements[j].id = 0 /\ agreementTargets[j] = <<>>
<1>1. organisations \in [Accounts -> Organisation]
  BY DEF EditorInit, Organisation, OrgTypes
<1>2. UnsetAgreement \in Agreement
  BY DEF UnsetAgreement, Agreement
<1>3. CASE nextAgreementId = 1
  <2>1. /\ agreements = [id \in AgreementIds |-> UnsetAgreement]
        /\ agreementTargets = [id \in AgreementIds |-> <<>>]
    BY <1>3 DEF EditorInit
  <2> QED
    BY <1>1, <1>2, <1>3, <2>1, EditorAssumption
    DEF EditorInit, AgreementTypeOK, UnsetAgreement
<1>4. CASE nextAgreementId = 2
  <2>1. PICK start \in Dates, end \in Dates, ts \in Entered :
            /\ agreements = [id \in AgreementIds |-> IF id = 1
                    THEN [UnsetAgreement EXCEPT !.id = 1,
                                                !.creator = Donor,
                                                !.startDate = start,
                                                !.endDate = end,
                                                !.signatories = Parties]
                    ELSE UnsetAgreement]
            /\ agreementTargets = [id \in AgreementIds |->
                                        IF id = 1 THEN ts ELSE <<>>]
    <3>1. nextAgreementId # 1
      BY <1>4
    <3> QED
      BY <3>1, Zenon DEF EditorInit
  <2> DEFINE new == [UnsetAgreement EXCEPT !.id = 1, !.creator = Donor,
                                           !.startDate = start,
                                           !.endDate = end,
                                           !.signatories = Parties]
  <2>2. new \in Agreement
    BY <1>2, DonorIsAccount, TermsAssumption DEF Agreement
  <2>3. agreements \in [AgreementIds -> Agreement]
    BY <1>2, <2>1, <2>2
  <2>4. ts \in Seq(Target) /\ <<>> \in Seq(Target)
    BY EditorAssumption
  <2>5. agreementTargets \in [AgreementIds -> Seq(Target)]
    BY <2>1, <2>4
  <2>6. \A j \in AgreementIds : j >= 2 =>
            agreements[j].id = 0 /\ agreementTargets[j] = <<>>
    BY <2>1 DEF UnsetAgreement, AgreementIds
  <2>7. nextAgreementId \in 1 .. MaxAgreements + 1
    BY <1>4, EditorAssumption
  <2> QED
    BY <1>1, <1>4, <2>3, <2>5, <2>6, <2>7, EditorInitPage DEF AgreementTypeOK
<1> QED
  BY <1>3, <1>4, EditorInitPage

LEMMA EditorInitState == EditorInit => EditorState
<1> SUFFICES ASSUME EditorInit PROVE EditorState
  OBVIOUS
<1>1. AgreementTypeOK
  BY EditorInitLedger
<1>2. fetches = {NewFetch} /\ shown = <<>> /\ fetched = 1
  BY EditorInitPage
<1>3. ListOK
  <2>1. \A f \in fetches : f \in Fetch /\ Len(f.rows) <= f.ids
    BY <1>1, <1>2, NewFetchIs
  <2>2. <<>> \in Seq(Row) /\ Len(<<>>) <= MaxAgreements /\ 1 \in 0 .. MaxFetches
    BY EditorAssumption
  <2> QED
    BY <1>2, <2>1, <2>2 DEF ListOK
<1>4. CallsOK
  BY EditorAssumption, EditorInitPage DEF CallsOK
<1>5. MakingOK /\ GhostsOK
  <2>1. <<>> \in Seq(Target)
    OBVIOUS
  <2>2. MakingOK
    BY EditorInitPage DEF MakingOK
  <2> QED
    BY <2>1, <2>2, EditorInitPage DEF GhostsOK
<1> QED
  BY <1>1, <1>3, <1>4, <1>5 DEF EditorState

\* The lists being read, one answer further.
LEMMA LastRow ==
  ASSUME EditorState, NEW f \in fetches, f.rows # <<>>
  PROVE  /\ f \in Fetch /\ Len(f.rows) \in AgreementIds
         /\ Len(f.rows) <= f.ids
         /\ Last(f.rows) = f.rows[Len(f.rows)]
         /\ f.rows[Len(f.rows)] \in Row
<1>1. f \in Fetch /\ Len(f.rows) <= f.ids
  BY DEF EditorState, ListOK
<1>2. f.rows \in Seq(Row) /\ f.ids \in 0 .. MaxAgreements
  BY <1>1 DEF Fetch
<1>3. Len(f.rows) \in Nat /\ Len(f.rows) # 0 /\ Len(f.rows) <= MaxAgreements
  BY <1>1, <1>2, IdsAre DEF EditorState
<1>4. Len(f.rows) \in AgreementIds
  BY <1>3, IdsAre DEF EditorState
<1>5. f.rows[Len(f.rows)] \in Row
  BY <1>2, <1>3
<1> QED
  BY <1>1, <1>4, <1>5 DEF Last

\* Each step of a read replaces the last row or appends one.
LEMMA ReplaceType ==
  ASSUME EditorState, NEW f \in fetches, NEW rows \in Seq(Row),
         Len(rows) <= f.ids, Replace(f, rows)
  PROVE  ListOK'
<1> DEFINE g == [f EXCEPT !.rows = rows]
<1>1. f \in Fetch
  BY DEF EditorState, ListOK
<1>2. g \in Fetch /\ Len(g.rows) <= g.ids
  BY <1>1 DEF Fetch
<1>3. fetches' = (fetches \ {f}) \cup {g}
  BY DEF Replace
<1> HIDE DEF g
<1> QED
  BY <1>2, <1>3 DEF Replace, EditorState, ListOK

LEMMA FetchingType ==
  ASSUME EditorState, Fetching
  PROVE  EditorState'
<1> SUFFICES ListOK'
  BY DEF Fetching, EditorState, AgreementTypeOK, agreementVars, CallsOK,
         MakingOK, GhostsOK
<1>1. PICK f \in fetches : \/ ReadFlag(f)
                           \/ ReadCount(f)
                           \/ ReadTarget(f)
                           \/ ReadReverts(f)
                           \/ ShowAgreements(f)
  BY DEF Fetching
<1>2. f \in Fetch /\ f.rows \in Seq(Row) /\ f.ids \in 0 .. MaxAgreements
      /\ Len(f.rows) <= f.ids
  BY DEF EditorState, ListOK, Fetch
<1>3. CASE ReadFlag(f)
  <2> DEFINE row == [finalised |-> IsFinalised(Len(f.rows) + 1),
                     count |-> Unread, targets |-> <<>>]
             rows == Append(f.rows, row)
  <2>1. Len(f.rows) + 1 \in AgreementIds
    BY <1>2, <1>3, IdsAre DEF ReadFlag, EditorState
  <2>2. IsFinalised(Len(f.rows) + 1) \in BOOLEAN
    BY <2>1 DEF EditorState, AgreementTypeOK, Agreement, IsFinalised
  <2>3. row \in Row
    BY <2>2 DEF Row
  <2> HIDE DEF row
  <2>4. rows \in Seq(Row) /\ Len(rows) = Len(f.rows) + 1
    BY <1>2, <2>3
  <2>5. Len(rows) <= f.ids /\ Replace(f, rows)
    BY <1>2, <1>3, <2>4 DEF ReadFlag, row
  <2> HIDE DEF rows
  <2> QED
    BY <2>4, <2>5, ReplaceType
<1>4. CASE ReadCount(f)
  <2> DEFINE n == Len(f.rows)
             row == [f.rows[n] EXCEPT !.count = TargetCount(n)]
             rows == [f.rows EXCEPT ![n] = row]
  <2>1. n \in AgreementIds /\ f.rows[n] \in Row /\ n \in 1 .. Len(f.rows)
    BY <1>2, <1>4, LastRow, IdsAre DEF ReadCount, EditorState
  <2>2. TargetCount(n) \in Nat
    BY <2>1 DEF EditorState, AgreementTypeOK, TargetCount
  <2>3. row \in Row
    BY <2>1, <2>2 DEF Row
  <2>4. rows = [f.rows EXCEPT ![n].count = TargetCount(n)]
    BY <1>2, <2>1
  <2> HIDE DEF row
  <2>5. rows \in Seq(Row) /\ Len(rows) = Len(f.rows)
    BY <1>2, <2>1, <2>3
  <2>6. Replace(f, rows)
    BY <1>4, <2>4 DEF ReadCount
  <2> HIDE DEF rows
  <2> QED
    BY <1>2, <2>5, <2>6, ReplaceType
<1>5. CASE ReadTarget(f)
  <2> DEFINE n == Len(f.rows)
             row == [f.rows[n] EXCEPT !.targets = Append(@, NextTarget(f))]
             rows == [f.rows EXCEPT ![n] = row]
  <2>1. n \in AgreementIds /\ f.rows[n] \in Row /\ n \in 1 .. Len(f.rows)
        /\ Last(f.rows) = f.rows[n]
    BY <1>2, <1>5, LastRow, IdsAre DEF ReadTarget, EditorState
  <2>2. NextTarget(f) \in Target
    <3>1. f.rows[n].targets \in Seq(Target)
      BY <2>1 DEF Row
    <3>2. agreementTargets[n] \in Seq(Target)
          /\ Len(f.rows[n].targets) < Len(agreementTargets[n])
      BY <1>5, <2>1
      DEF EditorState, AgreementTypeOK, ReadTarget, TargetIsThere, TargetCount
    <3>3. Len(f.rows[n].targets) + 1 \in 1 .. Len(agreementTargets[n])
      <4> DEFINE read == Len(f.rows[n].targets)
                 all == Len(agreementTargets[n])
      <4>1. read \in Nat /\ all \in Nat /\ read < all
        BY <3>1, <3>2
      <4> HIDE DEF read, all
      <4>2. read + 1 \in 1 .. all
        BY <4>1
      <4> QED
        BY <4>2 DEF read, all
    <3>4. agreementTargets[n][Len(f.rows[n].targets) + 1] \in Target
      BY <3>2, <3>3
    <3> QED
      BY <2>1, <3>4 DEF NextTarget, GetTarget
  <2>3. row \in Row
    <3>1. f.rows[n].targets \in Seq(Target)
      BY <2>1 DEF Row
    <3>2. Append(f.rows[n].targets, NextTarget(f)) \in Seq(Target)
      BY <2>2, <3>1
    <3> QED
      BY <2>1, <3>2 DEF Row
  <2>4. rows = [f.rows EXCEPT ![n].targets = Append(@, NextTarget(f))]
    BY <1>2, <2>1
  <2> HIDE DEF row
  <2>5. rows \in Seq(Row) /\ Len(rows) = Len(f.rows)
    BY <1>2, <2>1, <2>3
  <2>6. Replace(f, rows)
    BY <1>5, <2>4 DEF ReadTarget
  <2> HIDE DEF rows
  <2> QED
    BY <1>2, <2>5, <2>6, ReplaceType
<1>6. CASE ReadReverts(f)
  BY <1>6 DEF ReadReverts, EditorState, ListOK
<1>7. CASE ShowAgreements(f)
  <2>1. Len(f.rows) <= MaxAgreements
    BY <1>2, IdsAre DEF EditorState
  <2> QED
    BY <1>2, <1>7, <2>1 DEF ShowAgreements, EditorState, ListOK
<1> QED
  BY <1>1, <1>3, <1>4, <1>5, <1>6, <1>7

LEMMA ReloadType ==
  ASSUME EditorState, Reload
  PROVE  ListOK'
<1>1. NewFetch \in Fetch /\ Len(NewFetch.rows) <= NewFetch.ids
  BY NewFetchIs DEF EditorState
<1>2. fetched' \in 0 .. MaxFetches
  BY EditorAssumption DEF EditorState, ListOK, Reload
<1> HIDE DEF NewFetch
<1> QED
  BY <1>1, <1>2 DEF EditorState, ListOK, Reload

LEMMA ButtonType ==
  ASSUME EditorState, NEW op \in Ops, NEW id \in AgreementIds,
         NEW index \in 0 .. MaxTargets - 1, NEW t \in Thresholds,
         NEW d \in Deadlines,
         Click(op, id, index, [threshold |-> t, deadline |-> d])
  PROVE  EditorState'
<1> DEFINE target == [threshold |-> t, deadline |-> d]
           meant == IF op \in {"edit", "remove"}
                    THEN shown[id].targets[index + 1] ELSE NoTarget
           call == [n |-> clicks', op |-> op, id |-> id, index |-> index,
                    target |-> target, landed |-> FALSE, meant |-> meant]
<1>1. clicks' \in 0 .. MaxClicks /\ clicks' \in Nat
  BY EditorAssumption DEF Click, EditorState, CallsOK
<1>2. meant \in Target
  <2>1. CASE op \in {"edit", "remove"}
    <3>1. id \in 1 .. Len(shown) /\ index < Len(shown[id].targets)
          /\ shown \in Seq(Row)
      BY <2>1 DEF Click, Offered, EditorState, ListOK
    <3>2. shown[id].targets \in Seq(Target)
      <4>1. shown[id] \in Row
        BY <3>1
      <4> QED
        BY <4>1 DEF Row
    <3>3. index + 1 \in 1 .. Len(shown[id].targets)
      BY <3>1, <3>2, AgreementBoundsAssumption
    <3> QED
      BY <2>1, <3>2, <3>3
  <2>2. CASE op \notin {"edit", "remove"}
    BY <2>2 DEF NoTarget, Target
  <2> QED
    BY <2>1, <2>2
<1>3. target \in [threshold : Thresholds, deadline : Deadlines]
  OBVIOUS
<1> HIDE DEF meant, target
<1>4. call \in ButtonCall
  BY <1>1, <1>2, <1>3 DEF ButtonCall
<1>5. calls' = calls \cup {call}
  BY DEF Click, meant, target
<1> HIDE DEF call
<1>6. CallsOK'
  BY <1>1, <1>4, <1>5 DEF CallsOK, EditorState
<1>7. disturbed' \in BOOLEAN
  BY DEF Click, Busy, EditorState, GhostsOK
<1> QED
  BY <1>6, <1>7
  DEF Click, EditorState, AgreementTypeOK, agreementVars, ListOK,
      listVarsOfEditor, MakingOK, GhostsOK

\* The transaction of a button is one of a draft.
LEMMA TransactionStep ==
  ASSUME EditorState, NEW c \in calls, Transaction(c)
  PROVE  c.id \in AgreementIds /\ OnlyDraft(c.id)
<1>1. c \in ButtonCall
  BY DEF EditorState, CallsOK
<1>2. c.id \in AgreementIds /\ c.index \in 0 .. MaxTargets - 1
      /\ c.target \in Target
  BY <1>1, TermsAssumption DEF ButtonCall, Target
<1> QED
  BY <1>2, AddTargetStep, EditTargetStep, RemoveTargetStep, UpdateDatesStep,
     FinaliseStep DEF Transaction, EditorState

LEMMA CallType ==
  ASSUME EditorState, NEW c \in calls,
         CallLands(c) \/ CallSucceeds(c) \/ CallFails(c)
  PROVE  EditorState'
<1>1. c \in ButtonCall
  BY DEF EditorState, CallsOK
<1>2. CASE CallLands(c)
  <2> DEFINE d == [c EXCEPT !.landed = TRUE]
  <2>1. d \in ButtonCall
    BY <1>1 DEF ButtonCall
  <2>2. calls' = (calls \ {c}) \cup {d}
    BY <1>2 DEF CallLands
  <2> HIDE DEF d
  <2>3. CallsOK'
    BY <1>2, <2>1, <2>2 DEF CallLands, CallsOK, EditorState
  <2>4. AgreementTypeOK'
    BY <1>2, TransactionStep DEF CallLands, OnlyDraft
  <2>5. misapplied' \in BOOLEAN
    BY <1>2 DEF CallLands, EditorState, GhostsOK
  <2>6. made' \in [AgreementIds -> Seq(Target)]
    <3>1. <<>> \in Seq(Target)
      OBVIOUS
    <3> QED
      BY <1>2, <3>1 DEF CallLands, EditorState, GhostsOK
  <2> QED
    BY <1>2, <2>3, <2>4, <2>5, <2>6
    DEF CallLands, EditorState, ListOK, listVarsOfEditor, MakingOK, GhostsOK
<1>3. CASE CallSucceeds(c)
  <2>1. ListOK'
    BY <1>3, ReloadType DEF CallSucceeds
  <2> QED
    BY <1>3, <2>1
    DEF CallSucceeds, EditorState, AgreementTypeOK, agreementVars, CallsOK,
        MakingOK, GhostsOK
<1>4. CASE CallFails(c)
  <2>1. disturbed' \in BOOLEAN
    BY <1>1, <1>4 DEF CallFails, EditorState, GhostsOK, ButtonCall
  <2> QED
    BY <1>4, <2>1
    DEF CallFails, EditorState, AgreementTypeOK, agreementVars, CallsOK,
        ListOK, listVarsOfEditor, MakingOK, GhostsOK
<1> QED
  BY <1>2, <1>3, <1>4

LEMMA ClickCreateType ==
  ASSUME EditorState, NEW ts \in Entered, ClickCreate(ts)
  PROVE  EditorState'
<1>1. ts \in Seq(Target) /\ Len(ts) \in Nat /\ 1 <= Len(ts) + 1
  BY EditorAssumption
<1>2. making' = [id |-> 0, entered |-> ts, next |-> 1]
  BY DEF ClickCreate
<1>3. MakingOK'
  BY <1>1, <1>2 DEF MakingOK, Making
<1>4. clicks' \in 0 .. MaxClicks
  BY EditorAssumption DEF ClickCreate, EditorState, CallsOK
<1>5. disturbed' \in BOOLEAN
  BY DEF ClickCreate, Busy, EditorState, GhostsOK
<1> QED
  BY <1>3, <1>4, <1>5
  DEF ClickCreate, EditorState, AgreementTypeOK, agreementVars, ListOK,
      listVarsOfEditor, CallsOK, GhostsOK

\* What the modal does next, with the id its agreement has or is to get.
MakingStep ==
    \/ AgreementMade
    \/ AgreementNotMade
    \/ TargetMade
    \/ TargetNotMade
    \/ MakingDone

LEMMA MakingLedger ==
  ASSUME EditorState, MakingStep
  PROVE  LedgerStep(making.id)
<1>1. making \in Making
  BY DEF EditorState, MakingOK, MakingStep, AgreementMade, AgreementNotMade,
         TargetMade, TargetNotMade, MakingDone
<1>2. CASE AgreementMade \/ AgreementNotMade
  BY <1>2, CreateStep
  DEF AgreementMade, AgreementNotMade, EditorState, LedgerStep
<1>3. CASE TargetMade \/ TargetNotMade
  <2>1. making.id \in AgreementIds /\ making.entered[making.next] \in Target
    <3>1. making.entered \in Seq(Target) /\ making.next \in Nat \ {0}
      BY <1>1 DEF Making
    <3>2. making.next \in 1 .. Len(making.entered)
      BY <1>3, <3>1 DEF TargetMade, TargetNotMade
    <3>3. making.id \in AgreementIds
      BY <1>1, <1>3 DEF TargetMade, TargetNotMade, Making
    <3> QED
      BY <3>1, <3>2, <3>3
  <2> QED
    BY <1>3, <2>1, AddTargetStep
    DEF TargetMade, TargetNotMade, EditorState, LedgerStep
<1>4. CASE MakingDone
  BY <1>4 DEF MakingDone, LedgerStep
<1> QED
  BY <1>2, <1>3, <1>4 DEF MakingStep

LEMMA MakingType ==
  ASSUME EditorState, MakingStep
  PROVE  EditorState'
<1>1. making # NoMaking /\ making \in Making
      /\ making.next <= Len(making.entered) + 1
      /\ (making.id = 0 => making.next = 1)
  BY DEF EditorState, MakingOK, MakingStep, AgreementMade, AgreementNotMade,
         TargetMade, TargetNotMade, MakingDone
<1>2. /\ making.id \in AgreementIds \cup {0}
      /\ making.entered \in Seq(Target)
      /\ making.next \in Nat \ {0}
      /\ Len(making.entered) \in Nat
  BY <1>1 DEF Making
<1>3. AgreementTypeOK'
  BY MakingLedger, LedgerStepKeeps DEF FinalKept, EditorState
<1>4. ListOK'
  BY ReloadType
  DEF MakingStep, AgreementMade, AgreementNotMade, TargetMade, TargetNotMade,
      MakingDone, EditorState, ListOK, listVarsOfEditor
<1>5. CallsOK'
  BY DEF MakingStep, AgreementMade, AgreementNotMade, TargetMade,
         TargetNotMade, MakingDone, EditorState, CallsOK
<1>6. MakingOK'
  <2>1. CASE making' = NoMaking
    BY <2>1 DEF MakingOK
  <2>2. CASE AgreementMade
    <3>1. nextAgreementId \in AgreementIds /\ nextAgreementId # 0
      BY <2>2, IdsAre DEF AgreementMade, CreateAgreement, AgreementIds
    <3>2. making' = [making EXCEPT !.id = nextAgreementId]
      BY <2>2 DEF AgreementMade
    <3>3. /\ making' \in Making
          /\ making'.entered = making.entered /\ making'.next = making.next
          /\ making'.id = nextAgreementId
      BY <1>1, <3>1, <3>2 DEF Making
    <3> QED
      BY <1>1, <3>1, <3>3 DEF MakingOK
  <2>3. CASE TargetMade \/ TargetNotMade
    <3>1. PICK n \in Nat \ {0} : /\ making' = [making EXCEPT !.next = n]
                                 /\ n <= Len(making.entered) + 1
      <4>1. CASE TargetMade
        <5>1. making.next + 1 \in Nat \ {0}
              /\ making.next + 1 <= Len(making.entered) + 1
          BY <1>2, <4>1 DEF TargetMade
        <5> QED
          BY <4>1, <5>1 DEF TargetMade
      <4>2. CASE TargetNotMade
        <5>1. Len(making.entered) + 1 \in Nat \ {0}
              /\ Len(making.entered) + 1 <= Len(making.entered) + 1
          BY <1>2
        <5> QED
          BY <4>2, <5>1 DEF TargetNotMade
      <4> QED
        BY <2>3, <4>1, <4>2
    <3>2. /\ making' \in Making
          /\ making'.entered = making.entered /\ making'.next = n
          /\ making'.id = making.id
      BY <1>1, <3>1 DEF Making
    <3>3. making.id # 0
      BY <2>3 DEF TargetMade, TargetNotMade
    <3> QED
      BY <3>1, <3>2, <3>3 DEF MakingOK
  <2> QED
    BY <2>1, <2>2, <2>3 DEF MakingStep, AgreementNotMade, MakingDone
<1>7. GhostsOK'
  <2>1. made' \in [AgreementIds -> Seq(Target)]
    BY <1>2
    DEF MakingStep, AgreementMade, AgreementNotMade, TargetMade, TargetNotMade,
        MakingDone, EditorState, GhostsOK
  <2>2. disturbed' \in BOOLEAN /\ misapplied' \in BOOLEAN
    BY DEF MakingStep, AgreementMade, AgreementNotMade, TargetMade,
           TargetNotMade, MakingDone, EditorState, GhostsOK
  <2> QED
    BY <2>1, <2>2 DEF GhostsOK
<1> QED
  BY <1>3, <1>4, <1>5, <1>6, <1>7 DEF EditorState

LEMMA OtherTabType ==
  ASSUME EditorState, NEW id \in AgreementIds, OtherTab(id)
  PROVE  EditorState' /\ OnlyDraft(id)
<1>1. OnlyDraft(id)
  BY DraftTxStep DEF OtherTab, EditorState
<1>2. made' \in [AgreementIds -> Seq(Target)]
  <2>1. <<>> \in Seq(Target)
    OBVIOUS
  <2> QED
    BY <2>1 DEF OtherTab, EditorState, GhostsOK
<1>3. AgreementTypeOK'
  BY <1>1 DEF OnlyDraft
<1> QED
  BY <1>1, <1>2, <1>3
  DEF OtherTab, EditorState, ListOK, listVarsOfEditor, CallsOK, MakingOK,
      GhostsOK

\* The steps of the page, named for the proofs that follow.
EditorStep ==
    \/ Fetching
    \/ \E op \in Ops, id \in AgreementIds, index \in 0 .. MaxTargets - 1,
          t \in Thresholds, d \in Deadlines :
            Click(op, id, index, [threshold |-> t, deadline |-> d])
    \/ \E c \in calls : CallLands(c) \/ CallSucceeds(c) \/ CallFails(c)
    \/ \E ts \in Entered : ClickCreate(ts)
    \/ MakingStep
    \/ \E id \in AgreementIds : OtherTab(id)
    \/ UNCHANGED <<agreementVars, editorVars>>

LEMMA EditorSteps ==
  ASSUME [EditorNext]_<<agreementVars, editorVars>>
  PROVE  EditorStep
BY DEF EditorNext, EditorStep, MakingStep, Ops

LEMMA EditorStateNext ==
  ASSUME EditorState, EditorStep
  PROVE  EditorState'
<1>1. CASE UNCHANGED <<agreementVars, editorVars>>
  BY <1>1 DEF agreementVars, editorVars, listVarsOfEditor, EditorState,
     AgreementTypeOK, ListOK, CallsOK, MakingOK, GhostsOK
<1> QED
  BY <1>1, FetchingType, ButtonType, CallType, ClickCreateType, MakingType,
     OtherTabType DEF EditorStep

\* Whatever the page does is, for the ledger, at most one transaction.
LEMMA EditorLedger ==
  ASSUME EditorState, EditorStep
  PROVE  FinalKept
<1>1. CASE \E c \in calls : CallLands(c)
  <2>1. PICK c \in calls : CallLands(c)
    BY <1>1
  <2>2. LedgerStep(c.id)
    BY <2>1, TransactionStep DEF CallLands, LedgerStep
  <2> QED
    BY <2>2, LedgerStepKeeps DEF EditorState
<1>2. CASE MakingStep
  BY <1>2, MakingLedger, LedgerStepKeeps DEF EditorState
<1>3. CASE \E id \in AgreementIds : OtherTab(id)
  <2>1. PICK id \in AgreementIds : OtherTab(id)
    BY <1>3
  <2>2. LedgerStep(id)
    BY <2>1, OtherTabType DEF LedgerStep
  <2> QED
    BY <2>2, LedgerStepKeeps DEF EditorState
<1>4. CASE UNCHANGED agreementVars
  <2>1. LedgerStep(0)
    BY <1>4 DEF LedgerStep
  <2> QED
    BY <2>1, LedgerStepKeeps DEF EditorState
<1> QED
  BY <1>1, <1>2, <1>3, <1>4
  DEF EditorStep, Fetching, Click, CallSucceeds, CallFails, ClickCreate

\* Every variable of the agreements page keeps its type.
THEOREM EditorTypeCorrect == EditorSpec => []EditorTypeOK
<1>1. EditorState /\ [EditorNext]_<<agreementVars, editorVars>> => EditorState'
  BY EditorSteps, EditorStateNext
<1> QED
  BY <1>1, EditorInitState, EditorStateType, PTL DEF EditorSpec

-----------------------------------------------------------------------------
(* The agreements page: lists. *)

\* A row agrees with the ledger as far as it has been read.
CurrentRow(row, i) ==
    /\ row.count # Unread => row.count = TargetCount(i)
    /\ Len(row.targets) <= TargetCount(i)
    /\ \A k \in 1 .. Len(row.targets) : row.targets[k] = agreementTargets[i][k]

\* The flag is read first, so a row that carries it was read from targets
\* that could no longer change.
FinalRow(row, i) == row.finalised => IsFinalised(i) /\ CurrentRow(row, i)

RowDone(row) == row.count = Len(row.targets)

ListsExact ==
    /\ FinalListExact
    /\ \A f \in fetches : \A i \in 1 .. Len(f.rows) :
            /\ FinalRow(f.rows[i], i)
            /\ i < Len(f.rows) => RowDone(f.rows[i])

LEMMA RowIds ==
  ASSUME EditorState
  PROVE  /\ \A id \in DOMAIN shown : id \in AgreementIds
         /\ \A f \in fetches : \A i \in 1 .. Len(f.rows) :
                i \in AgreementIds /\ f.rows[i] \in Row
<1>1. \A id \in DOMAIN shown : id \in AgreementIds
  <2>1. shown \in Seq(Row) /\ Len(shown) <= MaxAgreements
    BY DEF EditorState, ListOK
  <2> QED
    BY <2>1, IdsAre DEF EditorState
<1>2. ASSUME NEW f \in fetches, NEW i \in 1 .. Len(f.rows)
      PROVE  i \in AgreementIds /\ f.rows[i] \in Row
  <2>1. f.rows \in Seq(Row) /\ f.ids \in 0 .. MaxAgreements
        /\ Len(f.rows) <= f.ids
    BY DEF EditorState, ListOK, Fetch
  <2> QED
    BY <2>1, IdsAre DEF EditorState
<1> QED
  BY <1>1, <1>2

LEMMA FinalRowKept ==
  ASSUME FinalKept, NEW row, NEW i \in AgreementIds, FinalRow(row, i)
  PROVE  row.finalised => /\ IsFinalised(i)'
                          /\ CurrentRow(row, i)'
BY DEF FinalKept, FinalRow, CurrentRow, IsFinalised, TargetCount

\* A row read to its end.
LEMMA RowDoneExact ==
  ASSUME AgreementTypeOK, NEW i \in AgreementIds, NEW row \in Row,
         CurrentRow(row, i), RowDone(row)
  PROVE  row.targets = agreementTargets[i]
<1>1. row.targets \in Seq(Target) /\ agreementTargets[i] \in Seq(Target)
  BY DEF Row, AgreementTypeOK
<1>2. Len(row.targets) \in Nat /\ row.count # Unread
  BY <1>1 DEF RowDone, Unread
<1>3. Len(row.targets) = Len(agreementTargets[i])
  BY <1>2 DEF CurrentRow, RowDone, TargetCount
<1> QED
  BY <1>1, <1>3 DEF CurrentRow

LEMMA CompleteRows ==
  ASSUME EditorState, NEW f \in fetches, Complete(f.rows),
         \A i \in 1 .. Len(f.rows) : i < Len(f.rows) => RowDone(f.rows[i])
  PROVE  \A i \in 1 .. Len(f.rows) : RowDone(f.rows[i])
<1>1. f.rows \in Seq(Row)
  BY DEF EditorState, ListOK, Fetch
<1> SUFFICES ASSUME NEW i \in 1 .. Len(f.rows), i = Len(f.rows)
             PROVE  RowDone(f.rows[i])
  BY <1>1
<1>2. f.rows # <<>>
  BY <1>1
<1> QED
  BY <1>2 DEF Complete, Last, RowDone

\* What one answer more does to the list being read.
Extends(f, rows) ==
    /\ Replace(f, rows)
    /\ rows \in Seq(Row)
    /\ Len(f.rows) <= Len(rows)
    /\ \A i \in 1 .. Len(rows) : i < Len(rows) =>
            i <= Len(f.rows) /\ rows[i] = f.rows[i] /\ RowDone(f.rows[i])

LEMMA ReadFlagExtends ==
  ASSUME EditorState, ListsExact, NEW f \in fetches, ReadFlag(f)
  PROVE  \E rows : /\ Extends(f, rows)
                   /\ Len(rows) \in AgreementIds
                   /\ CurrentRow(rows[Len(rows)], Len(rows))
                   /\ FinalRow(rows[Len(rows)], Len(rows))
<1> DEFINE n == Len(f.rows) + 1
           row == [finalised |-> IsFinalised(n), count |-> Unread,
                   targets |-> <<>>]
           rows == Append(f.rows, row)
<1>1. f.rows \in Seq(Row) /\ f.ids \in 0 .. MaxAgreements
      /\ Len(f.rows) < f.ids
  BY DEF EditorState, ListOK, Fetch, ReadFlag
<1>2. n \in AgreementIds
  BY <1>1, IdsAre DEF EditorState
<1>3. IsFinalised(n) \in BOOLEAN /\ agreementTargets[n] \in Seq(Target)
  BY <1>2 DEF EditorState, AgreementTypeOK, Agreement, IsFinalised
<1>4. row \in Row
  BY <1>3 DEF Row
<1>5. CurrentRow(row, n)
  BY <1>3 DEF CurrentRow, TargetCount
<1>6. FinalRow(row, n)
  BY <1>5 DEF FinalRow
<1>7. Replace(f, rows)
  BY DEF ReadFlag
<1> HIDE DEF row
<1>8. rows \in Seq(Row) /\ Len(rows) = n /\ rows[n] = row
      /\ \A i \in 1 .. Len(f.rows) : rows[i] = f.rows[i]
  BY <1>1, <1>4
<1>9. \A i \in 1 .. Len(f.rows) : RowDone(f.rows[i])
  BY CompleteRows DEF ListsExact, ReadFlag
<1> HIDE DEF rows
<1>10. Extends(f, rows)
  BY <1>1, <1>7, <1>8, <1>9 DEF Extends
<1> QED
  BY <1>2, <1>5, <1>6, <1>8, <1>10

\* An answer that changes the last row only.
LEMMA LastExtends ==
  ASSUME EditorState, ListsExact, NEW f \in fetches, f.rows # <<>>,
         NEW row \in Row, Replace(f, [f.rows EXCEPT ![Len(f.rows)] = row]),
         CurrentRow(f.rows[Len(f.rows)], Len(f.rows))
            => CurrentRow(row, Len(f.rows)),
         row.finalised = f.rows[Len(f.rows)].finalised
  PROVE  \E rows : /\ Extends(f, rows)
                   /\ Len(rows) = Len(f.rows)
                   /\ CurrentRow(f.rows[Len(rows)], Len(rows))
                        => CurrentRow(rows[Len(rows)], Len(rows))
                   /\ FinalRow(rows[Len(rows)], Len(rows))
<1> DEFINE n == Len(f.rows)
           rows == [f.rows EXCEPT ![n] = row]
<1>1. f.rows \in Seq(Row) /\ n \in AgreementIds /\ n \in 1 .. Len(f.rows)
  BY LastRow, IdsAre DEF EditorState, Fetch
<1>2. rows \in Seq(Row) /\ Len(rows) = n /\ rows[n] = row
      /\ \A i \in 1 .. n : i # n => rows[i] = f.rows[i]
  BY <1>1
<1>3. FinalRow(f.rows[n], n)
  BY <1>1 DEF ListsExact
<1>4. FinalRow(row, n)
  BY <1>3 DEF FinalRow
<1>5. \A i \in 1 .. n : i < n => RowDone(f.rows[i])
  BY DEF ListsExact
<1> HIDE DEF rows
<1>6. Extends(f, rows)
  BY <1>1, <1>2, <1>5 DEF Extends, rows
<1> QED
  BY <1>1, <1>2, <1>4, <1>6

LEMMA ReadCountExtends ==
  ASSUME EditorState, ListsExact, NEW f \in fetches, ReadCount(f)
  PROVE  \E rows : /\ Extends(f, rows)
                   /\ Len(rows) = Len(f.rows)
                   /\ CurrentRow(f.rows[Len(rows)], Len(rows))
                        => CurrentRow(rows[Len(rows)], Len(rows))
                   /\ FinalRow(rows[Len(rows)], Len(rows))
<1> DEFINE n == Len(f.rows)
           row == [f.rows[n] EXCEPT !.count = TargetCount(n)]
<1>1. f.rows \in Seq(Row) /\ n \in AgreementIds /\ n \in 1 .. Len(f.rows)
      /\ f.rows # <<>> /\ f.rows[n] \in Row
  BY LastRow, IdsAre DEF EditorState, Fetch, ReadCount
<1>2. TargetCount(n) \in Nat
  BY <1>1 DEF EditorState, AgreementTypeOK, TargetCount
<1>3. row \in Row /\ row.finalised = f.rows[n].finalised
      /\ row.count = TargetCount(n) /\ row.targets = f.rows[n].targets
  BY <1>1, <1>2 DEF Row
<1>4. Replace(f, [f.rows EXCEPT ![n] = row])
  BY <1>1 DEF ReadCount
<1> HIDE DEF row
<1>5. CurrentRow(f.rows[n], n) => CurrentRow(row, n)
  BY <1>3 DEF CurrentRow
<1> QED
  BY <1>1, <1>3, <1>4, <1>5, LastExtends

LEMMA ReadTargetExtends ==
  ASSUME EditorState, ListsExact, NEW f \in fetches, ReadTarget(f)
  PROVE  \E rows : /\ Extends(f, rows)
                   /\ Len(rows) = Len(f.rows)
                   /\ CurrentRow(f.rows[Len(rows)], Len(rows))
                        => CurrentRow(rows[Len(rows)], Len(rows))
                   /\ FinalRow(rows[Len(rows)], Len(rows))
<1> DEFINE n == Len(f.rows)
           ts == f.rows[n].targets
           row == [f.rows[n] EXCEPT !.targets = Append(@, NextTarget(f))]
<1>1. f.rows \in Seq(Row) /\ n \in AgreementIds /\ n \in 1 .. Len(f.rows)
      /\ f.rows # <<>> /\ f.rows[n] \in Row /\ Last(f.rows) = f.rows[n]
  BY LastRow, IdsAre DEF EditorState, Fetch, ReadTarget
<1>2. ts \in Seq(Target) /\ agreementTargets[n] \in Seq(Target)
      /\ Len(ts) < Len(agreementTargets[n])
  BY <1>1
  DEF EditorState, AgreementTypeOK, ReadTarget, TargetIsThere, TargetCount, Row
<1>3. NextTarget(f) = agreementTargets[n][Len(ts) + 1]
  BY <1>1 DEF NextTarget, GetTarget
<1>4. NextTarget(f) \in Target
  BY <1>2, <1>3
<1>5. Append(ts, NextTarget(f)) \in Seq(Target)
  BY <1>2, <1>4
<1>6. row \in Row /\ row.finalised = f.rows[n].finalised
      /\ row.count = f.rows[n].count
      /\ row.targets = Append(ts, NextTarget(f))
  BY <1>1, <1>5 DEF Row
<1>7. Replace(f, [f.rows EXCEPT ![n] = row])
  BY <1>1 DEF ReadTarget
<1> HIDE DEF row
<1>8. CurrentRow(f.rows[n], n) => CurrentRow(row, n)
  <2> SUFFICES ASSUME CurrentRow(f.rows[n], n) PROVE CurrentRow(row, n)
    OBVIOUS
  <2>1. row.count # Unread => row.count = TargetCount(n)
    BY <1>6 DEF CurrentRow
  <2>2. Len(row.targets) = Len(ts) + 1 /\ Len(ts) + 1 <= TargetCount(n)
    BY <1>2, <1>4, <1>6 DEF TargetCount
  <2>3. \A k \in 1 .. Len(ts) + 1 : row.targets[k] = agreementTargets[n][k]
    <3> SUFFICES ASSUME NEW k \in 1 .. Len(ts) + 1
                 PROVE  row.targets[k] = agreementTargets[n][k]
      OBVIOUS
    <3>1. CASE k = Len(ts) + 1
      <4>1. Append(ts, NextTarget(f))[Len(ts) + 1] = NextTarget(f)
        BY <1>2
      <4> QED
        BY <1>3, <1>6, <3>1, <4>1
    <3>2. CASE k \in 1 .. Len(ts)
      <4>1. row.targets[k] = ts[k]
        BY <1>2, <1>6, <3>2
      <4> QED
        BY <3>2, <4>1 DEF CurrentRow
    <3>3. Len(ts) \in Nat
      BY <1>2
    <3>4. k = Len(ts) + 1 \/ k \in 1 .. Len(ts)
      BY <3>3
    <3> QED
      BY <3>1, <3>2, <3>4
  <2> QED
    BY <2>1, <2>2, <2>3 DEF CurrentRow
<1> QED
  BY <1>1, <1>6, <1>7, <1>8, LastExtends

LEMMA ExtendsExact ==
  ASSUME EditorState, ListsExact, NEW f \in fetches, NEW rows,
         Extends(f, rows), FinalRow(rows[Len(rows)], Len(rows)),
         UNCHANGED agreementVars
  PROVE  ListsExact'
<1> DEFINE g == [f EXCEPT !.rows = rows]
<1>1. f \in Fetch /\ rows \in Seq(Row)
  BY DEF EditorState, ListOK, Extends
<1>2. g.rows = rows
  BY <1>1 DEF Fetch
<1>3. fetches' = (fetches \ {f}) \cup {g} /\ shown' = shown
  BY DEF Extends, Replace
<1> HIDE DEF g
<1>4. \A i \in 1 .. Len(rows) : i < Len(rows) =>
            FinalRow(rows[i], i) /\ RowDone(rows[i])
  <2> SUFFICES ASSUME NEW i \in 1 .. Len(rows), i < Len(rows)
               PROVE  FinalRow(rows[i], i) /\ RowDone(rows[i])
    OBVIOUS
  <2>1. rows[i] = f.rows[i] /\ RowDone(f.rows[i]) /\ i <= Len(f.rows)
    BY DEF Extends
  <2>2. i \in 1 .. Len(f.rows)
    BY <1>1, <2>1 DEF Fetch
  <2> QED
    BY <2>1, <2>2 DEF ListsExact
<1>5. \A i \in 1 .. Len(rows) : FinalRow(rows[i], i)
  <2> SUFFICES ASSUME NEW i \in 1 .. Len(rows) PROVE FinalRow(rows[i], i)
    OBVIOUS
  <2>1. i < Len(rows) \/ i = Len(rows)
    BY <1>1
  <2> QED
    BY <1>4, <2>1
<1>6. /\ \A row, i : FinalRow(row, i) => FinalRow(row, i)'
      /\ FinalListExact'
  BY <1>3
  DEF agreementVars, FinalRow, CurrentRow, IsFinalised, TargetCount,
      ListsExact, FinalListExact
<1>7. \A h \in fetches' : \A i \in 1 .. Len(h.rows) :
            FinalRow(h.rows[i], i) /\ (i < Len(h.rows) => RowDone(h.rows[i]))
  BY <1>2, <1>3, <1>4, <1>5 DEF ListsExact
<1> QED
  BY <1>6, <1>7 DEF ListsExact, RowDone

LEMMA FetchingExact ==
  ASSUME EditorState, ListsExact, Fetching
  PROVE  ListsExact'
<1>1. PICK f \in fetches : \/ ReadFlag(f)
                           \/ ReadCount(f)
                           \/ ReadTarget(f)
                           \/ ReadReverts(f)
                           \/ ShowAgreements(f)
  BY DEF Fetching
<1>2. UNCHANGED agreementVars
  BY DEF Fetching
<1>3. /\ \A row, i : FinalRow(row, i) => FinalRow(row, i)'
      /\ shown' = shown => FinalListExact'
  BY <1>2
  DEF agreementVars, FinalRow, CurrentRow, IsFinalised, TargetCount,
      ListsExact, FinalListExact
<1>4. CASE ReadFlag(f)
  BY <1>2, <1>4, ReadFlagExtends, ExtendsExact
<1>5. CASE ReadCount(f)
  BY <1>2, <1>5, ReadCountExtends, ExtendsExact
<1>6. CASE ReadTarget(f)
  BY <1>2, <1>6, ReadTargetExtends, ExtendsExact
<1>7. CASE ReadReverts(f)
  BY <1>3, <1>7 DEF ReadReverts, ListsExact, RowDone
<1>8. CASE ShowAgreements(f)
  <2>1. \A i \in 1 .. Len(f.rows) : RowDone(f.rows[i])
    BY <1>8, CompleteRows DEF ShowAgreements, ListsExact
  <2>2. f.rows \in Seq(Row)
    BY DEF EditorState, ListOK, Fetch
  <2>3. ASSUME NEW i \in 1 .. Len(f.rows), f.rows[i].finalised
        PROVE  IsFinalised(i)' /\ f.rows[i].targets = agreementTargets'[i]
    <3>1. i \in AgreementIds /\ f.rows[i] \in Row
      BY RowIds
    <3>2. IsFinalised(i) /\ CurrentRow(f.rows[i], i)
      BY <2>3 DEF ListsExact, FinalRow
    <3>3. f.rows[i].targets = agreementTargets[i]
      BY <2>1, <3>1, <3>2, RowDoneExact DEF EditorState
    <3> QED
      BY <1>2, <3>2, <3>3 DEF agreementVars, IsFinalised
  <2>4. FinalListExact'
    BY <1>8, <2>2, <2>3 DEF ShowAgreements, FinalListExact
  <2> QED
    BY <1>3, <1>8, <2>4 DEF ShowAgreements, ListsExact, RowDone
<1> QED
  BY <1>1, <1>4, <1>5, <1>6, <1>7, <1>8

\* The ledger may move on under the lists, which are at most begun anew.
LEMMA ListsKept ==
  ASSUME EditorState, ListsExact, FinalKept,
         UNCHANGED listVarsOfEditor \/ Reload
  PROVE  ListsExact'
<1>1. shown' = shown
      /\ \A f \in fetches' : f \in fetches \/ f.rows = <<>>
  BY DEF listVarsOfEditor, Reload, NewFetch
<1>2. FinalListExact'
  <2> SUFFICES ASSUME NEW id \in DOMAIN shown, shown[id].finalised
               PROVE  /\ IsFinalised(id)'
                      /\ shown[id].targets = agreementTargets'[id]
    BY <1>1 DEF FinalListExact
  <2>1. id \in AgreementIds
    BY RowIds
  <2>2. IsFinalised(id) /\ shown[id].targets = agreementTargets[id]
    BY DEF ListsExact, FinalListExact
  <2> QED
    BY <2>1, <2>2 DEF FinalKept, IsFinalised
<1>3. ASSUME NEW f \in fetches', NEW i \in 1 .. Len(f.rows)
      PROVE  /\ FinalRow(f.rows[i], i)'
             /\ i < Len(f.rows) => RowDone(f.rows[i])
  <2>1. f.rows # <<>>
    OBVIOUS
  <2>2. f \in fetches
    BY <1>1, <2>1
  <2>3. i \in AgreementIds /\ FinalRow(f.rows[i], i)
    BY <2>2, RowIds DEF ListsExact
  <2>4. FinalRow(f.rows[i], i)'
    BY <2>3, FinalRowKept DEF FinalRow
  <2> QED
    BY <2>2, <2>4 DEF ListsExact
<1> QED
  BY <1>2, <1>3 DEF ListsExact, RowDone

LEMMA StepLists ==
  ASSUME EditorStep
  PROVE  Fetching \/ UNCHANGED listVarsOfEditor \/ Reload
BY DEF EditorStep, Click, CallLands, CallSucceeds, CallFails, ClickCreate,
       MakingStep, AgreementMade, AgreementNotMade, TargetMade, TargetNotMade,
       MakingDone, OtherTab, editorVars

LEMMA ListsExactNext ==
  ASSUME EditorState, ListsExact, EditorStep
  PROVE  ListsExact'
BY FetchingExact, ListsKept, StepLists, EditorLedger

LEMMA ListsExactInit == EditorInit => ListsExact
<1> SUFFICES ASSUME EditorInit PROVE ListsExact
  OBVIOUS
<1>1. shown = <<>> /\ \A f \in fetches : f.rows = <<>>
  BY EditorInitPage DEF NewFetch
<1> QED
  BY <1>1 DEF ListsExact, FinalListExact

\* A row marked final shows the locked targets, for any number of agreements,
\* targets, reads and tabs (getAgreements of chain.js, agreements.js).
THEOREM FinalListsExact == EditorSpec => []FinalListExact
<1>1. EditorState /\ ListsExact /\ [EditorNext]_<<agreementVars, editorVars>>
        => EditorState' /\ ListsExact'
  BY EditorSteps, EditorStateNext, ListsExactNext
<1>2. ListsExact => FinalListExact
  BY DEF ListsExact
<1> QED
  BY <1>1, <1>2, EditorInitState, ListsExactInit, PTL DEF EditorSpec

-----------------------------------------------------------------------------
(* The agreements page: agreements made by the modal. *)

Prefixed(s, t) ==
    /\ Len(s) <= Len(t)
    /\ \A k \in 1 .. Len(s) : s[k] = t[k]

\* An agreement still at what was entered for it, up to the target whose turn
\* it is if the modal is still at work on it.
MadeInOrder ==
    /\ \A j \in AgreementIds : j >= nextAgreementId =>
            agreements[j].id = 0 /\ agreementTargets[j] = <<>>
    /\ \A j \in AgreementIds : made[j] # <<>> =>
            /\ j < nextAgreementId
            /\ Prefixed(agreementTargets[j], made[j])
    /\ making # NoMaking /\ making.id # 0 /\ made[making.id] # <<>> =>
            /\ made[making.id] = making.entered
            /\ making.next <= Len(making.entered) =>
                    Len(agreementTargets[making.id]) = making.next - 1

LEMMA PrefixedIs ==
  ASSUME NEW T, NEW s \in Seq(T), NEW t \in Seq(T), Prefixed(s, t)
  PROVE  IsPrefix(s, t)
<1>1. Len(s) \in Nat /\ Len(t) \in Nat /\ Len(s) <= Len(t)
  BY DEF Prefixed
<1>2. \A k \in 1 .. Len(s) : s[k] = t[k]
  BY DEF Prefixed
<1>3. SubSeq(s, 1, Len(s)) = SubSeq(t, 1, Len(s))
  BY <1>1, <1>2
<1> QED
  BY <1>1, <1>3 DEF IsPrefix

LEMMA MadeInOrderIs ==
  ASSUME EditorState, MadeInOrder
  PROVE  MadeIsPrefix
BY PrefixedIs
DEF MadeInOrder, MadeIsPrefix, EditorState, AgreementTypeOK, GhostsOK

LEMMA MadeInOrderInit == EditorInit => MadeInOrder
<1> SUFFICES ASSUME EditorInit PROVE MadeInOrder
  OBVIOUS
<1> QED
  BY EditorInitLedger, EditorInitPage DEF MadeInOrder

\* Whoever edits a draft ends what is claimed of it.
LEMMA EditedKeeps ==
  ASSUME EditorState, MadeInOrder, NEW id \in AgreementIds, OnlyDraft(id),
         made' = [made EXCEPT ![id] = <<>>], UNCHANGED making
  PROVE  MadeInOrder'
<1>1. made'[id] = <<>> /\ \A j \in AgreementIds : j # id => made'[j] = made[j]
  BY DEF EditorState, GhostsOK
<1>2. id < nextAgreementId /\ nextAgreementId' = nextAgreementId
  <2>1. ~(id >= nextAgreementId)
    BY DEF OnlyDraft, MadeInOrder
  <2> QED
    BY <2>1, IdsAre DEF OnlyDraft, EditorState
<1>3. \A j \in AgreementIds :
            j # id => agreementTargets'[j] = agreementTargets[j]
  BY DEF OnlyDraft
<1>4. \A j \in AgreementIds : agreements'[j].id = agreements[j].id
  BY DEF OnlyDraft
<1>5. \A j \in AgreementIds : j >= nextAgreementId' =>
            agreements'[j].id = 0 /\ agreementTargets'[j] = <<>>
  BY <1>2, <1>3, <1>4, IdsAre DEF MadeInOrder, EditorState
<1>6. \A j \in AgreementIds : made'[j] # <<>> =>
            /\ j < nextAgreementId'
            /\ Prefixed(agreementTargets'[j], made'[j])
  BY <1>1, <1>2, <1>3 DEF MadeInOrder
<1>7. making # NoMaking /\ making.id # 0 => making.id \in AgreementIds
  BY DEF EditorState, MakingOK, Making
<1>8. making # NoMaking /\ making.id # 0 /\ made'[making.id] # <<>> =>
            /\ made'[making.id] = making.entered
            /\ making.next <= Len(making.entered) =>
                    Len(agreementTargets'[making.id]) = making.next - 1
  BY <1>1, <1>3, <1>7 DEF MadeInOrder
<1> QED
  BY <1>5, <1>6, <1>8 DEF MadeInOrder, Prefixed

LEMMA MadeKept ==
  ASSUME MadeInOrder, UNCHANGED <<agreementVars, making, made>>
  PROVE  MadeInOrder'
BY DEF agreementVars, MadeInOrder, Prefixed

LEMMA MakingIs ==
  ASSUME EditorState, making # NoMaking
  PROVE  /\ making.entered \in Seq(Target)
         /\ making.id \in AgreementIds \cup {0}
         /\ making.next \in Nat \ {0}
         /\ making.id = 0 => making.next = 1
         /\ \A n : [making EXCEPT !.next = n].next = n
         /\ \A n : [making EXCEPT !.next = n].id = making.id
         /\ \A n : [making EXCEPT !.next = n].entered = making.entered
         /\ \A i : [making EXCEPT !.id = i].next = making.next
         /\ \A i : [making EXCEPT !.id = i].id = i
         /\ \A i : [making EXCEPT !.id = i].entered = making.entered
BY DEF EditorState, MakingOK, Making

LEMMA CreatedKeeps ==
  ASSUME EditorState, MadeInOrder, Created, making' = NoMaking, made' = made
  PROVE  MadeInOrder'
<1>1. nextAgreementId \in Nat /\ AgreementIds \subseteq Nat
  BY IdsAre DEF EditorState
<1>2. \A j \in AgreementIds : j >= nextAgreementId' =>
            agreements'[j].id = 0 /\ agreementTargets'[j] = <<>>
  BY <1>1 DEF Created, MadeInOrder
<1>3. \A j \in AgreementIds : made'[j] # <<>> =>
            /\ j < nextAgreementId'
            /\ Prefixed(agreementTargets'[j], made'[j])
  BY <1>1 DEF Created, MadeInOrder
<1> QED
  BY <1>2, <1>3 DEF MadeInOrder, Prefixed

LEMMA AgreementMadeKeeps ==
  ASSUME EditorState, MadeInOrder, AgreementMade
  PROVE  MadeInOrder'
<1> DEFINE n == nextAgreementId
<1>1. Created
  BY CreateStep DEF AgreementMade, EditorState
<1>2. n \in Nat /\ AgreementIds \subseteq Nat /\ n \in AgreementIds /\ n # 0
  BY <1>1, IdsAre DEF EditorState, Created, AgreementIds
<1>3. /\ made'[n] = making.entered
      /\ \A j \in AgreementIds : j # n => made'[j] = made[j]
  BY <1>2 DEF AgreementMade, EditorState, GhostsOK
<1>4. /\ making'.id = n /\ making'.next = 1
      /\ making'.entered = making.entered
      /\ making.entered \in Seq(Target)
  BY MakingIs DEF AgreementMade
<1>5. agreementTargets' = agreementTargets /\ agreementTargets[n] = <<>>
      /\ n' = n + 1
  BY <1>1, <1>2 DEF Created, MadeInOrder
<1>6. \A j \in AgreementIds : j >= nextAgreementId' =>
            agreements'[j].id = 0 /\ agreementTargets'[j] = <<>>
  BY <1>1, <1>2 DEF Created, MadeInOrder
<1>7. Prefixed(<<>>, making.entered)
  BY <1>4 DEF Prefixed
<1>8. \A j \in AgreementIds : made'[j] # <<>> =>
            /\ j < nextAgreementId'
            /\ Prefixed(agreementTargets'[j], made'[j])
  BY <1>2, <1>3, <1>5, <1>7 DEF MadeInOrder
<1>9. /\ made'[making'.id] = making'.entered
      /\ Len(agreementTargets'[making'.id]) = making'.next - 1
  BY <1>3, <1>4, <1>5
<1> HIDE DEF n
<1> QED
  BY <1>6, <1>8, <1>9 DEF MadeInOrder, Prefixed

\* One more of the targets entered, in its turn.
LEMMA TargetAdded ==
  ASSUME EditorState, MadeInOrder, making # NoMaking, making.id # 0,
         making.next <= Len(making.entered),
         AddTarget(Donor, making.id, making.entered[making.next]),
         made' = made,
         NEW n \in Nat, making' = [making EXCEPT !.next = n],
         n = making.next + 1 \/ n = Len(making.entered) + 1
  PROVE  MadeInOrder'
<1> DEFINE id == making.id
           ts == agreementTargets[id]
           new == making.entered[making.next]
<1>1. id \in AgreementIds /\ making.entered \in Seq(Target)
      /\ making.next \in 1 .. Len(making.entered) /\ new \in Target
      /\ Len(making.entered) \in Nat
  BY MakingIs
<1>2. OnlyDraft(id) /\ ts \in Seq(Target)
  BY <1>1, AddTargetStep DEF EditorState, AgreementTypeOK
<1>3. agreementTargets'[id] = Append(ts, new)
      /\ \A j \in AgreementIds :
            j # id => agreementTargets'[j] = agreementTargets[j]
  BY <1>1, <1>2 DEF AddTarget, OnlyDraft, EditorState, AgreementTypeOK
<1>4. /\ making'.id = id /\ making'.next = n
      /\ making'.entered = making.entered
  BY MakingIs
<1>5. id < nextAgreementId /\ nextAgreementId' = nextAgreementId
      /\ AgreementIds \subseteq Nat /\ nextAgreementId \in Nat
  <2>1. ~(id >= nextAgreementId)
    BY <1>1, <1>2 DEF OnlyDraft, MadeInOrder
  <2> QED
    BY <1>1, <1>2, <2>1, IdsAre DEF OnlyDraft, EditorState
<1>6. \A j \in AgreementIds : agreements'[j].id = agreements[j].id
  BY <1>2 DEF OnlyDraft
<1>7. \A j \in AgreementIds : j >= nextAgreementId' =>
            agreements'[j].id = 0 /\ agreementTargets'[j] = <<>>
  BY <1>1, <1>3, <1>5, <1>6 DEF MadeInOrder
<1>8. ASSUME made[id] # <<>>
      PROVE  /\ made[id] = making.entered
             /\ Len(ts) = making.next - 1
             /\ Prefixed(ts, made[id])
  BY <1>1, <1>8 DEF MadeInOrder
<1> HIDE DEF ts, new
<1>9. Len(Append(ts, new)) = Len(ts) + 1 /\ Append(ts, new)[Len(ts) + 1] = new
      /\ \A k \in 1 .. Len(ts) : Append(ts, new)[k] = ts[k]
      /\ Len(ts) \in Nat
  BY <1>1, <1>2
<1>10. made[id] # <<>> => Prefixed(Append(ts, new), made[id])
  <2> SUFFICES ASSUME made[id] # <<>> PROVE Prefixed(Append(ts, new), made[id])
    OBVIOUS
  <2>1. Len(Append(ts, new)) = making.next /\ Len(ts) + 1 = making.next
    BY <1>1, <1>8, <1>9
  <2>2. new = made[id][making.next]
    BY <1>8 DEF new
  <2>3. ASSUME NEW k \in 1 .. making.next
        PROVE  Append(ts, new)[k] = made[id][k]
    <3>1. CASE k = making.next
      BY <1>9, <2>1, <2>2, <3>1
    <3>2. CASE k # making.next
      <4>1. k \in 1 .. Len(ts)
        BY <1>1, <1>9, <2>1, <3>2
      <4> QED
        BY <1>8, <1>9, <4>1 DEF Prefixed
    <3> QED
      BY <3>1, <3>2
  <2> QED
    BY <1>1, <1>8, <2>1, <2>3 DEF Prefixed
<1>11. \A j \in AgreementIds : made'[j] # <<>> =>
            /\ j < nextAgreementId'
            /\ Prefixed(agreementTargets'[j], made'[j])
  <2> SUFFICES ASSUME NEW j \in AgreementIds, made[j] # <<>>
               PROVE  /\ j < nextAgreementId
                      /\ Prefixed(agreementTargets'[j], made[j])
    BY <1>5
  <2>1. CASE j = id
    BY <1>3, <1>5, <1>10, <2>1
  <2>2. CASE j # id
    BY <1>3, <2>2 DEF MadeInOrder
  <2> QED
    BY <2>1, <2>2
<1>12. making'.id # 0 /\ made'[making'.id] # <<>> =>
            /\ made'[making'.id] = making'.entered
            /\ making'.next <= Len(making'.entered) =>
                    Len(agreementTargets'[making'.id]) = making'.next - 1
  <2> SUFFICES ASSUME made[id] # <<>>
               PROVE  /\ made[id] = making.entered
                      /\ n <= Len(making.entered) =>
                            Len(agreementTargets'[id]) = n - 1
    BY <1>4
  <2>1. n <= Len(making.entered) => n = making.next + 1
    BY <1>1
  <2> QED
    BY <1>1, <1>3, <1>8, <1>9, <2>1
<1> QED
  BY <1>7, <1>11, <1>12 DEF MadeInOrder, Prefixed

LEMMA MakingKeeps ==
  ASSUME EditorState, MadeInOrder, MakingStep
  PROVE  MadeInOrder'
<1>1. CASE AgreementMade
  BY <1>1, AgreementMadeKeeps
<1>2. CASE AgreementNotMade
  <2>1. CASE UNCHANGED agreementVars
    BY <1>2, <2>1
    DEF AgreementNotMade, agreementVars, MadeInOrder, Prefixed
  <2>2. CASE \E start, end \in Dates :
                CreateAgreement(Donor, start, end, Parties)
    BY <1>2, <2>2, CreateStep, CreatedKeeps DEF AgreementNotMade, EditorState
  <2> QED
    BY <1>2, <2>1, <2>2 DEF AgreementNotMade
<1>3. CASE TargetMade
  <2>1. making.next + 1 \in Nat
    BY <1>3, MakingIs DEF TargetMade
  <2> QED
    BY <1>3, <2>1, TargetAdded DEF TargetMade
<1>4. CASE TargetNotMade
  <2> DEFINE n == Len(making.entered) + 1
  <2>1. making # NoMaking /\ making.id # 0 /\ n \in Nat
        /\ making' = [making EXCEPT !.next = n] /\ made' = made
    BY <1>4, MakingIs DEF TargetNotMade
  <2>2. CASE UNCHANGED agreementVars
    <3>1. /\ making'.id = making.id /\ making'.next = n
          /\ making'.entered = making.entered
          /\ ~(n <= Len(making.entered))
      BY <2>1, MakingIs
    <3> QED
      BY <2>1, <2>2, <3>1 DEF agreementVars, MadeInOrder, Prefixed
  <2>3. CASE AddTarget(Donor, making.id, making.entered[making.next])
    BY <1>4, <2>1, <2>3, TargetAdded DEF TargetNotMade
  <2> QED
    BY <1>4, <2>2, <2>3 DEF TargetNotMade
<1>5. CASE MakingDone
  BY <1>5 DEF MakingDone, agreementVars, MadeInOrder, Prefixed
<1> QED
  BY <1>1, <1>2, <1>3, <1>4, <1>5 DEF MakingStep

LEMMA MadeInOrderNext ==
  ASSUME EditorState, MadeInOrder, EditorStep
  PROVE  MadeInOrder'
<1>1. CASE \E c \in calls : CallLands(c)
  BY <1>1, TransactionStep, EditedKeeps DEF CallLands
<1>2. CASE \E id \in AgreementIds : OtherTab(id)
  BY <1>2, OtherTabType, EditedKeeps DEF OtherTab
<1>3. CASE \E ts \in Entered : ClickCreate(ts)
  <2>1. making'.id = 0 /\ UNCHANGED <<agreementVars, made>>
    BY <1>3 DEF ClickCreate
  <2> QED
    BY <2>1 DEF agreementVars, MadeInOrder, Prefixed
<1>4. CASE MakingStep
  BY <1>4, MakingKeeps
<1>5. CASE UNCHANGED <<agreementVars, making, made>>
  BY <1>5, MadeKept
<1> QED
  BY <1>1, <1>2, <1>3, <1>4, <1>5
  DEF EditorStep, Fetching, Click, CallSucceeds, CallFails, editorVars

\* The modal makes a prefix of what was entered, for any lists of targets and
\* whichever calls fail, executed or not (agreements.js).
THEOREM MadePrefix == EditorSpec => []MadeIsPrefix
<1>1. EditorState /\ MadeInOrder /\ [EditorNext]_<<agreementVars, editorVars>>
        => EditorState' /\ MadeInOrder'
  BY EditorSteps, EditorStateNext, MadeInOrderNext
<1>2. EditorState /\ MadeInOrder => MadeIsPrefix
  BY MadeInOrderIs
<1> QED
  BY <1>1, <1>2, EditorInitState, MadeInOrderInit, PTL DEF EditorSpec

-----------------------------------------------------------------------------
(* The agreements page: a donor who waits. *)

\* Between two clicks of a donor who waits, the list is the ledger's.
ShownIsCurrent ==
    \A id \in DOMAIN shown : shown[id].targets = agreementTargets[id]

AtRest ==
    /\ fetches = {}
    /\ making = NoMaking \/ making.id = 0
    /\ \A c \in calls : ~c.landed

OneAtATime ==
    /\ \A c \in calls : calls = {c}
    /\ \A f \in fetches : fetches = {f}
    /\ calls # {} => fetches = {} /\ making = NoMaking
    /\ making # NoMaking => fetches = {}

ReadsCurrent ==
    \A f \in fetches : \A i \in 1 .. Len(f.rows) : CurrentRow(f.rows[i], i)

\* A call not executed yet would still meet what its donor saw.
Aimed ==
    \A c \in calls : ~c.landed /\ c.op \in {"edit", "remove"} =>
        GetTarget(c.id, c.index) = c.meant

Quiet ==
    /\ misapplied = FALSE
    /\ OneAtATime
    /\ ReadsCurrent
    /\ AtRest => ShownIsCurrent
    /\ Aimed

Undisturbed == ~disturbed => Quiet

LEMMA UndisturbedInit == EditorInit => Undisturbed
<1> SUFFICES ASSUME EditorInit PROVE Quiet
  BY DEF Undisturbed
<1>1. /\ misapplied = FALSE /\ calls = {} /\ making = NoMaking
      /\ fetches = {NewFetch}
  BY EditorInitPage
<1>2. NewFetch.rows = <<>>
  BY DEF NewFetch
<1> HIDE DEF NewFetch
<1>3. fetches # {} /\ \A f \in fetches : f.rows = <<>> /\ fetches = {f}
  BY <1>1, <1>2
<1>4. OneAtATime
  BY <1>1, <1>3 DEF OneAtATime
<1>5. ReadsCurrent
  BY <1>3 DEF ReadsCurrent
<1> QED
  BY <1>1, <1>3, <1>4, <1>5 DEF Quiet, AtRest, Aimed

\* A read that gets one answer further while nothing else goes on.
LEMMA ExtendsQuiet ==
  ASSUME EditorState, Quiet, NEW f \in fetches, NEW rows, Extends(f, rows),
         CurrentRow(rows[Len(rows)], Len(rows)),
         UNCHANGED <<agreementVars, calls, making, misapplied>>
  PROVE  Quiet'
<1> DEFINE g == [f EXCEPT !.rows = rows]
<1>1. f \in Fetch /\ rows \in Seq(Row)
  BY DEF EditorState, ListOK, Extends
<1>2. g.rows = rows
  BY <1>1 DEF Fetch
<1>3. fetches' = (fetches \ {f}) \cup {g}
  BY DEF Extends, Replace
<1> HIDE DEF g
<1>4. fetches = {f} /\ calls = {} /\ making = NoMaking
  BY DEF Quiet, OneAtATime
<1>5. fetches' = {g} /\ calls' = {} /\ making' = NoMaking
  BY <1>3, <1>4
<1>6. OneAtATime'
  BY <1>5 DEF OneAtATime
<1>7. \A row, i : CurrentRow(row, i)' <=> CurrentRow(row, i)
  BY DEF agreementVars, CurrentRow, TargetCount
<1>8. \A i \in 1 .. Len(rows) : CurrentRow(rows[i], i)
  <2> SUFFICES ASSUME NEW i \in 1 .. Len(rows) PROVE CurrentRow(rows[i], i)
    OBVIOUS
  <2>1. CASE i = Len(rows)
    BY <2>1
  <2>2. CASE i < Len(rows)
    <3>1. rows[i] = f.rows[i] /\ i <= Len(f.rows)
      BY <2>2 DEF Extends
    <3>2. i \in 1 .. Len(f.rows)
      BY <1>1, <3>1 DEF Fetch
    <3> QED
      BY <3>1, <3>2 DEF Quiet, ReadsCurrent
  <2>3. i < Len(rows) \/ i = Len(rows)
    BY <1>1
  <2> QED
    BY <2>1, <2>2, <2>3
<1>9. ReadsCurrent'
  BY <1>2, <1>5, <1>7, <1>8 DEF ReadsCurrent
<1>10. fetches' # {}
  BY <1>5
<1> QED
  BY <1>5, <1>6, <1>9, <1>10 DEF Quiet, AtRest, Aimed

\* With nobody to remove a target, no read is refused.
LEMMA NoRevert ==
  ASSUME EditorState, Quiet, NEW f \in fetches
  PROVE  ~ReadReverts(f)
<1> SUFFICES ASSUME ReadReverts(f) PROVE FALSE
  OBVIOUS
<1> DEFINE n == Len(f.rows)
<1>1. f \in Fetch /\ n \in AgreementIds /\ f.rows[n] \in Row
      /\ Last(f.rows) = f.rows[n]
  BY LastRow DEF ReadReverts
<1>2. n \in 1 .. Len(f.rows)
  BY <1>1, IdsAre DEF EditorState, AgreementIds
<1>3. CurrentRow(f.rows[n], n)
  BY <1>2 DEF Quiet, ReadsCurrent
<1>4. Len(f.rows[n].targets) \in Nat
  BY <1>1 DEF Row
<1>5. f.rows[n].count \in Nat \cup {Unread}
  BY <1>1 DEF Row
<1>6. Len(f.rows[n].targets) < f.rows[n].count
      /\ ~(Len(f.rows[n].targets) < TargetCount(n))
  BY <1>1 DEF ReadReverts, TargetIsThere
<1>7. f.rows[n].count # Unread
  BY <1>4, <1>6 DEF Unread
<1> QED
  BY <1>3, <1>6, <1>7 DEF CurrentRow

LEMMA ShowsQuiet ==
  ASSUME EditorState, ListsExact, Quiet, NEW f \in fetches, ShowAgreements(f),
         UNCHANGED <<agreementVars, calls, making, misapplied>>
  PROVE  Quiet'
<1>1. fetches = {f} /\ calls = {} /\ making = NoMaking
  BY DEF Quiet, OneAtATime
<1>2. fetches' = {} /\ shown' = f.rows
  BY <1>1 DEF ShowAgreements
<1>3. f.rows \in Seq(Row)
  BY DEF EditorState, ListOK, Fetch
<1>4. ASSUME NEW i \in 1 .. Len(f.rows)
      PROVE  f.rows[i].targets = agreementTargets[i]
  <2>1. i \in AgreementIds /\ f.rows[i] \in Row
    BY RowIds
  <2>2. RowDone(f.rows[i])
    BY CompleteRows DEF ShowAgreements, ListsExact
  <2>3. CurrentRow(f.rows[i], i)
    BY DEF Quiet, ReadsCurrent
  <2> QED
    BY <2>1, <2>2, <2>3, RowDoneExact DEF EditorState
<1>5. ShownIsCurrent'
  BY <1>2, <1>3, <1>4 DEF ShownIsCurrent, agreementVars
<1> QED
  BY <1>1, <1>2, <1>5 DEF Quiet, OneAtATime, ReadsCurrent, Aimed

LEMMA FetchingQuiet ==
  ASSUME EditorState, ListsExact, Quiet, Fetching
  PROVE  Quiet'
<1>1. PICK f \in fetches : \/ ReadFlag(f)
                           \/ ReadCount(f)
                           \/ ReadTarget(f)
                           \/ ReadReverts(f)
                           \/ ShowAgreements(f)
  BY DEF Fetching
<1>2. UNCHANGED <<agreementVars, calls, making, misapplied>>
  BY DEF Fetching
<1>3. CASE ReadFlag(f)
  BY <1>2, <1>3, ReadFlagExtends, ExtendsQuiet
<1>4. CASE ReadCount(f) \/ ReadTarget(f)
  <2>1. PICK rows : /\ Extends(f, rows)
                    /\ Len(rows) = Len(f.rows)
                    /\ CurrentRow(f.rows[Len(rows)], Len(rows))
                        => CurrentRow(rows[Len(rows)], Len(rows))
    BY <1>4, ReadCountExtends, ReadTargetExtends
  <2>2. Len(f.rows) \in 1 .. Len(f.rows)
    <3>1. Len(f.rows) \in AgreementIds
      BY <1>4, LastRow DEF ReadCount, ReadTarget
    <3> QED
      BY <3>1, IdsAre DEF EditorState, AgreementIds
  <2>3. CurrentRow(f.rows[Len(rows)], Len(rows))
    BY <2>1, <2>2 DEF Quiet, ReadsCurrent
  <2> QED
    BY <1>2, <2>1, <2>3, ExtendsQuiet
<1>5. CASE ReadReverts(f)
  BY <1>5, NoRevert
<1>6. CASE ShowAgreements(f)
  BY <1>2, <1>6, ShowsQuiet
<1> QED
  BY <1>1, <1>3, <1>4, <1>5, <1>6

\* A success, or the modal's end, begins the only read there is.
LEMMA ReloadQuiet ==
  ASSUME EditorState, Quiet, Reload, fetches = {}, calls' = {},
         making' = NoMaking, UNCHANGED misapplied
  PROVE  Quiet'
<1>1. fetches' = {NewFetch} /\ NewFetch.rows = <<>>
  BY DEF Reload, NewFetch
<1> HIDE DEF NewFetch
<1>2. fetches' # {} /\ \A f \in fetches' : f.rows = <<>> /\ fetches' = {f}
  BY <1>1
<1>3. OneAtATime'
  BY <1>2 DEF OneAtATime
<1>4. ReadsCurrent'
  BY <1>2 DEF ReadsCurrent
<1> QED
  BY <1>2, <1>3, <1>4 DEF Quiet, AtRest, Aimed

LEMMA ClickQuiet ==
  ASSUME EditorState, Quiet, NEW op \in Ops, NEW id \in AgreementIds,
         NEW index \in 0 .. MaxTargets - 1, NEW target,
         Click(op, id, index, target), ~Busy
  PROVE  Quiet'
<1> DEFINE meant == IF op \in {"edit", "remove"}
                    THEN shown[id].targets[index + 1] ELSE NoTarget
           call == [n |-> clicks', op |-> op, id |-> id, index |-> index,
                    target |-> target, landed |-> FALSE, meant |-> meant]
<1>1. calls = {} /\ fetches = {} /\ making = NoMaking
  BY DEF Busy
<1>2. ShownIsCurrent
  BY <1>1 DEF Quiet, AtRest
<1>3. op \in {"edit", "remove"} => GetTarget(id, index) = meant
  BY <1>2 DEF ShownIsCurrent, Click, Offered, GetTarget
<1>4. /\ call.op = op /\ call.id = id /\ call.index = index
      /\ call.meant = meant
  OBVIOUS
<1>5. calls' = calls \cup {call}
  BY DEF Click
<1> HIDE DEF call, meant
<1>6. calls' = {call}
  BY <1>1, <1>5
<1>7. UNCHANGED <<agreementVars, shown, fetches, making, misapplied>>
  BY DEF Click, listVarsOfEditor
<1>8. OneAtATime'
  BY <1>1, <1>6, <1>7 DEF OneAtATime
<1>9. ReadsCurrent'
  BY <1>1, <1>7 DEF ReadsCurrent
<1>10. Aimed'
  BY <1>3, <1>4, <1>6, <1>7 DEF Aimed, agreementVars, GetTarget
<1>11. ShownIsCurrent'
  BY <1>2, <1>7 DEF ShownIsCurrent, agreementVars
<1> QED
  BY <1>7, <1>8, <1>9, <1>10, <1>11 DEF Quiet

LEMMA CallQuiet ==
  ASSUME EditorState, Quiet, NEW c \in calls,
         CallLands(c) \/ CallSucceeds(c) \/ (CallFails(c) /\ ~c.landed)
  PROVE  Quiet'
<1>1. calls = {c} /\ fetches = {} /\ making = NoMaking
  BY DEF Quiet, OneAtATime
<1>2. CASE CallLands(c)
  <2> DEFINE d == [c EXCEPT !.landed = TRUE]
  <2>1. c \in ButtonCall
    BY DEF EditorState, CallsOK
  <2>2. d.landed = TRUE
    BY <2>1 DEF ButtonCall
  <2>3. calls' = (calls \ {c}) \cup {d}
    BY <1>2 DEF CallLands
  <2> HIDE DEF d
  <2>4. calls' = {d} /\ fetches' = {} /\ making' = NoMaking
    BY <1>1, <1>2, <2>3 DEF CallLands, listVarsOfEditor
  <2>5. c.op \in {"edit", "remove"} => GetTarget(c.id, c.index) = c.meant
    BY <1>2 DEF CallLands, Quiet, Aimed
  <2>6. misapplied' = FALSE
    <3>1. misapplied = FALSE
      BY DEF Quiet
    <3> QED
      BY <1>2, <2>5, <3>1 DEF CallLands
  <2>7. OneAtATime' /\ ReadsCurrent'
    BY <2>4 DEF OneAtATime, ReadsCurrent
  <2>8. ~AtRest' /\ Aimed'
    BY <2>2, <2>4 DEF AtRest, Aimed
  <2> QED
    BY <2>6, <2>7, <2>8 DEF Quiet
<1>3. CASE CallSucceeds(c)
  <2>1. calls' = {}
    BY <1>1, <1>3 DEF CallSucceeds
  <2> QED
    BY <1>1, <1>3, <2>1, ReloadQuiet DEF CallSucceeds
<1>4. CASE CallFails(c) /\ ~c.landed
  <2>1. /\ calls' = {}
        /\ UNCHANGED <<agreementVars, shown, fetches, making, misapplied>>
    BY <1>1, <1>4 DEF CallFails, listVarsOfEditor
  <2>2. ShownIsCurrent
    BY <1>1, <1>4 DEF Quiet, AtRest
  <2>3. ShownIsCurrent'
    BY <2>1, <2>2 DEF ShownIsCurrent, agreementVars
  <2> QED
    BY <1>1, <2>1, <2>3 DEF Quiet, OneAtATime, ReadsCurrent, Aimed
<1> QED
  BY <1>2, <1>3, <1>4

\* The modal works alone, and its last step reloads the list.
LEMMA MakingQuiet ==
  ASSUME EditorState, Quiet, MakingStep, ~disturbed'
  PROVE  Quiet'
<1>1. calls = {} /\ fetches = {} /\ making # NoMaking
  <2>1. making # NoMaking
    BY DEF MakingStep, AgreementMade, AgreementNotMade, TargetMade,
           TargetNotMade, MakingDone
  <2> QED
    BY <2>1 DEF Quiet, OneAtATime
<1>2. CASE MakingDone
  BY <1>1, <1>2, ReloadQuiet DEF MakingDone
<1>3. CASE AgreementNotMade
  <2>1. /\ UNCHANGED <<agreementVars, shown, fetches, calls, misapplied>>
        /\ making.id = 0 /\ making' = NoMaking
    BY <1>3 DEF AgreementNotMade, listVarsOfEditor
  <2>2. ShownIsCurrent
    BY <1>1, <2>1 DEF Quiet, AtRest
  <2>3. ShownIsCurrent'
    BY <2>1, <2>2 DEF ShownIsCurrent, agreementVars
  <2> QED
    BY <1>1, <2>1, <2>3 DEF Quiet, OneAtATime, ReadsCurrent, Aimed
<1>4. CASE AgreementMade \/ TargetMade \/ TargetNotMade
  <2>1. UNCHANGED <<shown, fetches, calls, misapplied>>
    BY <1>4 DEF AgreementMade, TargetMade, TargetNotMade, listVarsOfEditor
  <2>2. making' # NoMaking => making'.id # 0
    <3>1. CASE AgreementMade
      <4>1. nextAgreementId # 0
        BY <3>1, IdsAre
        DEF AgreementMade, CreateAgreement, EditorState, AgreementTypeOK
      <4> QED
        BY <1>1, <3>1, <4>1, MakingIs DEF AgreementMade
    <3>2. CASE TargetMade \/ TargetNotMade
      <4>1. /\ making.id # 0
            /\ \E n : making' = [making EXCEPT !.next = n]
        BY <3>2 DEF TargetMade, TargetNotMade
      <4> QED
        BY <1>1, <4>1, MakingIs
    <3> QED
      BY <1>4, <3>1, <3>2
  <2>3. making' # NoMaking
    <3>1. making \in Making
      BY <1>1 DEF EditorState, MakingOK
    <3>2. /\ nextAgreementId \in Nat
          /\ making.next + 1 \in Nat
          /\ Len(making.entered) + 1 \in Nat
          /\ making.entered \in Seq(Target)
      BY <3>1, IdsAre DEF EditorState, Making
    <3>3. \/ making' = [making EXCEPT !.id = nextAgreementId]
          \/ making' = [making EXCEPT !.next = making.next + 1]
          \/ making' = [making EXCEPT !.next = Len(making.entered) + 1]
      BY <1>4, <3>1 DEF AgreementMade, TargetMade, TargetNotMade, Making
    <3>4. AgreementIds \subseteq Nat
      BY IdsAre DEF EditorState
    <3>5. making' \in [id : Nat, entered : Seq(Target), next : Nat]
      BY <3>1, <3>2, <3>3, <3>4 DEF Making
    <3> QED
      BY <3>5, EditorAssumption
  <2>4. ~AtRest'
    BY <2>2, <2>3 DEF AtRest
  <2> QED
    BY <1>1, <2>1, <2>4 DEF Quiet, OneAtATime, ReadsCurrent, Aimed
<1> QED
  BY <1>2, <1>3, <1>4 DEF MakingStep

LEMMA QuietKept ==
  ASSUME Quiet,
         UNCHANGED <<agreementVars, shown, fetches, calls, making, misapplied>>
  PROVE  Quiet'
<1>1. OneAtATime' /\ ReadsCurrent'
  BY DEF Quiet, OneAtATime, ReadsCurrent, agreementVars, CurrentRow,
        TargetCount
<1>2. (AtRest' => ShownIsCurrent') /\ Aimed'
  BY DEF Quiet, AtRest, ShownIsCurrent, Aimed, agreementVars, GetTarget
<1> QED
  BY <1>1, <1>2 DEF Quiet

LEMMA ClickCreateQuiet ==
  ASSUME EditorState, Quiet, NEW ts \in Entered, ClickCreate(ts), ~Busy
  PROVE  Quiet'
<1>1. calls = {} /\ fetches = {} /\ making = NoMaking
  BY DEF Busy
<1>2. UNCHANGED <<agreementVars, shown, fetches, calls, misapplied>>
  BY DEF ClickCreate, listVarsOfEditor
<1>3. ShownIsCurrent
  BY <1>1 DEF Quiet, AtRest
<1>4. ShownIsCurrent'
  BY <1>2, <1>3 DEF ShownIsCurrent, agreementVars
<1> QED
  BY <1>1, <1>2, <1>4 DEF Quiet, OneAtATime, ReadsCurrent, Aimed

LEMMA UndisturbedNext ==
  ASSUME EditorState, ListsExact, Undisturbed, EditorStep
  PROVE  Undisturbed'
<1> SUFFICES ASSUME ~disturbed' PROVE Quiet'
  BY DEF Undisturbed
<1>1. CASE Fetching
  <2>1. Quiet
    BY <1>1 DEF Fetching, Undisturbed
  <2> QED
    BY <1>1, <2>1, FetchingQuiet
<1>2. ASSUME NEW op \in Ops, NEW id \in AgreementIds,
             NEW index \in 0 .. MaxTargets - 1, NEW target,
             Click(op, id, index, target)
      PROVE  Quiet'
  <2>1. ~disturbed /\ ~Busy
    BY <1>2 DEF Click
  <2> QED
    BY <1>2, <2>1, ClickQuiet DEF Undisturbed
<1>3. ASSUME NEW c \in calls, CallLands(c) \/ CallSucceeds(c) \/ CallFails(c)
      PROVE  Quiet'
  <2>1. CASE CallFails(c)
    <3>1. ~disturbed /\ ~c.landed
      BY <2>1 DEF CallFails
    <3> QED
      BY <2>1, <3>1, CallQuiet DEF Undisturbed
  <2>2. CASE CallLands(c) \/ CallSucceeds(c)
    <3>1. ~disturbed
      BY <2>2 DEF CallLands, CallSucceeds
    <3> QED
      BY <2>2, <3>1, CallQuiet DEF Undisturbed
  <2> QED
    BY <1>3, <2>1, <2>2
<1>4. ASSUME NEW ts \in Entered, ClickCreate(ts)
      PROVE  Quiet'
  <2>1. ~disturbed /\ ~Busy
    BY <1>4 DEF ClickCreate
  <2> QED
    BY <1>4, <2>1, ClickCreateQuiet DEF Undisturbed
<1>5. CASE MakingStep
  <2>1. ~disturbed
    BY <1>5
    DEF MakingStep, AgreementMade, AgreementNotMade, TargetMade, TargetNotMade,
        MakingDone
  <2> QED
    BY <1>5, <2>1, MakingQuiet DEF Undisturbed
<1>6. CASE \E id \in AgreementIds : OtherTab(id)
  BY <1>6 DEF OtherTab
<1>7. CASE UNCHANGED <<agreementVars, editorVars>>
  <2>1. UNCHANGED <<agreementVars, shown, fetches, calls, making, misapplied,
                    disturbed>>
    BY <1>7 DEF editorVars, listVarsOfEditor
  <2> QED
    BY <2>1, QuietKept DEF Undisturbed
<1> QED
  BY <1>1, <1>2, <1>3, <1>4, <1>5, <1>6, <1>7 DEF EditorStep

\* An edit hits the target shown when nobody else acts, the donor waits and no
\* answer is lost, for any list and however many calls fail unexecuted
\* (agreements.js).
THEOREM EditsHitShown == EditorSpec => []UndisturbedEditHitsShown
<1>1. EditorState /\ ListsExact /\ Undisturbed
        /\ [EditorNext]_<<agreementVars, editorVars>>
        => EditorState' /\ ListsExact' /\ Undisturbed'
  BY EditorSteps, EditorStateNext, ListsExactNext, UndisturbedNext
<1>2. Undisturbed => UndisturbedEditHitsShown
  BY DEF Undisturbed, Quiet, UndisturbedEditHitsShown
<1> QED
  BY <1>1, <1>2, EditorInitState, ListsExactInit, UndisturbedInit, PTL
  DEF EditorSpec

-----------------------------------------------------------------------------
(* The dashboard: the page that is open runs, the others stand still. *)

PageIsKnown == page \in {"evidence", "spend", "overview", "agreements"}

LEMMA EvidenceAlone ==
  [DashboardNext]_dashboardVars => [FormNext]_formVars
BY DEF DashboardNext, EvidencePage, SpendPage, OverviewPage, AgreementsPage,
       dashboardVars

LEMMA SpendAlone ==
  [DashboardNext]_dashboardVars => [SpendFormNext]_spendFormVars
BY DEF DashboardNext, EvidencePage, SpendPage, OverviewPage, AgreementsPage,
       dashboardVars

LEMMA OverviewAlone ==
  [DashboardNext]_dashboardVars => [PanelNext]_panelVars
BY DEF DashboardNext, EvidencePage, SpendPage, OverviewPage, AgreementsPage,
       dashboardVars

LEMMA AgreementsAlone ==
  [DashboardNext]_dashboardVars => [EditorNext]_<<agreementVars, editorVars>>
BY DEF DashboardNext, EvidencePage, SpendPage, OverviewPage, AgreementsPage,
       dashboardVars

LEMMA PageStays ==
  PageIsKnown /\ [DashboardNext]_dashboardVars => PageIsKnown'
BY DEF PageIsKnown, DashboardNext, EvidencePage, SpendPage, OverviewPage,
       AgreementsPage, dashboardVars

LEMMA DashboardInits ==
  DashboardInit => /\ PageIsKnown
                   /\ FormInit
                   /\ SpendFormInit
                   /\ PanelInit
                   /\ EditorInit
BY Zenon DEF DashboardInit, PageIsKnown

\* The open page is at any time in a behaviour of its own module.
LEMMA PagesBehave ==
  DashboardSpec => /\ []PageIsKnown
                   /\ FormSpec
                   /\ SpendFormSpec
                   /\ PanelSpec
                   /\ EditorSpec
BY DashboardInits, EvidenceAlone, SpendAlone, OverviewAlone, AgreementsAlone,
   PageStays, PTL
DEF DashboardSpec, FormSpec, SpendFormSpec, PanelSpec, EditorSpec

LEMMA PagesTypes ==
  /\ PageIsKnown
  /\ FormTypeOK
  /\ SpendFormTypeOK
  /\ PanelTypeOK
  /\ EditorTypeOK
  => PagesTypeOK
<1> SUFFICES ASSUME PageIsKnown, FormTypeOK, SpendFormTypeOK, PanelTypeOK,
                    EditorTypeOK
             PROVE  PagesTypeOK
  OBVIOUS
<1>1. \/ page = "evidence"
      \/ page = "spend"
      \/ page = "overview"
      \/ page = "agreements"
  BY DEF PageIsKnown
<1> QED
  BY <1>1 DEF PagesTypeOK

\* Whatever page is open, its variables stay in their types.
THEOREM PagesTypeCorrect == DashboardSpec => []PagesTypeOK
<1> QED
  BY PagesBehave, PagesTypes, FormTypeCorrect, SpendFormTypeCorrect,
     PanelTypeCorrect, EditorTypeCorrect, PTL

\* What is proved of each page alone holds in the dashboard: evidence that is
\* stored, budgets that mirror the contract's, forks told, lists that are
\* exact and edits that hit what was shown.
THEOREM PagesCorrect ==
  DashboardSpec => /\ []RecordedIsStored
                   /\ []UnhurriedAttachesPicked
                   /\ []BudgetMirrored
                   /\ []WarningNeverMissing
                   /\ []PanelTellsForks
                   /\ []FinalListExact
                   /\ []UndisturbedEditHitsShown
                   /\ []MadeIsPrefix
<1> QED
  BY PagesBehave, EvidenceIsStored, WaitingAttachesPicked, CheckMirrorsContract,
     WarningIsNotMissed, PanelTells, FinalListsExact, EditsHitShown, MadePrefix,
     PTL

=============================================================================
