---------------------------- MODULE EvidenceForm ----------------------------
(***************************************************************************)
(* The file half of the two forms that attach evidence, the spend request  *)
(* of dashboard/js/views/spend.js and the report of views/reports.js, and  *)
(* the settlement of an approved request with a receipt.                   *)
(*                                                                         *)
(* The page is one thread; what interleaves are the handlers around their  *)
(* awaits.  Picking a file starts an upload whose reply, whenever it       *)
(* comes, writes pendingHash; submitting reads pendingHash as it is at     *)
(* that moment; the reply to a submission clears the form.  Nothing        *)
(* disables the controls meanwhile, and replies come in any order or as    *)
(* failures, with or without the effect having taken place.                *)
(***************************************************************************)
EXTENDS Naturals, FiniteSets

CONSTANTS
    Files,       \* files a user may pick
    NoFile,      \* an empty file input
    NoHash,      \* null
    MaxPicks,    \* bound: files picked
    MaxSubmits,  \* bound: submissions
    MaxSettles   \* bound: clicks on "Mark as spent"

ASSUME FormAssumption ==
    /\ NoFile \notin Files
    /\ \A f \in Files : NoHash # <<"sha256", f>>
    /\ {MaxPicks, MaxSubmits, MaxSettles} \subseteq Nat

VARIABLES
    form,         \* which of the two forms is on the page
    picked,       \* the file the input holds
    pendingHash,
    picks,        \* files picked so far
    uploads,      \* uploads in flight: number of the pick and its file
    stored,       \* hashes of the documents the server has stored
    sent,         \* submissions so far
    submits,      \* submissions in flight
    recorded,     \* what the ledger recorded: the hash, and the one meant
    fresh,        \* the user has touched the form since it was cleared
    card,         \* the report's result card is showing
    failed,       \* the upload of the file picked last failed
    raced,        \* the user acted while a reply was outstanding
    settles,      \* clicks on "Mark as spent" so far
    settling,     \* those in flight: the file chosen, and its local hash
    receipt       \* the receipt hash pinned on the ledger

pickVars == <<picked, picks, uploads, failed, fresh>>
submitVars == <<sent, submits, recorded>>
settleVars == <<settles, settling, receipt>>
formVars == <<form, pickVars, pendingHash, stored, submitVars, card, raced,
              settleVars>>

Hash(f) == <<"sha256", f>>
Hashes == {Hash(f) : f \in Files}

FormTypeOK ==
    /\ form \in {"spend", "report"}
    /\ picked \in Files \cup {NoFile}
    /\ pendingHash \in Hashes \cup {NoHash}
    /\ picks \in 0 .. MaxPicks
    /\ uploads \subseteq [pick : 1 .. MaxPicks, file : Files]
    /\ stored \subseteq Hashes
    /\ sent \in 0 .. MaxSubmits
    /\ submits \subseteq [n : 1 .. MaxSubmits, hash : Hashes \cup {NoHash},
                          meant : Hashes \cup {NoHash}]
    /\ recorded \subseteq [n : 1 .. MaxSubmits, hash : Hashes \cup {NoHash},
                           meant : Hashes \cup {NoHash}]
    /\ {fresh, card, failed, raced} \subseteq BOOLEAN
    /\ settles \in 0 .. MaxSettles
    /\ settling \subseteq [n : 1 .. MaxSettles, file : Files,
                           hash : Hashes \cup {NoHash}]
    /\ receipt \in Hashes \cup {NoHash}

FormInit ==
    /\ form \in {"spend", "report"}
    /\ picked = NoFile
    /\ pendingHash = NoHash
    /\ picks = 0
    /\ uploads = {}
    /\ stored = {}
    /\ sent = 0
    /\ submits = {}
    /\ recorded = {}
    /\ fresh = FALSE
    /\ card = FALSE
    /\ failed = FALSE
    /\ raced = FALSE
    /\ settles = 0
    /\ settling = {}
    /\ receipt = NoHash

-----------------------------------------------------------------------------
(* The file input. *)

\* Ghost: did the user act before the page had heard back?
Racing == raced' = (raced \/ uploads # {} \/ submits # {})

\* Mutant: the hash the server will answer is assumed at once.
PickAhead(f) ==
    /\ picks < MaxPicks
    /\ picks' = picks + 1
    /\ picked' = f
    /\ uploads' = uploads \cup {[pick |-> picks', file |-> f]}
    /\ pendingHash' = Hash(f)
    /\ failed' = FALSE
    /\ fresh' = TRUE
    /\ card' = FALSE
    /\ Racing
    /\ UNCHANGED <<form, stored, submitVars, settleVars>>

\* A file is chosen: its upload starts, and until the reply pendingHash is
\* still that of the file before.
PickFile(f) ==
    /\ picks < MaxPicks
    /\ picks' = picks + 1
    /\ picked' = f
    /\ uploads' = uploads \cup {[pick |-> picks', file |-> f]}
    /\ failed' = FALSE
    /\ fresh' = TRUE
    /\ card' = FALSE
    /\ Racing
    /\ UNCHANGED <<form, pendingHash, stored, submitVars, settleVars>>

\* The input is emptied.
UnpickFile ==
    /\ picked # NoFile
    /\ picked' = NoFile
    /\ pendingHash' = NoHash
    /\ failed' = FALSE
    /\ fresh' = TRUE
    /\ card' = FALSE
    /\ Racing
    /\ UNCHANGED <<form, picks, uploads, stored, submitVars, settleVars>>

UploadReply(u) ==
    /\ uploads' = uploads \ {u}
    /\ stored' = stored \cup {Hash(u.file)}
    /\ pendingHash' = Hash(u.file)
    /\ UNCHANGED <<form, picked, picks, failed, fresh, submitVars, card,
                   raced, settleVars>>

\* The upload is refused, or its reply is lost after the file was stored.
UploadFails(u) ==
    /\ uploads' = uploads \ {u}
    /\ stored' \in {stored, stored \cup {Hash(u.file)}}
    /\ pendingHash' = NoHash
    /\ failed' = (failed \/ u.pick = picks)
    /\ UNCHANGED <<form, picked, picks, fresh, submitVars, card, raced,
                   settleVars>>

-----------------------------------------------------------------------------
(* Submitting. *)

\* What the user who looks at the form believes goes on the ledger.
Meant == IF picked = NoFile \/ failed THEN NoHash ELSE Hash(picked)

Send ==
    /\ sent < MaxSubmits
    /\ sent' = sent + 1
    /\ submits' = submits \cup
            {[n |-> sent', hash |-> pendingHash, meant |-> Meant]}
    /\ Racing
    /\ UNCHANGED <<form, pickVars, pendingHash, stored, recorded, card,
                   settleVars>>

\* Both forms leave the file out when pendingHash is null; the required
\* fields are filled in.
SubmitSpend == form = "spend" /\ Send
SubmitReportForm == form = "report" /\ Send

\* Mutant: a form cleared without forgetting the hash of its file.
ClearInputsOnly ==
    /\ picked' = NoFile
    /\ fresh' = FALSE
    /\ failed' = FALSE
    /\ UNCHANGED <<picks, uploads, pendingHash>>

\* What both forms do once their call has succeeded.
ClearForm ==
    /\ picked' = NoFile
    /\ pendingHash' = NoHash
    /\ fresh' = FALSE
    /\ failed' = FALSE
    /\ UNCHANGED <<picks, uploads>>

SpendRecorded(s) ==
    /\ form = "spend"
    /\ submits' = submits \ {s}
    /\ recorded' = recorded \cup {s}
    /\ ClearForm
    /\ UNCHANGED <<form, stored, sent, card, raced, settleVars>>

ReportRecorded(s) ==
    /\ form = "report"
    /\ submits' = submits \ {s}
    /\ recorded' = recorded \cup {s}
    /\ ClearForm
    /\ card' = TRUE
    /\ UNCHANGED <<form, stored, sent, raced, settleVars>>

\* The call fails, or its answer is lost after the transaction was executed:
\* the form keeps what it holds for another try.
SubmitFails(s) ==
    /\ submits' = submits \ {s}
    /\ recorded' \in {recorded, recorded \cup {s}}
    /\ UNCHANGED <<form, pickVars, pendingHash, stored, sent, card, raced,
                   settleVars>>

\* Any input in the report form hides the card of the previous report.
TypeInForm ==
    /\ form = "report"
    /\ ~fresh \/ card
    /\ fresh' = TRUE
    /\ card' = FALSE
    /\ UNCHANGED <<form, picked, picks, uploads, failed, pendingHash, stored,
                   submitVars, raced, settleVars>>

-----------------------------------------------------------------------------
(* Settling an approved request. *)

\* markSpent: the receipt is uploaded first.  Its hash stays local to the
\* call, whatever other clicks do.
ClickMarkSpent(f) ==
    /\ form = "spend"
    /\ settles < MaxSettles
    /\ settles' = settles + 1
    /\ settling' = settling \cup
            {[n |-> settles', file |-> f, hash |-> NoHash]}
    /\ UNCHANGED <<form, pickVars, pendingHash, stored, submitVars, card,
                   raced, receipt>>

ReceiptStored(c) ==
    /\ c.hash = NoHash
    /\ stored' = stored \cup {Hash(c.file)}
    /\ settling' = (settling \ {c}) \cup {[c EXCEPT !.hash = Hash(c.file)]}
    /\ UNCHANGED <<form, pickVars, pendingHash, submitVars, card, raced,
                   settles, receipt>>

ReceiptNotStored(c) ==
    /\ c.hash = NoHash
    /\ stored' \in {stored, stored \cup {Hash(c.file)}}
    /\ settling' = settling \ {c}
    /\ UNCHANGED <<form, pickVars, pendingHash, submitVars, card, raced,
                   settles, receipt>>

\* The markSpent transaction; the contract refuses a second receipt.
ReceiptPinned(c) ==
    /\ c.hash # NoHash
    /\ settling' = settling \ {c}
    /\ receipt' = IF receipt = NoHash THEN c.hash ELSE receipt
    /\ UNCHANGED <<form, pickVars, pendingHash, stored, submitVars, card,
                   raced, settles>>

FormNext ==
    \/ \E f \in Files : PickFile(f) \/ ClickMarkSpent(f)
    \/ UnpickFile
    \/ \E u \in uploads : UploadReply(u) \/ UploadFails(u)
    \/ SubmitSpend
    \/ SubmitReportForm
    \/ \E s \in submits :
            SpendRecorded(s) \/ ReportRecorded(s) \/ SubmitFails(s)
    \/ TypeInForm
    \/ \E c \in settling :
            ReceiptStored(c) \/ ReceiptNotStored(c) \/ ReceiptPinned(c)

FormSpec == FormInit /\ [][FormNext]_formVars

-----------------------------------------------------------------------------
(* Properties. *)

\* Whatever is recorded as evidence or as a receipt, in whatever order the
\* replies came and whichever were lost, is a document the server had stored
\* before: no hash on the ledger is without its file.
RecordedIsStored ==
    /\ \A r \in recorded : r.hash # NoHash => r.hash \in stored
    /\ receipt # NoHash => receipt \in stored

\* A user who waits for each reply gets what the form shows: the request or
\* report carries the file picked for it, or none when none was picked or
\* the page said that it could not be stored, also on a second try and never
\* a file left over from the submission before.
UnhurriedAttachesPicked ==
    ~raced => \A r \in recorded : r.hash = r.meant

\* The card of a finished report never stands over a form in which the next
\* one is being entered, although the reply that shows it may come when the
\* user has gone on typing (views/reports.js:175).
NoStaleCard == ~(card /\ fresh)

\* "SHA-256 of the file picked in the request form (or null)"
\* (views/spend.js:34): the hash a request is recorded with is that of the
\* file the form held when it was submitted, or none.
AttachedIsPicked ==
    form = "spend" => \A r \in recorded : r.hash \in {NoHash, r.meant}

=============================================================================
