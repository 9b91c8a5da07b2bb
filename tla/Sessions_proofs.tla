--------------------------- MODULE Sessions_proofs ---------------------------
(***************************************************************************)
(* The sessions, for any tabs, identities, lifetimes and numbers of acts   *)
(* and faults: a token signed out with stays out while the API runs, what  *)
(* is written is written as the session bar shows, and a session that is   *)
(* alive is not lost by accident.                                          *)
(*                                                                         *)
(* The invariant has a part for each owner of state: the API's tokens and  *)
(* deny-list, the storage of the browser, the pages, and the calls, whose  *)
(* part must survive whatever happens between a call and its answer.       *)
(***************************************************************************)
EXTENDS Sessions, TLAPS

Token == [role : LoginRoles, exp : Nat]
Revocation == [token : 1 .. Len(tokens), due : Nat]

TokensOK ==
    /\ clock \in 0 .. MaxClock
    /\ tokens \in Seq(Token)
    /\ Len(tokens) <= MaxTokens
    /\ \A i \in 1 .. Len(tokens) : tokens[i].exp <= clock + Ttl

\* A revocation is due when its token expires; a token signed out with is
\* revoked or expired.
RevocationsOK ==
    /\ denied \subseteq Revocation
    /\ \A d \in denied : d.due = tokens[d.token].exp
    /\ signedOut \subseteq 1 .. Len(tokens)
    /\ \A k \in signedOut : \/ clock >= tokens[k].exp
                            \/ k \in {d.token : d \in denied}

StorageOK ==
    /\ stored \in 0 .. Len(tokens)
    /\ stored = NoToken => storedRole = NoRole
    /\ stored # NoToken => /\ storedRole \in LoginRoles
                           /\ tokens[stored].role = storedRole

\* A page that has not been overtaken by another sign-in shows the session
\* that is stored.
PagesOK ==
    /\ page \in [Tabs -> Page]
    /\ shown \in [Tabs -> LoginRoles \cup {NoRole}]
    /\ halted \cup switched \subseteq Tabs
    /\ \A t \in Tabs :
            InApp(t) /\ t \notin switched /\ stored # NoToken
                => shown[t] = IF storedRole \in Displayed THEN storedRole
                                                         ELSE NoRole

CallOK(c) ==
    /\ c \in Call
    /\ c.token <= Len(tokens)
    /\ c.kind = "login" => c.role \in LoginRoles
    /\ c.kind = "login" /\ c.status = "ok"
            => c.token # NoToken /\ tokens[c.token].role = c.role
    /\ c.kind = "write" /\ ~c.switched /\ c.token # NoToken
            => tokens[c.token].role = c.role
    /\ restarts = 0 /\ c.status = "refused" /\ c.kind # "login"
            => ~Accepted(c.token)

CallsOK == \A c \in calls : CallOK(c)

CountersOK ==
    /\ acts \in 0 .. MaxActs
    /\ losses \in 0 .. MaxFaults
    /\ restarts \in 0 .. MaxFaults

SessionsInv ==
    /\ TokensOK
    /\ RevocationsOK
    /\ StorageOK
    /\ PagesOK
    /\ CallsOK
    /\ CountersOK
    /\ misattributed = FALSE

LEMMA SessionBounds ==
  /\ NoTab \notin Tabs /\ NoRole \notin LoginRoles /\ Displayed \subseteq LoginRoles
  /\ Ttl \in Nat /\ TimerMax \in Nat /\ MaxClock \in Nat /\ MaxTokens \in Nat
  /\ MaxActs \in Nat /\ MaxFaults \in Nat
  /\ Ttl <= TimerMax
BY SessionsAssumption, TtlAssumption

LEMMA SessionsInvInit == SessionsInit => SessionsInv
<1> SUFFICES ASSUME SessionsInit PROVE SessionsInv
  OBVIOUS
<1>1. TokensOK
  BY SessionBounds DEF SessionsInit, TokensOK
<1>2. RevocationsOK
  BY DEF SessionsInit, RevocationsOK
<1>3. StorageOK
  BY DEF SessionsInit, StorageOK, NoToken
<1>4. PagesOK
  BY DEF SessionsInit, PagesOK, NoToken, Page
<1>5. CallsOK /\ CountersOK /\ misattributed = FALSE
  BY SessionBounds DEF SessionsInit, CallsOK, CountersOK
<1> QED
  BY <1>1, <1>2, <1>3, <1>4, <1>5 DEF SessionsInv

(***************************************************************************)
(* The API.                                                                *)
(***************************************************************************)

\* Which of its variables the API changes, and in which step.
ServerStep ==
    \/ \E c \in calls : LoginGranted(c) \/ LogoutServed(c)
    \/ \E d \in denied : Forgotten(d)
    \/ Restart
    \/ Tick
    \/ UNCHANGED <<clock, serverVars, restarts>>

LEMMA ServerSteps == [SessionsNext]_sessionVars => ServerStep
<1> DEFINE Quiet == UNCHANGED <<clock, serverVars, restarts>>
<1>1. ASSUME NEW c, Refused(c) \/ Served(c) \/ Lose(c) PROVE Quiet
  BY <1>1 DEF Refused, Served, Lose, faultVars
<1>2. ASSUME NEW t, Boot(t) \/ Navigate(t) \/ \E kind \in Kinds : Answered(t, kind)
      PROVE  Quiet
  BY <1>2 DEF Boot, Navigate, Answered, faultVars
<1>3. ASSUME NEW t, NEW kind, NEW token, NEW role, Make(t, kind, token, role)
      PROVE  Quiet
  BY <1>3 DEF Make, faultVars
<1>4. CASE UNCHANGED sessionVars
  BY <1>4 DEF sessionVars, faultVars, ServerStep
<1>5. CASE SessionsNext
  BY <1>1, <1>2, <1>3, <1>5
  DEF ServerStep, SessionsNext, Handled, Poll, ClickWrite, SignOut, SubmitLogin
<1> QED
  BY <1>4, <1>5

LEMMA DueIsExpiry ==
  ASSUME TokensOK, NEW k \in 1 .. Len(tokens)
  PROVE  Due(k) = tokens[k].exp /\ tokens[k].exp \in Nat
<1>1. tokens[k] \in Token
  BY DEF TokensOK
<1>2. tokens[k].exp \in Nat
  BY <1>1 DEF Token
<1>3. tokens[k].exp <= clock + Ttl /\ clock \in Nat
  BY SessionBounds DEF TokensOK
<1>4. ~(tokens[k].exp - clock > TimerMax)
  BY <1>2, <1>3, SessionBounds
<1> QED
  BY <1>2, <1>4 DEF Due

TokensPersist ==
    /\ Len(tokens) <= Len(tokens')
    /\ \A i \in 1 .. Len(tokens) : tokens'[i] = tokens[i]

LEMMA TokensNext ==
  ASSUME SessionsInv, ServerStep
  PROVE  TokensOK' /\ TokensPersist
<1>1. ASSUME NEW c \in calls, LoginGranted(c) PROVE TokensOK' /\ TokensPersist
  <2>1. PICK k : k = [role |-> c.role, exp |-> clock + Ttl]
    OBVIOUS
  <2>2. tokens' = Append(tokens, k) /\ clock' = clock /\ Len(tokens) < MaxTokens
    BY <1>1, <2>1 DEF LoginGranted
  <2>3. k \in Token /\ k.exp = clock + Ttl
    BY <1>1, <2>1, SessionBounds
    DEF Token, SessionsInv, CallsOK, CallOK, LoginGranted, TokensOK
  <2>4. tokens \in Seq(Token) /\ Len(tokens) \in Nat
    BY DEF SessionsInv, TokensOK
  <2>5. /\ tokens' \in Seq(Token)
        /\ Len(tokens') = Len(tokens) + 1
        /\ tokens'[Len(tokens) + 1] = k
        /\ \A i \in 1 .. Len(tokens) : tokens'[i] = tokens[i]
    BY <2>2, <2>3, <2>4
  <2> QED
    BY <2>2, <2>3, <2>4, <2>5, SessionBounds
    DEF SessionsInv, TokensOK, TokensPersist
<1>2. ASSUME \/ \E c \in calls : LogoutServed(c)
             \/ \E d \in denied : Forgotten(d)
             \/ Restart
             \/ UNCHANGED <<clock, serverVars, restarts>>
      PROVE  TokensOK' /\ TokensPersist
  <2>1. tokens' = tokens /\ clock' = clock
    BY <1>2 DEF LogoutServed, Forgotten, Restart, serverVars
  <2> QED
    BY <2>1 DEF SessionsInv, TokensOK, TokensPersist
<1>3. CASE Tick
  <2>1. tokens' = tokens /\ clock' = clock + 1 /\ clock' \in 0 .. MaxClock
    BY <1>3, SessionBounds DEF Tick, serverVars, SessionsInv, TokensOK
  <2>2. ASSUME NEW i \in 1 .. Len(tokens) PROVE tokens[i].exp <= clock + 1 + Ttl
    BY SessionBounds, DueIsExpiry DEF SessionsInv, TokensOK
  <2> QED
    BY <2>1, <2>2 DEF SessionsInv, TokensOK, TokensPersist
<1> QED
  BY <1>1, <1>2, <1>3 DEF ServerStep

LEMMA RevocationsNext ==
  ASSUME SessionsInv, ServerStep
  PROVE  RevocationsOK'
<1>0. TokensPersist /\ Len(tokens) \in Nat /\ Len(tokens') \in Nat
  <2>1. TokensOK /\ TokensOK' /\ TokensPersist
    BY TokensNext DEF SessionsInv
  <2>2. tokens \in Seq(Token) /\ tokens' \in Seq(Token)
    BY <2>1 DEF TokensOK, Token
  <2> QED
    BY <2>1, <2>2
<1>1. ASSUME NEW c \in calls, LoginGranted(c) PROVE RevocationsOK'
  <2>1. denied' = denied /\ signedOut' = signedOut /\ clock' = clock
    BY <1>1 DEF LoginGranted
  <2>2. /\ denied \subseteq Revocation
        /\ signedOut \subseteq 1 .. Len(tokens)
    BY DEF SessionsInv, RevocationsOK
  <2>3. \A k \in 1 .. Len(tokens) :
            k \in 1 .. Len(tokens') /\ tokens'[k] = tokens[k]
    BY <1>0 DEF TokensPersist
  <2>4. denied' \subseteq Revocation'
    BY <2>1, <2>2, <2>3 DEF Revocation
  <2> QED
    BY <2>1, <2>2, <2>3, <2>4 DEF SessionsInv, RevocationsOK, Revocation
<1>2. ASSUME NEW c \in calls, LogoutServed(c) PROVE RevocationsOK'
  <2>1. c.token \in 1 .. Len(tokens)
    BY <1>2 DEF LogoutServed, Accepted, NoToken, SessionsInv, CallsOK, CallOK,
       Call, TokensOK
  <2>2. Due(c.token) = tokens[c.token].exp /\ tokens[c.token].exp \in Nat
    BY <2>1, DueIsExpiry DEF SessionsInv
  <2>3. denied' = denied \cup {[token |-> c.token, due |-> tokens[c.token].exp]}
        /\ signedOut' = signedOut \cup {c.token}
        /\ tokens' = tokens /\ clock' = clock
    BY <1>2, <2>2 DEF LogoutServed
  <2>4. PICK e : e = [token |-> c.token, due |-> tokens[c.token].exp]
    OBVIOUS
  <2>5. e \in Revocation /\ e.token = c.token /\ e.due = tokens[c.token].exp
    BY <2>1, <2>2, <2>4 DEF Revocation
  <2>6. denied' = denied \cup {e}
    BY <2>3, <2>4
  <2>7. denied' \subseteq Revocation'
    BY <2>3, <2>5, <2>6 DEF SessionsInv, RevocationsOK, Revocation
  <2>8. \A d \in denied' : d.due = tokens'[d.token].exp
    BY <2>3, <2>5, <2>6 DEF SessionsInv, RevocationsOK
  <2>9. signedOut' \subseteq 1 .. Len(tokens')
    BY <2>1, <2>3 DEF SessionsInv, RevocationsOK
  <2>10. \A k \in signedOut' : \/ clock' >= tokens'[k].exp
                               \/ k \in {d.token : d \in denied'}
    BY <2>3, <2>5, <2>6 DEF SessionsInv, RevocationsOK
  <2> QED
    BY <2>7, <2>8, <2>9, <2>10 DEF RevocationsOK
<1>3. ASSUME NEW d \in denied, Forgotten(d) PROVE RevocationsOK'
  <2>1. denied' = denied \ {d} /\ tokens' = tokens /\ signedOut' = signedOut
        /\ clock' = clock /\ clock >= tokens[d.token].exp
    BY <1>3 DEF Forgotten, SessionsInv, RevocationsOK
  <2> QED
    BY <2>1 DEF SessionsInv, RevocationsOK, Revocation
<1>4. CASE Restart
  BY <1>4 DEF Restart, RevocationsOK
<1>5. CASE Tick
  <2>1. clock' = clock + 1 /\ clock \in Nat /\ UNCHANGED serverVars
    BY <1>5, SessionBounds DEF Tick, SessionsInv, TokensOK
  <2>2. \A k \in 1 .. Len(tokens) : tokens[k].exp \in Nat
    BY DueIsExpiry DEF SessionsInv
  <2> QED
    BY <2>1, <2>2 DEF serverVars, SessionsInv, RevocationsOK, Revocation
<1>6. CASE UNCHANGED <<clock, serverVars, restarts>>
  BY <1>6 DEF serverVars, SessionsInv, RevocationsOK, Revocation
<1> QED
  BY <1>1, <1>2, <1>3, <1>4, <1>5, <1>6 DEF ServerStep

(***************************************************************************)
(* The browser's storage and pages.                                        *)
(***************************************************************************)

\* Which of its variables the browser changes, and in which step.
BrowserStep ==
    \/ \E t \in Tabs : Boot(t) \/ Navigate(t)
    \/ \E t \in Tabs : \E kind \in Kinds : Answered(t, kind)
    \/ UNCHANGED <<storageVars, tabVars>>

LEMMA BrowserSteps == [SessionsNext]_sessionVars => BrowserStep
<1> DEFINE Quiet == UNCHANGED <<storageVars, tabVars>>
<1>1. ASSUME NEW c, Handled(c) \/ Lose(c) PROVE Quiet
  BY <1>1 DEF Handled, LoginGranted, Refused, Served, LogoutServed, Lose
<1>2. ASSUME NEW d, Forgotten(d) PROVE Quiet
  BY <1>2 DEF Forgotten
<1>3. Restart \/ Tick \/ UNCHANGED sessionVars => Quiet
  BY DEF Restart, Tick, sessionVars
<1>4. ASSUME NEW t, NEW kind, NEW token, NEW role, Make(t, kind, token, role)
      PROVE  Quiet
  BY <1>4 DEF Make
<1> QED
  BY <1>1, <1>2, <1>3, <1>4
  DEF BrowserStep, SessionsNext, Poll, ClickWrite, SignOut, SubmitLogin

\* How the storage changes: it is cleared, or it takes what a login gave.
StorageChange ==
    \/ UNCHANGED storageVars
    \/ ClearSession
    \/ \E c \in calls : /\ StoreSession(c)
                        /\ c.kind = "login"
                        /\ c.status = "ok"

LEMMA StorageChanges ==
  ASSUME BrowserStep
  PROVE  StorageChange
<1>1. ASSUME NEW t, NEW kind, Answered(t, kind) PROVE StorageChange
  BY <1>1 DEF Answered, LoginAnswered, LogoutAnswered, OtherAnswered,
     StorageChange
<1> QED
  BY <1>1 DEF BrowserStep, Boot, Navigate, StorageChange

LEMMA StorageNext ==
  ASSUME SessionsInv, TokensOK', TokensPersist, BrowserStep
  PROVE  StorageOK'
<1>1. /\ Len(tokens) \in Nat /\ Len(tokens') \in Nat
      /\ \A k \in 1 .. Len(tokens) : k \in 1 .. Len(tokens')
                                     /\ tokens'[k] = tokens[k]
  <2>1. tokens \in Seq(Token) /\ tokens' \in Seq(Token)
    BY DEF SessionsInv, TokensOK, Token
  <2> QED
    BY <2>1 DEF TokensPersist
<1>2. CASE UNCHANGED storageVars
  BY <1>1, <1>2 DEF storageVars, SessionsInv, StorageOK, NoToken
<1>3. CASE ClearSession
  BY <1>1, <1>3 DEF ClearSession, StorageOK, NoToken
<1>4. ASSUME NEW c \in calls, StoreSession(c), c.kind = "login",
             c.status = "ok"
      PROVE  StorageOK'
  <2>1. /\ c.token \in 1 .. Len(tokens)
        /\ c.role \in LoginRoles
        /\ tokens[c.token].role = c.role
    BY <1>1, <1>4 DEF SessionsInv, CallsOK, CallOK, Call, NoToken
  <2> QED
    BY <1>1, <1>4, <2>1 DEF StoreSession, StorageOK, NoToken
<1> QED
  BY <1>2, <1>3, <1>4, StorageChanges DEF StorageChange

\* What a session bar that is up to date shows.
BarOf(role) == IF role \in Displayed THEN role ELSE NoRole

Shows(t) ==
    InApp(t) /\ t \notin switched /\ stored # NoToken
        => shown[t] = BarOf(storedRole)

LEMMA PagesAre ==
  PagesOK <=> /\ page \in [Tabs -> Page]
              /\ shown \in [Tabs -> LoginRoles \cup {NoRole}]
              /\ halted \cup switched \subseteq Tabs
              /\ \A t \in Tabs : Shows(t)
BY DEF PagesOK, Shows, BarOf

LEMMA PagesWillBe ==
  ASSUME page' \in [Tabs -> Page],
         shown' \in [Tabs -> LoginRoles \cup {NoRole}],
         halted' \cup switched' \subseteq Tabs,
         \A t \in Tabs : Shows(t)'
  PROVE  PagesOK'
BY DEF PagesOK, Shows, BarOf, InApp

LEMMA BootPages ==
  ASSUME PagesOK, StorageOK, NEW t \in Tabs, Boot(t)
  PROVE  PagesOK'
<1>1. /\ page \in [Tabs -> Page]
      /\ shown \in [Tabs -> LoginRoles \cup {NoRole}]
      /\ halted \cup switched \subseteq Tabs
      /\ \A u \in Tabs : Shows(u)
  BY PagesAre
<1>2. UNCHANGED <<stored, storedRole>>
  BY DEF Boot, storageVars
<1>3. CASE /\ page' = [page EXCEPT ![t].loaded = TRUE]
           /\ shown' = [shown EXCEPT ![t] = BarOf(storedRole)]
           /\ halted' = halted \ {t}
           /\ switched' = switched \ {t}
  <2>1. page' \in [Tabs -> Page]
    BY <1>1, <1>3 DEF Page
  <2>2. shown' \in [Tabs -> LoginRoles \cup {NoRole}]
    BY <1>1, <1>3, SessionBounds DEF BarOf
  <2>3. \A u \in Tabs : Shows(u)'
    <3>1. ASSUME NEW u \in Tabs, u # t PROVE Shows(u)'
      BY <1>1, <1>2, <1>3, <3>1 DEF Shows, InApp
    <3>2. Shows(t)'
      BY <1>1, <1>2, <1>3 DEF Shows
    <3> QED
      BY <3>1, <3>2
  <2> QED
    BY <1>1, <1>3, <2>1, <2>2, <2>3, PagesWillBe
<1>4. CASE /\ \E at \in {"login", "index"} : GoTo(t, at)
           /\ UNCHANGED <<shown, halted, switched>>
  <2>1. PICK at \in {"login", "index"} :
            page' = [page EXCEPT ![t] = [at |-> at, loaded |-> FALSE]]
    BY <1>4 DEF GoTo
  <2>2. page' \in [Tabs -> Page]
    BY <1>1, <2>1 DEF Page
  <2>3. \A u \in Tabs : Shows(u)'
    BY <1>1, <1>2, <1>4, <2>1 DEF Shows, InApp
  <2> QED
    BY <1>1, <1>4, <2>2, <2>3, PagesWillBe
<1> QED
  BY <1>3, <1>4 DEF Boot, BarOf

LEMMA LeavePages ==
  ASSUME PagesOK, NEW t \in Tabs, NEW at \in {"login", "index"}, GoTo(t, at),
         UNCHANGED shown, halted' \subseteq Tabs, switched' \subseteq Tabs,
         switched \subseteq switched',
         \/ UNCHANGED <<stored, storedRole>>
         \/ stored' = NoToken
         \/ \A u \in Tabs : InApp(u) => u \in switched'
  PROVE  PagesOK'
<1>1. page' = [page EXCEPT ![t] = [at |-> at, loaded |-> FALSE]]
      /\ page \in [Tabs -> Page]
  BY PagesAre DEF GoTo
<1>2. page' \in [Tabs -> Page]
  BY <1>1 DEF Page
<1>3. \A u \in Tabs : InApp(u)' => InApp(u)
  BY <1>1 DEF InApp
<1>4. \A u \in Tabs : Shows(u)'
  BY <1>3, PagesAre DEF Shows
<1> QED
  BY <1>2, <1>4, PagesAre, PagesWillBe

LEMMA AnsweredPages ==
  ASSUME SessionsInv, NEW t \in Tabs, NEW kind, Answered(t, kind)
  PROVE  PagesOK'
<1>1. PagesOK /\ UNCHANGED shown /\ halted \cup switched \subseteq Tabs
  BY DEF SessionsInv, PagesOK, Answered
<1>2. PICK c \in calls : LoginAnswered(t, c) \/ LogoutAnswered(t, c)
                            \/ OtherAnswered(t, c)
  BY DEF Answered
<1>3. halted' \subseteq Tabs
  BY <1>1, <1>2 DEF LoginAnswered, LogoutAnswered, OtherAnswered, Halting
<1>4. CASE LoginAnswered(t, c) /\ c.status = "ok"
  <2>1. GoTo(t, "index") /\ switched' = switched \cup {u \in Tabs : InApp(u)}
    BY <1>4 DEF LoginAnswered
  <2> QED
    BY <1>1, <1>3, <2>1, LeavePages
<1>5. CASE LogoutAnswered(t, c) \/ (OtherAnswered(t, c) /\ EndsSession(c))
  <2>1. /\ GoTo(t, "login")
        /\ UNCHANGED switched
        /\ stored' = NoToken
    BY <1>5 DEF LogoutAnswered, OtherAnswered, ClearSession
  <2> QED
    BY <1>1, <1>3, <2>1, LeavePages
<1>6. CASE UNCHANGED <<storageVars, page, switched>>
  <2>1. \A u \in Tabs : Shows(u)' <=> Shows(u)
    BY <1>1, <1>6 DEF Shows, InApp, storageVars
  <2> QED
    BY <1>1, <1>3, <1>6, <2>1, PagesAre, PagesWillBe
<1> QED
  BY <1>2, <1>4, <1>5, <1>6 DEF LoginAnswered, OtherAnswered

LEMMA PagesNext ==
  ASSUME SessionsInv, BrowserStep
  PROVE  PagesOK'
<1>1. ASSUME NEW t \in Tabs, Navigate(t) PROVE PagesOK'
  BY <1>1, LeavePages DEF Navigate, storageVars, SessionsInv, PagesOK
<1>2. CASE UNCHANGED <<storageVars, tabVars>>
  BY <1>2 DEF storageVars, tabVars, SessionsInv, PagesOK, InApp
<1> QED
  BY <1>1, <1>2, BootPages, AnsweredPages DEF BrowserStep, SessionsInv

(***************************************************************************)
(* The calls.                                                              *)
(***************************************************************************)

\* Where a call of the next state comes from: it was there, it was left
\* behind or lost, it was answered, or it is new.
Same(d) == d \in calls

Abandoned(d) ==
    \E c \in calls : \/ d = [c EXCEPT !.tab = NoTab]
                     \/ d = [c EXCEPT !.status = "lost"]

Obeyed(d) == \E c \in calls : /\ c.kind # "login"
                              /\ d = [c EXCEPT !.status = "ok"]

Turned(d) == \E c \in calls : /\ c.kind # "login" => ~Accepted(c.token)
                              /\ d = [c EXCEPT !.status = "refused"]

Granted(d) ==
    \E c \in calls :
        /\ c.kind = "login"
        /\ Len(tokens) < MaxTokens
        /\ tokens' = Append(tokens, [role |-> c.role, exp |-> clock + Ttl])
        /\ d = [c EXCEPT !.status = "ok", !.token = Len(tokens')]

Made(d) ==
    \E t \in Tabs :
        \/ d = NewCall(t, "poll", stored, NoRole)
        \/ d = NewCall(t, "logout", stored, NoRole)
        \/ \E role \in LoginRoles : d = NewCall(t, "login", NoToken, role)
        \/ /\ InApp(t)
           /\ storedRole \in Displayed
           /\ d = NewCall(t, "write", stored, shown[t])

Origin(d) ==
    \/ Same(d)
    \/ Abandoned(d)
    \/ /\ UNCHANGED serverVars
       /\ clock' = clock
       /\ Turned(d)
    \/ Obeyed(d)
    \/ Granted(d)
    \/ Made(d) /\ UNCHANGED tokens

LEMMA HandledOrigin ==
  ASSUME NEW c \in calls, Handled(c) \/ Lose(c), NEW d \in calls'
  PROVE  Origin(d)
<1>1. CASE LoginGranted(c)
  BY <1>1 DEF LoginGranted, Changed, Origin, Same, Granted
<1>2. CASE Refused(c)
  BY <1>2 DEF Refused, Changed, Origin, Same, Turned
<1>3. CASE Served(c) \/ LogoutServed(c)
  BY <1>3 DEF Served, LogoutServed, Changed, Origin, Same, Obeyed
<1>4. CASE Lose(c)
  BY <1>4 DEF Lose, Changed, Origin, Same, Abandoned
<1> QED
  BY <1>1, <1>2, <1>3, <1>4 DEF Handled

LEMMA LeftOrigin ==
  ASSUME NEW t, NEW d \in Left(t, calls)
  PROVE  Origin(d)
BY DEF Left, Origin, Same, Abandoned

LEMMA MadeOrigin ==
  ASSUME NEW t \in Tabs, NEW d \in calls',
         \/ Poll(t)
         \/ ClickWrite(t)
         \/ SignOut(t)
         \/ \E role \in LoginRoles : SubmitLogin(t, role)
  PROVE  Origin(d)
<1>1. UNCHANGED tokens
  BY DEF Poll, ClickWrite, SignOut, SubmitLogin, Make, serverVars
<1>2. Same(d) \/ Made(d)
  BY DEF Poll, ClickWrite, SignOut, SubmitLogin, Make, Same, Made
<1> QED
  BY <1>1, <1>2 DEF Origin

LEMMA CallOrigin ==
  ASSUME [SessionsNext]_sessionVars, NEW d \in calls'
  PROVE  Origin(d)
<1>1. ASSUME NEW t, NEW kind, Answered(t, kind) PROVE Origin(d)
  <2>1. PICK c \in calls : LoginAnswered(t, c) \/ LogoutAnswered(t, c)
                              \/ OtherAnswered(t, c)
    BY <1>1 DEF Answered
  <2>2. calls' = Left(t, calls) \/ calls' = calls \ {c}
    BY <2>1 DEF LoginAnswered, LogoutAnswered, OtherAnswered
  <2> QED
    BY <2>2, LeftOrigin DEF Origin, Same
<1>2. ASSUME NEW t, Navigate(t) PROVE Origin(d)
  BY <1>2, LeftOrigin DEF Navigate
<1>3. ASSUME \/ UNCHANGED calls
             \/ Restart
      PROVE  Origin(d)
  BY <1>3 DEF Restart, Origin, Same
<1>4. ASSUME \/ \E e \in denied : Forgotten(e)
             \/ Tick
             \/ \E t \in Tabs : Boot(t)
             \/ UNCHANGED sessionVars
      PROVE  UNCHANGED calls
  BY <1>4 DEF Forgotten, Tick, Boot, sessionVars
<1> QED
  BY <1>1, <1>2, <1>3, <1>4, HandledOrigin, MadeOrigin DEF SessionsNext

\* A token that is refused stays refused, until the API restarts.
LEMMA RefusedStays ==
  ASSUME SessionsInv, ServerStep, TokensPersist, RevocationsOK', TokensOK',
         restarts = 0, restarts' = 0,
         NEW k \in 0 .. Len(tokens), ~Accepted(k)
  PROVE  ~Accepted(k)'
<1>1. CASE k = NoToken
  BY <1>1 DEF Accepted
<1>2. CASE k # NoToken
  <2>1. /\ k \in 1 .. Len(tokens)
        /\ tokens[k].exp \in Nat
        /\ tokens'[k] = tokens[k]
        /\ clock \in Nat
    <3>1. k \in 1 .. Len(tokens)
      BY <1>2 DEF NoToken, SessionsInv, TokensOK
    <3> QED
      BY <3>1, DueIsExpiry, SessionBounds DEF TokensPersist, SessionsInv,
            TokensOK
  <2>2. \/ clock >= tokens[k].exp
        \/ k \in {d.token : d \in denied}
    BY <1>2, <2>1 DEF Accepted
  <2>3. clock' >= clock /\ clock' \in Nat
    <3>1. \/ clock' = clock
          \/ clock' = clock + 1
      BY DEF ServerStep, LoginGranted, LogoutServed, Forgotten, Restart, Tick
    <3> QED
      BY <2>1, <3>1
  <2>4. CASE clock >= tokens[k].exp
    BY <2>1, <2>3, <2>4 DEF Accepted
  <2>5. ASSUME NEW d \in denied, d.token = k, ~(clock >= tokens[k].exp)
        PROVE  d \in denied'
    <3>1. d.due = tokens[k].exp
      BY <2>5 DEF SessionsInv, RevocationsOK
    <3>2. ASSUME NEW e \in denied, Forgotten(e) PROVE d \in denied'
      BY <2>5, <3>1, <3>2 DEF Forgotten
    <3>3. ~Restart
      BY DEF Restart, SessionsInv, CountersOK
    <3>4. ASSUME NEW c, LoginGranted(c) \/ LogoutServed(c) PROVE d \in denied'
      BY <3>4 DEF LoginGranted, LogoutServed
    <3> QED
      BY <3>2, <3>3, <3>4 DEF ServerStep, Tick, serverVars
  <2> QED
    BY <2>1, <2>2, <2>4, <2>5 DEF Accepted
<1> QED
  BY <1>1, <1>2

\* What the steps of the API leave of the tokens and of what is refused.
Carried ==
    /\ Len(tokens) \in Nat
    /\ Len(tokens') \in Nat
    /\ Len(tokens) <= Len(tokens')
    /\ Len(tokens') <= MaxTokens
    /\ \A k \in 1 .. Len(tokens) : tokens'[k] = tokens[k]
    /\ restarts' = 0 =>
            /\ restarts = 0
            /\ \A k \in 0 .. Len(tokens) : ~Accepted(k) => ~Accepted(k)'

LEMMA ServerCarries ==
  ASSUME SessionsInv, ServerStep, TokensPersist, RevocationsOK', TokensOK'
  PROVE  Carried
<1>1. tokens \in Seq(Token) /\ tokens' \in Seq(Token)
      /\ Len(tokens') <= MaxTokens
  BY DEF SessionsInv, TokensOK, Token
<1>2. restarts' = 0 => restarts = 0
  <2>1. restarts \in Nat
    BY SessionBounds DEF SessionsInv, CountersOK
  <2>2. restarts' = restarts \/ restarts' = restarts + 1
    BY DEF ServerStep, LoginGranted, LogoutServed, Forgotten, Restart, Tick,
       faultVars
  <2> QED
    BY <2>1, <2>2
<1> QED
  BY <1>1, <1>2, RefusedStays DEF Carried, TokensPersist

\* The fields of a call that a change of its tab or its status leaves alone.
Twin(c, d) ==
    /\ d.tab \in {c.tab, NoTab}
    /\ d.kind = c.kind
    /\ d.role = c.role
    /\ d.switched = c.switched

LEMMA TwinOK ==
  ASSUME Carried, NEW c, CallOK(c), NEW d \in Call, Twin(c, d),
         d.token = c.token,
         d.status = "ok" => c.status = "ok" \/ c.kind # "login",
         d.status = "refused" => \/ c.status = "refused"
                                 \/ c.kind # "login" => ~Accepted(c.token)
  PROVE  CallOK(d)'
<1>1. c \in Call /\ c.token \in 0 .. Len(tokens) /\ Len(tokens) \in Nat
  BY DEF CallOK, Carried, Call
<1>2. d.token <= Len(tokens')
  BY <1>1 DEF Carried
<1>3. d.kind = "login" => d.role \in LoginRoles
  BY DEF CallOK, Twin
<1>4. d.token # NoToken => tokens'[d.token] = tokens[d.token]
  BY <1>1 DEF Carried, NoToken
<1>5. d.kind = "login" /\ d.status = "ok"
            => d.token # NoToken /\ tokens'[d.token].role = d.role
  BY <1>4 DEF CallOK, Twin
<1>6. d.kind = "write" /\ ~d.switched /\ d.token # NoToken
            => tokens'[d.token].role = d.role
  BY <1>4 DEF CallOK, Twin
<1>7. restarts' = 0 /\ d.status = "refused" /\ d.kind # "login"
            => ~Accepted(d.token)'
  BY <1>1 DEF CallOK, Twin, Carried
<1> QED
  BY <1>2, <1>3, <1>5, <1>6, <1>7 DEF CallOK

LEMMA AbandonedOK ==
  ASSUME CallsOK, Carried, NEW d, Same(d) \/ Abandoned(d)
  PROVE  CallOK(d)'
<1>1. ASSUME NEW c \in calls,
             d = [c EXCEPT !.tab = NoTab] \/ d = [c EXCEPT !.status = "lost"]
      PROVE  CallOK(d)'
  <2>1. c \in Call /\ CallOK(c)
    BY <1>1 DEF CallsOK, CallOK
  <2>2. /\ d \in Call
        /\ Twin(c, d)
        /\ d.token = c.token
        /\ d.status \in {c.status, "lost"}
    BY <1>1, <2>1 DEF Call, Twin
  <2> QED
    BY <2>1, <2>2, TwinOK
<1>2. ASSUME Same(d) PROVE CallOK(d)'
  BY <1>2, TwinOK DEF Same, CallsOK, CallOK, Twin
<1> QED
  BY <1>1, <1>2 DEF Abandoned

LEMMA AnswerOK ==
  ASSUME CallsOK, Carried, NEW d,
         Obeyed(d) \/ (UNCHANGED serverVars /\ clock' = clock /\ Turned(d))
  PROVE  CallOK(d)'
<1>1. ASSUME NEW c \in calls, c.kind # "login", d = [c EXCEPT !.status = "ok"]
      PROVE  CallOK(d)'
  <2>1. c \in Call /\ CallOK(c)
    BY <1>1 DEF CallsOK, CallOK
  <2>2. /\ d \in Call
        /\ Twin(c, d)
        /\ d.token = c.token
        /\ d.status = "ok"
    BY <1>1, <2>1 DEF Call, Twin
  <2> QED
    BY <1>1, <2>1, <2>2, TwinOK
<1>2. ASSUME NEW c \in calls, c.kind # "login" => ~Accepted(c.token),
             d = [c EXCEPT !.status = "refused"]
      PROVE  CallOK(d)'
  <2>1. c \in Call /\ CallOK(c)
    BY <1>2 DEF CallsOK, CallOK
  <2>2. /\ d \in Call
        /\ Twin(c, d)
        /\ d.token = c.token
        /\ d.status = "refused"
    BY <1>2, <2>1 DEF Call, Twin
  <2> QED
    BY <1>2, <2>1, <2>2, TwinOK
<1> QED
  BY <1>1, <1>2 DEF Obeyed, Turned

LEMMA GrantOK ==
  ASSUME SessionsInv, Carried, NEW d, Granted(d)
  PROVE  CallOK(d)'
<1>1. PICK c \in calls :
        /\ c.kind = "login"
        /\ tokens' = Append(tokens, [role |-> c.role, exp |-> clock + Ttl])
        /\ d = [c EXCEPT !.status = "ok", !.token = Len(tokens')]
  BY DEF Granted
<1>2. c \in Call /\ CallOK(c) /\ c.role \in LoginRoles
  BY <1>1 DEF SessionsInv, CallsOK, CallOK
<1>3. PICK k : k = [role |-> c.role, exp |-> clock + Ttl]
  OBVIOUS
<1>4. k \in Token /\ k.role = c.role
  BY <1>2, <1>3, SessionBounds DEF Token, SessionsInv, TokensOK
<1>5. tokens \in Seq(Token) /\ Len(tokens') = Len(tokens) + 1
      /\ tokens'[Len(tokens')] = k
  BY <1>1, <1>3, <1>4 DEF SessionsInv, TokensOK
<1>6. PICK n : n = Len(tokens')
  OBVIOUS
<1>7. n \in 0 .. MaxTokens /\ n # 0
  BY <1>5, <1>6, SessionBounds DEF Carried
<1>8. d = [c EXCEPT !.status = "ok", !.token = n]
  BY <1>1, <1>6
<1>9. /\ d \in Call
      /\ d.kind = "login" /\ d.status = "ok" /\ d.role = c.role
      /\ d.token = n
  BY <1>1, <1>2, <1>7, <1>8 DEF Call
<1>10. tokens'[d.token].role = d.role
  BY <1>4, <1>5, <1>6, <1>9
<1> QED
  BY <1>2, <1>6, <1>7, <1>9, <1>10 DEF CallOK, NoToken, Carried

LEMMA MadeOK ==
  ASSUME SessionsInv, Carried, UNCHANGED tokens, NEW d, Made(d)
  PROVE  CallOK(d)'
<1>1. PICK t \in Tabs :
        \/ d = NewCall(t, "poll", stored, NoRole)
        \/ d = NewCall(t, "logout", stored, NoRole)
        \/ \E role \in LoginRoles : d = NewCall(t, "login", NoToken, role)
        \/ /\ InApp(t)
           /\ storedRole \in Displayed
           /\ d = NewCall(t, "write", stored, shown[t])
  BY DEF Made
<1>2. /\ stored \in 0 .. Len(tokens)
      /\ Len(tokens) <= MaxTokens
      /\ shown[t] \in LoginRoles \cup {NoRole}
  BY DEF SessionsInv, StorageOK, PagesOK, TokensOK
<1>3. d \in Call
  <2>1. \E late \in BOOLEAN : late = (t \in switched)
    <3>1. CASE t \in switched
      <4>1. TRUE = (t \in switched)
        BY <3>1
      <4> QED
        BY <4>1
    <3>2. CASE t \notin switched
      <4>1. FALSE = (t \in switched)
        BY <3>2
      <4> QED
        BY <4>1
    <3> QED
      BY <3>1, <3>2
  <2>2. stored \in 0 .. MaxTokens /\ NoToken \in 0 .. MaxTokens
    BY <1>2, SessionBounds DEF Carried, NoToken
  <2>3. ASSUME NEW kind \in Kinds, NEW token \in 0 .. MaxTokens,
               NEW role \in LoginRoles \cup {NoRole}
        PROVE  NewCall(t, kind, token, role) \in Call
    <3>1. PICK late \in BOOLEAN : late = (t \in switched)
      BY <2>1
    <3>2. NewCall(t, kind, token, role) =
            [tab |-> t, kind |-> kind, token |-> token, role |-> role,
             switched |-> late, status |-> "sent"]
      BY <3>1 DEF NewCall
    <3> QED
      BY <3>2 DEF Call
  <2> QED
    BY <1>1, <1>2, <2>2, <2>3 DEF Kinds
<1>4. /\ d.token \in {stored, NoToken}
      /\ d.status = "sent"
      /\ d.switched = (t \in switched)
      /\ d.kind = "login" => d.role \in LoginRoles
  BY <1>1 DEF NewCall
<1>5. d.kind = "write" => /\ InApp(t)
                          /\ storedRole \in Displayed
                          /\ d.token = stored
                          /\ d.role = shown[t]
  BY <1>1 DEF NewCall
<1>6. d.kind = "write" /\ ~d.switched /\ d.token # NoToken
            => tokens[d.token].role = d.role
  BY <1>4, <1>5 DEF SessionsInv, PagesOK, StorageOK
<1>7. d.token <= Len(tokens)
  BY <1>2, <1>4 DEF NoToken, Carried
<1> QED
  BY <1>3, <1>4, <1>6, <1>7 DEF CallOK

LEMMA CallsNext ==
  ASSUME SessionsInv, Carried, [SessionsNext]_sessionVars
  PROVE  CallsOK'
<1>1. ASSUME NEW d \in calls' PROVE CallOK(d)'
  BY <1>1, CallOrigin, AbandonedOK, AnswerOK, GrantOK, MadeOK
  DEF Origin, SessionsInv
<1> QED
  BY <1>1 DEF CallsOK

(***************************************************************************)
(* The rest, and the theorems.                                             *)
(***************************************************************************)

LEMMA CountersNext ==
  ASSUME CountersOK, [SessionsNext]_sessionVars
  PROVE  CountersOK'
<1>1. /\ acts' = acts \/ (acts < MaxActs /\ acts' = acts + 1)
      /\ UNCHANGED faultVars
         \/ (losses + restarts < MaxFaults /\ losses' = losses + 1
                /\ restarts' = restarts)
         \/ (losses + restarts < MaxFaults /\ restarts' = restarts + 1
                /\ losses' = losses)
  BY DEF SessionsNext, sessionVars, Handled, LoginGranted, Refused, Served,
     LogoutServed, Lose, Forgotten, Restart, Tick, Boot, Navigate, Poll,
     ClickWrite, SignOut, SubmitLogin, Make, Answered, UserActs
<1> QED
  BY <1>1, SessionBounds DEF CountersOK, faultVars

LEMMA NobodyMisattributed ==
  ASSUME SessionsInv, [SessionsNext]_sessionVars
  PROVE  misattributed' = FALSE
<1>1. ASSUME NEW c \in calls, Served(c) PROVE misattributed' = FALSE
  <2>1. c.kind = "write" /\ ~c.switched => tokens[c.token].role = c.role
    BY <1>1 DEF Served, Accepted, SessionsInv, CallsOK, CallOK
  <2> QED
    BY <1>1, <2>1 DEF Served, SessionsInv
<1>2. ASSUME UNCHANGED misattributed PROVE misattributed' = FALSE
  BY <1>2 DEF SessionsInv
<1> QED
  BY <1>1, <1>2 DEF SessionsNext, sessionVars, Handled, LoginGranted, Refused,
     LogoutServed, Lose, Forgotten, Restart, Tick, Boot, Navigate, Poll,
     ClickWrite, SignOut, SubmitLogin, Make, Answered

LEMMA SessionsInvNext ==
  ASSUME SessionsInv, [SessionsNext]_sessionVars
  PROVE  SessionsInv'
<1>1. ServerStep /\ BrowserStep
  BY ServerSteps, BrowserSteps
<1>2. TokensOK' /\ TokensPersist /\ RevocationsOK'
  BY <1>1, TokensNext, RevocationsNext
<1>3. Carried
  BY <1>1, <1>2, ServerCarries
<1>4. StorageOK' /\ PagesOK'
  BY <1>1, <1>2, StorageNext, PagesNext
<1>5. CallsOK' /\ CountersOK' /\ misattributed' = FALSE
  BY <1>3, CallsNext, CountersNext, NobodyMisattributed DEF SessionsInv
<1> QED
  BY <1>2, <1>4, <1>5 DEF SessionsInv

THEOREM SessionsInvariant == SessionsSpec => []SessionsInv
<1> QED
  BY SessionsInvInit, SessionsInvNext, PTL DEF SessionsSpec

\* Every variable of the sessions keeps its type.
THEOREM SessionsTypeCorrect == SessionsSpec => []SessionsTypeOK
<1>1. ASSUME SessionsInv PROVE SessionsTypeOK
  <2>1. /\ clock \in 0 .. MaxClock
        /\ tokens \in Seq([role : LoginRoles, exp : Nat])
        /\ Len(tokens) <= MaxTokens
    BY <1>1 DEF SessionsInv, TokensOK, Token
  <2>2. /\ denied \subseteq [token : 1 .. Len(tokens), due : Nat]
        /\ signedOut \subseteq 1 .. Len(tokens)
    BY <1>1 DEF SessionsInv, RevocationsOK, Revocation
  <2>3. stored \in 0 .. Len(tokens) /\ storedRole \in LoginRoles \cup {NoRole}
    BY <1>1 DEF SessionsInv, StorageOK
  <2>4. /\ page \in [Tabs -> Page]
        /\ shown \in [Tabs -> LoginRoles \cup {NoRole}]
        /\ halted \cup switched \subseteq Tabs
    BY <1>1 DEF SessionsInv, PagesOK
  <2>5. calls \subseteq Call /\ \A c \in calls : c.token <= Len(tokens)
    BY <1>1 DEF SessionsInv, CallsOK, CallOK
  <2>6. acts \in 0 .. MaxActs /\ {losses, restarts} \subseteq 0 .. MaxFaults
    BY <1>1 DEF SessionsInv, CountersOK
  <2>7. misattributed \in BOOLEAN
    BY <1>1 DEF SessionsInv
  <2> QED
    BY <2>1, <2>2, <2>3, <2>4, <2>5, <2>6, <2>7 DEF SessionsTypeOK
<1> QED
  BY <1>1, SessionsInvariant, PTL

\* A token signed out with is not accepted again while the API runs: what is
\* dropped from the deny-list has expired.
THEOREM SignedOutTokensStayOut == SessionsSpec => []SignedOutStaysOut
<1>1. ASSUME SessionsInv PROVE SignedOutStaysOut
  <2> SUFFICES ASSUME NEW k \in signedOut PROVE ~Accepted(k)
    BY DEF SignedOutStaysOut
  <2>1. /\ k \in 1 .. Len(tokens)
        /\ clock >= tokens[k].exp \/ k \in {d.token : d \in denied}
    BY <1>1 DEF SessionsInv, RevocationsOK
  <2>2. clock \in Nat /\ tokens[k].exp \in Nat
    BY <1>1, <2>1, DueIsExpiry, SessionBounds DEF SessionsInv, TokensOK
  <2> QED
    BY <2>1, <2>2 DEF Accepted
<1> QED
  BY <1>1, SessionsInvariant, PTL

\* Whoever writes is who the session bar shows, unless somebody signed in
\* again in another tab.
THEOREM BarTellsWhoWrites == SessionsSpec => []WritesAsShown
<1>1. SessionsInv => WritesAsShown
  BY DEF SessionsInv, WritesAsShown
<1> QED
  BY <1>1, SessionsInvariant, PTL

\* A session that is alive is dropped only by the answer to a sign-out or by
\* a refusal of an earlier token, which also takes the tab to the login page.
THEOREM LiveSessionsAreKept == SessionsSpec => LiveSessionKept
<1>1. ASSUME SessionsInv, [SessionsNext]_sessionVars, restarts = 0,
             Accepted(stored), stored' = NoToken
      PROVE  \E c \in calls \ calls' :
                /\ EndsLive(c)
                /\ page'[c.tab] = [at |-> "login", loaded |-> FALSE]
  <2>1. stored # NoToken
    BY <1>1 DEF Accepted
  <2>2. PICK t \in Tabs, kind \in Kinds : Answered(t, kind)
    <3>1. ASSUME NEW t, Boot(t) \/ Navigate(t) PROVE UNCHANGED stored
      BY <3>1 DEF Boot, Navigate, storageVars
    <3> QED
      BY <1>1, <2>1, <3>1, BrowserSteps DEF BrowserStep, storageVars
  <2>3. PICK c \in calls :
            /\ c.tab = t
            /\ c.status # "sent"
            /\ LoginAnswered(t, c) \/ LogoutAnswered(t, c)
                \/ OtherAnswered(t, c)
    BY <2>2 DEF Answered
  <2>4. CallOK(c)
    BY <1>1 DEF SessionsInv, CallsOK
  <2>5. ~LoginAnswered(t, c)
    BY <1>1, <2>1, <2>4 DEF LoginAnswered, StoreSession, storageVars, CallOK
  <2>6. LogoutAnswered(t, c) => c.kind = "logout"
    BY DEF LogoutAnswered
  <2>7. OtherAnswered(t, c) =>
            /\ c.kind \in {"poll", "write"}
            /\ c.status = "refused"
            /\ ~Accepted(c.token)
    BY <1>1, <2>1, <2>4 DEF OtherAnswered, EndsSession, storageVars, CallOK
  <2>8. EndsLive(c)
    BY <1>1, <2>3, <2>5, <2>6, <2>7 DEF EndsLive
  <2>9. GoTo(t, "login") /\ calls' = Left(t, calls)
    BY <2>3, <2>5, <2>7 DEF LogoutAnswered, OtherAnswered, EndsSession
  <2>10. page'[c.tab] = [at |-> "login", loaded |-> FALSE]
    <3>1. page \in [Tabs -> Page]
      BY <1>1 DEF SessionsInv, PagesOK
    <3> QED
      BY <2>3, <2>9, <3>1 DEF GoTo
  <2>11. c \notin calls'
    <3>1. c.tab # NoTab
      BY <2>3, SessionsAssumption
    <3>2. \A d : [d EXCEPT !.tab = NoTab] = c /\ d \in Call => FALSE
      BY <3>1 DEF Call
    <3> QED
      BY <1>1, <2>3, <2>9, <3>2 DEF Left, SessionsInv, CallsOK, CallOK
  <2> QED
    BY <2>8, <2>10, <2>11
<1>2. SessionsInv /\ [SessionsNext]_sessionVars
        => [restarts = 0 /\ Accepted(stored) /\ stored' = NoToken =>
                \E c \in calls \ calls' :
                    /\ EndsLive(c)
                    /\ page'[c.tab] = [at |-> "login", loaded |-> FALSE]
           ]_sessionVars
  BY <1>1
<1> QED
  BY <1>2, SessionsInvariant, PTL DEF SessionsSpec, LiveSessionKept

=============================================================================
