------------------------------- MODULE Sessions -------------------------------
(***************************************************************************)
(* Sessions: the tokens the API issues, revokes and forgets                *)
(* (api/lib/auth.js, api/routes.auth.js), and the browser that keeps one   *)
(* of them in a localStorage shared by its tabs (dashboard/js/chain.js,    *)
(* ui.js, login.js).                                                       *)
(*                                                                         *)
(* Every call carries the token stored when it is made; its answer may     *)
(* come after another tab has signed out or in.  A page that is left takes *)
(* the continuations of its calls with it, though the API may still carry  *)
(* out what was sent.  The API forgets its revocations when it restarts.   *)
(***************************************************************************)
EXTENDS Integers, Sequences, FiniteSets

CONSTANTS
    Tabs,         \* tabs of the browser
    NoTab,        \* the page a call was made from is gone
    LoginRoles,   \* identities that may sign in
    NoRole,       \* null
    Displayed,    \* those the dashboard has a label for
    Ttl,          \* life of a token
    TimerMax,     \* longest delay a timer of the API's runtime can have
    MaxClock,     \* bound: the clock
    MaxTokens,    \* bound: tokens issued
    MaxActs,      \* bound: what the users do: sign in or out, write, reload
    MaxFaults     \* bound: calls and answers lost and restarts of the API

ASSUME SessionsAssumption ==
    /\ NoTab \notin Tabs
    /\ NoRole \notin LoginRoles
    /\ Displayed \subseteq LoginRoles
    /\ {Ttl, TimerMax, MaxClock, MaxTokens, MaxActs, MaxFaults}
            \subseteq Nat

\* JWT_TTL may be set to anything; the default of an hour is far below the
\* 24.8 days of a timer.
ASSUME TtlAssumption == Ttl <= TimerMax

VARIABLES
    clock,
    tokens,      \* the tokens issued: the role and the time of expiry
    denied,      \* revokedJtis: a token, and when its timer is due
    stored,      \* localStorage: the token
    storedRole,  \* localStorage: the role
    page,        \* tab -> the page it shows, or the one it is loading
    shown,       \* tab -> who its session bar says is signed in
    halted,      \* tabs whose first refresh failed, so that there is no other
    calls,       \* calls in flight
    acts,
    losses,
    restarts,
    signedOut,   \* ghost: tokens revoked since the API was started
    switched,    \* ghost: tabs loaded before somebody signed in again
    misattributed \* ghost: a write was done as another than the bar shows

serverVars == <<tokens, denied, signedOut>>
storageVars == <<stored, storedRole>>
tabVars == <<page, shown, halted, switched>>
faultVars == <<losses, restarts>>
sessionVars == <<clock, serverVars, storageVars, tabVars, calls, acts,
                 faultVars, misattributed>>

NoToken == 0

Page == [at : {"login", "index"}, loaded : BOOLEAN]

Kinds == {"poll", "write", "logout", "login"}

Call ==
    [tab : Tabs \cup {NoTab}, kind : Kinds, token : 0 .. MaxTokens,
     role : LoginRoles \cup {NoRole}, switched : BOOLEAN,
     status : {"sent", "ok", "refused", "lost"}]

SessionsTypeOK ==
    /\ clock \in 0 .. MaxClock
    /\ tokens \in Seq([role : LoginRoles, exp : Nat])
    /\ Len(tokens) <= MaxTokens
    /\ denied \subseteq [token : 1 .. Len(tokens), due : Nat]
    /\ signedOut \subseteq 1 .. Len(tokens)
    /\ stored \in 0 .. Len(tokens)
    /\ storedRole \in LoginRoles \cup {NoRole}
    /\ page \in [Tabs -> Page]
    /\ shown \in [Tabs -> LoginRoles \cup {NoRole}]
    /\ halted \cup switched \subseteq Tabs
    /\ calls \subseteq Call
    /\ \A c \in calls : c.token <= Len(tokens)
    /\ acts \in 0 .. MaxActs
    /\ {losses, restarts} \subseteq 0 .. MaxFaults
    /\ misattributed \in BOOLEAN

SessionsInit ==
    /\ clock = 0
    /\ tokens = <<>>
    /\ denied = {}
    /\ signedOut = {}
    /\ stored = NoToken
    /\ storedRole = NoRole
    /\ page = [t \in Tabs |-> [at |-> "login", loaded |-> TRUE]]
    /\ shown = [t \in Tabs |-> NoRole]
    /\ halted = {}
    /\ switched = {}
    /\ calls = {}
    /\ acts = 0
    /\ losses = 0
    /\ restarts = 0
    /\ misattributed = FALSE

-----------------------------------------------------------------------------
(* The API. *)

\* required: signed, not expired, not revoked.
Accepted(token) ==
    /\ token # NoToken
    /\ clock < tokens[token].exp
    /\ token \notin {d.token : d \in denied}

\* Mutant: the expiry, in seconds, is taken for milliseconds.
DueAtOnce(token) == clock

\* When the timer that drops a revocation is due.  A delay too long for a
\* timer is taken for the shortest one.
Due(token) ==
    IF tokens[token].exp - clock > TimerMax THEN clock ELSE tokens[token].exp

Changed(c, d) == (calls \ {c}) \cup (IF c.tab = NoTab THEN {} ELSE {d})

\* The password is right, and the caller is not over the limit of attempts.
LoginGranted(c) ==
    /\ c.kind = "login"
    /\ c.status = "sent"
    /\ Len(tokens) < MaxTokens
    /\ tokens' = Append(tokens, [role |-> c.role, exp |-> clock + Ttl])
    /\ calls' = Changed(c, [c EXCEPT !.status = "ok", !.token = Len(tokens')])
    /\ UNCHANGED <<clock, denied, signedOut, storageVars, tabVars, faultVars,
                   misattributed, acts>>

\* 401 for a login is a wrong password, 429 one attempt too many.
Refused(c) ==
    /\ c.status = "sent"
    /\ c.kind # "login" => ~Accepted(c.token)
    /\ calls' = Changed(c, [c EXCEPT !.status = "refused"])
    /\ UNCHANGED <<clock, serverVars, storageVars, tabVars, faultVars,
                   misattributed, acts>>

\* A write is done as the role of its token, whatever its body says.
Served(c) ==
    /\ c.kind \in {"poll", "write"}
    /\ c.status = "sent"
    /\ Accepted(c.token)
    /\ calls' = Changed(c, [c EXCEPT !.status = "ok"])
    /\ misattributed' = \/ misattributed
                        \/ /\ c.kind = "write"
                           /\ ~c.switched
                           /\ tokens[c.token].role # c.role
    /\ UNCHANGED <<clock, serverVars, storageVars, tabVars, faultVars, acts>>

\* revokeToken.
LogoutServed(c) ==
    /\ c.kind = "logout"
    /\ c.status = "sent"
    /\ Accepted(c.token)
    /\ denied' = denied \cup {[token |-> c.token, due |-> Due(c.token)]}
    /\ signedOut' = signedOut \cup {c.token}
    /\ calls' = Changed(c, [c EXCEPT !.status = "ok"])
    /\ UNCHANGED <<clock, tokens, storageVars, tabVars, faultVars,
                   misattributed, acts>>

Forgotten(d) ==
    /\ clock >= d.due
    /\ denied' = denied \ {d}
    /\ UNCHANGED <<clock, tokens, signedOut, storageVars, tabVars, calls,
                   faultVars, misattributed, acts>>

\* The deny-list lives in memory; what was not answered never will be.
Restart ==
    /\ losses + restarts < MaxFaults
    /\ restarts' = restarts + 1
    /\ denied' = {}
    /\ signedOut' = {}
    /\ calls' = {c \in calls : c.tab # NoTab \/ c.status # "sent"}
    /\ UNCHANGED <<clock, tokens, storageVars, tabVars, losses, misattributed,
                   acts>>

Tick ==
    /\ clock < MaxClock
    /\ clock' = clock + 1
    /\ UNCHANGED <<serverVars, storageVars, tabVars, calls, faultVars,
                   misattributed, acts>>

-----------------------------------------------------------------------------
(* The browser. *)

Pending(t, kind) == \E c \in calls : c.tab = t /\ c.kind = kind

NewCall(t, kind, token, role) ==
    [tab |-> t, kind |-> kind, token |-> token, role |-> role,
     switched |-> t \in switched, status |-> "sent"]

\* A tab that goes elsewhere: none of its calls will be heard of again.
Left(t, others) ==
    {c \in others : c.tab # t} \cup
    {[c EXCEPT !.tab = NoTab] : c \in {d \in others :
        d.tab = t /\ d.status = "sent" /\ d.kind \in {"write", "logout"}}}

GoTo(t, at) == page' = [page EXCEPT ![t] = [at |-> at, loaded |-> FALSE]]

\* The scripts of the new page look at the storage first: login.js leaves
\* for the index with a session, boot leaves for the login page without.
Boot(t) ==
    /\ ~page[t].loaded
    /\ LET signedIn == stored # NoToken
       IN  IF signedIn # (page[t].at = "login")
           THEN /\ page' = [page EXCEPT ![t].loaded = TRUE]
                /\ shown' = [shown EXCEPT ![t] = IF storedRole \in Displayed
                                                THEN storedRole ELSE NoRole]
                /\ halted' = halted \ {t}
                /\ switched' = switched \ {t}
           ELSE /\ GoTo(t, IF signedIn THEN "index" ELSE "login")
                /\ UNCHANGED <<shown, halted, switched>>
    /\ UNCHANGED <<clock, serverVars, storageVars, calls, faultVars,
                   misattributed, acts>>

UserActs == acts < MaxActs /\ acts' = acts + 1

InApp(t) == page[t].loaded /\ page[t].at # "login"

\* The user opens another page of the dashboard, or the same one again.
Navigate(t) ==
    /\ InApp(t)
    /\ UserActs
    /\ GoTo(t, "index")
    /\ calls' = Left(t, calls)
    /\ UNCHANGED <<clock, serverVars, storageVars, shown, halted, switched,
                   faultVars, misattributed>>

Make(t, kind, token, role) ==
    /\ ~Pending(t, kind)
    /\ calls' = calls \cup {NewCall(t, kind, token, role)}
    /\ UNCHANGED <<clock, serverVars, storageVars, tabVars, faultVars,
                   misattributed>>

\* The overview asks for the nodes when it has loaded and, if that succeeds,
\* every four seconds.  (The other pages have its buttons and no such
\* interval, their connection light asks for nothing that needs a session;
\* they are left out.)
Poll(t) ==
    /\ page[t] = [at |-> "index", loaded |-> TRUE]
    /\ t \notin halted
    /\ Make(t, "poll", stored, NoRole)
    /\ UNCHANGED acts

\* A button of a page.  Without a role the dashboard knows it fails at once.
ClickWrite(t) ==
    /\ InApp(t)
    /\ storedRole \in Displayed
    /\ UserActs
    /\ Make(t, "write", stored, shown[t])

SignOut(t) ==
    /\ InApp(t)
    /\ UserActs
    /\ Make(t, "logout", stored, NoRole)

SubmitLogin(t, role) ==
    /\ page[t] = [at |-> "login", loaded |-> TRUE]
    /\ UserActs
    /\ Make(t, "login", NoToken, role)

\* A call, or its answer, does not get through.
Lose(c) ==
    /\ losses + restarts < MaxFaults
    /\ c.tab # NoTab
    /\ c.status # "lost"
    /\ losses' = losses + 1
    /\ calls' = Changed(c, [c EXCEPT !.status = "lost"])
    /\ UNCHANGED <<clock, serverVars, storageVars, tabVars, restarts,
                   misattributed, acts>>

\* Mutant: the token stays.
ClearRole == storedRole' = NoRole /\ UNCHANGED stored

ClearSession == stored' = NoToken /\ storedRole' = NoRole

\* Mutant: the role of the session before stays.
StoreTokenOnly(c) ==
    /\ stored' = c.token
    /\ storedRole' = IF storedRole = NoRole THEN c.role ELSE storedRole

StoreSession(c) == stored' = c.token /\ storedRole' = c.role

LoginAnswered(t, c) ==
    /\ c.kind = "login"
    /\ IF c.status = "ok"
       THEN /\ StoreSession(c)
            /\ GoTo(t, "index")
            /\ switched' = switched \cup {u \in Tabs : InApp(u)}
       ELSE UNCHANGED <<storageVars, page, switched>>
    /\ calls' = calls \ {c}
    /\ UNCHANGED halted

\* Whatever came of it, the session is dropped.
LogoutAnswered(t, c) ==
    /\ c.kind = "logout"
    /\ ClearSession
    /\ GoTo(t, "login")
    /\ calls' = Left(t, calls)
    /\ UNCHANGED <<halted, switched>>

\* Mutant: any failure is taken for the end of the session.
EndsSessionOnFailure(c) == c.status \in {"refused", "lost"}

EndsSession(c) == c.status = "refused"

\* A first refresh that fails takes the interval with it.  (Which refresh is
\* the first is not kept: any that gets no answer may be it.)
Halting(t, c) ==
    halted' \in IF c.kind = "poll" /\ c.status = "lost"
                THEN {halted, halted \cup {t}}
                ELSE {halted}

OtherAnswered(t, c) ==
    /\ c.kind \in {"poll", "write"}
    /\ IF EndsSession(c)
       THEN ClearSession /\ GoTo(t, "login") /\ calls' = Left(t, calls)
       ELSE UNCHANGED <<storageVars, page>> /\ calls' = calls \ {c}
    /\ Halting(t, c)
    /\ UNCHANGED switched

Answered(t, kind) ==
    /\ \E c \in calls :
        /\ c.tab = t
        /\ c.kind = kind
        /\ c.status # "sent"
        /\ LoginAnswered(t, c) \/ LogoutAnswered(t, c) \/ OtherAnswered(t, c)
    /\ UNCHANGED <<clock, serverVars, shown, faultVars, misattributed, acts>>

Handled(c) == LoginGranted(c) \/ Refused(c) \/ Served(c) \/ LogoutServed(c)

SessionsNext ==
    \/ \E c \in calls : Handled(c) \/ Lose(c)
    \/ \E d \in denied : Forgotten(d)
    \/ Restart
    \/ Tick
    \/ \E t \in Tabs :
            \/ Boot(t)
            \/ Navigate(t)
            \/ Poll(t)
            \/ ClickWrite(t)
            \/ SignOut(t)
            \/ \E role \in LoginRoles : SubmitLogin(t, role)
            \/ \E kind \in Kinds : Answered(t, kind)

\* Pages load, the overview's interval fires, and what is called is carried
\* out and answered; whatever a user does or the clock brings is not due.
SessionsFairness ==
    \A t \in Tabs :
        /\ WF_sessionVars(Boot(t))
        /\ WF_sessionVars(Poll(t))
        /\ \A kind \in Kinds :
            /\ WF_sessionVars(\E c \in calls :
                    c.tab = t /\ c.kind = kind /\ Handled(c))
            /\ WF_sessionVars(Answered(t, kind))

SessionsSpec ==
    SessionsInit /\ [][SessionsNext]_sessionVars /\ SessionsFairness

-----------------------------------------------------------------------------
(* Properties. *)

\* A token that has been signed out with is of no use any more, as long as
\* the API runs: its revocation is not forgotten before it has expired.
SignedOutStaysOut == \A token \in signedOut : ~Accepted(token)

\* What is written in a tab is written as the organisation its session bar
\* shows, unless somebody has signed in in another tab since it was loaded:
\* however often sessions ended and began before.
WritesAsShown == ~misattributed

\* What may end a session: a sign-out that was answered or lost, or a late
\* refusal of a token stored earlier.
EndsLive(c) ==
    \/ c.kind = "logout" /\ c.status # "sent"
    \/ c.kind \in {"poll", "write"} /\ c.status = "refused" /\ c.token # stored

\* A session the API would still accept is dropped from the browser only by
\* the answer to a sign-out, or by one that refuses a token stored earlier,
\* and the tab it came to goes to the login page: a single tab never loses a
\* session that is alive, be the API unreachable or not.
LiveSessionKept ==
    [][restarts = 0 /\ Accepted(stored) /\ stored' = NoToken =>
            \E c \in calls \ calls' :
                /\ EndsLive(c)
                /\ page'[c.tab] = [at |-> "login", loaded |-> FALSE]
      ]_sessionVars

\* An overview page does not go on showing a session that is over, revoked,
\* expired or dropped by another tab: it ends on the login page, or with a
\* session that is alive.  (Unless its very first refresh failed for another
\* reason: it then never refreshes again, overview.js:32.)
DeadSessionEnds ==
    \A t \in Tabs :
        page[t].at = "index" /\ ~Accepted(stored)
            ~> \/ page[t] = [at |-> "login", loaded |-> TRUE]
               \/ Accepted(stored)
               \/ t \in halted

=============================================================================
