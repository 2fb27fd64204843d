------------------------------ MODULE Scraper ------------------------------
(***************************************************************************)
(* The shared lostfilm client (internal/lostfilm: client.go, auth.go,      *)
(* http.go and the request sequence of torrents.go).  Every MCP tool call  *)
(* is a goroutine that runs one operation on a single *Scraper.  They      *)
(* share the index of the active mirror (an atomic that is read without    *)
(* the mutex), the cookie jar, the flag authed under the mutex mu, and the *)
(* session file.  A request is two steps, because everything else may move *)
(* between the moment its URL and cookie are fixed and its answer.         *)
(***************************************************************************)
EXTENDS Naturals

CONSTANTS
    Caller,       \* goroutines that run tool calls
    NoCaller,     \* value of mu when it is unlocked
    N,            \* len(s.bases)
    Healthy,      \* mirrors that never fail a request
    Cancellable,  \* callers whose context may be cancelled
    HasPassword,  \* s.email and s.password are both configured
    Override,     \* session in the raw cookie option, None if there is none
    Persist,      \* s.cookiePath is not empty
    InitFile,     \* sessions an earlier run may have left in the file
    Quota,        \* bound: logins the site grants before it wants a captcha
    Expiring,     \* sessions the site may expire on its own
    Fault         \* environment faults that may happen (see Faults)

Mirror == 0..(N - 1)

\* lf_session values.  Old is the one a browser or an earlier run obtained;
\* the k-th login of the model is given Old + k.
None == 0
Old == 1
Token == Old..(Old + Quota)
Cookie == Token \cup {None}

\* Faults: "crash" kills the process, "disk" makes saveCookies give up, "read"
\* breaks a body after its headers, "page" is an unexpected page; the others
\* are answers of the login endpoint that are not a success.
LoginAnswers == {"captcha", "badCredentials", "otherError", "garbled"}
Faults == {"crash", "disk", "read", "page"} \cup LoginAnswers

ASSUME ScraperAssumption ==
    /\ NoCaller \notin Caller
    /\ N \in Nat \ {0}
    /\ Quota \in Nat
    /\ Healthy \subseteq Mirror
    /\ Cancellable \subseteq Caller
    /\ HasPassword \in BOOLEAN /\ Persist \in BOOLEAN
    /\ Override \in {None, Old}
    /\ InitFile \subseteq {None, Old}
    /\ Expiring \subseteq Token
    /\ Fault \subseteq Faults

VARIABLES
    active,     \* s.active
    authed,     \* s.authed
    mu,         \* the caller that holds s.mu, or NoCaller
    jar,        \* session cookie the jar holds for each mirror's host
    file,       \* session in the file at cookiePath; None: absent, empty, torn
    live,       \* sessions the site accepts (external)
    issued,     \* number of logins the site granted (external)
    pc,         \* where each caller is
    op,         \* "public" (runOnMirror) or "protected" (runAuthed)
    tries,      \* iterations of the mirror loop already spent
    seen,       \* the loop's local copy of s.active
    base,       \* mirror of the request in flight
    held,       \* cookie of the request in flight, or of the file write
    retried,    \* attemptAuthed is past its reauth
    cancelled,  \* the caller's context is done
    result      \* outcome of the caller's last call

site == <<live, issued>>
locals == <<op, tries, seen, base, held, retried, cancelled>>
vars == <<active, authed, mu, jar, file, site, pc, locals, result>>

LockedPC == {"login", "logout", "loggingOut", "submit", "signingIn",
             "verify", "save", "write"}
PC == {"idle", "load", "ensure", "reauth", "fetch", "fetching", "follow",
       "following", "advance", "clear"} \cup LockedPC
Errors == {"unavailable", "noCredentials", "notAuthenticated", "loginFailed",
           "captcha", "other"}

(***************************************************************************)
(* Helpers                                                                 *)
(***************************************************************************)
\* The jar holds a session for the mirror that is active at this instant.
HasSessionCookie == jar[active] # None

\* Mutant: only the first mirror is given the seeded cookies.
SeedFirstMirror(f) ==
    [m \in Mirror |-> IF m # 0 THEN None ELSE IF Override # None THEN Override ELSE f]

\* The raw cookie wins over the file, and either is given to every mirror.
SeedCookies(f) == [m \in Mirror |-> IF Override # None THEN Override ELSE f]

Goto(c, label) ==
    /\ pc' = [pc EXCEPT ![c] = label]
    /\ UNCHANGED result

Return(c, outcome) ==
    /\ pc' = [pc EXCEPT ![c] = "idle"]
    /\ result' = [result EXCEPT ![c] = outcome]

\* resolve() reads the active mirror, Do attaches that host's cookie.
Send(c, label) ==
    /\ base' = [base EXCEPT ![c] = active]
    /\ held' = [held EXCEPT ![c] = jar[active]]
    /\ Goto(c, label)

\* doRequest turns a transport error, a 5xx and a done context of the caller
\* into ErrMirrorUnavailable.
RequestFails(c) == base[c] \notin Healthy \/ cancelled[c]
Answered(c) == ~cancelled[c]
\* io.ReadAll fails after the headers: an error that is not a mirror error.
BodyBreaks(c) == "read" \in Fault \/ cancelled[c]

(***************************************************************************)
(* The mirror loop: runOnMirror, runAuthed, advanceMirror                  *)
(***************************************************************************)
Start(c) ==
    /\ pc[c] = "idle"
    /\ \E kind \in {"public", "protected"} : op' = [op EXCEPT ![c] = kind]
    /\ tries' = [tries EXCEPT ![c] = 0]
    /\ cancelled' = [cancelled EXCEPT ![c] = FALSE]
    /\ pc' = [pc EXCEPT ![c] = "load"]
    /\ result' = [result EXCEPT ![c] = "none"]
    /\ UNCHANGED <<active, authed, mu, jar, file, site, seen, base, held, retried>>

Load(c) ==
    /\ pc[c] = "load"
    /\ tries[c] < N
    /\ seen' = [seen EXCEPT ![c] = active]
    /\ retried' = [retried EXCEPT ![c] = FALSE]
    /\ Goto(c, IF op[c] = "public" THEN "fetch" ELSE "ensure")
    /\ UNCHANGED <<active, authed, mu, jar, file, site, op, tries, base, held, cancelled>>

\* The loop is over: the last mirror error is returned.
GiveUp(c) ==
    /\ pc[c] = "load"
    /\ tries[c] = N
    /\ Return(c, "unavailable")
    /\ UNCHANGED <<active, authed, mu, jar, file, site, locals>>

\* Mutant: the index is not taken modulo the number of mirrors.
AdvanceNoWrap(c) ==
    /\ pc[c] = "advance"
    /\ active' = IF active = seen[c] THEN seen[c] + 1 ELSE active
    /\ Goto(c, "clear")
    /\ UNCHANGED <<authed, mu, jar, file, site, locals>>

\* Mutant: a plain increment in place of the compare-and-swap.
AdvanceAlways(c) ==
    /\ pc[c] = "advance"
    /\ active' = (active + 1) % N
    /\ Goto(c, "clear")
    /\ UNCHANGED <<authed, mu, jar, file, site, locals>>

\* The compare-and-swap of advanceMirror, outside the mutex.
Advance(c) ==
    /\ pc[c] = "advance"
    /\ active' = IF active = seen[c] THEN (seen[c] + 1) % N ELSE active
    /\ Goto(c, "clear")
    /\ UNCHANGED <<authed, mu, jar, file, site, locals>>

\* Mutant: a failover keeps the flag of the mirror it leaves.
ClearKeepsFlag(c) ==
    /\ pc[c] = "clear"
    /\ mu = NoCaller
    /\ tries' = [tries EXCEPT ![c] = @ + 1]
    /\ Goto(c, "load")
    /\ UNCHANGED <<active, authed, mu, jar, file, site, op, seen, base, held, retried, cancelled>>

\* Mutant: a failover does not count as an attempt.
ClearForgetsTry(c) ==
    /\ pc[c] = "clear"
    /\ mu = NoCaller
    /\ authed' = FALSE
    /\ Goto(c, "load")
    /\ UNCHANGED <<active, mu, jar, file, site, locals>>

\* The rest of advanceMirror, under the mutex, and the loop's continue.
Clear(c) ==
    /\ pc[c] = "clear"
    /\ mu = NoCaller
    /\ authed' = FALSE
    /\ tries' = [tries EXCEPT ![c] = @ + 1]
    /\ Goto(c, "load")
    /\ UNCHANGED <<active, mu, jar, file, site, op, seen, base, held, retried, cancelled>>

(***************************************************************************)
(* Sessions: ensureAuth, reauth, login, logout, saveCookies                *)
(***************************************************************************)
\* Mutant: the session is not looked up again once the mutex is held.
EnsureAuthUnchecked(c) ==
    /\ pc[c] = "ensure"
    /\ mu = NoCaller
    /\ mu' = c
    /\ Goto(c, "login")
    /\ UNCHANGED <<active, authed, jar, file, site, locals>>

\* authed is set under the mutex, with a single read of the active mirror.
EnsureAuth(c) ==
    /\ pc[c] = "ensure"
    /\ mu = NoCaller
    /\ \/ /\ authed \/ HasSessionCookie
          /\ authed' = TRUE
          /\ Goto(c, "fetch")
          /\ UNCHANGED mu
       \/ /\ ~(authed \/ HasSessionCookie)
          /\ HasPassword
          /\ mu' = c
          /\ Goto(c, "login")
          /\ UNCHANGED authed
       \/ /\ ~(authed \/ HasSessionCookie)
          /\ ~HasPassword
          /\ Return(c, "noCredentials")
          /\ UNCHANGED <<authed, mu>>
    /\ UNCHANGED <<active, jar, file, site, locals>>

Reauth(c) ==
    /\ pc[c] = "reauth"
    /\ mu = NoCaller
    /\ authed' = FALSE
    /\ retried' = [retried EXCEPT ![c] = TRUE]
    /\ \/ /\ HasPassword
          /\ mu' = c
          /\ Goto(c, "login")
       \/ /\ ~HasPassword
          /\ Return(c, "notAuthenticated")
          /\ UNCHANGED mu
    /\ UNCHANGED <<active, jar, file, site, op, tries, seen, base, held, cancelled>>

\* Mutant: the form is submitted along with the stale cookie.
LoginKeepsCookie(c) ==
    /\ pc[c] = "login"
    /\ Goto(c, "submit")
    /\ UNCHANGED <<active, authed, mu, jar, file, site, locals>>

\* login() drops a session it finds before it submits the form.
Login(c) ==
    /\ pc[c] = "login"
    /\ Goto(c, IF HasSessionCookie THEN "logout" ELSE "submit")
    /\ UNCHANGED <<active, authed, mu, jar, file, site, locals>>

SendLogout(c) ==
    /\ pc[c] = "logout"
    /\ Send(c, "loggingOut")
    /\ UNCHANGED <<active, authed, mu, jar, file, site, op, tries, seen, retried, cancelled>>

\* The site ends the session and expires the cookie.  The error of a failed
\* logout is ignored; the site may have ended the session all the same.
LogoutReply(c) ==
    /\ pc[c] = "loggingOut"
    /\ \/ /\ Answered(c)
          /\ live' = live \ {held[c]}
          /\ jar' = [jar EXCEPT ![base[c]] = None]
       \/ /\ RequestFails(c)
          /\ live' \in {live, live \ {held[c]}}
          /\ UNCHANGED jar
    /\ Goto(c, "submit")
    /\ UNCHANGED <<active, authed, mu, file, issued, locals>>

Submit(c) ==
    /\ pc[c] = "submit"
    /\ Send(c, "signingIn")
    /\ UNCHANGED <<active, authed, mu, jar, file, site, op, tries, seen, retried, cancelled>>

\* A session cookie that is no longer valid makes the site reject the form.
SiteAccepts(c) == issued < Quota /\ held[c] \in live \cup {None}

SiteGrants(c) ==
    /\ issued' = issued + 1
    /\ live' = live \cup {Old + issued'}
    /\ jar' = [jar EXCEPT ![base[c]] = Old + issued']

SignInAccepted(c) ==
    /\ pc[c] = "signingIn"
    /\ Answered(c)
    /\ SiteAccepts(c)
    /\ SiteGrants(c)
    /\ Goto(c, "verify")
    /\ UNCHANGED <<active, authed, mu, file, locals>>

\* Answers that do not say success, given a form that is not accepted or an
\* answer the run allows as a fault.
Refusals(c) ==
    (IF issued < Quota THEN {} ELSE {"captcha"})
        \cup (IF held[c] \in live \cup {None} THEN {} ELSE {"otherError"})
        \cup (Fault \cap LoginAnswers)

\* classifyLoginFailure: every error code but 3 counts as a captcha gate, and a
\* body without a code (a page that is no JSON) as rejected credentials.
ClassifyLoginFailure(answer) ==
    IF answer \in {"captcha", "otherError"} THEN "captcha" ELSE "loginFailed"

\* Mutant: an error path that leaves the mutex locked.
SignInRefusedKeepsLock(c) ==
    /\ pc[c] = "signingIn"
    /\ Answered(c)
    /\ \E answer \in Refusals(c) : Return(c, ClassifyLoginFailure(answer))
    /\ UNCHANGED <<active, authed, mu, jar, file, site, locals>>

SignInRefused(c) ==
    /\ pc[c] = "signingIn"
    /\ Answered(c)
    /\ \E answer \in Refusals(c) : Return(c, ClassifyLoginFailure(answer))
    /\ mu' = NoCaller
    /\ UNCHANGED <<active, authed, jar, file, site, locals>>

\* The session is in the jar by the time the body cannot be read.
SignInBodyBreaks(c) ==
    /\ pc[c] = "signingIn"
    /\ BodyBreaks(c)
    /\ Return(c, "other")
    /\ mu' = NoCaller
    /\ IF SiteAccepts(c) THEN SiteGrants(c) ELSE UNCHANGED <<site, jar>>
    /\ UNCHANGED <<active, authed, file, locals>>

\* The site may have granted a session whose answer never arrived.
SignInFails(c) ==
    /\ pc[c] = "signingIn"
    /\ RequestFails(c)
    /\ \/ UNCHANGED site
       \/ SiteAccepts(c) /\ issued' = issued + 1 /\ live' = live \cup {Old + issued'}
    /\ mu' = NoCaller
    /\ Goto(c, "advance")
    /\ UNCHANGED <<active, authed, jar, file, locals>>

\* Mutant: a login that worked is not saved.
VerifyNoSave(c) ==
    /\ pc[c] = "verify"
    /\ HasSessionCookie
    /\ authed' = TRUE
    /\ mu' = NoCaller
    /\ Goto(c, "fetch")
    /\ UNCHANGED <<active, jar, file, site, locals>>

\* The form was accepted; the session is looked up under the mirror that is
\* active now.
Verify(c) ==
    /\ pc[c] = "verify"
    /\ \/ /\ HasSessionCookie
          /\ authed' = TRUE
          /\ Goto(c, "save")
          /\ UNCHANGED mu
       \/ /\ ~HasSessionCookie
          /\ Return(c, ClassifyLoginFailure("none"))
          /\ mu' = NoCaller
          /\ UNCHANGED authed
    /\ UNCHANGED <<active, jar, file, site, locals>>

\* saveCookies takes the cookies of the mirror that is active now, truncates
\* the file and writes it; every error is ignored.
SaveCookies(c) ==
    /\ pc[c] = "save"
    /\ Persist
    /\ held' = [held EXCEPT ![c] = jar[active]]
    /\ file' = None
    /\ Goto(c, "write")
    /\ UNCHANGED <<active, authed, mu, jar, site, op, tries, seen, base, retried, cancelled>>

SkipSave(c) ==
    /\ pc[c] = "save"
    /\ ~Persist \/ "disk" \in Fault
    /\ mu' = NoCaller
    /\ Goto(c, "fetch")
    /\ UNCHANGED <<active, authed, jar, file, site, locals>>

WriteFile(c) ==
    /\ pc[c] = "write"
    /\ \/ file' = held[c]
       \/ "disk" \in Fault /\ file' = None
    /\ mu' = NoCaller
    /\ Goto(c, "fetch")
    /\ UNCHANGED <<active, authed, jar, site, locals>>

(***************************************************************************)
(* The operations: feed, search, seriesInfo (one request), torrents (two)  *)
(***************************************************************************)
Fetch(c) ==
    /\ pc[c] = "fetch"
    /\ Send(c, "fetching")
    /\ UNCHANGED <<active, authed, mu, jar, file, site, op, tries, seen, retried, cancelled>>

PublicReply(c) ==
    /\ pc[c] = "fetching"
    /\ op[c] = "public"
    /\ Answered(c)
    /\ Return(c, "ok")
    /\ UNCHANGED <<active, authed, mu, jar, file, site, locals>>

\* v_search.php answers "log in first" to a session it does not accept.
SearchReply(c) ==
    /\ pc[c] = "fetching"
    /\ op[c] = "protected"
    /\ Answered(c)
    /\ \/ held[c] \in live /\ Goto(c, "follow")
       \/ held[c] \notin live /\ ~retried[c] /\ Goto(c, "reauth")
       \/ held[c] \notin live /\ retried[c] /\ Return(c, "notAuthenticated")
    /\ UNCHANGED <<active, authed, mu, jar, file, site, locals>>

\* followRedirect: the /V/ page, under the mirror that is active now.
Follow(c) ==
    /\ pc[c] = "follow"
    /\ Send(c, "following")
    /\ UNCHANGED <<active, authed, mu, jar, file, site, op, tries, seen, retried, cancelled>>

FollowReply(c) ==
    /\ pc[c] = "following"
    /\ Answered(c)
    /\ Return(c, "ok")
    /\ UNCHANGED <<active, authed, mu, jar, file, site, locals>>

\* ErrParse, ErrNotFound and body errors are returned as they are.
OddReply(c) ==
    /\ pc[c] \in {"fetching", "following"}
    /\ BodyBreaks(c) \/ "page" \in Fault
    /\ Return(c, "other")
    /\ UNCHANGED <<active, authed, mu, jar, file, site, locals>>

RequestFailed(c) ==
    /\ pc[c] \in {"fetching", "following"}
    /\ RequestFails(c)
    /\ Goto(c, "advance")
    /\ UNCHANGED <<active, authed, mu, jar, file, site, locals>>

(***************************************************************************)
(* The environment                                                         *)
(***************************************************************************)
Cancel(c) ==
    /\ c \in Cancellable
    /\ pc[c] # "idle"
    /\ ~cancelled[c]
    /\ cancelled' = [cancelled EXCEPT ![c] = TRUE]
    /\ UNCHANGED <<active, authed, mu, jar, file, site, pc, result,
                   op, tries, seen, base, held, retried>>

Expire(t) ==
    /\ t \in live
    /\ live' = live \ {t}
    /\ UNCHANGED <<active, authed, mu, jar, file, issued, pc, locals, result>>

\* Each caller's variable has the same value when a process starts.
All(v) == [c \in Caller |-> v]

Init ==
    /\ file \in InitFile
    /\ live \in SUBSET {Old}
    /\ issued = 0
    /\ active = 0 /\ authed = FALSE /\ mu = NoCaller /\ jar = SeedCookies(file)
    /\ pc = All("idle") /\ result = All("none")
    /\ op = All("public") /\ tries = All(0) /\ seen = All(0) /\ base = All(0)
    /\ held = All(None) /\ retried = All(FALSE) /\ cancelled = All(FALSE)

\* The process dies anywhere; New() starts from the file it left.
Restart ==
    /\ "crash" \in Fault
    /\ active' = 0 /\ authed' = FALSE /\ mu' = NoCaller /\ jar' = SeedCookies(file)
    /\ pc' = All("idle") /\ result' = All("none")
    /\ op' = All("public") /\ tries' = All(0) /\ seen' = All(0) /\ base' = All(0)
    /\ held' = All(None) /\ retried' = All(FALSE) /\ cancelled' = All(FALSE)
    /\ UNCHANGED <<file, site>>

Acquire(c) == EnsureAuth(c) \/ Reauth(c) \/ Clear(c)

Work(c) ==
    \/ Load(c) \/ GiveUp(c) \/ Advance(c)
    \/ Login(c) \/ SendLogout(c) \/ LogoutReply(c) \/ Submit(c)
    \/ SignInAccepted(c) \/ SignInRefused(c) \/ SignInBodyBreaks(c) \/ SignInFails(c)
    \/ Verify(c) \/ SaveCookies(c) \/ SkipSave(c) \/ WriteFile(c)
    \/ Fetch(c) \/ PublicReply(c) \/ SearchReply(c)
    \/ Follow(c) \/ FollowReply(c) \/ OddReply(c) \/ RequestFailed(c)

Next ==
    \/ \E c \in Caller : Start(c) \/ Acquire(c) \/ Work(c) \/ Cancel(c)
    \/ \E t \in Expiring : Expire(t)
    \/ Restart

Spec == Init /\ [][Next]_vars

\* A goroutine that can run does run, a request ends within its 30 s timeout,
\* and sync.Mutex does not starve a waiter.
Fairness == \A c \in Caller : WF_vars(Work(c)) /\ SF_vars(Acquire(c))

FairSpec == Spec /\ Fairness

(***************************************************************************)
(* Properties                                                              *)
(***************************************************************************)
\* Every variable keeps its type: indices stay within bases, the mutex is
\* held by a caller or by nobody, cookies are sessions the site handed out.
TypeOK ==
    /\ active \in Mirror
    /\ authed \in BOOLEAN
    /\ mu \in Caller \cup {NoCaller}
    /\ jar \in [Mirror -> Cookie]
    /\ file \in Cookie
    /\ live \subseteq Token
    /\ issued \in 0..Quota
    /\ pc \in [Caller -> PC]
    /\ op \in [Caller -> {"public", "protected"}]
    /\ tries \in [Caller -> 0..N]
    /\ seen \in [Caller -> Mirror]
    /\ base \in [Caller -> Mirror]
    /\ held \in [Caller -> Cookie]
    /\ retried \in [Caller -> BOOLEAN]
    /\ cancelled \in [Caller -> BOOLEAN]
    /\ result \in [Caller -> Errors \cup {"none", "ok"}]

\* s.mu guards the whole of login(): exactly the caller that is inside it
\* holds the mutex, on every error path out of it as well.
MutexHeldInLogin == \A c \in Caller : mu = c <=> pc[c] \in LockedPC

\* authed is believed without a look at the jar by nobody but a caller that
\* races a failover: unless some goroutine is between the compare-and-swap of
\* advanceMirror and its lock, the flag implies a cookie for the active mirror.
AuthedHasCookie ==
    authed /\ (\A c \in Caller : pc[c] # "clear") => HasSessionCookie

\* A mirror that never fails is found by every call, however the failovers of
\* several callers interleave: the compare-and-swap keeps two callers that
\* failed on one mirror from skipping the next one.
HealthyMirrorFound ==
    Healthy # {} /\ Cancellable = {} =>
        \A c \in Caller : result[c] # "unavailable"

\* Callers that find no session at the same time share one login: the mutex
\* is held over the whole exchange and the flag is read again under it.
LoginIsShared == issued <= 1

\* A client that has only a cookie gets an authentication error only when the
\* site ended that session: no failover loses the cookie, no call logs it out.
CookieOnlyStaysAuthed ==
    ~HasPassword /\ Override = Old =>
        \A c \in Caller :
            result[c] \in {"notAuthenticated", "noCredentials"} => Old \notin live

\* A client with a valid password that makes one call at a time recovers from
\* an expired, lost or half-written session on every mirror: it is told to
\* solve a captcha when the site wants one or a logout got lost or was
\* cancelled, and it is never told that it is not authenticated or that its
\* password is wrong.
SequentialClientRecovers ==
    \A c \in Caller :
        /\ result[c] \notin {"notAuthenticated", "loginFailed", "noCredentials"}
        /\ result[c] = "captcha" => issued = Quota \/ base[c] \notin Healthy \/ cancelled[c]

\* Once the mutex is free, the file holds the newest session the jar has, so
\* a restart does not need another login.
LastLoginPersisted ==
    (mu = NoCaller /\ \E m \in Mirror : issued > 0 /\ jar[m] = Old + issued)
        => file = Old + issued

\* Every tool call returns, whatever the mirrors answer.
CallsReturn == \A c \in Caller : pc[c] # "idle" ~> pc[c] = "idle"

(***************************************************************************)
(* What comments of the source say and the code does not do                *)
(***************************************************************************)
\* client.go: the client fails over on a network or 5xx error of a mirror, so
\* it never leaves a mirror that does not fail.
LeavesMirrorOnlyOnItsFailure ==
    [][active' # active => active \notin Healthy]_active

\* auth.go: a client that has only a cookie cannot recover from a session that
\* expired in flight; one with a password logs in again and retries.
PasswordClientRecovers ==
    HasPassword => \A c \in Caller : result[c] # "notAuthenticated"
=============================================================================
