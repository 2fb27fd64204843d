--------------------------- MODULE ScraperProofs ---------------------------
(***************************************************************************)
(* Theorems about Scraper, for every number of callers and mirrors, every  *)
(* quota of logins and every combination of faults.                        *)
(***************************************************************************)
EXTENDS Scraper, TLAPS

\* The index after m, without the modulo.
LEMMA NextMirror == ASSUME NEW m \in Mirror PROVE (m + 1) % N = IF m + 1 = N THEN 0 ELSE m + 1
BY ScraperAssumption DEF Mirror

\* advanceMirror stays within bases.
LEMMA NextMirrorTyped == ASSUME NEW m \in Mirror PROVE (m + 1) % N \in Mirror
BY ScraperAssumption, NextMirror DEF Mirror

\* The values Init uses are of the types TypeOK names.
LEMMA ConstantsTyped == 0 \in Mirror /\ None \in Cookie /\ Old \in Token /\ Token \subseteq Nat
BY ScraperAssumption DEF Mirror, Cookie, Token, None, Old

\* A login the site grants yields a session within the bound.
LEMMA GrantTyped ==
    ASSUME issued \in 0..Quota, NEW c, SiteAccepts(c)
    PROVE  issued + 1 \in 0..Quota /\ Old + (issued + 1) \in Token
BY ScraperAssumption DEF SiteAccepts, Token, Old

(***************************************************************************)
(* Types.  The number of attempts stays within the number of mirrors only  *)
(* because a caller that is past the loop's test has an attempt left.      *)
(***************************************************************************)
AttemptLeft == \A c \in Caller : pc[c] \notin {"idle", "load"} => tries[c] < N

TypeInv == TypeOK /\ AttemptLeft

\* A new client is well typed.
LEMMA TypeInit == Init => TypeInv
<1> SUFFICES ASSUME Init PROVE TypeInv
  OBVIOUS
<1>1. jar \in [Mirror -> Cookie]
  BY ScraperAssumption, ConstantsTyped DEF Init, SeedCookies, Cookie
<1>2. file \in Cookie /\ live \subseteq Token /\ issued \in 0..Quota
  BY ScraperAssumption, ConstantsTyped DEF Init, Cookie
<1>3. /\ pc \in [Caller -> PC] /\ pc = [c \in Caller |-> "idle"]
      /\ result \in [Caller -> Errors \cup {"none", "ok"}]
      /\ op \in [Caller -> {"public", "protected"}]
  BY DEF Init, All, PC
<1>4. /\ tries \in [Caller -> 0..N] /\ seen \in [Caller -> Mirror] /\ base \in [Caller -> Mirror]
      /\ held \in [Caller -> Cookie]
  BY ScraperAssumption, ConstantsTyped DEF Init, All
<1>5. retried \in [Caller -> BOOLEAN] /\ cancelled \in [Caller -> BOOLEAN]
  BY DEF Init, All
<1>6. active \in Mirror /\ authed \in BOOLEAN /\ mu \in Caller \cup {NoCaller}
  BY ConstantsTyped DEF Init
<1> QED
  BY <1>1, <1>2, <1>3, <1>4, <1>5, <1>6 DEF TypeInv, TypeOK, AttemptLeft

\* One case per action keeps the types and the count of attempts.
LEMMA TypeStep == TypeInv /\ [Next]_vars => TypeInv'
<1> SUFFICES ASSUME TypeInv, [Next]_vars PROVE TypeInv'
  OBVIOUS
<1> USE ScraperAssumption, ConstantsTyped
        DEF TypeInv, TypeOK, AttemptLeft, Goto, Return, Send, site, locals, PC, LockedPC, Errors
<1>1. ASSUME NEW c \in Caller, Start(c) PROVE TypeInv'
  <2>1. PICK kind \in {"public", "protected"} : op' = [op EXCEPT ![c] = kind]
    BY <1>1 DEF Start
  <2> QED BY <1>1, <2>1 DEF Start
<1>2. ASSUME NEW c \in Caller, Load(c) PROVE TypeInv'
  BY <1>2 DEF Load
<1>3. ASSUME NEW c \in Caller, GiveUp(c) PROVE TypeInv'
  BY <1>3 DEF GiveUp
<1>4. ASSUME NEW c \in Caller, Advance(c) PROVE TypeInv'
  BY <1>4, NextMirrorTyped DEF Advance
<1>5. ASSUME NEW c \in Caller, Clear(c) PROVE TypeInv'
  <2>1. tries[c] + 1 \in 0..N
    BY <1>5 DEF Clear
  <2> QED BY <1>5, <2>1, ZenonT(60) DEF Clear
<1>6. ASSUME NEW c \in Caller, EnsureAuth(c) PROVE TypeInv'
  BY <1>6, ZenonT(60) DEF EnsureAuth
<1>7. ASSUME NEW c \in Caller, Reauth(c) PROVE TypeInv'
  BY <1>7 DEF Reauth
<1>8. ASSUME NEW c \in Caller, Login(c) PROVE TypeInv'
  BY <1>8 DEF Login
<1>9. ASSUME NEW c \in Caller, SendLogout(c) PROVE TypeInv'
  BY <1>9 DEF SendLogout
<1>10. ASSUME NEW c \in Caller, LogoutReply(c) PROVE TypeInv'
  <2>1. live' \subseteq Token
    BY <1>10 DEF LogoutReply
  <2>2. jar' = [jar EXCEPT ![base[c]] = None] \/ jar' = jar
    BY <1>10 DEF LogoutReply
  <2>3. jar' \in [Mirror -> Cookie]
    BY <2>2
  <2> QED BY <1>10, <2>1, <2>3 DEF LogoutReply
<1>11. ASSUME NEW c \in Caller, Submit(c) PROVE TypeInv'
  BY <1>11 DEF Submit
<1>12. ASSUME NEW c \in Caller, SignInAccepted(c) PROVE TypeInv'
  <2>1. issued' \in 0..Quota /\ live' \subseteq Token /\ jar' \in [Mirror -> Cookie]
    BY <1>12, GrantTyped DEF SignInAccepted, SiteGrants, Cookie
  <2> QED BY <1>12, <2>1 DEF SignInAccepted
<1>13. ASSUME NEW c \in Caller, SignInRefused(c) PROVE TypeInv'
  BY <1>13 DEF SignInRefused, ClassifyLoginFailure
<1>14. ASSUME NEW c \in Caller, SignInBodyBreaks(c) PROVE TypeInv'
  <2>1. ASSUME SiteAccepts(c), SiteGrants(c)
        PROVE  issued' \in 0..Quota /\ live' \subseteq Token /\ jar' \in [Mirror -> Cookie]
    BY <2>1, GrantTyped DEF SiteGrants, Cookie
  <2>2. issued' \in 0..Quota /\ live' \subseteq Token /\ jar' \in [Mirror -> Cookie]
    BY <1>14, <2>1 DEF SignInBodyBreaks
  <2> QED BY <1>14, <2>2 DEF SignInBodyBreaks
<1>15. ASSUME NEW c \in Caller, SignInFails(c) PROVE TypeInv'
  <2>1. issued' \in 0..Quota /\ live' \subseteq Token
    BY <1>15, GrantTyped DEF SignInFails
  <2> QED BY <1>15, <2>1 DEF SignInFails
<1>16. ASSUME NEW c \in Caller, Verify(c) PROVE TypeInv'
  BY <1>16 DEF Verify, ClassifyLoginFailure
<1>17. ASSUME NEW c \in Caller, SaveCookies(c) PROVE TypeInv'
  BY <1>17 DEF SaveCookies
<1>18. ASSUME NEW c \in Caller, SkipSave(c) PROVE TypeInv'
  BY <1>18 DEF SkipSave
<1>19. ASSUME NEW c \in Caller, WriteFile(c) PROVE TypeInv'
  BY <1>19 DEF WriteFile
<1>20. ASSUME NEW c \in Caller, Fetch(c) PROVE TypeInv'
  BY <1>20 DEF Fetch
<1>21. ASSUME NEW c \in Caller, PublicReply(c) PROVE TypeInv'
  BY <1>21 DEF PublicReply
<1>22. ASSUME NEW c \in Caller, SearchReply(c) PROVE TypeInv'
  BY <1>22 DEF SearchReply
<1>23. ASSUME NEW c \in Caller, Follow(c) PROVE TypeInv'
  BY <1>23 DEF Follow
<1>24. ASSUME NEW c \in Caller, FollowReply(c) PROVE TypeInv'
  BY <1>24 DEF FollowReply
<1>25. ASSUME NEW c \in Caller, OddReply(c) PROVE TypeInv'
  BY <1>25 DEF OddReply
<1>26. ASSUME NEW c \in Caller, RequestFailed(c) PROVE TypeInv'
  BY <1>26 DEF RequestFailed
<1>27. ASSUME NEW c \in Caller, Cancel(c) PROVE TypeInv'
  BY <1>27 DEF Cancel
<1>28. ASSUME NEW t \in Expiring, Expire(t) PROVE TypeInv'
  BY <1>28 DEF Expire
<1>29. CASE Restart
  <2>1. jar' \in [Mirror -> Cookie]
    BY <1>29 DEF Restart, SeedCookies, Cookie
  <2>2. pc' = [c \in Caller |-> "idle"] /\ pc' \in [Caller -> PC]
    BY <1>29 DEF Restart, All
  <2>3. /\ tries' \in [Caller -> 0..N] /\ seen' \in [Caller -> Mirror] /\ base' \in [Caller -> Mirror]
        /\ held' \in [Caller -> Cookie]
    BY <1>29 DEF Restart, All
  <2> QED BY <1>29, <2>1, <2>2, <2>3 DEF Restart, All
<1>30. CASE UNCHANGED vars
  BY <1>30 DEF vars
<1> QED
  BY <1>1, <1>2, <1>3, <1>4, <1>5, <1>6, <1>7, <1>8, <1>9, <1>10, <1>11,
     <1>12, <1>13, <1>14, <1>15, <1>16, <1>17, <1>18, <1>19, <1>20, <1>21,
     <1>22, <1>23, <1>24, <1>25, <1>26, <1>27, <1>28, <1>29, <1>30
     DEF Next, Acquire, Work

\* Every behaviour keeps the types, and no caller exceeds its attempts.
THEOREM ScraperTyped == Spec => []TypeOK
<1>1. TypeInv => TypeOK
  BY DEF TypeInv
<1> QED BY <1>1, TypeInit, TypeStep, PTL DEF Spec

\* The types hold together with the fact that a caller inside an attempt has an
\* attempt left, which the types alone do not give.
THEOREM TypeInvariant == Spec => []TypeInv
BY TypeInit, TypeStep, PTL DEF Spec

(***************************************************************************)
(* The mutex and the flag.  That authed implies a cookie survives a logout *)
(* because the flag is down whenever a caller is on its way through        *)
(* login(), and only the holder of the mutex can raise it.                 *)
(***************************************************************************)
LoginUnauthed ==
    \A c \in Caller : pc[c] \in LockedPC \ {"save", "write"} => ~authed

SessionInv == MutexHeldInLogin /\ LoginUnauthed /\ AuthedHasCookie

\* A new client holds no lock and trusts no session.
LEMMA SessionInit == Init => SessionInv
BY ScraperAssumption DEF Init, All, SessionInv, MutexHeldInLogin, LoginUnauthed, AuthedHasCookie, LockedPC

\* One case per action keeps the lock and the flag in step.
LEMMA SessionStep == TypeInv /\ TypeInv' /\ SessionInv /\ [Next]_vars => SessionInv'
<1> SUFFICES ASSUME TypeInv, TypeInv', SessionInv, [Next]_vars PROVE SessionInv'
  OBVIOUS
<1> USE ScraperAssumption
        DEF TypeInv, TypeOK, SessionInv, MutexHeldInLogin, LoginUnauthed, AuthedHasCookie,
            HasSessionCookie, LockedPC, Goto, Return, Send, locals
<1>1. ASSUME NEW c \in Caller, Start(c) PROVE SessionInv'
  BY <1>1 DEF Start
<1>2. ASSUME NEW c \in Caller, Load(c) PROVE SessionInv'
  BY <1>2 DEF Load
<1>3. ASSUME NEW c \in Caller, GiveUp(c) PROVE SessionInv'
  BY <1>3 DEF GiveUp
<1>4. ASSUME NEW c \in Caller, Advance(c) PROVE SessionInv'
  BY <1>4 DEF Advance
<1>5. ASSUME NEW c \in Caller, Clear(c) PROVE SessionInv'
  BY <1>5 DEF Clear
<1>6. ASSUME NEW c \in Caller, EnsureAuth(c) PROVE SessionInv'
  BY <1>6 DEF EnsureAuth
<1>7. ASSUME NEW c \in Caller, Reauth(c) PROVE SessionInv'
  BY <1>7 DEF Reauth
<1>8. ASSUME NEW c \in Caller, Login(c) PROVE SessionInv'
  BY <1>8 DEF Login
<1>9. ASSUME NEW c \in Caller, SendLogout(c) PROVE SessionInv'
  BY <1>9 DEF SendLogout
<1>10. ASSUME NEW c \in Caller, LogoutReply(c) PROVE SessionInv'
  BY <1>10 DEF LogoutReply
<1>11. ASSUME NEW c \in Caller, Submit(c) PROVE SessionInv'
  BY <1>11 DEF Submit
<1>12. ASSUME NEW c \in Caller, SignInAccepted(c) PROVE SessionInv'
  BY <1>12 DEF SignInAccepted
<1>13. ASSUME NEW c \in Caller, SignInRefused(c) PROVE SessionInv'
  BY <1>13 DEF SignInRefused
<1>14. ASSUME NEW c \in Caller, SignInBodyBreaks(c) PROVE SessionInv'
  BY <1>14 DEF SignInBodyBreaks
<1>15. ASSUME NEW c \in Caller, SignInFails(c) PROVE SessionInv'
  BY <1>15 DEF SignInFails
<1>16. ASSUME NEW c \in Caller, Verify(c) PROVE SessionInv'
  BY <1>16 DEF Verify
<1>17. ASSUME NEW c \in Caller, SaveCookies(c) PROVE SessionInv'
  BY <1>17 DEF SaveCookies
<1>18. ASSUME NEW c \in Caller, SkipSave(c) PROVE SessionInv'
  BY <1>18 DEF SkipSave
<1>19. ASSUME NEW c \in Caller, WriteFile(c) PROVE SessionInv'
  BY <1>19 DEF WriteFile
<1>20. ASSUME NEW c \in Caller, Fetch(c) PROVE SessionInv'
  BY <1>20 DEF Fetch
<1>21. ASSUME NEW c \in Caller, PublicReply(c) PROVE SessionInv'
  BY <1>21 DEF PublicReply
<1>22. ASSUME NEW c \in Caller, SearchReply(c) PROVE SessionInv'
  BY <1>22 DEF SearchReply
<1>23. ASSUME NEW c \in Caller, Follow(c) PROVE SessionInv'
  BY <1>23 DEF Follow
<1>24. ASSUME NEW c \in Caller, FollowReply(c) PROVE SessionInv'
  BY <1>24 DEF FollowReply
<1>25. ASSUME NEW c \in Caller, OddReply(c) PROVE SessionInv'
  BY <1>25 DEF OddReply
<1>26. ASSUME NEW c \in Caller, RequestFailed(c) PROVE SessionInv'
  BY <1>26 DEF RequestFailed
<1>27. ASSUME NEW c \in Caller, Cancel(c) PROVE SessionInv'
  BY <1>27 DEF Cancel
<1>28. ASSUME NEW t \in Expiring, Expire(t) PROVE SessionInv'
  BY <1>28 DEF Expire
<1>29. CASE Restart
  BY <1>29 DEF Restart, All
<1>30. CASE UNCHANGED vars
  BY <1>30 DEF vars
<1> QED
  BY <1>1, <1>2, <1>3, <1>4, <1>5, <1>6, <1>7, <1>8, <1>9, <1>10, <1>11,
     <1>12, <1>13, <1>14, <1>15, <1>16, <1>17, <1>18, <1>19, <1>20, <1>21,
     <1>22, <1>23, <1>24, <1>25, <1>26, <1>27, <1>28, <1>29, <1>30
     DEF Next, Acquire, Work

\* The mutex, the flag authed and the jar agree in every run.
THEOREM SessionInvariant == Spec => []SessionInv
BY TypeInvariant, SessionInit, SessionStep, PTL DEF Spec

\* Exactly the caller inside login() holds s.mu, whatever fails in there.
THEOREM MutexIsHeldInLogin == Spec => []MutexHeldInLogin
<1>1. SessionInv => MutexHeldInLogin
  BY DEF SessionInv
<1> QED BY <1>1, SessionInvariant, PTL

\* Unless a failover is between its two halves, authed implies a cookie.
THEOREM AuthedImpliesCookie == Spec => []AuthedHasCookie
<1>1. SessionInv => AuthedHasCookie
  BY DEF SessionInv
<1> QED BY <1>1, SessionInvariant, PTL

(***************************************************************************)
(* A healthy mirror is found.  Fix one that never fails.  Its distance  *)
(* ahead of the active mirror only shrinks, because a call that fails has  *)
(* moved the index off the mirror it started from and nobody moves it off  *)
(* the healthy one; so every attempt a call spends is paid by a step       *)
(* towards it, and there are N - 1 steps at most.                          *)
(***************************************************************************)
Distance(h, m) == IF m <= h THEN h - m ELSE h - m + N

\* Distance counts the failovers from m to h, and no two mirrors share one.
LEMMA DistanceRange ==
    ASSUME NEW h \in Mirror
    PROVE  /\ \A m \in Mirror : Distance(h, m) \in 0..(N - 1)
           /\ \A m \in Mirror : Distance(h, m) <= Distance(h, h) => m = h
           /\ \A m, n \in Mirror : Distance(h, m) = Distance(h, n) => m = n
BY ScraperAssumption DEF Distance, Mirror

\* A failover of a mirror other than h comes one closer to h.
LEMMA DistanceStep ==
    ASSUME NEW h \in Mirror, NEW m \in Mirror, m # h
    PROVE  Distance(h, (m + 1) % N) = Distance(h, m) - 1
BY ScraperAssumption, NextMirror DEF Distance, Mirror

InFlight == {"fetching", "following", "loggingOut", "signingIn"}

\* What holds of one caller while the healthy mirror h is looked for.
Approaches(h, c) ==
    /\ ~cancelled[c]
    /\ result[c] # "unavailable"
    /\ pc[c] = "load" => tries[c] + Distance(h, active) <= N - 1
    /\ pc[c] \notin {"idle", "load"} =>
        /\ tries[c] + Distance(h, seen[c]) <= N - 1
        /\ Distance(h, active) <= Distance(h, seen[c])
    /\ pc[c] \in InFlight => (seen[c] = h => base[c] = h)
    /\ pc[c] = "advance" => seen[c] # h
    /\ pc[c] = "clear" => Distance(h, active) < Distance(h, seen[c])

HealthyInv(h) == \A c \in Caller : Approaches(h, c)

\* A call that has not started has all its attempts.
LEMMA HealthyInit == ASSUME NEW h \in Healthy PROVE Init => HealthyInv(h)
BY DEF Init, All, HealthyInv, Approaches, InFlight

\* No step leaves a caller further from h than it has attempts.
LEMMA HealthyStep ==
    ASSUME NEW h \in Healthy, Cancellable = {}
    PROVE  TypeInv /\ TypeInv' /\ HealthyInv(h) /\ [Next]_vars => HealthyInv(h)'
<1> SUFFICES ASSUME TypeInv, TypeInv', HealthyInv(h), [Next]_vars PROVE HealthyInv(h)'
  OBVIOUS
<1>h. h \in Mirror
  BY ScraperAssumption
<1>d. /\ \A m \in Mirror : Distance(h, m) \in 0..(N - 1)
      /\ \A m \in Mirror : Distance(h, m) <= Distance(h, h) => m = h
      /\ \A m, n \in Mirror : Distance(h, m) = Distance(h, n) => m = n
  BY <1>h, DistanceRange
<1> USE ScraperAssumption, <1>h, <1>d
        DEF TypeInv, TypeOK, HealthyInv, Approaches, InFlight, Goto, Return, Send, RequestFails, locals
<1>1. ASSUME NEW c \in Caller, Start(c) PROVE HealthyInv(h)'
  BY <1>1 DEF Start
<1>2. ASSUME NEW c \in Caller, Load(c) PROVE HealthyInv(h)'
  BY <1>2 DEF Load
<1>3. ASSUME NEW c \in Caller, GiveUp(c) PROVE HealthyInv(h)'
  BY <1>3 DEF GiveUp
<1>4. ASSUME NEW c \in Caller, Advance(c) PROVE HealthyInv(h)'
  <2>0. Distance(h, active) \in Nat /\ \A d \in Caller : Distance(h, seen[d]) \in Nat
    OBVIOUS
  <2>1. /\ seen[c] \in Mirror /\ seen[c] # h
        /\ Distance(h, active) <= Distance(h, seen[c])
        /\ tries[c] + Distance(h, seen[c]) <= N - 1
    BY <1>4 DEF Advance
  <2>2. /\ Distance(h, active') \in Nat
        /\ Distance(h, active') <= Distance(h, active)
        /\ Distance(h, active') < Distance(h, seen[c])
    <3>1. CASE active = seen[c]
      <4>1. Distance(h, active') = Distance(h, active) - 1
        BY <1>4, <2>1, <3>1, DistanceStep DEF Advance
      <4> QED BY <2>0, <2>1, <3>1, <4>1
    <3>2. CASE active # seen[c]
      <4>1. active' = active /\ Distance(h, active) # Distance(h, seen[c])
        BY <1>4, <2>1, <3>2 DEF Advance
      <4>2. Distance(h, active) < Distance(h, seen[c])
        BY ONLY <2>0, <2>1, <4>1
      <4> QED BY <2>0, <4>1, <4>2
    <3> QED BY <3>1, <3>2
  <2>3. /\ pc' = [pc EXCEPT ![c] = "clear"]
        /\ UNCHANGED <<cancelled, result, tries, seen, base>>
    BY <1>4 DEF Advance
  <2>4. Approaches(h, c)'
    BY <2>0, <2>1, <2>2, <2>3
  <2>5. ASSUME NEW d \in Caller, d # c PROVE Approaches(h, d)'
    <3>1. Approaches(h, d) /\ pc'[d] = pc[d] /\ tries[d] \in Nat
      BY <2>3, <2>5
    <3> QED BY <2>0, <2>2, <2>3, <3>1
  <2> QED BY <2>4, <2>5
<1>5. ASSUME NEW c \in Caller, Clear(c) PROVE HealthyInv(h)'
  BY <1>5 DEF Clear
<1>6. ASSUME NEW c \in Caller, EnsureAuth(c) PROVE HealthyInv(h)'
  BY <1>6 DEF EnsureAuth
<1>7. ASSUME NEW c \in Caller, Reauth(c) PROVE HealthyInv(h)'
  BY <1>7 DEF Reauth
<1>8. ASSUME NEW c \in Caller, Login(c) PROVE HealthyInv(h)'
  BY <1>8 DEF Login
<1>9. ASSUME NEW c \in Caller, SendLogout(c) PROVE HealthyInv(h)'
  BY <1>9 DEF SendLogout
<1>10. ASSUME NEW c \in Caller, LogoutReply(c) PROVE HealthyInv(h)'
  BY <1>10 DEF LogoutReply
<1>11. ASSUME NEW c \in Caller, Submit(c) PROVE HealthyInv(h)'
  BY <1>11 DEF Submit
<1>12. ASSUME NEW c \in Caller, SignInAccepted(c) PROVE HealthyInv(h)'
  BY <1>12 DEF SignInAccepted
<1>13. ASSUME NEW c \in Caller, SignInRefused(c) PROVE HealthyInv(h)'
  BY <1>13 DEF SignInRefused, ClassifyLoginFailure
<1>14. ASSUME NEW c \in Caller, SignInBodyBreaks(c) PROVE HealthyInv(h)'
  BY <1>14 DEF SignInBodyBreaks
<1>15. ASSUME NEW c \in Caller, SignInFails(c) PROVE HealthyInv(h)'
  BY <1>15 DEF SignInFails
<1>16. ASSUME NEW c \in Caller, Verify(c) PROVE HealthyInv(h)'
  BY <1>16 DEF Verify, ClassifyLoginFailure, HasSessionCookie
<1>17. ASSUME NEW c \in Caller, SaveCookies(c) PROVE HealthyInv(h)'
  BY <1>17 DEF SaveCookies
<1>18. ASSUME NEW c \in Caller, SkipSave(c) PROVE HealthyInv(h)'
  BY <1>18 DEF SkipSave
<1>19. ASSUME NEW c \in Caller, WriteFile(c) PROVE HealthyInv(h)'
  BY <1>19 DEF WriteFile
<1>20. ASSUME NEW c \in Caller, Fetch(c) PROVE HealthyInv(h)'
  BY <1>20 DEF Fetch
<1>21. ASSUME NEW c \in Caller, PublicReply(c) PROVE HealthyInv(h)'
  BY <1>21 DEF PublicReply
<1>22. ASSUME NEW c \in Caller, SearchReply(c) PROVE HealthyInv(h)'
  BY <1>22 DEF SearchReply
<1>23. ASSUME NEW c \in Caller, Follow(c) PROVE HealthyInv(h)'
  BY <1>23 DEF Follow
<1>24. ASSUME NEW c \in Caller, FollowReply(c) PROVE HealthyInv(h)'
  BY <1>24 DEF FollowReply
<1>25. ASSUME NEW c \in Caller, OddReply(c) PROVE HealthyInv(h)'
  BY <1>25 DEF OddReply
<1>26. ASSUME NEW c \in Caller, RequestFailed(c) PROVE HealthyInv(h)'
  BY <1>26 DEF RequestFailed
<1>27. ASSUME NEW c \in Caller PROVE ~Cancel(c)
  BY DEF Cancel
<1>28. ASSUME NEW t \in Expiring, Expire(t) PROVE HealthyInv(h)'
  BY <1>28 DEF Expire
<1>29. CASE Restart
  BY <1>29 DEF Restart, All
<1>30. CASE UNCHANGED vars
  BY <1>30 DEF vars
<1> QED
  BY <1>1, <1>2, <1>3, <1>4, <1>5, <1>6, <1>7, <1>8, <1>9, <1>10, <1>11,
     <1>12, <1>13, <1>14, <1>15, <1>16, <1>17, <1>18, <1>19, <1>20, <1>21,
     <1>22, <1>23, <1>24, <1>25, <1>26, <1>27, <1>28, <1>29, <1>30
     DEF Next, Acquire, Work

\* If some mirror never fails and no caller gives up on its own, no call
\* reports that the mirrors are unavailable.
THEOREM HealthyMirrorIsFound == Spec => []HealthyMirrorFound
<1>1. CASE Healthy # {} /\ Cancellable = {}
  <2>1. PICK h : h \in Healthy
    BY <1>1
  <2>2. Init => HealthyInv(h)
    BY <2>1, HealthyInit
  <2>3. TypeInv /\ TypeInv' /\ HealthyInv(h) /\ [Next]_vars => HealthyInv(h)'
    BY <1>1, <2>1, HealthyStep
  <2>4. HealthyInv(h) => HealthyMirrorFound
    BY DEF HealthyInv, Approaches, HealthyMirrorFound
  <2> QED BY <2>2, <2>3, <2>4, TypeInvariant, PTL DEF Spec
<1>2. CASE ~(Healthy # {} /\ Cancellable = {})
  <2>1. HealthyMirrorFound
    BY <1>2 DEF HealthyMirrorFound
  <2> QED BY <2>1, PTL
<1> QED BY <1>1, <1>2

\* A mirror that never fails is left by no call that runs to its end: a call
\* moves on only from a mirror that failed it.
LEMMA HealthyMirrorIsKept ==
    ASSUME Cancellable = {}, "crash" \notin Fault, TypeInv,
           \A h \in Healthy : HealthyInv(h), [Next]_vars
    PROVE  [active' # active => active \notin Healthy]_active
<1> SUFFICES ASSUME active' # active, active \in Healthy PROVE FALSE
  OBVIOUS
<1>1. ASSUME NEW c \in Caller, Start(c) PROVE FALSE
  BY <1>1 DEF Start
<1>2. ASSUME NEW c \in Caller, Load(c) PROVE FALSE
  BY <1>2 DEF Load
<1>3. ASSUME NEW c \in Caller, GiveUp(c) PROVE FALSE
  BY <1>3 DEF GiveUp
<1>4. ASSUME NEW c \in Caller, Advance(c) PROVE FALSE
  <2>1. pc[c] = "advance" /\ active = seen[c]
    BY <1>4 DEF Advance
  <2>2. Approaches(active, c)
    BY DEF HealthyInv
  <2> QED BY <2>1, <2>2 DEF Approaches
<1>5. ASSUME NEW c \in Caller, Clear(c) PROVE FALSE
  BY <1>5 DEF Clear
<1>6. ASSUME NEW c \in Caller, EnsureAuth(c) PROVE FALSE
  BY <1>6 DEF EnsureAuth
<1>7. ASSUME NEW c \in Caller, Reauth(c) PROVE FALSE
  BY <1>7 DEF Reauth
<1>8. ASSUME NEW c \in Caller, Login(c) PROVE FALSE
  BY <1>8 DEF Login
<1>9. ASSUME NEW c \in Caller, SendLogout(c) PROVE FALSE
  BY <1>9 DEF SendLogout
<1>10. ASSUME NEW c \in Caller, LogoutReply(c) PROVE FALSE
  BY <1>10 DEF LogoutReply
<1>11. ASSUME NEW c \in Caller, Submit(c) PROVE FALSE
  BY <1>11 DEF Submit
<1>12. ASSUME NEW c \in Caller, SignInAccepted(c) PROVE FALSE
  BY <1>12 DEF SignInAccepted
<1>13. ASSUME NEW c \in Caller, SignInRefused(c) PROVE FALSE
  BY <1>13 DEF SignInRefused
<1>14. ASSUME NEW c \in Caller, SignInBodyBreaks(c) PROVE FALSE
  BY <1>14 DEF SignInBodyBreaks
<1>15. ASSUME NEW c \in Caller, SignInFails(c) PROVE FALSE
  BY <1>15 DEF SignInFails
<1>16. ASSUME NEW c \in Caller, Verify(c) PROVE FALSE
  BY <1>16 DEF Verify
<1>17. ASSUME NEW c \in Caller, SaveCookies(c) PROVE FALSE
  BY <1>17 DEF SaveCookies
<1>18. ASSUME NEW c \in Caller, SkipSave(c) PROVE FALSE
  BY <1>18 DEF SkipSave
<1>19. ASSUME NEW c \in Caller, WriteFile(c) PROVE FALSE
  BY <1>19 DEF WriteFile
<1>20. ASSUME NEW c \in Caller, Fetch(c) PROVE FALSE
  BY <1>20 DEF Fetch
<1>21. ASSUME NEW c \in Caller, PublicReply(c) PROVE FALSE
  BY <1>21 DEF PublicReply
<1>22. ASSUME NEW c \in Caller, SearchReply(c) PROVE FALSE
  BY <1>22 DEF SearchReply
<1>23. ASSUME NEW c \in Caller, Follow(c) PROVE FALSE
  BY <1>23 DEF Follow
<1>24. ASSUME NEW c \in Caller, FollowReply(c) PROVE FALSE
  BY <1>24 DEF FollowReply
<1>25. ASSUME NEW c \in Caller, OddReply(c) PROVE FALSE
  BY <1>25 DEF OddReply
<1>26. ASSUME NEW c \in Caller, RequestFailed(c) PROVE FALSE
  BY <1>26 DEF RequestFailed
<1>27. ASSUME NEW t \in Expiring, Expire(t) PROVE FALSE
  BY <1>27 DEF Expire
<1>28. ASSUME NEW c \in Caller PROVE ~Cancel(c)
  BY DEF Cancel
<1>29. ~Restart
  BY DEF Restart
<1>30. CASE UNCHANGED vars
  BY <1>30 DEF vars
<1> QED
  BY <1>1, <1>2, <1>3, <1>4, <1>5, <1>6, <1>7, <1>8, <1>9, <1>10, <1>11, <1>12,
     <1>13, <1>14, <1>15, <1>16, <1>17, <1>18, <1>19, <1>20, <1>21, <1>22,
     <1>23, <1>24, <1>25, <1>26, <1>27, <1>28, <1>29, <1>30
     DEF Next, Acquire, Work

\* A client whose calls run to their end leaves a mirror only when that mirror
\* fails, as client.go says: what breaks that promise is a cancelled call, which
\* blames the mirror for its own end.
THEOREM OnlyCancelledCallsLeaveMirror ==
    ASSUME Cancellable = {}, "crash" \notin Fault
    PROVE  Spec => LeavesMirrorOnlyOnItsFailure
<1> DEFINE Kept == \A h \in Healthy : HealthyInv(h)
<1>1. Init => Kept
  BY HealthyInit
<1>2. TypeInv /\ TypeInv' /\ Kept /\ [Next]_vars => Kept'
  BY HealthyStep
<1>3. TypeInv /\ Kept /\ [Next]_vars => [active' # active => active \notin Healthy]_active
  BY HealthyMirrorIsKept
<1> HIDE DEF Kept
<1> QED BY <1>1, <1>2, <1>3, TypeInvariant, PTL DEF Spec, LeavesMirrorOnlyOnItsFailure

(***************************************************************************)
(* A client that has nothing but a cookie.  It never logs in or out, so    *)
(* every mirror keeps the cookie and only the site can end the session.    *)
(***************************************************************************)
CookieInv ==
    /\ jar = [m \in Mirror |-> Old]
    /\ \A c \in Caller :
        /\ pc[c] \notin LockedPC
        /\ pc[c] \in {"fetching", "following"} => held[c] = Old
        /\ pc[c] = "reauth" => Old \notin live
        /\ result[c] \in {"notAuthenticated", "noCredentials"} => Old \notin live

\* The configured cookie is given to every mirror.
LEMMA CookieInit == Override = Old /\ Init => CookieInv
BY ScraperAssumption DEF Init, All, CookieInv, LockedPC, SeedCookies, None, Old

\* Without a password no step takes the cookie from the jar.
LEMMA CookieStep ==
    ASSUME ~HasPassword, Override = Old
    PROVE  TypeInv /\ TypeInv' /\ CookieInv /\ [Next]_vars => CookieInv'
<1> SUFFICES ASSUME TypeInv, TypeInv', CookieInv, [Next]_vars PROVE CookieInv'
  OBVIOUS
<1>j. HasSessionCookie
  BY DEF TypeInv, TypeOK, CookieInv, HasSessionCookie, Old, None
<1> USE <1>j DEF TypeInv, TypeOK, CookieInv, LockedPC, Goto, Return, Send, locals, site
<1>1. ASSUME NEW c \in Caller, Start(c) PROVE CookieInv'
  BY <1>1 DEF Start
<1>2. ASSUME NEW c \in Caller, Load(c) PROVE CookieInv'
  BY <1>2 DEF Load
<1>3. ASSUME NEW c \in Caller, GiveUp(c) PROVE CookieInv'
  BY <1>3 DEF GiveUp
<1>4. ASSUME NEW c \in Caller, Advance(c) PROVE CookieInv'
  BY <1>4 DEF Advance
<1>5. ASSUME NEW c \in Caller, Clear(c) PROVE CookieInv'
  BY <1>5 DEF Clear
<1>6. ASSUME NEW c \in Caller, EnsureAuth(c) PROVE CookieInv'
  BY <1>6 DEF EnsureAuth
<1>7. ASSUME NEW c \in Caller, Reauth(c) PROVE CookieInv'
  BY <1>7 DEF Reauth
<1>8. ASSUME NEW c \in Caller, Fetch(c) PROVE CookieInv'
  BY <1>8 DEF Fetch
<1>9. ASSUME NEW c \in Caller, PublicReply(c) PROVE CookieInv'
  BY <1>9 DEF PublicReply
<1>10. ASSUME NEW c \in Caller, SearchReply(c) PROVE CookieInv'
  BY <1>10 DEF SearchReply
<1>11. ASSUME NEW c \in Caller, Follow(c) PROVE CookieInv'
  BY <1>11 DEF Follow
<1>12. ASSUME NEW c \in Caller, FollowReply(c) PROVE CookieInv'
  BY <1>12 DEF FollowReply
<1>13. ASSUME NEW c \in Caller, OddReply(c) PROVE CookieInv'
  BY <1>13 DEF OddReply
<1>14. ASSUME NEW c \in Caller, RequestFailed(c) PROVE CookieInv'
  BY <1>14 DEF RequestFailed
<1>15. ASSUME NEW c \in Caller, Cancel(c) PROVE CookieInv'
  BY <1>15 DEF Cancel
<1>16. ASSUME NEW c \in Caller
      PROVE  ~(\/ Login(c) \/ SendLogout(c) \/ LogoutReply(c) \/ Submit(c) \/ SignInAccepted(c)
               \/ SignInRefused(c) \/ SignInBodyBreaks(c) \/ SignInFails(c) \/ Verify(c)
               \/ SaveCookies(c) \/ SkipSave(c) \/ WriteFile(c))
  BY DEF Login, SendLogout, LogoutReply, Submit, SignInAccepted, SignInRefused, SignInBodyBreaks,
         SignInFails, Verify, SaveCookies, SkipSave, WriteFile
<1>17. ASSUME NEW t \in Expiring, Expire(t) PROVE CookieInv'
  BY <1>17 DEF Expire
<1>18. CASE Restart
  BY <1>18 DEF Restart, All, SeedCookies, None, Old
<1>19. CASE UNCHANGED vars
  BY <1>19 DEF vars
<1> QED
  BY <1>1, <1>2, <1>3, <1>4, <1>5, <1>6, <1>7, <1>8, <1>9, <1>10, <1>11,
     <1>12, <1>13, <1>14, <1>15, <1>16, <1>17, <1>18, <1>19
     DEF Next, Acquire, Work

\* With only a cookie configured, an authentication error means that the site
\* has ended the session: no failover or restart loses it.
THEOREM CookieIsKept == Spec => []CookieOnlyStaysAuthed
<1>1. CASE ~HasPassword /\ Override = Old
  <2>1. Init => CookieInv
    BY <1>1, CookieInit
  <2>2. TypeInv /\ TypeInv' /\ CookieInv /\ [Next]_vars => CookieInv'
    BY <1>1, CookieStep
  <2>3. CookieInv => CookieOnlyStaysAuthed
    BY DEF CookieInv, CookieOnlyStaysAuthed
  <2> QED BY <2>1, <2>2, <2>3, TypeInvariant, PTL DEF Spec
<1>2. CASE ~(~HasPassword /\ Override = Old)
  <2>1. CookieOnlyStaysAuthed
    BY <1>2 DEF CookieOnlyStaysAuthed
  <2> QED BY <2>1, PTL
<1> QED BY <1>1, <1>2

(***************************************************************************)
(* One login is shared.  When every mirror answers, nobody gives up, no    *)
(* session expires and the process does not restart, the active mirror     *)
(* never moves, so the cookie of the first login is seen by everybody who  *)
(* takes the mutex after it.                                               *)
(***************************************************************************)
Calm ==
    /\ Healthy = Mirror /\ Cancellable = {} /\ Expiring = {} /\ "crash" \notin Fault
    /\ Override = None /\ InitFile \subseteq {None}

\* Nobody has logged in: only requests that need no session are under way.
NoLoginYet ==
    /\ issued = 0 /\ ~authed /\ jar[0] = None
    /\ \A c \in Caller :
        /\ pc[c] \notin {"follow", "following", "verify", "save", "write"}
        /\ pc[c] \in {"fetch", "fetching"} => op[c] = "public"

\* One login is in the jar and no caller is on its way to another.
LoggedInOnce ==
    /\ issued = 1 /\ jar[0] = Old + 1 /\ Old + 1 \in live
    /\ \A c \in Caller :
        /\ pc[c] \notin {"login", "submit", "signingIn"}
        /\ pc[c] = "fetching" /\ op[c] = "protected" => held[c] = Old + 1

SharedInv ==
    /\ active = 0
    /\ \A c \in Caller :
        /\ ~cancelled[c]
        /\ pc[c] \notin {"advance", "clear", "reauth", "logout", "loggingOut"}
        /\ pc[c] \in InFlight => base[c] = 0
        /\ pc[c] = "signingIn" => held[c] = None
    /\ NoLoginYet \/ LoggedInOnce

\* A client that has never logged in has no session.
LEMMA SharedInit == Calm /\ Init => SharedInv
BY ScraperAssumption, ConstantsTyped
   DEF Calm, Init, All, SharedInv, NoLoginYet, InFlight, SeedCookies

\* The first login is the last.
LEMMA SharedStep ==
    ASSUME Calm
    PROVE  TypeInv /\ TypeInv' /\ SessionInv /\ SharedInv /\ [Next]_vars => SharedInv'
<1> SUFFICES ASSUME TypeInv, TypeInv', SessionInv, SharedInv, [Next]_vars PROVE SharedInv'
  OBVIOUS
<1> USE ConstantsTyped
        DEF Calm, TypeInv, TypeOK, SessionInv, MutexHeldInLogin, LockedPC, SharedInv, NoLoginYet,
            LoggedInOnce, InFlight, HasSessionCookie, RequestFails, Goto, Return, Send, site, locals,
            None, Old
<1>g. ASSUME NEW c \in Caller, pc[c] = "signingIn", SiteGrants(c)
      PROVE  /\ issued' = 1 /\ jar'[0] = Old + 1 /\ Old + 1 \in live'
             /\ \A d \in Caller : d # c => pc[d] \notin LockedPC
  BY <1>g DEF SiteGrants
<1>1. ASSUME NEW c \in Caller, Start(c) PROVE SharedInv'
  BY <1>1 DEF Start
<1>2. ASSUME NEW c \in Caller, Load(c) PROVE SharedInv'
  BY <1>2 DEF Load
<1>3. ASSUME NEW c \in Caller, GiveUp(c) PROVE SharedInv'
  BY <1>3 DEF GiveUp
<1>4. ASSUME NEW c \in Caller, Advance(c) PROVE SharedInv'
  BY <1>4 DEF Advance
<1>5. ASSUME NEW c \in Caller, Clear(c) PROVE SharedInv'
  BY <1>5 DEF Clear
<1>6. ASSUME NEW c \in Caller, EnsureAuth(c) PROVE SharedInv'
  BY <1>6 DEF EnsureAuth
<1>7. ASSUME NEW c \in Caller, Reauth(c) PROVE SharedInv'
  BY <1>7 DEF Reauth
<1>8. ASSUME NEW c \in Caller, Login(c) PROVE SharedInv'
  BY <1>8 DEF Login
<1>9. ASSUME NEW c \in Caller, SendLogout(c) PROVE SharedInv'
  BY <1>9 DEF SendLogout
<1>10. ASSUME NEW c \in Caller, LogoutReply(c) PROVE SharedInv'
  BY <1>10 DEF LogoutReply
<1>11. ASSUME NEW c \in Caller, Submit(c) PROVE SharedInv'
  BY <1>11 DEF Submit
<1>12. ASSUME NEW c \in Caller, SignInAccepted(c) PROVE SharedInv'
  <2>1. LoggedInOnce'
    BY <1>g, <1>12 DEF SignInAccepted
  <2> QED BY <1>12, <2>1 DEF SignInAccepted
<1>13. ASSUME NEW c \in Caller, SignInRefused(c) PROVE SharedInv'
  BY <1>13 DEF SignInRefused, ClassifyLoginFailure
<1>14. ASSUME NEW c \in Caller, SignInBodyBreaks(c) PROVE SharedInv'
  <2>1. CASE SiteAccepts(c)
    <3>1. LoggedInOnce'
      BY <1>g, <1>14, <2>1 DEF SignInBodyBreaks
    <3> QED BY <1>14, <3>1 DEF SignInBodyBreaks
  <2>2. CASE ~SiteAccepts(c)
    BY <1>14, <2>2 DEF SignInBodyBreaks
  <2> QED BY <2>1, <2>2
<1>15. ASSUME NEW c \in Caller, SignInFails(c) PROVE SharedInv'
  BY <1>15 DEF SignInFails
<1>16. ASSUME NEW c \in Caller, Verify(c) PROVE SharedInv'
  BY <1>16 DEF Verify, ClassifyLoginFailure
<1>17. ASSUME NEW c \in Caller, SaveCookies(c) PROVE SharedInv'
  BY <1>17 DEF SaveCookies
<1>18. ASSUME NEW c \in Caller, SkipSave(c) PROVE SharedInv'
  BY <1>18 DEF SkipSave
<1>19. ASSUME NEW c \in Caller, WriteFile(c) PROVE SharedInv'
  BY <1>19 DEF WriteFile
<1>20. ASSUME NEW c \in Caller, Fetch(c) PROVE SharedInv'
  BY <1>20 DEF Fetch
<1>21. ASSUME NEW c \in Caller, PublicReply(c) PROVE SharedInv'
  BY <1>21 DEF PublicReply
<1>22. ASSUME NEW c \in Caller, SearchReply(c) PROVE SharedInv'
  BY <1>22 DEF SearchReply
<1>23. ASSUME NEW c \in Caller, Follow(c) PROVE SharedInv'
  BY <1>23 DEF Follow
<1>24. ASSUME NEW c \in Caller, FollowReply(c) PROVE SharedInv'
  BY <1>24 DEF FollowReply
<1>25. ASSUME NEW c \in Caller, OddReply(c) PROVE SharedInv'
  BY <1>25 DEF OddReply
<1>26. ASSUME NEW c \in Caller, RequestFailed(c) PROVE SharedInv'
  BY <1>26 DEF RequestFailed
<1>27. ASSUME NEW c \in Caller PROVE ~Cancel(c)
  BY DEF Cancel
<1>28. ASSUME NEW t \in Expiring PROVE FALSE
  OBVIOUS
<1>29. ~Restart
  BY DEF Restart
<1>30. CASE UNCHANGED vars
  BY <1>30 DEF vars
<1> QED
  BY <1>1, <1>2, <1>3, <1>4, <1>5, <1>6, <1>7, <1>8, <1>9, <1>10, <1>11, <1>12,
     <1>13, <1>14, <1>15, <1>16, <1>17, <1>18, <1>19, <1>20, <1>21, <1>22,
     <1>23, <1>24, <1>25, <1>26, <1>27, <1>28, <1>29, <1>30
     DEF Next, Acquire, Work

\* Callers that find no session at the same time spend one login among them,
\* however many they are.
THEOREM OneLoginIsShared == ASSUME Calm PROVE Spec => []LoginIsShared
<1>1. Init => SharedInv
  BY SharedInit
<1>2. TypeInv /\ TypeInv' /\ SessionInv /\ SharedInv /\ [Next]_vars => SharedInv'
  BY SharedStep
<1>3. SharedInv => LoginIsShared
  BY DEF SharedInv, NoLoginYet, LoggedInOnce, LoginIsShared
<1> QED BY <1>1, <1>2, <1>3, TypeInvariant, SessionInvariant, PTL DEF Spec

(***************************************************************************)
(* The newest session is persisted.  With one mirror the cookies that      *)
(* saveCookies takes are those of the login it follows; what the jar has   *)
(* before that is what the file has, because nothing else fills the jar.   *)
(***************************************************************************)
NowhereToFailOver ==
    N = 1 /\ Persist /\ Cancellable = {} /\ Fault \cap {"disk", "read"} = {}

Unsaved(c) == pc[c] \in {"verify", "save", "write"}

PersistInv ==
    /\ \A c \in Caller :
        /\ ~cancelled[c]
        /\ pc[c] = "verify" => jar[0] # None
        /\ pc[c] = "write" => held[c] = jar[0]
    /\ jar[0] > Old /\ (\A c \in Caller : ~Unsaved(c)) => file = jar[0]

\* A new client holds what the file or the raw cookie gave it.
LEMMA PersistInit == NowhereToFailOver /\ Init => PersistInv
BY ScraperAssumption, ConstantsTyped
   DEF NowhereToFailOver, Init, All, PersistInv, SeedCookies, None, Old

\* No step leaves a session in the jar that is not in the file, unless a
\* caller that holds the mutex is about to save it.
LEMMA PersistStep ==
    ASSUME NowhereToFailOver
    PROVE  TypeInv /\ TypeInv' /\ SessionInv /\ PersistInv /\ [Next]_vars => PersistInv'
<1> SUFFICES ASSUME TypeInv, TypeInv', SessionInv, PersistInv, [Next]_vars PROVE PersistInv'
  OBVIOUS
<1>m. Mirror = {0}
  BY DEF NowhereToFailOver, Mirror
<1>n. jar[0] \in Nat /\ file \in Nat /\ issued \in Nat /\ active = 0 /\ active' = 0
  <2>1. Cookie \subseteq Nat
    BY ConstantsTyped DEF Cookie, None
  <2>2. jar[0] \in Cookie /\ file \in Cookie
    BY <1>m DEF TypeInv, TypeOK
  <2>3. issued \in Nat
    BY ScraperAssumption DEF TypeInv, TypeOK
  <2>4. active \in {0} /\ active' \in {0}
    BY <1>m DEF TypeInv, TypeOK
  <2> QED BY <2>1, <2>2, <2>3, <2>4
<1>g. ASSUME NEW c \in Caller, pc[c] = "signingIn", SiteGrants(c)
      PROVE  /\ issued' = issued + 1 /\ jar'[0] = Old + issued'
             /\ \A d \in Caller : ~Unsaved(d)
  BY <1>g, <1>m DEF SiteGrants, TypeInv, TypeOK, SessionInv, MutexHeldInLogin, LockedPC, Unsaved
<1> USE <1>m, <1>n
        DEF NowhereToFailOver, TypeInv, TypeOK, SessionInv, MutexHeldInLogin, LockedPC, PersistInv,
            Unsaved, HasSessionCookie, Goto, Return, Send, site, locals, None, Old
<1>1. ASSUME NEW c \in Caller, Start(c) PROVE PersistInv'
  BY <1>1 DEF Start
<1>2. ASSUME NEW c \in Caller, Load(c) PROVE PersistInv'
  BY <1>2 DEF Load
<1>3. ASSUME NEW c \in Caller, GiveUp(c) PROVE PersistInv'
  BY <1>3 DEF GiveUp
<1>4. ASSUME NEW c \in Caller, Advance(c) PROVE PersistInv'
  BY <1>4 DEF Advance
<1>5. ASSUME NEW c \in Caller, Clear(c) PROVE PersistInv'
  BY <1>5 DEF Clear
<1>6. ASSUME NEW c \in Caller, EnsureAuth(c) PROVE PersistInv'
  BY <1>6 DEF EnsureAuth
<1>7. ASSUME NEW c \in Caller, Reauth(c) PROVE PersistInv'
  BY <1>7 DEF Reauth
<1>8. ASSUME NEW c \in Caller, Login(c) PROVE PersistInv'
  BY <1>8 DEF Login
<1>9. ASSUME NEW c \in Caller, SendLogout(c) PROVE PersistInv'
  BY <1>9 DEF SendLogout
<1>10. ASSUME NEW c \in Caller, LogoutReply(c) PROVE PersistInv'
  BY <1>10 DEF LogoutReply
<1>11. ASSUME NEW c \in Caller, Submit(c) PROVE PersistInv'
  BY <1>11 DEF Submit
<1>12. ASSUME NEW c \in Caller, SignInAccepted(c) PROVE PersistInv'
  <2>1. /\ issued' = issued + 1 /\ jar'[0] = Old + issued'
        /\ \A d \in Caller : ~Unsaved(d)
    BY <1>g, <1>12 DEF SignInAccepted
  <2>2. pc'[c] = "verify" /\ UNCHANGED <<cancelled, held>>
    BY <1>12 DEF SignInAccepted
  <2> QED BY <1>12, <2>1, <2>2 DEF SignInAccepted
<1>13. ASSUME NEW c \in Caller, SignInRefused(c) PROVE PersistInv'
  BY <1>13 DEF SignInRefused, ClassifyLoginFailure
<1>14. ASSUME NEW c \in Caller PROVE ~SignInBodyBreaks(c)
  BY DEF SignInBodyBreaks, BodyBreaks
<1>15. ASSUME NEW c \in Caller, SignInFails(c) PROVE PersistInv'
  BY <1>15 DEF SignInFails
<1>16. ASSUME NEW c \in Caller, Verify(c) PROVE PersistInv'
  BY <1>16 DEF Verify, ClassifyLoginFailure
<1>17. ASSUME NEW c \in Caller, SaveCookies(c) PROVE PersistInv'
  BY <1>17 DEF SaveCookies
<1>18. ASSUME NEW c \in Caller, SkipSave(c) PROVE PersistInv'
  BY <1>18 DEF SkipSave
<1>19. ASSUME NEW c \in Caller, WriteFile(c) PROVE PersistInv'
  BY <1>19 DEF WriteFile
<1>20. ASSUME NEW c \in Caller, Fetch(c) PROVE PersistInv'
  BY <1>20 DEF Fetch
<1>21. ASSUME NEW c \in Caller, PublicReply(c) PROVE PersistInv'
  BY <1>21 DEF PublicReply
<1>22. ASSUME NEW c \in Caller, SearchReply(c) PROVE PersistInv'
  BY <1>22 DEF SearchReply
<1>23. ASSUME NEW c \in Caller, Follow(c) PROVE PersistInv'
  BY <1>23 DEF Follow
<1>24. ASSUME NEW c \in Caller, FollowReply(c) PROVE PersistInv'
  BY <1>24 DEF FollowReply
<1>25. ASSUME NEW c \in Caller, OddReply(c) PROVE PersistInv'
  BY <1>25 DEF OddReply
<1>26. ASSUME NEW c \in Caller, RequestFailed(c) PROVE PersistInv'
  BY <1>26 DEF RequestFailed
<1>27. ASSUME NEW c \in Caller PROVE ~Cancel(c)
  BY DEF Cancel
<1>28. ASSUME NEW t \in Expiring, Expire(t) PROVE PersistInv'
  BY <1>28 DEF Expire
<1>29. CASE Restart
  <2>1. jar'[0] = IF Override # None THEN Override ELSE file
    BY <1>29 DEF Restart, SeedCookies
  <2>2. Override \in {None, Old} /\ issued' = issued /\ file' = file
    BY <1>29, ScraperAssumption DEF Restart
  <2>3. \A c \in Caller : pc'[c] = "idle" /\ ~cancelled'[c]
    BY <1>29 DEF Restart, All
  <2> QED BY <2>1, <2>2, <2>3
<1>30. CASE UNCHANGED vars
  BY <1>30 DEF vars
<1> QED
  BY <1>1, <1>2, <1>3, <1>4, <1>5, <1>6, <1>7, <1>8, <1>9, <1>10, <1>11, <1>12,
     <1>13, <1>14, <1>15, <1>16, <1>17, <1>18, <1>19, <1>20, <1>21, <1>22,
     <1>23, <1>24, <1>25, <1>26, <1>27, <1>28, <1>29, <1>30
     DEF Next, Acquire, Work

\* With one mirror, and a disk and a network that work, the newest session the
\* client has is in the file whenever the mutex is free: a crash costs no login.
THEOREM LoginIsPersisted == ASSUME NowhereToFailOver PROVE Spec => []LastLoginPersisted
<1>1. Init => PersistInv
  BY PersistInit
<1>2. TypeInv /\ TypeInv' /\ SessionInv /\ PersistInv /\ [Next]_vars => PersistInv'
  BY PersistStep
<1>3. TypeInv /\ SessionInv /\ PersistInv => LastLoginPersisted
  <2> SUFFICES ASSUME TypeInv, SessionInv, PersistInv, mu = NoCaller, issued > 0,
                      NEW m \in Mirror, jar[m] = Old + issued
               PROVE  file = Old + issued
    BY DEF LastLoginPersisted
  <2>1. m = 0
    BY DEF NowhereToFailOver, Mirror
  <2>2. jar[0] > Old
    BY <2>1, ScraperAssumption DEF TypeInv, TypeOK, Old
  <2>3. \A c \in Caller : ~Unsaved(c)
    <3>1. NoCaller \notin Caller
      BY ScraperAssumption
    <3> QED BY <3>1 DEF SessionInv, MutexHeldInLogin, LockedPC, Unsaved
  <2> QED BY <2>1, <2>2, <2>3 DEF PersistInv
<1> QED BY <1>1, <1>2, <1>3, TypeInvariant, SessionInvariant, PTL DEF Spec

(***************************************************************************)
(* A password recovers every session.  Two callers at once can log each    *)
(* other out, so the theorem is about behaviours with one call at a time;  *)
(* what such a call holds once it is past its login is a session the site  *)
(* granted it and still accepts.                                           *)
(***************************************************************************)
\* A valid password, a site that expires only the session of an earlier run
\* and that answers the login form as it should.
Recoverable == HasPassword /\ Expiring \subseteq {Old} /\ Fault \cap LoginAnswers = {}

OneAtATime == \A c, d \in Caller : pc[c] # "idle" /\ pc[d] # "idle" => c = d

Fresh(t) == t > Old /\ t \in live

\* The caller's last request may have gone unanswered.
Lost(c) == base[c] \notin Healthy \/ cancelled[c]

Recovers(c) ==
    /\ result[c] \notin {"notAuthenticated", "loginFailed", "noCredentials"}
    /\ result[c] = "captcha" => issued = Quota \/ Lost(c)
    /\ pc[c] # "idle" => result[c] = "none"
    /\ pc[c] = "submit" /\ jar[active] # None => base[c] = active /\ Lost(c)
    /\ pc[c] \in {"loggingOut", "signingIn"} => base[c] = active
    /\ pc[c] = "signingIn" /\ held[c] # None => Lost(c)
    /\ pc[c] \in {"verify", "save", "write"} => Fresh(jar[active])
    /\ pc[c] = "ensure" => ~retried[c]
    /\ pc[c] = "fetch" /\ retried[c] => Fresh(jar[active])
    /\ pc[c] = "fetching" /\ retried[c] => Fresh(held[c])

RecoverInv == \A c \in Caller : Recovers(c)

\* In a new client no call is under way and none has failed.
LEMMA RecoverInit == Init => RecoverInv
BY DEF Init, All, RecoverInv, Recovers

\* A login the site grants is fresh on the mirror that is active.
LEMMA GrantIsFresh ==
    ASSUME TypeInv, RecoverInv, NEW c \in Caller, pc[c] = "signingIn", SiteGrants(c)
    PROVE  Fresh(jar[active])' \/ active' # active
<1>1. issued \in Nat /\ active \in Mirror /\ jar \in [Mirror -> Cookie] /\ base[c] = active
  BY ScraperAssumption DEF TypeInv, TypeOK, RecoverInv, Recovers
<1> QED BY <1>1 DEF SiteGrants, Fresh, Old

\* A call that is alone keeps what it needs to recover.
LEMMA RecoverStep ==
    ASSUME Recoverable
    PROVE  TypeInv /\ TypeInv' /\ SessionInv /\ RecoverInv /\ OneAtATime /\ OneAtATime'
               /\ [Next]_vars => RecoverInv'
<1> SUFFICES ASSUME TypeInv, TypeInv', SessionInv, RecoverInv, OneAtATime, OneAtATime', [Next]_vars
             PROVE  RecoverInv'
  OBVIOUS
<1>i. issued \in Nat /\ Quota \in Nat /\ issued <= Quota /\ issued' \in Nat /\ issued' <= Quota
  BY ScraperAssumption DEF TypeInv, TypeOK
<1> USE <1>i
        DEF Recoverable, TypeInv, TypeOK, SessionInv, MutexHeldInLogin, LockedPC, LoginUnauthed,
            AuthedHasCookie, RecoverInv, Recovers, OneAtATime, Fresh, Lost, HasSessionCookie,
            RequestFails, Answered, Goto, Return, Send, site, locals, None, Old
<1>1. ASSUME NEW c \in Caller, Start(c) PROVE RecoverInv'
  BY <1>1 DEF Start
<1>2. ASSUME NEW c \in Caller, Load(c) PROVE RecoverInv'
  BY <1>2 DEF Load
<1>3. ASSUME NEW c \in Caller, GiveUp(c) PROVE RecoverInv'
  BY <1>3 DEF GiveUp
<1>4. ASSUME NEW c \in Caller, Advance(c) PROVE RecoverInv'
  BY <1>4 DEF Advance
<1>5. ASSUME NEW c \in Caller, Clear(c) PROVE RecoverInv'
  BY <1>5 DEF Clear
<1>6. ASSUME NEW c \in Caller, EnsureAuth(c) PROVE RecoverInv'
  BY <1>6 DEF EnsureAuth
<1>7. ASSUME NEW c \in Caller, Reauth(c) PROVE RecoverInv'
  BY <1>7 DEF Reauth
<1>8. ASSUME NEW c \in Caller, Login(c) PROVE RecoverInv'
  BY <1>8 DEF Login
<1>9. ASSUME NEW c \in Caller, SendLogout(c) PROVE RecoverInv'
  BY <1>9 DEF SendLogout
<1>10. ASSUME NEW c \in Caller, LogoutReply(c) PROVE RecoverInv'
  BY <1>10 DEF LogoutReply
<1>11. ASSUME NEW c \in Caller, Submit(c) PROVE RecoverInv'
  BY <1>11 DEF Submit
<1>12. ASSUME NEW c \in Caller, SignInAccepted(c) PROVE RecoverInv'
  <2>1. Fresh(jar[active])' /\ issued' = issued + 1
    BY <1>12, GrantIsFresh DEF SignInAccepted, SiteGrants
  <2> QED BY <1>12, <2>1 DEF SignInAccepted, SiteAccepts
<1>13. ASSUME NEW c \in Caller, SignInRefused(c) PROVE RecoverInv'
  BY <1>13 DEF SignInRefused, ClassifyLoginFailure, Refusals, LoginAnswers
<1>14. ASSUME NEW c \in Caller, SignInBodyBreaks(c) PROVE RecoverInv'
  BY <1>14 DEF SignInBodyBreaks, SiteAccepts, SiteGrants
<1>15. ASSUME NEW c \in Caller, SignInFails(c) PROVE RecoverInv'
  BY <1>15 DEF SignInFails, SiteAccepts
<1>16. ASSUME NEW c \in Caller, Verify(c) PROVE RecoverInv'
  BY <1>16 DEF Verify, ClassifyLoginFailure
<1>17. ASSUME NEW c \in Caller, SaveCookies(c) PROVE RecoverInv'
  BY <1>17 DEF SaveCookies
<1>18. ASSUME NEW c \in Caller, SkipSave(c) PROVE RecoverInv'
  BY <1>18 DEF SkipSave
<1>19. ASSUME NEW c \in Caller, WriteFile(c) PROVE RecoverInv'
  BY <1>19 DEF WriteFile
<1>20. ASSUME NEW c \in Caller, Fetch(c) PROVE RecoverInv'
  BY <1>20 DEF Fetch
<1>21. ASSUME NEW c \in Caller, PublicReply(c) PROVE RecoverInv'
  BY <1>21 DEF PublicReply
<1>22. ASSUME NEW c \in Caller, SearchReply(c) PROVE RecoverInv'
  BY <1>22 DEF SearchReply
<1>23. ASSUME NEW c \in Caller, Follow(c) PROVE RecoverInv'
  BY <1>23 DEF Follow
<1>24. ASSUME NEW c \in Caller, FollowReply(c) PROVE RecoverInv'
  BY <1>24 DEF FollowReply
<1>25. ASSUME NEW c \in Caller, OddReply(c) PROVE RecoverInv'
  BY <1>25 DEF OddReply
<1>26. ASSUME NEW c \in Caller, RequestFailed(c) PROVE RecoverInv'
  BY <1>26 DEF RequestFailed
<1>27. ASSUME NEW c \in Caller, Cancel(c) PROVE RecoverInv'
  BY <1>27 DEF Cancel
<1>28. ASSUME NEW t \in Expiring, Expire(t) PROVE RecoverInv'
  BY <1>28 DEF Expire
<1>29. CASE Restart
  BY <1>29 DEF Restart, All
<1>30. CASE UNCHANGED vars
  BY <1>30 DEF vars
<1> QED
  BY <1>1, <1>2, <1>3, <1>4, <1>5, <1>6, <1>7, <1>8, <1>9, <1>10, <1>11, <1>12,
     <1>13, <1>14, <1>15, <1>16, <1>17, <1>18, <1>19, <1>20, <1>21, <1>22,
     <1>23, <1>24, <1>25, <1>26, <1>27, <1>28, <1>29, <1>30
     DEF Next, Acquire, Work

\* A client with a valid password that makes one call at a time is never told
\* that it is not authenticated or that its password is wrong, and is asked for
\* a captcha only when the site wants one or a logout may have got lost.
THEOREM OneCallAtATimeRecovers ==
    ASSUME Recoverable PROVE Spec /\ []OneAtATime => []SequentialClientRecovers
<1>1. Init => RecoverInv
  BY RecoverInit
<1>2. TypeInv /\ TypeInv' /\ SessionInv /\ RecoverInv /\ OneAtATime /\ OneAtATime' /\ [Next]_vars
          => RecoverInv'
  BY RecoverStep
<1>3. RecoverInv => SequentialClientRecovers
  BY DEF RecoverInv, Recovers, Lost, SequentialClientRecovers
<1> QED BY <1>1, <1>2, <1>3, TypeInvariant, SessionInvariant, PTL DEF Spec

\* What auth.go promises of a client with a password holds as long as no two of
\* its calls overlap: the one thing that breaks it is a login of another call.
COROLLARY OneCallAtATimeStaysIn ==
    ASSUME Recoverable PROVE Spec /\ []OneAtATime => []PasswordClientRecovers
<1>1. SequentialClientRecovers => PasswordClientRecovers
  BY DEF SequentialClientRecovers, PasswordClientRecovers
<1> QED BY <1>1, OneCallAtATimeRecovers, PTL
=============================================================================
