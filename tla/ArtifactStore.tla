--------------------------- MODULE ArtifactStore ---------------------------
(***************************************************************************)
(* The one-time, TTL-bounded store of downloaded .torrent files            *)
(* (internal/artifact/artifact.go).  Download calls Put it, HTTP requests  *)
(* Take from it, the janitor sweeps it.  Take and the sweep are critical   *)
(* sections of s.mu, one step each.  Put draws its token and reads the     *)
(* clock before it locks, so it is two steps and time may pass in between. *)
(***************************************************************************)
EXTENDS Naturals, FiniteSets

CONSTANTS
    Token,     \* the tokens newToken may draw
    NoToken,   \* a putter has drawn no token
    Putter,    \* goroutines inside Put
    TTL,       \* s.ttl in clock ticks
    MaxItems,  \* maxItems
    LastPut    \* bound: no Put starts later than this

ASSUME StoreAssumption ==
    /\ IsFiniteSet(Token)
    /\ NoToken \notin Token
    /\ TTL \in Nat \ {0}
    /\ MaxItems \in Nat
    /\ LastPut \in Nat

VARIABLES
    now,        \* s.now(): monotonic
    items,      \* the keys of s.items
    expiresAt,  \* ExpiresAt of an artifact
    granted,    \* history: tokens that Put has returned
    spent,      \* history: tokens that Take has returned
    reply,      \* the last Take: its token, and whether it got the file
    token,      \* Put's local token; NoToken outside of Put
    moment,     \* Put's local moment
    outcome     \* what the putter's last Put returned

putter == <<token, moment, outcome>>
vars == <<now, items, expiresAt, granted, spent, reply, putter>>

\* Bound on the clock: enough for everything ever stored to expire.
Horizon == LastPut + TTL + 1

\* sweepLocked: what it leaves in the store.
Swept(at) == {t \in items : ~(at > expiresAt[t])}

\* newToken: 32 random bytes, taken to be unlike every token drawn before.
Fresh(t) == t \notin granted /\ \A p \in Putter : token[p] # t

(***************************************************************************)
(* Put                                                                     *)
(***************************************************************************)
\* Mutant: the deadline is remembered where the moment belongs.
PrepareDeadline(p) ==
    /\ token[p] = NoToken
    /\ now <= LastPut
    /\ \E t \in Token : Fresh(t) /\ token' = [token EXCEPT ![p] = t]
    /\ moment' = [moment EXCEPT ![p] = now + TTL]
    /\ outcome' = [outcome EXCEPT ![p] = "none"]
    /\ UNCHANGED <<now, items, expiresAt, granted, spent, reply>>

PutPrepare(p) ==
    /\ token[p] = NoToken
    /\ now <= LastPut
    /\ \E t \in Token : Fresh(t) /\ token' = [token EXCEPT ![p] = t]
    /\ moment' = [moment EXCEPT ![p] = now]
    /\ outcome' = [outcome EXCEPT ![p] = "none"]
    /\ UNCHANGED <<now, items, expiresAt, granted, spent, reply>>

Store(p) ==
    /\ Cardinality(Swept(moment[p])) < MaxItems
    /\ items' = Swept(moment[p]) \cup {token[p]}
    /\ expiresAt' = [expiresAt EXCEPT ![token[p]] = moment[p] + TTL]
    /\ granted' = granted \cup {token[p]}
    /\ outcome' = [outcome EXCEPT ![p] = "stored"]

\* Mutant: a full store evicts to make room.
Evict(p) ==
    /\ Cardinality(Swept(moment[p])) >= MaxItems
    /\ \E t \in items : items' = (Swept(moment[p]) \ {t}) \cup {token[p]}
    /\ expiresAt' = [expiresAt EXCEPT ![token[p]] = moment[p] + TTL]
    /\ granted' = granted \cup {token[p]}
    /\ outcome' = [outcome EXCEPT ![p] = "stored"]

\* Mutant: capacity is looked at before the expired artifacts are swept.
RefuseUnswept(p) ==
    /\ Cardinality(items) >= MaxItems
    /\ items' = Swept(moment[p])
    /\ outcome' = [outcome EXCEPT ![p] = "full"]
    /\ UNCHANGED <<expiresAt, granted>>

\* ErrStoreFull: the sweep before it is kept.
Refuse(p) ==
    /\ Cardinality(Swept(moment[p])) >= MaxItems
    /\ items' = Swept(moment[p])
    /\ outcome' = [outcome EXCEPT ![p] = "full"]
    /\ UNCHANGED <<expiresAt, granted>>

\* Mutant: the capacity is not looked at.
CommitUnbounded(p) ==
    /\ token[p] # NoToken
    /\ items' = Swept(moment[p]) \cup {token[p]}
    /\ expiresAt' = [expiresAt EXCEPT ![token[p]] = moment[p] + TTL]
    /\ granted' = granted \cup {token[p]}
    /\ outcome' = [outcome EXCEPT ![p] = "stored"]
    /\ token' = [token EXCEPT ![p] = NoToken]
    /\ UNCHANGED <<now, spent, reply, moment>>

\* The critical section of Put.
PutCommit(p) ==
    /\ token[p] # NoToken
    /\ Store(p) \/ Refuse(p)
    /\ token' = [token EXCEPT ![p] = NoToken]
    /\ UNCHANGED <<now, spent, reply, moment>>

(***************************************************************************)
(* Take, the janitor, the clock                                            *)
(***************************************************************************)
\* Mutant: the artifact is not deleted on the way out.
TakeKeeps(t) ==
    /\ reply' = [token |-> t, found |-> t \in Swept(now)]
    /\ items' = Swept(now)
    /\ spent' = IF t \in Swept(now) THEN spent \cup {t} ELSE spent
    /\ UNCHANGED <<now, expiresAt, granted, putter>>

Take(t) ==
    /\ reply' = [token |-> t, found |-> t \in Swept(now)]
    /\ items' = Swept(now) \ {t}
    /\ spent' = IF t \in Swept(now) THEN spent \cup {t} ELSE spent
    /\ UNCHANGED <<now, expiresAt, granted, putter>>

\* One tick of StartGC.
Sweep ==
    /\ items' = Swept(now)
    /\ UNCHANGED <<now, expiresAt, granted, spent, reply, putter>>

Tick ==
    /\ now < Horizon
    /\ now' = now + 1
    /\ UNCHANGED <<items, expiresAt, granted, spent, reply, putter>>

Init ==
    /\ now = 0
    /\ items = {}
    /\ expiresAt = [t \in Token |-> 0]
    /\ granted = {}
    /\ spent = {}
    /\ reply = [token |-> NoToken, found |-> FALSE]
    /\ token = [p \in Putter |-> NoToken]
    /\ moment = [p \in Putter |-> 0]
    /\ outcome = [p \in Putter |-> "none"]

Next ==
    \/ \E p \in Putter : PutPrepare(p) \/ PutCommit(p)
    \/ \E t \in Token : Take(t)
    \/ Sweep
    \/ Tick

Spec == Init /\ [][Next]_vars

(***************************************************************************)
(* Properties                                                              *)
(***************************************************************************)
\* Every variable keeps its type; a Put never carries a moment of the future.
TypeOK ==
    /\ now \in 0..Horizon
    /\ items \subseteq Token
    /\ expiresAt \in [Token -> Nat]
    /\ granted \subseteq Token
    /\ spent \subseteq Token
    /\ reply \in [token : Token \cup {NoToken}, found : BOOLEAN]
    /\ token \in [Putter -> Token \cup {NoToken}]
    /\ moment \in [Putter -> Nat]
    /\ \A p \in Putter : moment[p] <= now
    /\ outcome \in [Putter -> {"none", "stored", "full"}]

\* The heap is bounded: concurrent Puts never push the store past maxItems,
\* and what it holds was handed out and has not been fetched.
StoreBounded ==
    /\ Cardinality(items) <= MaxItems
    /\ items \subseteq granted \ spent

\* No URL the caller still holds is silently evicted: until its deadline, an
\* unfetched artifact is in the store, whatever is swept with an old moment.
NeverEvicted ==
    \A t \in granted \ spent : now <= expiresAt[t] => t \in items

\* Put refuses an artifact only when maxItems others were unexpired at the
\* moment it started and have not been fetched.
RefusedAtCapacity ==
    [][\A p \in Putter :
        outcome[p] # "full" /\ outcome'[p] = "full" =>
            Cardinality({t \in granted \ spent : moment[p] <= expiresAt[t]}) >= MaxItems]_vars

\* The store keeps the promise of a download URL: a fetch gets the file if
\* and only if the URL was handed out, is unspent and has not expired.
Promise == INSTANCE Capability WITH deadline <- expiresAt
CapabilityKept == Promise!Spec
=============================================================================
