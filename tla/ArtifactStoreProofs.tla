------------------------ MODULE ArtifactStoreProofs ------------------------
(***************************************************************************)
(* Theorems about ArtifactStore, for every token set, every number of      *)
(* putters, every TTL and every capacity.                                  *)
(***************************************************************************)
EXTENDS ArtifactStore, FiniteSetTheorems, TLAPS

(***************************************************************************)
(* TypeOK is inductive on its own.                                         *)
(***************************************************************************)
\* The bound of the clock is a number.
LEMMA HorizonNat == Horizon \in Nat
BY StoreAssumption DEF Horizon

\* An empty store is well typed.
LEMMA TypeInit == Init => TypeOK
BY StoreAssumption, HorizonNat DEF Init, TypeOK

\* One case per step of a Put, a Take, the janitor and the clock.
LEMMA TypeStep == TypeOK /\ [Next]_vars => TypeOK'
<1> SUFFICES ASSUME TypeOK, [Next]_vars PROVE TypeOK'
  OBVIOUS
<1> USE StoreAssumption, HorizonNat DEF TypeOK
<1>1. ASSUME NEW p \in Putter, PutPrepare(p) PROVE TypeOK'
  BY <1>1 DEF PutPrepare, Fresh
<1>2. ASSUME NEW p \in Putter, PutCommit(p) PROVE TypeOK'
  <2>1. CASE Store(p)
    BY <1>2, <2>1 DEF PutCommit, Store, Swept
  <2>2. CASE Refuse(p)
    BY <1>2, <2>2 DEF PutCommit, Refuse, Swept
  <2> QED BY <1>2, <2>1, <2>2 DEF PutCommit
<1>3. ASSUME NEW t \in Token, Take(t) PROVE TypeOK'
  BY <1>3 DEF Take, Swept, putter
<1>4. CASE Sweep
  BY <1>4 DEF Sweep, Swept, putter
<1>5. CASE Tick
  BY <1>5 DEF Tick, putter
<1>6. CASE UNCHANGED vars
  BY <1>6 DEF vars, putter
<1> QED BY <1>1, <1>2, <1>3, <1>4, <1>5, <1>6 DEF Next

\* Every behaviour keeps the types, and a Put's moment is never in the future.
THEOREM StoreTyped == Spec => []TypeOK
BY TypeInit, TypeStep, PTL DEF Spec

(***************************************************************************)
(* The inductive invariant.  NeverEvicted is not inductive: a Put stores   *)
(* under a token it drew earlier, so tokens in flight must be unlike each  *)
(* other and unlike every token handed out; and a sweep with an old moment *)
(* is harmless only because that moment is not in the future (TypeOK).     *)
(***************************************************************************)
TokensFresh ==
    \A p \in Putter :
        token[p] # NoToken =>
            /\ token[p] \notin granted
            /\ \A q \in Putter : q # p => token[q] # token[p]

ItemsOwed == spent \subseteq granted /\ items \subseteq granted \ spent

StoreInv == TypeOK /\ TokensFresh /\ ItemsOwed /\ NeverEvicted

\* An empty store owes nothing.
LEMMA InvInit == Init => StoreInv
BY TypeInit DEF Init, StoreInv, TokensFresh, ItemsOwed, NeverEvicted

\* Sweeping at a moment of the past or the present drops expired entries only.
LEMMA SweptKeepsUnexpired ==
    ASSUME TypeOK, NeverEvicted, NEW at \in Nat, at <= now
    PROVE  \A t \in granted \ spent : now <= expiresAt[t] => t \in Swept(at)
BY HorizonNat DEF TypeOK, NeverEvicted, Swept

\* A step never drops an artifact that is owed, nor reuses a token.
LEMMA InvStep == StoreInv /\ [Next]_vars => StoreInv'
<1> SUFFICES ASSUME StoreInv, [Next]_vars PROVE StoreInv'
  OBVIOUS
<1> USE StoreAssumption, HorizonNat DEF StoreInv
<1>t. TypeOK'
  BY TypeStep
<1>1. ASSUME NEW p \in Putter, PutPrepare(p) PROVE StoreInv'
  <2>1. PICK t \in Token : Fresh(t) /\ token' = [token EXCEPT ![p] = t]
    BY <1>1 DEF PutPrepare
  <2>2. TokensFresh'
    BY <1>1, <2>1 DEF PutPrepare, Fresh, TokensFresh, TypeOK
  <2>3. ItemsOwed' /\ NeverEvicted'
    BY <1>1 DEF PutPrepare, ItemsOwed, NeverEvicted
  <2> QED BY <1>t, <2>2, <2>3
<1>2. ASSUME NEW p \in Putter, PutCommit(p) PROVE StoreInv'
  <2>0. /\ token[p] \in Token \ granted
        /\ moment[p] \in Nat /\ moment[p] <= now
        /\ token' = [token EXCEPT ![p] = NoToken]
    BY <1>2 DEF PutCommit, TypeOK, TokensFresh
  <2>1. CASE Store(p)
    <3>1. TokensFresh'
      BY <2>0, <2>1 DEF Store, TokensFresh, TypeOK
    <3>2. ItemsOwed'
      BY <1>2, <2>0, <2>1 DEF PutCommit, Store, Swept, ItemsOwed
    <3>3. NeverEvicted'
      BY <1>2, <2>0, <2>1, SweptKeepsUnexpired DEF PutCommit, Store, NeverEvicted, TypeOK
    <3> QED BY <1>t, <3>1, <3>2, <3>3
  <2>2. CASE Refuse(p)
    <3>1. TokensFresh'
      BY <2>0, <2>2 DEF Refuse, TokensFresh, TypeOK
    <3>2. ItemsOwed'
      BY <1>2, <2>2 DEF PutCommit, Refuse, Swept, ItemsOwed
    <3>3. NeverEvicted'
      BY <1>2, <2>0, <2>2, SweptKeepsUnexpired DEF PutCommit, Refuse, NeverEvicted
    <3> QED BY <1>t, <3>1, <3>2, <3>3
  <2> QED BY <1>2, <2>1, <2>2 DEF PutCommit
<1>3. ASSUME NEW t \in Token, Take(t) PROVE StoreInv'
  <2>0. now \in Nat
    BY DEF TypeOK
  <2>1. TokensFresh'
    BY <1>3 DEF Take, putter, TokensFresh
  <2>2. ItemsOwed'
    BY <1>3 DEF Take, Swept, ItemsOwed
  <2>3. NeverEvicted'
    BY <1>3, <2>0, SweptKeepsUnexpired DEF Take, NeverEvicted, Swept, TypeOK
  <2> QED BY <1>t, <2>1, <2>2, <2>3
<1>4. CASE Sweep
  <2>0. now \in Nat
    BY DEF TypeOK
  <2>1. TokensFresh'
    BY <1>4 DEF Sweep, putter, TokensFresh
  <2>2. ItemsOwed'
    BY <1>4 DEF Sweep, Swept, ItemsOwed
  <2>3. NeverEvicted'
    BY <1>4, <2>0, SweptKeepsUnexpired DEF Sweep, NeverEvicted, TypeOK
  <2> QED BY <1>t, <2>1, <2>2, <2>3
<1>5. CASE Tick
  <2>1. TokensFresh' /\ ItemsOwed'
    BY <1>5 DEF Tick, putter, TokensFresh, ItemsOwed
  <2>2. NeverEvicted'
    BY <1>5 DEF Tick, NeverEvicted, TypeOK
  <2> QED BY <1>t, <2>1, <2>2
<1>6. CASE UNCHANGED vars
  BY <1>t, <1>6 DEF vars, putter, TokensFresh, ItemsOwed, NeverEvicted
<1> QED BY <1>1, <1>2, <1>3, <1>4, <1>5, <1>6 DEF Next

\* What is stored was handed out and not fetched, tokens in flight are new, and
\* no unexpired artifact is missing.
THEOREM StoreInvariant == Spec => []StoreInv
BY InvInit, InvStep, PTL DEF Spec

\* Until its deadline passes, an artifact nobody has fetched is in the store.
THEOREM StoreNeverEvicts == Spec => []NeverEvicted
<1>1. StoreInv => NeverEvicted
  BY DEF StoreInv
<1> QED BY <1>1, StoreInvariant, PTL

(***************************************************************************)
(* Capacity                                                                *)
(***************************************************************************)
\* A sweep leaves a finite set, no larger than the store.
LEMMA SweptBounded ==
    ASSUME TypeOK, NEW at, NEW S \in SUBSET Token, S \subseteq Swept(at),
           Cardinality(items) <= MaxItems
    PROVE  Cardinality(S) <= MaxItems
<1>1. IsFiniteSet(items)
  BY StoreAssumption, FS_Subset DEF TypeOK
<1>2. S \subseteq items
  BY DEF Swept
<1>3. IsFiniteSet(S) /\ Cardinality(S) <= Cardinality(items)
  BY <1>1, <1>2, FS_Subset
<1>4. Cardinality(S) \in Nat /\ Cardinality(items) \in Nat
  BY <1>1, <1>3, FS_CardinalityType
<1> QED BY <1>3, <1>4, StoreAssumption

\* Only the critical section of Put adds an artifact, after its capacity test.
LEMMA BoundedStep ==
    StoreInv /\ StoreInv' /\ StoreBounded /\ [Next]_vars => StoreBounded'
<1> SUFFICES ASSUME StoreInv, StoreInv', StoreBounded, [Next]_vars
             PROVE  Cardinality(items') <= MaxItems
  BY DEF StoreInv, ItemsOwed, StoreBounded
<1>0. TypeOK /\ Cardinality(items) <= MaxItems
  BY DEF StoreInv, StoreBounded
<1>1. ASSUME NEW p \in Putter, PutCommit(p), Store(p) PROVE Cardinality(items') <= MaxItems
  <2> DEFINE kept == Swept(moment[p])
  <2>1. kept \subseteq Token /\ items' = kept \cup {token[p]} /\ Cardinality(kept) < MaxItems
    BY <1>0, <1>1 DEF Store, Swept, TypeOK
  <2>2. IsFiniteSet(kept) /\ Cardinality(kept) \in Nat
    BY <2>1, StoreAssumption, FS_Subset, FS_CardinalityType
  <2> HIDE DEF kept
  <2>3. Cardinality(kept \cup {token[p]}) \in {Cardinality(kept), Cardinality(kept) + 1}
    BY <2>2, FS_AddElement
  <2> QED BY <2>1, <2>2, <2>3, StoreAssumption
<1>2. ASSUME NEW at, items' \subseteq Swept(at) PROVE Cardinality(items') <= MaxItems
  <2>1. items' \in SUBSET Token
    BY DEF StoreInv, TypeOK
  <2> QED BY <1>0, <1>2, <2>1, SweptBounded
<1>3. CASE items' = items
  BY <1>0, <1>3
<1>4. ASSUME NEW p \in Putter, PutCommit(p), Refuse(p) PROVE items' \subseteq Swept(moment[p])
  BY <1>4 DEF Refuse
<1>5. ASSUME NEW t \in Token, Take(t) PROVE items' \subseteq Swept(now)
  BY <1>5 DEF Take
<1>6. Sweep => items' \subseteq Swept(now)
  BY DEF Sweep
<1>7. (\E p \in Putter : PutPrepare(p)) \/ Tick \/ UNCHANGED vars => items' = items
  BY DEF PutPrepare, Tick, vars
<1> QED BY <1>1, <1>2, <1>3, <1>4, <1>5, <1>6, <1>7 DEF Next, PutCommit

\* The store never holds more than maxItems, each of them owed to a caller.
THEOREM StoreIsBounded == Spec => []StoreBounded
<1>1. Init => StoreBounded
  BY StoreAssumption, FS_EmptySet DEF Init, StoreBounded
<1> QED BY <1>1, StoreInvariant, BoundedStep, PTL DEF Spec

\* A refusal means that maxItems unfetched artifacts were unexpired at the
\* moment the Put started.
THEOREM StoreRefusesAtCapacity == Spec => RefusedAtCapacity
<1> DEFINE Owed(p) == {t \in granted \ spent : moment[p] <= expiresAt[t]}
<1>1. ASSUME StoreInv, [Next]_vars, NEW p \in Putter, outcome[p] # "full", outcome'[p] = "full"
      PROVE  Cardinality(Owed(p)) >= MaxItems
  <2>1. Refuse(p)
    BY <1>1 DEF StoreInv, TypeOK, Next, PutPrepare, PutCommit, Store, Refuse,
                Take, Sweep, Tick, vars, putter
  <2>2. Swept(moment[p]) \subseteq Owed(p)
    BY <1>1 DEF StoreInv, TypeOK, ItemsOwed, Swept
  <2>3. Owed(p) \subseteq Token
    BY <1>1 DEF StoreInv, TypeOK
  <2>4. IsFiniteSet(Owed(p))
    BY <2>3, StoreAssumption, FS_Subset
  <2> HIDE DEF Owed
  <2>5. IsFiniteSet(Swept(moment[p])) /\ Cardinality(Swept(moment[p])) <= Cardinality(Owed(p))
    BY <2>2, <2>4, FS_Subset
  <2>6. Cardinality(Swept(moment[p])) \in Nat /\ Cardinality(Owed(p)) \in Nat
    BY <2>4, <2>5, FS_CardinalityType
  <2>7. Cardinality(Swept(moment[p])) >= MaxItems
    BY <2>1 DEF Refuse
  <2> QED BY <2>5, <2>6, <2>7, StoreAssumption
<1>2. StoreInv /\ [Next]_vars =>
        [\A p \in Putter :
            outcome[p] # "full" /\ outcome'[p] = "full" => Cardinality(Owed(p)) >= MaxItems]_vars
  BY <1>1
<1> QED BY <1>2, StoreInvariant, PTL DEF Spec, RefusedAtCapacity

(***************************************************************************)
(* The store implements Capability.                                        *)
(***************************************************************************)
\* What a Take finds after its sweep is what the promise says is live.
LEMMA FoundIsLive ==
    ASSUME StoreInv, NEW t \in Token
    PROVE  t \in Swept(now) <=> Promise!Live(t)
BY HorizonNat DEF StoreInv, TypeOK, ItemsOwed, NeverEvicted, Swept, Promise!Live

\* Every step of the store is a step of Capability or invisible to it.
LEMMA PromiseStep == StoreInv /\ [Next]_vars => [Promise!Next]_(Promise!capabilityVars)
<1> SUFFICES ASSUME StoreInv, [Next]_vars
             PROVE  Promise!Next \/ UNCHANGED Promise!capabilityVars
  OBVIOUS
<1> USE DEF Promise!capabilityVars
<1>1. ASSUME NEW p \in Putter, PutCommit(p), Store(p) PROVE Promise!Grant(token[p])
  <2>1. moment[p] + TTL \in 0..(now + TTL)
    BY StoreAssumption, HorizonNat DEF StoreInv, TypeOK
  <2>2. token[p] \notin granted
    BY <1>1 DEF PutCommit, StoreInv, TokensFresh
  <2> QED BY <1>1, <2>1, <2>2 DEF PutCommit, Store, Promise!Grant
<1>2. ASSUME NEW p \in Putter, PutCommit(p), Store(p) PROVE Promise!Next
  <2>1. token[p] \in Token
    BY <1>2 DEF PutCommit, StoreInv, TypeOK
  <2> QED BY <1>1, <1>2, <2>1 DEF Promise!Next
<1>3. ASSUME NEW t \in Token, Take(t) PROVE Promise!Next
  <2>1. (t \in Swept(now)) = Promise!Live(t)
    BY FoundIsLive DEF Promise!Live
  <2>2. Promise!Fetch(t)
    BY <1>3, <2>1, Zenon DEF Take, Promise!Fetch, putter
  <2> QED BY <2>2 DEF Promise!Next
<1>4. Tick => Promise!Next
  BY DEF Tick, Promise!Next, Promise!Tick
<1>5. (\E p \in Putter : PutPrepare(p) \/ (PutCommit(p) /\ Refuse(p))) \/ Sweep \/ UNCHANGED vars
        => UNCHANGED Promise!capabilityVars
  BY DEF PutPrepare, PutCommit, Refuse, Sweep, vars
<1> QED BY <1>2, <1>3, <1>4, <1>5 DEF Next, PutCommit

\* A fetch gets the file exactly when its URL is unspent and not expired: the
\* sweeps, the capacity and the unlocked half of Put are invisible to callers.
THEOREM StoreKeepsPromise == Spec => CapabilityKept
<1>1. Init => Promise!Init
  BY DEF Init, Promise!Init
<1> QED BY <1>1, StoreInvariant, PromiseStep, PTL DEF Spec, CapabilityKept, Promise!Spec
=============================================================================
