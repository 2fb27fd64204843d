---------------------------- MODULE ServerProofs ----------------------------
(***************************************************************************)
(* The safety properties of Lifecycle, for any set of requests, and the    *)
(* composition: every run of the server is a run of Lifecycle and a run of *)
(* ArtifactStore, so their theorems hold of it, and with them the two      *)
(* properties that relate the process to the store.                        *)
(***************************************************************************)
EXTENDS Server, TLAPS

Proved == INSTANCE ArtifactStoreProofs

(***************************************************************************)
(* The process: what ends the group's context and what follows from it.    *)
(* A failure is recorded as the group's error, only the watcher cancels    *)
(* ctx when HTTP is enabled, and nothing of the HTTP side stops before the *)
(* group is done.                                                          *)
(***************************************************************************)
CausesInv ==
    /\ broke => firstError # "none"
    /\ firstError # "none" => broke \/ rootDone
    /\ exit = "ok" => firstError = "none"
    /\ HTTPEnabled /\ rootDone => watcher = "stopped"
    /\ http = "done" \/ shutdown # "waiting" \/ gc = "done" => GroupDone

IInv == TypeOK /\ CausesInv

\* One step of any goroutine keeps the invariant.
LEMMA StepKeepsInv == IInv /\ [Next]_vars => IInv'
<1> SUFFICES ASSUME IInv, [Next]_vars PROVE IInv'
    OBVIOUS
<1> USE DEF IInv, TypeOK, CausesInv, HTTPEnabled, GroupDone, Running
<1>1. CASE Signal       BY <1>1 DEF Signal, group
<1>2. CASE WatcherStops BY <1>2 DEF WatcherStops, group
<1>3. CASE SecondSignal BY <1>3 DEF SecondSignal, Terminate, group
<1>4. CASE StdioReturns BY <1>4 DEF StdioReturns
<1>5. CASE StdioFails   BY <1>5 DEF StdioFails, Report
<1>6. CASE Listen       BY <1>6 DEF Listen
<1>7. CASE HttpFails    BY <1>7 DEF HttpFails, Report
<1>8. CASE HttpStops    BY <1>8 DEF HttpStops
<1>9. CASE GcStops      BY <1>9 DEF GcStops
<1>10. CASE Exit        BY <1>10 DEF Exit, Terminate, group
<1>11. ASSUME NEW r \in Request, Accept(r) PROVE IInv'
    BY <1>11 DEF Accept, group
<1>12. ASSUME NEW r \in Request, StartTransfer(r) PROVE IInv'
    BY <1>12 DEF StartTransfer, group
<1>13. ASSUME NEW r \in Request, AnswerNotFound(r) PROVE IInv'
    BY <1>13 DEF AnswerNotFound, group
<1>14. ASSUME NEW r \in Request, FinishTransfer(r) PROVE IInv'
    BY <1>14 DEF FinishTransfer, group
<1>15. CASE Drain       BY <1>15 DEF Drain, group
<1>16. CASE Drained
    <2>1. shutdown' \in {"over", "timeout"}
        BY <1>16 DEF Drained
    <2> QED BY <1>16, <2>1 DEF Drained, group
<1>17. CASE UNCHANGED vars BY <1>17 DEF vars, group
<1> QED
    BY <1>1, <1>2, <1>3, <1>4, <1>5, <1>6, <1>7, <1>8, <1>9, <1>10,
       <1>11, <1>12, <1>13, <1>14, <1>15, <1>16, <1>17 DEF Next

\* The types and the causes hold throughout every run of serve.
THEOREM LifecycleInvariant == Spec => []IInv
<1>1. Init => IInv
    BY DEF Init, IInv, TypeOK, CausesInv, HTTPEnabled, GroupDone
<1> QED BY <1>1, StepKeepsInv, PTL DEF Spec

\* Every variable of serve and runHTTPServer keeps its type.
THEOREM LifecycleTyped == Spec => []TypeOK
<1>1. IInv => TypeOK BY DEF IInv
<1> QED BY <1>1, LifecycleInvariant, PTL

\* A transport that fails on its own makes serve return an error, in whatever
\* order the members of the group stop.
THEOREM FailureIsReported == Spec => []FailureReported
<1>1. IInv => FailureReported BY DEF IInv, CausesInv, FailureReported
<1> QED BY <1>1, LifecycleInvariant, PTL

\* The end of standard input does not stop the HTTP transport.
THEOREM HttpSurvivesStdio == Spec => []HttpOutlivesStdio
<1>1. IInv => HttpOutlivesStdio
    BY DEF IInv, TypeOK, CausesInv, HttpOutlivesStdio, HTTPEnabled, GroupDone
<1> QED BY <1>1, LifecycleInvariant, PTL

\* The janitor runs for as long as the HTTP transport is to hand out artifacts.
THEOREM JanitorRunsWhileServing == Spec => []JanitorCoversServing
<1>1. IInv => JanitorCoversServing
    BY DEF IInv, TypeOK, CausesInv, JanitorCoversServing, HTTPEnabled, GroupDone
<1> QED BY <1>1, LifecycleInvariant, PTL

(***************************************************************************)
(* The two components                                                      *)
(***************************************************************************)
\* A step of the server is a step of the process or does not touch it.
LEMMA ProcessStep == [ServerNext]_serverVars => [Next]_vars
<1> SUFFICES ASSUME [ServerNext]_serverVars PROVE [Next]_vars
  OBVIOUS
<1>1. CASE Process
  BY <1>1 DEF Process, Next
<1>2. ASSUME NEW p \in Putter, BeginPut(p) \/ EndPut(p) PROVE [Next]_vars
  BY <1>2 DEF BeginPut, EndPut
<1>3. ASSUME NEW r \in Request, NEW t \in Token, Fetch(r, t) PROVE [Next]_vars
  BY <1>3 DEF Fetch, Next
<1>4. CASE Collect \/ Clock
  BY <1>4 DEF Collect, Clock
<1>5. CASE UNCHANGED serverVars
  BY <1>5 DEF serverVars
<1> QED BY <1>1, <1>2, <1>3, <1>4, <1>5 DEF ServerNext

\* The server refines the process: nothing the store does disturbs serve.
THEOREM ServerRunsProcess == ServerSpec => Spec
<1>1. ServerInit => Init
  BY DEF ServerInit
<1> QED BY <1>1, ProcessStep, PTL DEF ServerSpec, Spec

\* The two instances of the store count alike.
LEMMA SameCount == \A S : Store!Cardinality(S) = Proved!Cardinality(S)
BY Zenon DEF Store!Cardinality, Proved!Cardinality

\* A step of the server is a step of the store or does not touch it.
LEMMA StoreStep == [ServerNext]_serverVars => [Proved!Next]_(Proved!vars)
<1> SUFFICES ASSUME [ServerNext]_serverVars PROVE Proved!Next \/ UNCHANGED Proved!vars
  OBVIOUS
<1> USE DEF Proved!vars, Proved!putter
<1>1. CASE Process
  BY <1>1 DEF Process, store
<1>2. ASSUME NEW p \in Putter, BeginPut(p) PROVE Proved!Next
  <2>1. Proved!PutPrepare(p)
    BY <1>2 DEF BeginPut, Store!PutPrepare, Proved!PutPrepare, Store!Fresh, Proved!Fresh
  <2> QED BY <2>1 DEF Proved!Next
<1>3. ASSUME NEW p \in Putter, EndPut(p) PROVE Proved!Next
  <2>1. Proved!PutCommit(p)
    BY <1>3, SameCount DEF EndPut, Store!PutCommit, Proved!PutCommit, Store!Store, Proved!Store,
                Store!Refuse, Proved!Refuse, Store!Swept, Proved!Swept
  <2> QED BY <2>1 DEF Proved!Next
<1>4. ASSUME NEW r \in Request, NEW t \in Token, Fetch(r, t) PROVE Proved!Next
  <2>1. Proved!Take(t)
    BY <1>4 DEF Fetch, Store!Take, Proved!Take, Store!Swept, Proved!Swept, Store!putter
  <2> QED BY <2>1 DEF Proved!Next
<1>5. CASE Collect
  BY <1>5 DEF Collect, Store!Sweep, Proved!Sweep, Store!Swept, Proved!Swept, Store!putter,
              Proved!Next
<1>6. CASE Clock
  BY <1>6 DEF Clock, Store!Tick, Proved!Tick, Store!Horizon, Proved!Horizon, Store!putter,
              Proved!Next
<1>7. CASE UNCHANGED serverVars
  BY <1>7 DEF serverVars, store
<1> QED BY <1>1, <1>2, <1>3, <1>4, <1>5, <1>6, <1>7 DEF ServerNext

\* The server refines the store: Put, Take and the sweep keep their meaning
\* whatever state the transports are in.
THEOREM ServerRunsStore == ServerSpec => Proved!Spec
<1>1. ServerInit => Proved!Init
  BY DEF ServerInit, Store!Init, Proved!Init
<1> QED BY <1>1, StoreStep, PTL DEF ServerSpec, Proved!Spec

\* The assumption of the server is that of the store.
LEMMA SameAssumption == Proved!StoreAssumption
<1>1. Store!IsFiniteSet(Token) => Proved!IsFiniteSet(Token)
  BY DEF Store!IsFiniteSet, Proved!IsFiniteSet
<1> QED BY <1>1, ServerAssumption DEF Store!StoreAssumption, Proved!StoreAssumption

\* What is proved of the components, of the server.
LEMMA Components == ServerSpec => [](IInv /\ Proved!StoreInv)
<1>1. Proved!Spec => []Proved!StoreInv
  BY SameAssumption, Proved!StoreInvariant DEF Proved!StoreAssumption
<1> QED BY <1>1, ServerRunsProcess, ServerRunsStore, LifecycleInvariant, PTL

(***************************************************************************)
(* What the composition adds.  A Put is under way, and a token was handed  *)
(* out, only when HTTP is configured.  Every token that a request serves   *)
(* was fetched, so a later Take does not find it.                          *)
(***************************************************************************)
OnlyWithHTTP ==
    ~HTTPEnabled => granted = {} /\ \A p \in Putter : token[p] = NoToken

ServingInv ==
    /\ serving \in [Request -> Token \cup {NoToken}]
    /\ \A r \in Request : serving[r] \in Token => serving[r] \in spent
    /\ OneTransferPerToken

ServerInv == OnlyWithHTTP /\ ServingInv

\* No step of the process enables HTTP, or starts a transfer without a fetch.
LEMMA ProcessKeepsInv ==
    ASSUME IInv, ServerInv, Process PROVE ServerInv'
<1>1. HTTPEnabled' = HTTPEnabled
  BY DEF Process, HTTPEnabled, IInv, TypeOK, Signal, WatcherStops, SecondSignal, StdioReturns,
         StdioFails, Listen, HttpFails, HttpStops, GcStops, Exit, Accept, FinishTransfer,
         Drain, Drained, group
<1>2. OnlyWithHTTP'
  BY <1>1 DEF ServerInv, OnlyWithHTTP, Process, store
<1>3. UNCHANGED <<serving, spent>>
  BY DEF Process, store
<1>4. /\ transfer' \in [Request -> {"none", "accepted", "writing", "sent", "missing", "cut"}]
      /\ \A r \in Request : transfer'[r] \in {"writing", "sent", "cut"}
                               <=> transfer[r] \in {"writing", "sent", "cut"}
  BY DEF Process, IInv, TypeOK, Terminate, Signal, WatcherStops, SecondSignal, StdioReturns,
         StdioFails, Listen, HttpFails, HttpStops, GcStops, Exit, Accept, FinishTransfer,
         Drain, Drained, group
<1> QED BY <1>2, <1>3, <1>4 DEF ServerInv, ServingInv, OneTransferPerToken

\* A fetch burns a token that no request has burnt.
LEMMA FetchKeepsInv ==
    ASSUME IInv, Proved!StoreInv, ServerInv,
           NEW r \in Request, NEW t \in Token, Fetch(r, t)
    PROVE  ServerInv'
<1> USE DEF ServerInv, ServingInv, OneTransferPerToken
<1>1. OnlyWithHTTP'
  BY DEF OnlyWithHTTP, Fetch, Store!Take, Store!putter, StartTransfer, AnswerNotFound,
         HTTPEnabled, group
<1>2. NoToken \notin Token
  BY SameAssumption DEF Proved!StoreAssumption
<1>3. CASE t \in Store!Swept(now) /\ StartTransfer(r) /\ serving' = [serving EXCEPT ![r] = t]
  <2>1. t \in items /\ t \notin spent
    BY <1>3 DEF Store!Swept, Proved!StoreInv, Proved!ItemsOwed
  <2>2. spent' = spent \cup {t}
    BY <1>3 DEF Fetch, Store!Take
  <2>3. \A q \in Request : serving[q] # t
    BY <2>1
  <2>4. /\ transfer[r] = "accepted"
        /\ transfer' = [transfer EXCEPT ![r] = "writing"]
        /\ transfer \in [Request -> {"none", "accepted", "writing", "sent", "missing", "cut"}]
    BY <1>3 DEF StartTransfer, IInv, TypeOK
  <2> QED BY <1>1, <1>2, <1>3, <2>2, <2>3, <2>4
<1>4. CASE t \notin Store!Swept(now) /\ AnswerNotFound(r) /\ UNCHANGED serving
  <2>1. spent' = spent
    BY <1>4 DEF Fetch, Store!Take
  <2>2. /\ transfer[r] = "accepted"
        /\ transfer' = [transfer EXCEPT ![r] = "missing"]
        /\ transfer \in [Request -> {"none", "accepted", "writing", "sent", "missing", "cut"}]
    BY <1>4 DEF AnswerNotFound, IInv, TypeOK
  <2> QED BY <1>1, <1>4, <2>1, <2>2
<1> QED BY <1>3, <1>4 DEF Fetch

\* One step of the server keeps the invariant.
LEMMA ServerStepKeepsInv ==
    IInv /\ Proved!StoreInv /\ ServerInv /\ [ServerNext]_serverVars => ServerInv'
<1> SUFFICES ASSUME IInv, Proved!StoreInv, ServerInv, [ServerNext]_serverVars
             PROVE  ServerInv'
  OBVIOUS
<1> USE DEF ServerInv, OnlyWithHTTP, ServingInv, OneTransferPerToken, HTTPEnabled
<1>1. CASE Process
  BY <1>1, ProcessKeepsInv
<1>2. ASSUME NEW p \in Putter, BeginPut(p) PROVE ServerInv'
  BY <1>2 DEF BeginPut, Store!PutPrepare, vars, group
<1>3. ASSUME NEW p \in Putter, EndPut(p) PROVE ServerInv'
  <2>1. HTTPEnabled
    BY <1>3 DEF EndPut, Store!PutCommit
  <2> QED BY <1>3, <2>1 DEF EndPut, Store!PutCommit, vars, group
<1>4. ASSUME NEW r \in Request, NEW t \in Token, Fetch(r, t) PROVE ServerInv'
  BY <1>4, FetchKeepsInv
<1>5. CASE Collect
  BY <1>5 DEF Collect, Store!Sweep, Store!putter, vars, group
<1>6. CASE Clock
  BY <1>6 DEF Clock, Store!Tick, Store!putter, vars, group
<1>7. CASE UNCHANGED serverVars
  BY <1>7 DEF serverVars, vars, group, store
<1> QED BY <1>1, <1>2, <1>3, <1>4, <1>5, <1>6, <1>7 DEF ServerNext

\* The invariant of the composition, with those of its parts.
THEOREM ServerInvariant == ServerSpec => [](IInv /\ Proved!StoreInv /\ ServerInv)
<1>1. ServerInit => ServerInv
  BY SameAssumption
     DEF ServerInit, Init, Store!Init, ServerInv, OnlyWithHTTP, ServingInv,
         OneTransferPerToken, Proved!StoreAssumption
<1> QED BY <1>1, Components, ServerStepKeepsInv, PTL DEF ServerSpec

\* No artifact is sent twice, whichever requests race for its URL and however
\* the process ends.
THEOREM TokensAreBurntOnce == ServerSpec => []OneTransferPerToken
<1>1. ServerInv => OneTransferPerToken
  BY DEF ServerInv, ServingInv
<1> QED BY <1>1, ServerInvariant, PTL

\* A download URL works until its deadline for as long as nobody asks the
\* process to stop.
THEOREM UrlsWork == ServerSpec => []UrlWorksUntilAskedToStop
<1>1. IInv /\ Proved!StoreInv /\ ServerInv => UrlWorksUntilAskedToStop
  BY DEF IInv, TypeOK, CausesInv, ServerInv, OnlyWithHTTP, Proved!StoreInv,
         Proved!NeverEvicted, UrlWorksUntilAskedToStop, HTTPEnabled
<1> QED BY <1>1, ServerInvariant, PTL

\* The promise of a download URL holds of the server: requests, shutdown and
\* the end of the janitor do not change what a fetch may find.
THEOREM ServerKeepsPromise == ServerSpec => Proved!CapabilityKept
<1>1. Proved!Spec => Proved!CapabilityKept
  BY SameAssumption, Proved!StoreKeepsPromise DEF Proved!StoreAssumption
<1> QED BY <1>1, ServerRunsStore, PTL

\* The properties of the process hold of the server.
THEOREM ServerProcessSafe ==
    ServerSpec => [](TypeOK /\ FailureReported /\ HttpOutlivesStdio /\ JanitorCoversServing)
BY ServerRunsProcess, LifecycleTyped, FailureIsReported, HttpSurvivesStdio,
   JanitorRunsWhileServing, PTL
=============================================================================
