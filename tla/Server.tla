------------------------------- MODULE Server -------------------------------
(***************************************************************************)
(* The running server: the process of Lifecycle, the store of              *)
(* ArtifactStore, and what connects them in cmd/mcp-lostfilm/main.go.      *)
(* Download calls Put while the process runs and HTTP is configured,       *)
(* artifactHandler takes an artifact in the step that starts its transfer, *)
(* and the janitor sweeps only for as long as serve keeps it.              *)
(***************************************************************************)
EXTENDS Lifecycle, Naturals, FiniteSets

CONSTANTS Token, NoToken, Putter, TTL, MaxItems, LastPut

VARIABLES
    now, items, expiresAt, granted, spent, reply, token, moment, outcome,
    serving   \* the token a request has consumed

store == <<now, items, expiresAt, granted, spent, reply, token, moment, outcome>>
serverVars == <<vars, store, serving>>

Store == INSTANCE ArtifactStore

ASSUME ServerAssumption == Store!StoreAssumption

\* A step of serve or runHTTPServer that does not touch the store.
Process ==
    /\ \/ Signal \/ WatcherStops \/ SecondSignal
       \/ StdioReturns \/ StdioFails
       \/ Listen \/ HttpFails \/ HttpStops
       \/ GcStops \/ Exit
       \/ \E r \in Request : Accept(r) \/ FinishTransfer(r)
       \/ Drain \/ Drained
    /\ UNCHANGED <<store, serving>>

\* Mutant: the tool stores without asking whether HTTP is configured.
BeginPutAlways(p) ==
    /\ Running
    /\ Store!PutPrepare(p)
    /\ UNCHANGED <<vars, serving>>

\* deliver, on either transport: runDownload refuses the artifact mode without
\* HTTP.  A call that is under way goes on while the transports stop.
BeginPut(p) ==
    /\ Running /\ HTTPEnabled
    /\ Store!PutPrepare(p)
    /\ UNCHANGED <<vars, serving>>

EndPut(p) ==
    /\ Running
    /\ Store!PutCommit(p)
    /\ UNCHANGED <<vars, serving>>

\* Mutant: the transfer starts before the token is consumed.
FetchFirst(r, t) ==
    /\ StartTransfer(r)
    /\ t \in Store!Swept(now)
    /\ serving' = [serving EXCEPT ![r] = t]
    /\ UNCHANGED store

\* artifactHandler: Take decides between a transfer and a 404.
Fetch(r, t) ==
    /\ Store!Take(t)
    /\ \/ /\ t \in Store!Swept(now)
          /\ StartTransfer(r)
          /\ serving' = [serving EXCEPT ![r] = t]
       \/ /\ t \notin Store!Swept(now)
          /\ AnswerNotFound(r)
          /\ UNCHANGED serving

\* A tick of StartGC.
Collect ==
    /\ Running /\ gc = "running"
    /\ Store!Sweep
    /\ UNCHANGED <<vars, serving>>

Clock ==
    /\ Running
    /\ Store!Tick
    /\ UNCHANGED <<vars, serving>>

ServerInit ==
    /\ Init
    /\ Store!Init
    /\ serving = [r \in Request |-> NoToken]

ServerNext ==
    \/ Process
    \/ \E p \in Putter : BeginPut(p) \/ EndPut(p)
    \/ \E r \in Request, t \in Token : Fetch(r, t)
    \/ Collect \/ Clock

ServerSpec == ServerInit /\ [][ServerNext]_serverVars

\* The fairness of serve; the ticker of StartGC fires while StartGC runs.
ServerFairSpec ==
    ServerSpec /\ Fairness /\ WF_serverVars(Collect) /\ WF_serverVars(Clock)

(***************************************************************************)
(* Properties                                                              *)
(***************************************************************************)
\* A token is burnt by exactly one request: no two transfers, finished or cut
\* by the end of the process, carry the same artifact, and every transfer
\* carries one.
OneTransferPerToken ==
    \A r \in Request :
        /\ transfer[r] \in {"writing", "sent", "cut"} <=> serving[r] \in Token
        /\ \A q \in Request \ {r} : serving[q] = serving[r] => serving[r] = NoToken

\* A URL that was handed out, is unspent and has not expired can be fetched
\* for as long as nobody asked the process to stop: the artifact is in the
\* store, the HTTP transport is up or coming up, and the janitor is with it.
UrlWorksUntilAskedToStop ==
    Running /\ ~GroupDone =>
        \A t \in granted \ spent : now <= expiresAt[t] =>
            t \in items /\ http \in {"starting", "serving"} /\ gc = "running"

\* A store at its limit makes room without help from its clients, whichever
\* transports have ended, unless the process ends.
FullStoreDrains ==
    Cardinality(items) = MaxItems ~> Cardinality(items) < MaxItems \/ exit # "running"
=============================================================================
