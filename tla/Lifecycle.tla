----------------------------- MODULE Lifecycle -----------------------------
(***************************************************************************)
(* How the process runs and ends (cmd/mcp-lostfilm/main.go: serve and      *)
(* runHTTPServer).  An errgroup holds the stdio transport and, when HTTP   *)
(* is enabled, the HTTP transport and the artifact janitor.  Outside the   *)
(* group run the signal watcher, the goroutine that shuts the HTTP server  *)
(* down, and the handlers of the artifact transfers in flight.             *)
(***************************************************************************)

CONSTANT Request   \* bound: artifact downloads started in one run

VARIABLES
    rootDone,   \* ctx was cancelled
    firstError, \* the transport whose error the group keeps, or "none"
    watcher,    \* the signal watcher is "armed", or "stopped"
    gc,         \* StartGC: "off", "running" or "done"
    stdio,      \* server.Run: "running" or "done"
    http,       \* runHTTPServer: "off", "starting", "serving" or "done"
    shutdown,   \* its shutdown goroutine: "waiting", "draining", "over", "timeout"
    transfer,   \* artifact handlers: "none", "accepted", "writing",
                \* "sent", "missing" (a 404) or "cut"
    broke,      \* history: a transport failed before anyone asked to stop
    exit        \* "running", "ok", "error" or "killed"

group == <<gc, stdio, http>>
vars == <<rootDone, firstError, watcher, group, shutdown, transfer, broke, exit>>

Running == exit = "running"

\* cfg.HTTPEnabled()
HTTPEnabled == http # "off"

\* groupCtx is done: its parent is, or a member of the group returned an error.
GroupDone == rootDone \/ firstError # "none"

Report(who) ==
    /\ firstError' = IF firstError = "none" THEN who ELSE firstError
    /\ broke' = (broke \/ ~GroupDone)

\* The process ends with its handlers wherever they are.
Terminate(status) ==
    /\ exit' = status
    /\ transfer' = [r \in Request |-> IF transfer[r] = "writing" THEN "cut" ELSE transfer[r]]

(***************************************************************************)
(* The signal watcher                                                      *)
(***************************************************************************)
Signal ==
    /\ Running /\ watcher = "armed"
    /\ rootDone' = TRUE
    /\ watcher' = "stopped"
    /\ UNCHANGED <<firstError, group, shutdown, transfer, broke, exit>>

WatcherStops ==
    /\ Running /\ watcher = "armed" /\ rootDone
    /\ watcher' = "stopped"
    /\ UNCHANGED <<rootDone, firstError, group, shutdown, transfer, broke, exit>>

\* After signal.Stop a signal has its default effect.
SecondSignal ==
    /\ Running /\ watcher = "stopped"
    /\ Terminate("killed")
    /\ UNCHANGED <<rootDone, firstError, watcher, group, shutdown, broke>>

(***************************************************************************)
(* The group                                                               *)
(***************************************************************************)
\* Mutant: the end of stdin stops the HTTP transport as well.
StdioCancels ==
    /\ Running /\ stdio = "running"
    /\ stdio' = "done"
    /\ rootDone' = TRUE
    /\ UNCHANGED <<firstError, watcher, gc, http, shutdown, transfer, broke, exit>>

\* server.Run returns without an error that counts: end of input, or anything
\* at all once groupCtx is done.
StdioReturns ==
    /\ Running /\ stdio = "running"
    /\ stdio' = "done"
    /\ rootDone' = (rootDone \/ ~HTTPEnabled)
    /\ UNCHANGED <<firstError, watcher, gc, http, shutdown, transfer, broke, exit>>

\* Mutant: the error is taken for the end of the input.
StdioErrorDropped ==
    /\ Running /\ stdio = "running" /\ ~GroupDone
    /\ stdio' = "done"
    /\ broke' = TRUE
    /\ UNCHANGED <<rootDone, firstError, watcher, gc, http, shutdown, transfer, exit>>

StdioFails ==
    /\ Running /\ stdio = "running" /\ ~GroupDone
    /\ stdio' = "done"
    /\ Report("stdio")
    /\ UNCHANGED <<rootDone, watcher, gc, http, shutdown, transfer, exit>>

\* Mutant: the server listens although HTTP is not enabled.
ListenAnyway ==
    /\ Running /\ http \in {"off", "starting"} /\ shutdown = "waiting"
    /\ http' = "serving"
    /\ UNCHANGED <<rootDone, firstError, watcher, gc, stdio, shutdown, transfer, broke, exit>>

Listen ==
    /\ Running /\ http = "starting" /\ shutdown = "waiting"
    /\ http' = "serving"
    /\ UNCHANGED <<rootDone, firstError, watcher, gc, stdio, shutdown, transfer, broke, exit>>

\* The address cannot be bound, or Accept fails.
HttpFails ==
    /\ Running /\ http \in {"starting", "serving"} /\ shutdown = "waiting"
    /\ http' = "done"
    /\ Report("http")
    /\ UNCHANGED <<rootDone, watcher, gc, stdio, shutdown, transfer, exit>>

\* ListenAndServe returns ErrServerClosed as soon as Shutdown is called.
HttpStops ==
    /\ Running /\ http \in {"starting", "serving"} /\ shutdown # "waiting"
    /\ http' = "done"
    /\ UNCHANGED <<rootDone, firstError, watcher, gc, stdio, shutdown, transfer, broke, exit>>

\* Mutant: the janitor is bound to ctx, which an error does not cancel.
GcOnRoot ==
    /\ Running /\ gc = "running" /\ rootDone
    /\ gc' = "done"
    /\ UNCHANGED <<rootDone, firstError, watcher, stdio, http, shutdown, transfer, broke, exit>>

\* Mutant: the janitor ends along with the stdio transport.
GcFollowsStdio ==
    /\ Running /\ gc = "running" /\ (GroupDone \/ stdio = "done")
    /\ gc' = "done"
    /\ UNCHANGED <<rootDone, firstError, watcher, stdio, http, shutdown, transfer, broke, exit>>

GcStops ==
    /\ Running /\ gc = "running" /\ GroupDone
    /\ gc' = "done"
    /\ UNCHANGED <<rootDone, firstError, watcher, stdio, http, shutdown, transfer, broke, exit>>

\* group.Wait returns, and with it serve, run and main.
Exit ==
    /\ Running
    /\ gc # "running" /\ stdio = "done" /\ http \in {"off", "done"}
    /\ Terminate(IF firstError = "none" THEN "ok" ELSE "error")
    /\ UNCHANGED <<rootDone, firstError, watcher, group, shutdown, broke>>

(***************************************************************************)
(* The HTTP server                                                         *)
(***************************************************************************)
\* A request is read from a connection that was open before Shutdown.
Accept(r) ==
    /\ Running /\ http = "serving" /\ shutdown = "waiting"
    /\ transfer[r] = "none"
    /\ transfer' = [transfer EXCEPT ![r] = "accepted"]
    /\ UNCHANGED <<rootDone, firstError, watcher, group, shutdown, broke, exit>>

\* artifactHandler has taken the artifact from the store and starts to write;
\* nothing tells it that the server is about to stop.
StartTransfer(r) ==
    /\ Running /\ transfer[r] = "accepted"
    /\ transfer' = [transfer EXCEPT ![r] = "writing"]
    /\ UNCHANGED <<rootDone, firstError, watcher, group, shutdown, broke, exit>>

\* There is no such artifact.
AnswerNotFound(r) ==
    /\ Running /\ transfer[r] = "accepted"
    /\ transfer' = [transfer EXCEPT ![r] = "missing"]
    /\ UNCHANGED <<rootDone, firstError, watcher, group, shutdown, broke, exit>>

FinishTransfer(r) ==
    /\ Running /\ transfer[r] = "writing"
    /\ transfer' = [transfer EXCEPT ![r] = "sent"]
    /\ UNCHANGED <<rootDone, firstError, watcher, group, shutdown, broke, exit>>

\* Shutdown closes the listener and waits for the handlers.
Drain ==
    /\ Running /\ HTTPEnabled /\ shutdown = "waiting" /\ GroupDone
    /\ shutdown' = "draining"
    /\ UNCHANGED <<rootDone, firstError, watcher, group, transfer, broke, exit>>

\* Shutdown returns: the handlers are done, or shutdownTimeout is over.
Drained ==
    /\ Running /\ shutdown = "draining"
    /\ shutdown' = IF \E r \in Request : transfer[r] \in {"accepted", "writing"}
                      THEN "timeout" ELSE "over"
    /\ UNCHANGED <<rootDone, firstError, watcher, group, transfer, broke, exit>>

Init ==
    /\ rootDone = FALSE
    /\ firstError = "none"
    /\ watcher = "armed"
    /\ stdio = "running"
    /\ \/ http = "starting" /\ gc = "running"
       \/ http = "off" /\ gc = "off"
    /\ shutdown = "waiting"
    /\ transfer = [r \in Request |-> "none"]
    /\ broke = FALSE
    /\ exit = "running"

Next ==
    \/ Signal \/ WatcherStops \/ SecondSignal
    \/ StdioReturns \/ StdioFails
    \/ Listen \/ HttpFails \/ HttpStops
    \/ GcStops \/ Exit
    \/ \E r \in Request : Accept(r) \/ StartTransfer(r) \/ AnswerNotFound(r) \/ FinishTransfer(r)
    \/ Drain \/ Drained

Spec == Init /\ [][Next]_vars

\* Goroutines that can go on do; server.Run returns once its context is done.
\* Nothing is assumed of signals, of standard input and of HTTP clients.
Fairness ==
    /\ WF_vars(GroupDone /\ StdioReturns)
    /\ WF_vars(HttpStops) /\ WF_vars(GcStops) /\ WF_vars(Drain) /\ WF_vars(Exit)

FairSpec == Spec /\ Fairness

(***************************************************************************)
(* Properties                                                              *)
(***************************************************************************)
\* Every variable keeps its type, and the members of the group exist exactly
\* when the transport they belong to is configured.
TypeOK ==
    /\ rootDone \in BOOLEAN /\ broke \in BOOLEAN
    /\ firstError \in {"none", "stdio", "http"}
    /\ watcher \in {"armed", "stopped"}
    /\ gc \in IF HTTPEnabled THEN {"running", "done"} ELSE {"off"}
    /\ stdio \in {"running", "done"}
    /\ http \in {"off", "starting", "serving", "done"}
    /\ shutdown \in {"waiting", "draining", "over", "timeout"}
    /\ transfer \in [Request -> {"none", "accepted", "writing", "sent", "missing", "cut"}]
    /\ exit \in {"running", "ok", "error", "killed"}

\* A transport that fails on its own makes the process exit with an error, in
\* whatever order the others stop: no clean exit hides it.
FailureReported == exit = "ok" => ~broke

\* A client that closes standard input does not take the HTTP transport away:
\* it goes on until a signal or a failure.
HttpOutlivesStdio ==
    HTTPEnabled /\ exit = "running" /\ watcher = "armed" /\ ~broke
        => ~GroupDone /\ http \in {"starting", "serving"}

\* While the HTTP transport hands out artifacts for good, the janitor runs.
JanitorCoversServing ==
    http \in {"starting", "serving"} /\ ~GroupDone => gc = "running"

\* Once a signal, a failure or the end of a lone stdio transport has ended the
\* group's context, the process exits: no member of the group holds it up.
StopsWhenAsked == GroupDone ~> exit # "running"

(***************************************************************************)
(* What a comment of the source says and the code does not do              *)
(***************************************************************************)
\* main.go: the shutdown is graceful: a transfer that is under way when the
\* server is asked to stop is cut only when shutdownTimeout has passed.
TransfersDrain ==
    \A r \in Request : exit = "ok" /\ transfer[r] = "cut" => shutdown = "timeout"
=============================================================================
