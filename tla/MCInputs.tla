------------------------------ MODULE MCInputs ------------------------------
(***************************************************************************)
(* The sequential parts in one run: a behaviour is a start of the process, *)
(* a page given to a parser, or one call of the download tool.             *)
(***************************************************************************)
EXTENDS Startup, DownloadTool, MCPages

VARIABLE part

Url(scheme, host) == [scheme |-> scheme, host |-> host]

\* url.Parse fails, or finds no host, or one of two schemes.
Urls == {Url("", ""), Url("http", ""), Url("http", "h"), Url("https", "h")}
Maybe(values) == {Unset} \cup {<<v>> : v \in values}

MCMirrors == <<Url("https", "m1"), Url("https", "m2"), Url("https", "m3")>>

MCEnv ==
    [port : Maybe({0, 1, maxPort, maxPort + 1}), ttl : Maybe({-1, 0, 1}),
     proxy : Maybe(Urls), base : Maybe(Urls),
     host : Maybe({"127.0.0.1", "0.0.0.0", "::", "lan"}),
     artifactBase : {Unset, <<"u">>, <<"u", "/">>},
     cookieFile : Maybe({"f"}), home : BOOLEAN]

\* What a part is set to while the run is about another one.
NoStart ==
    /\ env = CHOOSE e \in MCEnv : ~IsSet(e.port)
    /\ step = "load" /\ failure = "none"
    /\ cfg = NoConfig /\ transport = "default" /\ bases = <<>>

NoPage == page = [kind |-> "none"] /\ answer = NoAnswer

NoCall ==
    /\ pc = "done"
    /\ http = FALSE /\ valid = FALSE /\ quality = NoQuality /\ mode = "unset"
    /\ variants = <<>> /\ i = 1 /\ best = 1
    /\ body = 0 /\ file = 0 /\ stored = FALSE /\ result = "none"

InputInit ==
    \/ part = "startup" /\ StartInit /\ NoPage /\ NoCall
    \/ part = "page" /\ PageInit /\ NoStart /\ NoCall
    \/ part = "call" /\ Init /\ NoStart /\ NoPage

InputNext ==
    /\ \/ part = "startup" /\ StartNext /\ UNCHANGED <<pageVars, vars>>
       \/ part = "page" /\ PageNext /\ UNCHANGED <<startVars, vars>>
       \/ part = "call" /\ Next /\ UNCHANGED <<startVars, pageVars>>
    /\ UNCHANGED part

InputSpec == InputInit /\ [][InputNext]_<<part, startVars, pageVars, vars>>
=============================================================================
