------------------------------ MODULE Startup ------------------------------
(***************************************************************************)
(* From the environment to a running server: config.Load and its methods,  *)
(* lostfilm.New and run of cmd/mcp-lostfilm/main.go, in the order in which *)
(* run calls them.  An unset variable is the empty sequence, a set one the *)
(* sequence of its value; a URL is its scheme and its host, both empty     *)
(* when url.Parse refuses the text; the artifact base is its characters.   *)
(***************************************************************************)
EXTENDS Integers, Sequences

CONSTANTS
    Env,         \* the environments the process is started in
    maxPort,     \* bound: 65535
    DefaultTTL,  \* defaultArtifactTTL
    Mirrors      \* defaultMirrors

ASSUME StartupAssumption ==
    /\ \A e \in Env : e.port \in Seq(Int) /\ e.ttl \in Seq(Int)
    /\ maxPort \in Nat \ {0}
    /\ DefaultTTL \in Nat \ {0}
    /\ Mirrors # <<>>
    /\ \A k \in DOMAIN Mirrors : Mirrors[k].scheme = "https" /\ Mirrors[k].host # ""

VARIABLES
    env,        \* os.Getenv
    step,       \* what run does next: "load", "proxy", "client", "serve", or
                \* "failed" when it returned an error
    failure,    \* the error run returned
    cfg,        \* the Config that Load returned
    transport,  \* "default", or "proxied"
    bases       \* the Scraper's mirrors

startVars == <<env, step, failure, cfg, transport, bases>>

NoConfig == [ttl |-> 0]
Wildcards == {"0.0.0.0", "::"}
Loopback == "127.0.0.1"

Unset == <<>>
IsSet(variable) == variable # Unset

Reject(why) ==
    /\ step' = "failed" /\ failure' = why
    /\ UNCHANGED <<env, cfg, transport, bases>>

(***************************************************************************)
(* config.Load                                                             *)
(***************************************************************************)
\* Mutant: port 0, any port that is free, is taken.
ValidPortOrAny(port) == IsSet(port) => 0 <= port[1] /\ port[1] <= maxPort

\* MCP_HTTP_PORT; a text that is no number is refused like the number 0.
ValidPort(port) == IsSet(port) => 1 <= port[1] /\ port[1] <= maxPort

\* parseProxy.
Parses(raw) == raw.scheme # "" /\ raw.host # ""

\* parseArtifactTTL: the duration, or nothing on an error.  A text that is no
\* duration is refused like a negative one.
TTLs(raw) == IF IsSet(raw) THEN {d \in {raw[1]} : d > 0} ELSE {DefaultTTL}

\* resolveCookieFile: empty without a configured file and a home directory.
CookieFile ==
    IF IsSet(env.cookieFile) THEN "configured" ELSE IF env.home THEN "default" ELSE ""

\* Mutant: the proxy is checked and not kept.
ConfigUnproxied(ttl) ==
    [proxy |-> Unset, base |-> env.base, ttl |-> ttl, port |-> env.port,
     host |-> IF IsSet(env.host) THEN env.host[1] ELSE Loopback,
     artifactBase |-> env.artifactBase, cookieFile |-> CookieFile]

Config(ttl) ==
    [proxy |-> env.proxy, base |-> env.base, ttl |-> ttl, port |-> env.port,
     host |-> IF IsSet(env.host) THEN env.host[1] ELSE Loopback,
     artifactBase |-> env.artifactBase, cookieFile |-> CookieFile]

\* Load checks the port, the proxy and the time to live, in this order.
Load ==
    /\ step = "load"
    /\ \/ ~ValidPort(env.port) /\ Reject("port")
       \/ ValidPort(env.port) /\ IsSet(env.proxy) /\ ~Parses(env.proxy[1]) /\ Reject("proxy")
       \/ /\ ValidPort(env.port)
          /\ IsSet(env.proxy) => Parses(env.proxy[1])
          /\ \/ TTLs(env.ttl) = {} /\ Reject("ttl")
             \/ \E ttl \in TTLs(env.ttl) :
                   /\ cfg' = Config(ttl)
                   /\ step' = "proxy"
                   /\ UNCHANGED <<env, failure, transport, bases>>

(***************************************************************************)
(* The rest of run                                                         *)
(***************************************************************************)
ProxyTransport ==
    /\ step = "proxy"
    /\ IF IsSet(cfg.proxy) /\ ~Parses(cfg.proxy[1])
          THEN Reject("proxyTransport")
          ELSE /\ transport' = IF IsSet(cfg.proxy) THEN "proxied" ELSE "default"
               /\ step' = "client"
               /\ UNCHANGED <<env, failure, cfg, bases>>

Candidates == IF IsSet(cfg.base) THEN cfg.base ELSE Mirrors

\* parseBases, of one candidate.
Acceptable(url) == url.scheme # "" /\ url.host # "" /\ url.scheme = "https"

\* lostfilm.New.
NewClient ==
    /\ step = "client"
    /\ IF \A k \in DOMAIN Candidates : Acceptable(Candidates[k])
          THEN /\ bases' = Candidates
               /\ step' = "serve"
               /\ UNCHANGED <<env, failure, cfg, transport>>
          ELSE Reject("base")

HTTPEnabled == IsSet(cfg.port)

\* Mutant: a wildcard address is handed out as it is.
HostAsBound == cfg.host

\* The host of the derived base: loopback for a wildcard.
DerivedHost == IF cfg.host \in Wildcards \cup {""} THEN Loopback ELSE cfg.host

\* strings.TrimSuffix of one slash.
WithoutSlash(text) == IF text[Len(text)] = "/" THEN SubSeq(text, 1, Len(text) - 1) ELSE text

\* ArtifactBaseURLOrDefault: the explicit base, or the host and the port of the
\* listener, or nothing.
ArtifactBase ==
    IF IsSet(cfg.artifactBase) THEN WithoutSlash(cfg.artifactBase)
    ELSE IF HTTPEnabled THEN <<DerivedHost, cfg.port[1]>> ELSE Unset

\* HTTPAddr: where the listener of runHTTPServer is bound.
HTTPAddr == <<cfg.host, cfg.port[1]>>

StartInit ==
    /\ env \in Env
    /\ step = "load" /\ failure = "none"
    /\ cfg = NoConfig /\ transport = "default" /\ bases = <<>>

StartNext == Load \/ ProxyTransport \/ NewClient

StartSpec == StartInit /\ [][StartNext]_startVars

(***************************************************************************)
(* Properties                                                              *)
(***************************************************************************)
\* A server that starts has what its components take for granted: a positive
\* time to live, a port to listen on if there is one, and mirrors over https.
StartsSound ==
    step = "serve" =>
        /\ cfg.ttl \in Nat \ {0}
        /\ HTTPEnabled => cfg.port[1] \in 1..maxPort
        /\ bases # <<>>
        /\ \A k \in DOMAIN bases : bases[k].scheme = "https" /\ bases[k].host # ""

\* The proxy that Load accepts is never refused when the transport is built,
\* and is never dropped on the way.
ProxyIsUsed ==
    /\ failure # "proxyTransport"
    /\ step \in {"client", "serve"} => (transport = "proxied" <=> IsSet(env.proxy))

\* The addresses at which a listener can be reached from its own host.
Reachable(addr) == IF addr[1] \in Wildcards THEN {<<Loopback, addr[2]>>} ELSE {addr}

\* A download URL that is derived from the configuration leads to the listener
\* of the same process, and without a listener none is derived.  An explicit
\* base that ends in one slash or none is used without it.
UrlLeadsToListener ==
    step = "serve" =>
        IF IsSet(env.artifactBase)
           THEN LET size == Len(ArtifactBase)
                IN size > 0 /\ ArtifactBase[size] # "/"
           ELSE IF HTTPEnabled THEN ArtifactBase \in Reachable(HTTPAddr)
                ELSE ArtifactBase = Unset
=============================================================================
