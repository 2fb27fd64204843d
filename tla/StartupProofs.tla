--------------------------- MODULE StartupProofs ---------------------------
(***************************************************************************)
(* What a start promises, for every environment.                           *)
(***************************************************************************)
EXTENDS Startup, TLAPS

\* The inductive invariant: Load is the only step that looks at the
\* environment, so what the later ones rely on has to be remembered of cfg.
Loaded ==
    step \in {"proxy", "client", "serve"} =>
        /\ \E ttl \in TTLs(env.ttl) : cfg = Config(ttl)
        /\ ValidPort(env.port)
        /\ IsSet(env.proxy) => Parses(env.proxy[1])

StartInv ==
    /\ step \in {"load", "proxy", "client", "serve", "failed"}
    /\ env \in Env
    /\ Loaded
    /\ failure # "proxyTransport"
    /\ step \in {"client", "serve"} => transport = IF IsSet(cfg.proxy) THEN "proxied" ELSE "default"
    /\ step = "serve" =>
          bases = Candidates /\ \A k \in DOMAIN Candidates : Acceptable(Candidates[k])

\* The fields of a Config that the later steps read.
LEMMA ConfigFields ==
    ASSUME NEW ttl, cfg = Config(ttl)
    PROVE  /\ cfg.proxy = env.proxy /\ cfg.base = env.base /\ cfg.ttl = ttl
           /\ cfg.port = env.port /\ cfg.artifactBase = env.artifactBase
BY DEF Config

\* One step of run keeps the invariant.
LEMMA StartStep == StartInv /\ [StartNext]_startVars => StartInv'
<1> SUFFICES ASSUME StartInv, [StartNext]_startVars PROVE StartInv'
  OBVIOUS
<1> USE DEF StartInv, Loaded, Candidates
<1>1. ASSUME NEW why \in {"port", "proxy", "ttl", "base"}, Reject(why) PROVE StartInv'
  BY <1>1 DEF Reject
<1>2. CASE Load
  <2>1. CASE \E why \in {"port", "proxy", "ttl"} : Reject(why)
    BY <1>1, <2>1
  <2>2. CASE /\ ValidPort(env.port)
             /\ IsSet(env.proxy) => Parses(env.proxy[1])
             /\ \E ttl \in TTLs(env.ttl) : cfg' = Config(ttl)
             /\ step' = "proxy"
             /\ UNCHANGED <<env, failure, transport, bases>>
    <3>1. \A ttl : Config(ttl)' = Config(ttl)
      BY <2>2 DEF Config, CookieFile
    <3> QED BY <2>2, <3>1 DEF TTLs, ValidPort, IsSet, Parses
  <2> QED BY <1>2, <2>1, <2>2 DEF Load
<1>3. CASE ProxyTransport
  <2>1. step = "proxy" /\ cfg.proxy = env.proxy
    BY <1>3, ConfigFields DEF ProxyTransport
  <2>2. ~(IsSet(cfg.proxy) /\ ~Parses(cfg.proxy[1]))
    BY <2>1
  <2>3. /\ transport' = IF IsSet(cfg.proxy) THEN "proxied" ELSE "default"
        /\ step' = "client" /\ UNCHANGED <<env, failure, cfg, bases>>
    BY <1>3, <2>2 DEF ProxyTransport
  <2>4. \A ttl : Config(ttl)' = Config(ttl)
    BY <2>3 DEF Config, CookieFile
  <2> QED BY <2>1, <2>3, <2>4 DEF TTLs, ValidPort, IsSet, Parses
<1>4. CASE NewClient
  <2>1. CASE Reject("base")
    BY <1>1, <2>1
  <2>2. CASE /\ \A k \in DOMAIN Candidates : Acceptable(Candidates[k])
             /\ bases' = Candidates /\ step' = "serve"
             /\ UNCHANGED <<env, failure, cfg, transport>>
    <3>1. \A ttl : Config(ttl)' = Config(ttl)
      BY <2>2 DEF Config, CookieFile
    <3>2. step = "client"
      BY <1>4 DEF NewClient
    <3> QED BY <2>2, <3>1, <3>2 DEF TTLs, ValidPort, IsSet, Parses
  <2> QED BY <1>4, <2>1, <2>2 DEF NewClient
<1>5. CASE UNCHANGED startVars
  <2>1. \A ttl : Config(ttl)' = Config(ttl)
    BY <1>5 DEF startVars, Config, CookieFile
  <2> QED BY <1>5, <2>1 DEF startVars, TTLs, ValidPort, IsSet, Parses
<1> QED BY <1>2, <1>3, <1>4, <1>5 DEF StartNext

\* The invariant holds throughout every start.
THEOREM StartInvariant == StartSpec => []StartInv
<1>1. StartInit => StartInv
  BY DEF StartInit, StartInv, Loaded
<1> QED BY <1>1, StartStep, PTL DEF StartSpec

\* The time to live that Load accepts is a positive number.
LEMMA TTLsPositive ==
    ASSUME NEW e \in Env, NEW ttl \in TTLs(e.ttl)
    PROVE  ttl \in Nat \ {0}
<1>1. CASE IsSet(e.ttl)
  <2>1. ttl = e.ttl[1] /\ ttl > 0
    BY <1>1 DEF TTLs
  <2>2. e.ttl \in Seq(Int) /\ e.ttl # <<>>
    BY <1>1, StartupAssumption DEF IsSet, Unset
  <2>3. e.ttl[1] \in Int
    BY <2>2
  <2> QED BY <2>1, <2>3
<1>2. CASE ~IsSet(e.ttl)
  BY <1>2, StartupAssumption DEF TTLs
<1> QED BY <1>1, <1>2

\* A server that starts meets the assumptions of its components.
THEOREM StartsAreSound == StartSpec => []StartsSound
<1>1. StartInv => StartsSound
  <2> SUFFICES ASSUME StartInv, step = "serve" PROVE StartsSound
    BY DEF StartsSound
  <2>1. PICK ttl \in TTLs(env.ttl) : cfg = Config(ttl)
    BY DEF StartInv, Loaded
  <2>2. env \in Env /\ cfg.ttl = ttl /\ cfg.port = env.port
    BY <2>1, ConfigFields DEF StartInv
  <2>3. cfg.ttl \in Nat \ {0}
    BY <2>1, <2>2, TTLsPositive
  <2>4. HTTPEnabled => cfg.port[1] \in 1..maxPort
    <3>1. env.port \in Seq(Int)
      BY <2>2, StartupAssumption
    <3>2. env.port # <<>> => env.port[1] \in Int
      BY <3>1
    <3>3. ValidPort(env.port) /\ (HTTPEnabled => IsSet(env.port))
      BY <2>2 DEF StartInv, Loaded, HTTPEnabled
    <3>4. CASE ~HTTPEnabled
      BY <3>4
    <3>5. CASE HTTPEnabled
      <4>1. env.port[1] \in Int /\ 1 <= env.port[1] /\ env.port[1] <= maxPort
        BY <3>2, <3>3, <3>5 DEF ValidPort, IsSet, Unset
      <4>2. maxPort \in Nat
        BY StartupAssumption
      <4>3. env.port[1] \in 1..maxPort
        BY <4>1, <4>2
      <4> QED BY <2>2, <4>3
    <3> QED BY <3>4, <3>5
  <2>5. bases # <<>>
    BY StartupAssumption DEF StartInv, Candidates, IsSet, Unset
  <2>6. \A k \in DOMAIN bases : bases[k].scheme = "https" /\ bases[k].host # ""
    BY DEF StartInv, Acceptable
  <2> QED BY <2>3, <2>4, <2>5, <2>6 DEF StartsSound
<1> QED BY <1>1, StartInvariant, PTL

\* The proxy that was checked is the proxy that is used.
THEOREM ProxyIsAlwaysUsed == StartSpec => []ProxyIsUsed
<1>1. StartInv => ProxyIsUsed
  BY ConfigFields DEF StartInv, Loaded, ProxyIsUsed
<1> QED BY <1>1, StartInvariant, PTL

(***************************************************************************)
(* URLs lead to the listener.  os.Getenv cannot tell an empty host from    *)
(* one that is not set, and ArtifactBaseURLOrDefault takes one slash off   *)
(* an explicit base: an operator who sets a base of nothing but a slash,   *)
(* or one that ends in two, is handed out what is left.                    *)
(***************************************************************************)
UsableBase(text) ==
    /\ text \in Seq(STRING)
    /\ text[Len(text)] = "/" => Len(text) > 1 /\ text[Len(text) - 1] # "/"

PlainEnv ==
    \A e \in Env : /\ IsSet(e.host) => e.host[1] # ""
                   /\ IsSet(e.artifactBase) => UsableBase(e.artifactBase)

\* One slash off a usable base leaves a text that does not end in one.
LEMMA OneSlashOff ==
    ASSUME NEW text, text # <<>>, UsableBase(text)
    PROVE  LET size == Len(WithoutSlash(text))
           IN size > 0 /\ WithoutSlash(text)[size] # "/"
<1>1. text \in Seq(STRING) /\ Len(text) \in Nat /\ Len(text) > 0
  BY DEF UsableBase
<1>2. CASE text[Len(text)] # "/"
  BY <1>1, <1>2 DEF WithoutSlash
<1>3. CASE text[Len(text)] = "/"
  <2>1. Len(text) - 1 \in 1..Len(text) /\ text[Len(text) - 1] # "/"
    BY <1>1, <1>3 DEF UsableBase
  <2>2. WithoutSlash(text) = SubSeq(text, 1, Len(text) - 1)
    BY <1>3 DEF WithoutSlash
  <2>3. /\ Len(SubSeq(text, 1, Len(text) - 1)) = Len(text) - 1
        /\ SubSeq(text, 1, Len(text) - 1)[Len(text) - 1] = text[Len(text) - 1]
    BY <1>1, <2>1
  <2> QED BY <1>1, <2>1, <2>2, <2>3
<1> QED BY <1>2, <1>3

\* The host of a derived URL is where the listener can be reached.
LEMMA DerivedBaseReaches ==
    ASSUME cfg.host # "" PROVE <<DerivedHost, cfg.port[1]>> \in Reachable(HTTPAddr)
BY DEF DerivedHost, Reachable, HTTPAddr, Wildcards, Loopback

\* A download URL leads to the listener of the process that hands it out, and
\* there is none without a listener or an explicit base.
THEOREM UrlsLeadToListener == ASSUME PlainEnv PROVE StartSpec => []UrlLeadsToListener
<1>1. StartInv => UrlLeadsToListener
  <2> SUFFICES ASSUME StartInv, step = "serve" PROVE UrlLeadsToListener
    BY DEF UrlLeadsToListener
  <2>1. PICK ttl : cfg = Config(ttl)
    BY DEF StartInv, Loaded
  <2>2. env \in Env /\ cfg.artifactBase = env.artifactBase
    BY <2>1, ConfigFields DEF StartInv
  <2>3. CASE IsSet(env.artifactBase)
    <3>1. env.artifactBase # <<>> /\ UsableBase(env.artifactBase)
      BY <2>2, <2>3 DEF PlainEnv, IsSet, Unset
    <3>2. ArtifactBase = WithoutSlash(env.artifactBase)
      BY <2>2, <2>3 DEF ArtifactBase
    <3> QED BY <2>3, <3>1, <3>2, OneSlashOff DEF UrlLeadsToListener
  <2>4. CASE ~IsSet(env.artifactBase)
    <3>1. cfg.host # ""
      BY <2>1, <2>2 DEF Config, PlainEnv, Loopback
    <3>2. ArtifactBase = IF HTTPEnabled THEN <<DerivedHost, cfg.port[1]>> ELSE Unset
      BY <2>2, <2>4 DEF ArtifactBase
    <3> QED BY <2>4, <3>1, <3>2, DerivedBaseReaches DEF UrlLeadsToListener
  <2> QED BY <2>3, <2>4
<1> QED BY <1>1, StartInvariant, PTL
=============================================================================
