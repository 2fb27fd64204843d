----------------------------- MODULE MCClients -----------------------------
(***************************************************************************)
(* Several clients in one run, each with its own configuration and         *)
(* environment: the one whose constants the .cfg gives, and instances of   *)
(* Scraper.  A behaviour stays with the client it starts with, and the     *)
(* results of the instances' calls have a variable of their own, so that   *)
(* what the properties of Scraper say of results is about the configured   *)
(* client.  The instances are taken of ScraperProofs, which adds theorems  *)
(* to Scraper: ClientsProofs applies them to the instances.                *)
(***************************************************************************)
EXTENDS Scraper, TLC

CONSTANTS
    c1, c2, c3,
    Client       \* the clients of a run

VARIABLES
    client,         \* which of them this behaviour is about
    instanceResult  \* result, for the instances

ASSUME ClientAssumption ==
    /\ Client \subseteq {"configured", "shared", "sequential", "oneMirror"}
    /\ NoCaller \notin {c1, c2, c3}

\* The client whose constants the .cfg gives.
Configured == INSTANCE Scraper

\* Three callers without a session on one mirror that works.
Shared == INSTANCE ScraperProofs WITH
    Caller <- {c1, c2, c3}, N <- 1, Healthy <- {0}, Cancellable <- {},
    HasPassword <- TRUE, Override <- 0, Persist <- FALSE, InitFile <- {0},
    Quota <- 2, Expiring <- {}, Fault <- {},
    result <- instanceResult

\* A password in a hostile environment; only c1 makes calls, one at a time.
Sequential == INSTANCE ScraperProofs WITH
    Caller <- {c1, c2}, N <- 3, Healthy <- {1}, Cancellable <- {c1},
    HasPassword <- TRUE, Override <- 0, Persist <- TRUE, InitFile <- {0, 1},
    Quota <- 2, Expiring <- {1}, Fault <- {"crash", "disk", "read", "page"},
    result <- instanceResult

\* A client with nowhere to fail over to; neither the disk nor a body breaks.
OneMirror == INSTANCE ScraperProofs WITH
    Caller <- {c1, c2}, N <- 1, Healthy <- {}, Cancellable <- {},
    HasPassword <- TRUE, Override <- 0, Persist <- TRUE, InitFile <- {0, 1},
    Quota <- 2, Expiring <- {1, 2},
    Fault <- {"crash", "page", "captcha", "badCredentials", "otherError", "garbled"},
    result <- instanceResult

ClientInit ==
    /\ client \in Client
    /\ \/ client = "configured" /\ Configured!Init /\ instanceResult = All("none")
       \/ /\ result = All("none")
          /\ \/ client = "shared" /\ Shared!Init
             \/ client = "sequential" /\ Sequential!Init
             \/ client = "oneMirror" /\ OneMirror!Init

ClientNext ==
    /\ \/ client = "configured" /\ Configured!Next /\ UNCHANGED instanceResult
       \/ /\ \/ client = "shared" /\ Shared!Next
             \/ client = "sequential" /\ Sequential!Next /\ pc'[c2] = "idle"
             \/ client = "oneMirror" /\ OneMirror!Next
          /\ UNCHANGED result
    /\ UNCHANGED client

clientVars == <<client, instanceResult, vars>>

ClientSpec == ClientInit /\ [][ClientNext]_clientVars

\* The callers are interchangeable in a run without the sequential client.
Symmetry == Permutations({c1, c2, c3})

\* ensureAuth: the three callers spend one login of the two they could.
ThreeCallersShareLogin == client = "shared" => Shared!LoginIsShared

\* reauth and login: a password recovers every session, one call at a time.
OneCallRecovers == client = "sequential" => Sequential!SequentialClientRecovers

\* login and saveCookies: with one mirror the newest session is in the file.
OneMirrorPersists == client = "oneMirror" => OneMirror!LastLoginPersisted
=============================================================================
