----------------------------- MODULE Capability -----------------------------
(***************************************************************************)
(* What a download URL promises (the package comment of internal/artifact  *)
(* and the README): it works exactly once and only until it expires.  No   *)
(* store, sweep or capacity appears here: a granted token is spent by its  *)
(* first fetch within its deadline, and every other fetch finds nothing.   *)
(***************************************************************************)
EXTENDS Naturals

CONSTANTS Token, NoToken, TTL

VARIABLES
    now,       \* the clock
    deadline,  \* the ExpiresAt told to the caller with the URL
    granted,   \* tokens of the URLs handed out
    spent,     \* tokens a fetch has consumed
    reply      \* the last fetch: its token, and whether it got the file

capabilityVars == <<now, deadline, granted, spent, reply>>

Live(t) == t \in granted \ spent /\ now <= deadline[t]

Init ==
    /\ now = 0
    /\ deadline = [t \in Token |-> 0]
    /\ granted = {}
    /\ spent = {}
    /\ reply = [token |-> NoToken, found |-> FALSE]

Grant(t) ==
    /\ t \notin granted
    /\ granted' = granted \cup {t}
    /\ \E d \in 0..(now + TTL) : deadline' = [deadline EXCEPT ![t] = d]
    /\ UNCHANGED <<now, spent, reply>>

Fetch(t) ==
    /\ reply' = [token |-> t, found |-> Live(t)]
    /\ spent' = IF Live(t) THEN spent \cup {t} ELSE spent
    /\ UNCHANGED <<now, deadline, granted>>

Tick ==
    /\ now' = now + 1
    /\ UNCHANGED <<deadline, granted, spent, reply>>

Next == (\E t \in Token : Grant(t) \/ Fetch(t)) \/ Tick

Spec == Init /\ [][Next]_capabilityVars
=============================================================================
