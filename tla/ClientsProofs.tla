--------------------------- MODULE ClientsProofs ---------------------------
(***************************************************************************)
(* The theorems of ScraperProofs that have hypotheses, applied to the      *)
(* clients that the runs of MCClients check: each client satisfies the     *)
(* hypotheses, and a behaviour of a run is one of the client it starts     *)
(* with.                                                                   *)
(***************************************************************************)
EXTENDS MCClients, TLAPS

\* A behaviour stays with its client, and with having another one.
LEMMA ClientIsConstant ==
    ASSUME NEW name
    PROVE  /\ client = name /\ [ClientNext]_clientVars => (client = name)'
           /\ ~(client = name) /\ [ClientNext]_clientVars => (~(client = name))'
BY DEF ClientNext, clientVars

(***************************************************************************)
(* Three callers on a mirror that works                                    *)
(***************************************************************************)
\* Its mirror never fails, nothing expires and the process does not die.
LEMMA SharedAssumption == Shared!ScraperAssumption /\ Shared!Calm
BY ClientAssumption
   DEF Shared!ScraperAssumption, Shared!Calm, Shared!Mirror, Shared!Token, Shared!Faults,
       Shared!LoginAnswers, Shared!None, Shared!Old

\* A step of a behaviour of this client is a step of its instance.
LEMMA SharedStep == client = "shared" /\ [ClientNext]_clientVars => [Shared!Next]_(Shared!vars)
BY DEF ClientNext, clientVars, vars, site, locals, Shared!vars, Shared!site, Shared!locals

\* The three callers never spend the second login they could.
THEOREM ThreeCallersShare == ClientSpec => []ThreeCallersShareLogin
<1>1. ClientInit /\ client = "shared" => Shared!Init
  BY DEF ClientInit
<1>2. Shared!Spec => []Shared!LoginIsShared
  BY SharedAssumption, Shared!OneLoginIsShared
<1>3. ClientSpec /\ client = "shared" => []ThreeCallersShareLogin
  <2>1. Shared!LoginIsShared => ThreeCallersShareLogin
    BY DEF ThreeCallersShareLogin
  <2>2. client = "shared" /\ [ClientNext]_clientVars => (client = "shared")'
    BY ClientIsConstant
  <2> QED BY <1>1, <1>2, <2>1, <2>2, SharedStep, PTL DEF ClientSpec, Shared!Spec
<1>4. ClientSpec /\ ~(client = "shared") => []ThreeCallersShareLogin
  <2>1. ~(client = "shared") => ThreeCallersShareLogin
    BY DEF ThreeCallersShareLogin
  <2>2. ~(client = "shared") /\ [ClientNext]_clientVars => (~(client = "shared"))'
    BY ClientIsConstant
  <2> QED BY <2>1, <2>2, PTL DEF ClientSpec
<1> QED BY <1>3, <1>4, PTL

(***************************************************************************)
(* One call at a time, with a password                                     *)
(***************************************************************************)
\* Its login form answers as it should, and only the old session expires.
LEMMA SequentialAssumption == Sequential!ScraperAssumption /\ Sequential!Recoverable
BY ClientAssumption
   DEF Sequential!ScraperAssumption, Sequential!Recoverable, Sequential!Mirror, Sequential!Token, Sequential!Faults,
       Sequential!LoginAnswers, Sequential!None, Sequential!Old

\* A step of a behaviour of this client is a step of its instance.
LEMMA SequentialStep == client = "sequential" /\ [ClientNext]_clientVars => [Sequential!Next]_(Sequential!vars)
BY DEF ClientNext, clientVars, vars, site, locals, Sequential!vars, Sequential!site, Sequential!locals

\* The one call under way recovers through failures, crashes and torn files.
THEOREM OneCallAlwaysRecovers == ClientSpec => []OneCallRecovers
<1>1. ClientInit /\ client = "sequential" => Sequential!Init
  BY DEF ClientInit
<1>2. Sequential!Spec /\ []Sequential!OneAtATime => []Sequential!SequentialClientRecovers
  BY SequentialAssumption, Sequential!OneCallAtATimeRecovers
<1>3. ClientSpec /\ client = "sequential" => []Sequential!OneAtATime
  <2>1. ClientInit /\ client = "sequential" => pc[c2] = "idle"
    BY DEF ClientInit, Sequential!Init, Sequential!All
  <2>2. client = "sequential" /\ pc[c2] = "idle" /\ [ClientNext]_clientVars => (pc[c2] = "idle")'
    BY DEF ClientNext, clientVars, vars
  <2>3. client = "sequential" /\ [ClientNext]_clientVars => (client = "sequential")'
    BY ClientIsConstant
  <2>4. pc[c2] = "idle" => Sequential!OneAtATime
    BY DEF Sequential!OneAtATime
  <2> QED BY <2>1, <2>2, <2>3, <2>4, PTL DEF ClientSpec
<1>4. ClientSpec /\ client = "sequential" => []OneCallRecovers
  <2>1. Sequential!SequentialClientRecovers => OneCallRecovers
    BY DEF OneCallRecovers
  <2>2. client = "sequential" /\ [ClientNext]_clientVars => (client = "sequential")'
    BY ClientIsConstant
  <2> QED BY <1>1, <1>2, <1>3, <2>1, <2>2, SequentialStep, PTL DEF ClientSpec, Sequential!Spec
<1>5. ClientSpec /\ ~(client = "sequential") => []OneCallRecovers
  <2>1. ~(client = "sequential") => OneCallRecovers
    BY DEF OneCallRecovers
  <2>2. ~(client = "sequential") /\ [ClientNext]_clientVars => (~(client = "sequential"))'
    BY ClientIsConstant
  <2> QED BY <2>1, <2>2, PTL DEF ClientSpec
<1> QED BY <1>4, <1>5, PTL

(***************************************************************************)
(* One mirror, with a disk that works                                      *)
(***************************************************************************)
\* It cannot fail over, and neither its disk nor a body breaks.
LEMMA OneMirrorAssumption == OneMirror!ScraperAssumption /\ OneMirror!NowhereToFailOver
BY ClientAssumption
   DEF OneMirror!ScraperAssumption, OneMirror!NowhereToFailOver, OneMirror!Mirror, OneMirror!Token, OneMirror!Faults,
       OneMirror!LoginAnswers, OneMirror!None, OneMirror!Old

\* A step of a behaviour of this client is a step of its instance.
LEMMA OneMirrorStep == client = "oneMirror" /\ [ClientNext]_clientVars => [OneMirror!Next]_(OneMirror!vars)
BY DEF ClientNext, clientVars, vars, site, locals, OneMirror!vars, OneMirror!site, OneMirror!locals

\* The file has the newest session of the jar whenever the mutex is free.
THEOREM OneMirrorAlwaysPersists == ClientSpec => []OneMirrorPersists
<1>1. ClientInit /\ client = "oneMirror" => OneMirror!Init
  BY DEF ClientInit
<1>2. OneMirror!Spec => []OneMirror!LastLoginPersisted
  BY OneMirrorAssumption, OneMirror!LoginIsPersisted
<1>3. ClientSpec /\ client = "oneMirror" => []OneMirrorPersists
  <2>1. OneMirror!LastLoginPersisted => OneMirrorPersists
    BY DEF OneMirrorPersists
  <2>2. client = "oneMirror" /\ [ClientNext]_clientVars => (client = "oneMirror")'
    BY ClientIsConstant
  <2> QED BY <1>1, <1>2, <2>1, <2>2, OneMirrorStep, PTL DEF ClientSpec, OneMirror!Spec
<1>4. ClientSpec /\ ~(client = "oneMirror") => []OneMirrorPersists
  <2>1. ~(client = "oneMirror") => OneMirrorPersists
    BY DEF OneMirrorPersists
  <2>2. ~(client = "oneMirror") /\ [ClientNext]_clientVars => (~(client = "oneMirror"))'
    BY ClientIsConstant
  <2> QED BY <2>1, <2>2, PTL DEF ClientSpec
<1> QED BY <1>3, <1>4, PTL
=============================================================================
