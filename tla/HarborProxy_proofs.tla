-------------------------- MODULE HarborProxy_proofs --------------------------
(***************************************************************************)
(* Proofs about HarborProxy for any number of registries and restarts: its *)
(* types, what is linked to what, what a Job that completes has created,   *)
(* and that no Job runs for ever.                                          *)
(***************************************************************************)
EXTENDS HarborProxy, Integers, TLAPS

-----------------------------------------------------------------------------
\* REG_ID at the moment it is used is what Harbor holds for the registry at hand.
HoldsItsId == pc = "project" => regId = registries[at]

\* Without error answers, the turns of the range that are over have left their
\* project, and each command of this turn has left what the next one needs.
Progress ==
    ~erred =>
      /\ pc \in {"registry", "lookup", "project"} =>
           \A r \in Registries : r < at => projects[r] # 0
      /\ pc \in {"lookup", "project"} => registries[at] # 0
      /\ pc = "complete" => \A r \in Registries : projects[r] # 0

\* A container starts at the top of the range.
StartsOver == pc = "install" => at = 1

Inv == TypeOK /\ StartsOver /\ LinkedToItsRegistry /\ HoldsItsId /\ Progress

LEMMA InvInit == Init => Inv
<1> SUFFICES ASSUME Init PROVE Inv
  OBVIOUS
<1>1. 1 \in Registries /\ 0 \in 0..BackoffLimit
  BY HarborProxyAssumption DEF Registries
<1>2. registries \in [Registries -> Nat] /\ projects \in [Registries -> Nat]
  BY DEF Init
<1>3. TypeOK
  BY <1>1, <1>2 DEF Init, TypeOK
<1>4. LinkedToItsRegistry
  BY DEF Init, LinkedToItsRegistry
<1>5. StartsOver /\ HoldsItsId /\ Progress
  BY DEF Init, StartsOver, HoldsItsId, Progress
<1> QED BY <1>3, <1>4, <1>5 DEF Inv

LEMMA ExitInv ==
    ASSUME Inv, NEW next, Exit(next)
    PROVE  /\ pc' \in {"install", "failed"}
           /\ StartsOver'
           /\ at' \in Registries
           /\ regId' \in Nat
           /\ restarts' \in 0..BackoffLimit
BY HarborProxyAssumption DEF Exit, Inv, TypeOK, StartsOver, Registries

\* Harbor only adds: what is linked stays linked to the same registry.
LEMMA CreateRegistryKeeps ==
    ASSUME Inv, CreateRegistry
    PROVE  /\ lastId' \in Nat
           /\ registries' \in [Registries -> Nat]
           /\ projects' = projects
           /\ LinkedToItsRegistry'
           /\ registries'[at] # 0
<1> USE HarborProxyAssumption
<1>1. CASE registries[at] = 0
  <2>1. /\ lastId' = lastId + 1 /\ projects' = projects
        /\ registries' = [registries EXCEPT ![at] = lastId + 1]
    BY <1>1 DEF CreateRegistry
  <2>2. projects[at] = 0
    BY <1>1 DEF Inv, TypeOK, LinkedToItsRegistry
  <2> QED BY <2>1, <2>2 DEF Inv, TypeOK, LinkedToItsRegistry
<1>2. CASE registries[at] # 0
  BY <1>2 DEF CreateRegistry, harbor, Inv, TypeOK, LinkedToItsRegistry
<1> QED BY <1>1, <1>2

LEMMA CreateProjectKeeps ==
    ASSUME Inv, pc = "project", CreateProject
    PROVE  /\ lastId' = lastId /\ registries' = registries
           /\ projects' \in [Registries -> Nat]
           /\ LinkedToItsRegistry'
           /\ \A r \in Registries : projects[r] # 0 => projects'[r] # 0
           /\ registries[at] # 0 => projects'[at] # 0
BY DEF CreateProject, Inv, TypeOK, LinkedToItsRegistry, HoldsItsId

\* An interrupted script leaves nothing to the next one but what Harbor holds.
LEMMA InterruptedInv ==
    ASSUME Inv, NEW next, Exit(next), done' = done, erred' \in BOOLEAN,
           lastId' \in Nat, registries' \in [Registries -> Nat],
           projects' \in [Registries -> Nat], LinkedToItsRegistry'
    PROVE  Inv'
<1>t. /\ pc' \in {"install", "failed"} /\ at' \in Registries /\ StartsOver'
      /\ regId' \in Nat /\ restarts' \in 0..BackoffLimit
  BY ExitInv
<1>1. TypeOK' /\ StartsOver'
  BY <1>t DEF Inv, TypeOK, Ended
<1>2. HoldsItsId'
  BY ExitInv DEF HoldsItsId, StartsOver
<1>3. Progress'
  BY ExitInv DEF Inv, StartsOver, Progress, Ended
<1> QED BY <1>1, <1>2, <1>3 DEF Inv

LEMMA NextRegistryInv ==
    ASSUME Inv, pc = "project", NextRegistry, erred' \in BOOLEAN, ~erred' => ~erred,
           lastId' = lastId, registries' = registries,
           projects' \in [Registries -> Nat], LinkedToItsRegistry',
           ~erred' => \A r \in Registries : r <= at => projects'[r] # 0
    PROVE  Inv'
<1> USE HarborProxyAssumption
<1>0. pc' \in {"registry", "complete"} /\ at' \in Registries
  BY DEF NextRegistry, Inv, TypeOK, Registries
<1>1. TypeOK' /\ StartsOver' /\ HoldsItsId'
  BY <1>0 DEF NextRegistry, Inv, TypeOK, StartsOver, HoldsItsId, Ended
<1>2. Progress'
  <2>1. CASE at < N /\ at' = at + 1 /\ pc' = "registry"
    BY <2>1 DEF Inv, TypeOK, Progress, Registries
  <2>2. CASE at = N /\ at' = at /\ pc' = "complete"
    BY <2>2 DEF Inv, TypeOK, Progress, Registries
  <2> QED BY <2>1, <2>2 DEF NextRegistry
<1> QED BY <1>1, <1>2 DEF Inv

LEMMA InvStep == Inv /\ [Next]_vars => Inv'
<1> SUFFICES ASSUME Inv, [Next]_vars PROVE Inv'
  OBVIOUS
<1> USE HarborProxyAssumption
<1>1. CASE UNCHANGED vars
  BY <1>1
  DEF vars, script, harbor, Inv, TypeOK, StartsOver, LinkedToItsRegistry, HoldsItsId, Progress
<1>2. CASE Install
  <2>1. CASE Exit("registry")
    BY <1>2, <2>1, InterruptedInv DEF Install, harbor, Inv, TypeOK, LinkedToItsRegistry
  <2>2. CASE pc' = "registry" /\ UNCHANGED <<at, regId, restarts>>
    BY <1>2, <2>2
    DEF Install, harbor, Inv, TypeOK, StartsOver, LinkedToItsRegistry, HoldsItsId, Progress,
        Registries, Ended
  <2> QED BY <1>2, <2>1, <2>2 DEF Install
<1>3. CASE PostRegistry
  <2>1. CASE CreateRegistry /\ pc' = "lookup" /\ UNCHANGED <<at, regId, restarts, erred>>
    BY <1>3, <2>1, CreateRegistryKeeps
    DEF PostRegistry, Inv, TypeOK, StartsOver, HoldsItsId, Progress, Ended
  <2>2. CASE /\ erred' = TRUE /\ pc' = "lookup"
             /\ UNCHANGED <<harbor, at, regId, restarts>>
    BY <1>3, <2>2
    DEF PostRegistry, harbor, Inv, TypeOK, StartsOver, LinkedToItsRegistry, HoldsItsId,
        Progress, Ended
  <2>3. CASE CreateRegistry /\ Exit("lookup") /\ UNCHANGED erred
    <3>1. projects' \in [Registries -> Nat] /\ erred' \in BOOLEAN
      BY <2>3, CreateRegistryKeeps DEF Inv, TypeOK
    <3> QED BY <1>3, <2>3, <3>1, CreateRegistryKeeps, InterruptedInv DEF PostRegistry
  <2>4. CASE UNCHANGED harbor /\ Exit("lookup") /\ UNCHANGED erred
    BY <1>3, <2>4, InterruptedInv
    DEF PostRegistry, harbor, Inv, TypeOK, LinkedToItsRegistry
  <2> QED BY <1>3, <2>1, <2>2, <2>3, <2>4 DEF PostRegistry
<1>4. CASE Lookup
  <2>1. CASE Exit("project")
    BY <1>4, <2>1, InterruptedInv DEF Lookup, harbor, Inv, TypeOK, LinkedToItsRegistry
  <2>2. CASE regId' = SelectedId /\ pc' = "project" /\ UNCHANGED <<at, restarts>>
    BY <1>4, <2>2
    DEF Lookup, SelectedId, harbor, Inv, TypeOK, StartsOver, LinkedToItsRegistry,
        HoldsItsId, Progress, Ended
  <2> QED BY <1>4, <2>1, <2>2 DEF Lookup
<1>5. CASE PostProject
  <2>1. CASE CreateProject /\ NextRegistry /\ UNCHANGED erred
    <3>1. ~erred' => \A r \in Registries : r <= at => projects'[r] # 0
      <4>1. SUFFICES ASSUME ~erred', NEW r \in Registries, r <= at
                     PROVE  projects'[r] # 0
        OBVIOUS
      <4>2. pc = "project" /\ ~erred
        BY <1>5, <2>1, <4>1 DEF PostProject
      <4>3. CASE r < at
        BY <2>1, <4>2, <4>3, CreateProjectKeeps DEF Inv, Progress
      <4>4. CASE r = at
        BY <2>1, <4>2, <4>4, CreateProjectKeeps DEF Inv, Progress
      <4>5. r < at \/ r = at
        BY <4>1 DEF Inv, TypeOK, Registries
      <4> QED BY <4>3, <4>4, <4>5
    <3>2. erred' \in BOOLEAN
      BY <2>1 DEF Inv, TypeOK
    <3> QED
      BY <1>5, <2>1, <3>1, <3>2, CreateProjectKeeps, NextRegistryInv DEF PostProject
  <2>2. CASE erred' = TRUE /\ NextRegistry /\ UNCHANGED harbor
    BY <1>5, <2>2, NextRegistryInv
    DEF PostProject, harbor, Inv, TypeOK, LinkedToItsRegistry
  <2>3. CASE CreateProject /\ Exit("registry") /\ UNCHANGED <<done, erred>>
    <3>1. lastId' \in Nat /\ registries' \in [Registries -> Nat] /\ erred' \in BOOLEAN
      BY <1>5, <2>3, CreateProjectKeeps DEF PostProject, Inv, TypeOK
    <3> QED BY <1>5, <2>3, <3>1, CreateProjectKeeps, InterruptedInv DEF PostProject
  <2>4. CASE UNCHANGED harbor /\ Exit("registry") /\ UNCHANGED <<done, erred>>
    BY <2>4, InterruptedInv DEF harbor, Inv, TypeOK, LinkedToItsRegistry
  <2> QED BY <1>5, <2>1, <2>2, <2>3, <2>4 DEF PostProject
<1> QED BY <1>1, <1>2, <1>3, <1>4, <1>5 DEF Next

LEMMA Invariance == Spec => []Inv
BY InvInit, InvStep, PTL DEF Spec

\* The variables are of their types; the script is always at one of the registries.
THEOREM TypeCorrect == Spec => []TypeOK
<1>1. Inv => TypeOK
  BY DEF Inv
<1> QED BY <1>1, Invariance, PTL

\* No project is ever linked to another registry's ID.
THEOREM ProjectsLinked == Spec => []LinkedToItsRegistry
<1>1. Inv => LinkedToItsRegistry
  BY DEF Inv
<1> QED BY <1>1, Invariance, PTL

\* However often the script was interrupted, a Job that completes without an error
\* answer has created every proxy.
THEOREM CompleteIsComplete == Spec => []CompleteUnlessErred
<1>1. Inv => CompleteUnlessErred
  BY DEF Inv, Progress, CompleteUnlessErred
<1> QED BY <1>1, Invariance, PTL

-----------------------------------------------------------------------------
(***************************************************************************)
(* That the Job ends: the safety half of JobEnds.                          *)
(***************************************************************************)
\* The commands of the script from its top: one to install, three for each registry.
ScriptLength == 3 * N + 1

\* The commands that are left to it at command c of turn i if none of them fails.
TurnLeft(c) == CASE c = "registry" -> 3 [] c = "lookup" -> 2 [] OTHER -> 1
ScriptLeft(c, i) ==
    IF c = "install" THEN ScriptLength
    ELSE IF c \in Ended THEN 0
    ELSE 3 * (N - i) + TurnLeft(c)

\* And those of the scripts that may still be started.
WorkLeft == (BackoffLimit - restarts) * ScriptLength + ScriptLeft(pc, at)

LEMMA ScriptLeftType ==
    /\ ScriptLength \in Nat
    /\ \A c, i : i \in Registries =>
          /\ ScriptLeft(c, i) \in 0..ScriptLength
          /\ c \notin Ended => ScriptLeft(c, i) > 0
<1>1. N \in Nat \ {0} /\ ScriptLength \in Nat \ {0}
  BY HarborProxyAssumption DEF ScriptLength
<1> SUFFICES ASSUME NEW c, NEW i \in Registries
             PROVE  /\ ScriptLeft(c, i) \in 0..ScriptLength
                    /\ c \notin Ended => ScriptLeft(c, i) > 0
  BY <1>1
<1>2. i \in 1..N /\ TurnLeft(c) \in 1..3
  BY DEF Registries, TurnLeft
<1>3. 3 * (N - i) + TurnLeft(c) \in 1..ScriptLength
  BY <1>1, <1>2 DEF ScriptLength
<1> QED BY <1>1, <1>3 DEF ScriptLeft

\* The commands left are fewer when a script gets on, and when another one is started in
\* place of one that has commands left.
LEMMA FewerLeft ==
    ASSUME NEW n \in Nat, NEW k \in Nat, NEW l \in 0..n,
           NEW k1 \in Nat, NEW l1 \in 0..n,
           (k1 = k /\ l1 < l) \/ (k1 = k - 1 /\ l > 0)
    PROVE  k1 * n + l1 < k * n + l
<1>1. CASE k1 = k /\ l1 < l
  <2>1. k * n \in Nat
    OBVIOUS
  <2> QED BY <1>1, <2>1
<1>2. CASE k1 = k - 1 /\ l > 0
  <2>1. k * n = k1 * n + n /\ k1 * n \in Nat
    BY <1>2
  <2> QED BY <1>2, <2>1
<1> QED BY <1>1, <1>2

\* The command at hand fails.
Fails == \E c : Exit(c)

LEMMA ExitEndsWork ==
    ASSUME TypeOK, TypeOK', pc \notin Ended, Fails
    PROVE  WorkLeft' < WorkLeft
<1>1. /\ restarts \in 0..BackoffLimit /\ restarts' \in 0..BackoffLimit
      /\ at \in Registries /\ at' \in Registries
  BY DEF TypeOK, Registries
<1>2. \A r \in 0..BackoffLimit : BackoffLimit - r \in Nat
  BY HarborProxyAssumption
<1>3. /\ ScriptLength \in Nat /\ ScriptLeft(pc, at) > 0
      /\ ScriptLeft(pc, at) \in 0..ScriptLength /\ ScriptLeft(pc', at') \in 0..ScriptLength
  BY <1>1, ScriptLeftType
<1>4. CASE restarts' = restarts + 1
  <2>1. BackoffLimit - restarts' = (BackoffLimit - restarts) - 1
    BY <1>4, HarborProxyAssumption DEF TypeOK
  <2> QED BY <1>2, <1>1, <1>3, <2>1, FewerLeft DEF WorkLeft
<1>5. CASE pc' = "failed" /\ restarts' = restarts
  <2>1. ScriptLeft(pc', at') = 0
    BY <1>5 DEF ScriptLeft, Ended
  <2> QED BY <1>2, <1>1, <1>3, <1>5, <2>1, FewerLeft DEF WorkLeft
<1> QED BY <1>4, <1>5 DEF Fails, Exit

LEMMA GoOnEndsWork ==
    ASSUME TypeOK, TypeOK', restarts' = restarts,
           ScriptLeft(pc', at') < ScriptLeft(pc, at)
    PROVE  WorkLeft' < WorkLeft
<1>1. /\ BackoffLimit - restarts \in Nat /\ ScriptLength \in Nat
      /\ ScriptLeft(pc, at) \in 0..ScriptLength /\ ScriptLeft(pc', at') \in 0..ScriptLength
  BY ScriptLeftType, HarborProxyAssumption DEF TypeOK
<1> QED BY <1>1, FewerLeft DEF WorkLeft

\* What a command that does not fail goes on to.
LEMMA GoesOn ==
    ASSUME Next
    PROVE  \/ pc \notin Ended /\ Fails
           \/ /\ restarts' = restarts
              /\ \/ pc = "install" /\ pc' = "registry" /\ at' = at
                 \/ pc = "registry" /\ pc' = "lookup" /\ at' = at
                 \/ pc = "lookup" /\ pc' = "project" /\ at' = at
                 \/ pc = "project" /\ pc' = "registry" /\ at' = at + 1
                 \/ pc = "project" /\ pc' = "complete" /\ at' = at
<1>1. CASE Install
  BY <1>1 DEF Install, Ended, Fails
<1>2. CASE PostRegistry
  BY <1>2 DEF PostRegistry, Ended, Fails
<1>3. CASE Lookup
  BY <1>3 DEF Lookup, Ended, Fails
<1>4. CASE PostProject
  BY <1>4 DEF PostProject, NextRegistry, Ended, Fails
<1> QED BY <1>1, <1>2, <1>3, <1>4 DEF Next

LEMMA GoOnShortens ==
    ASSUME TypeOK, StartsOver,
           \/ pc = "install" /\ pc' = "registry" /\ at' = at
           \/ pc = "registry" /\ pc' = "lookup" /\ at' = at
           \/ pc = "lookup" /\ pc' = "project" /\ at' = at
           \/ pc = "project" /\ pc' = "registry" /\ at' = at + 1
           \/ pc = "project" /\ pc' = "complete" /\ at' = at
    PROVE  ScriptLeft(pc', at') < ScriptLeft(pc, at)
<1>1. N \in Nat /\ at \in Nat /\ at \in Registries
  BY HarborProxyAssumption DEF TypeOK, Registries
<1>2. CASE pc = "install" /\ pc' = "registry" /\ at' = at
  <2>1. at = 1
    BY <1>2 DEF StartsOver
  <2> QED BY <1>1, <1>2, <2>1 DEF ScriptLeft, ScriptLength, TurnLeft, Ended
<1>3. CASE pc = "registry" /\ pc' = "lookup" /\ at' = at
  BY <1>1, <1>3 DEF ScriptLeft, TurnLeft, Ended
<1>4. CASE pc = "lookup" /\ pc' = "project" /\ at' = at
  BY <1>1, <1>4 DEF ScriptLeft, TurnLeft, Ended
<1>5. CASE pc = "project" /\ pc' = "registry" /\ at' = at + 1
  <2>1. ScriptLeft(pc, at) = 3 * (N - at) + 1
    BY <1>5 DEF ScriptLeft, TurnLeft, Ended
  <2>2. ScriptLeft(pc', at') = 3 * (N - (at + 1)) + 3
    BY <1>5 DEF ScriptLeft, TurnLeft, Ended
  <2> QED BY <1>1, <2>1, <2>2
<1>6. CASE pc = "project" /\ pc' = "complete" /\ at' = at
  BY <1>1, <1>6, ScriptLeftType DEF ScriptLeft, Ended
<1> QED BY <1>2, <1>3, <1>4, <1>5, <1>6

LEMMA NextEndsWork == ASSUME Inv, Inv', Next PROVE WorkLeft' < WorkLeft
<1>1. TypeOK /\ TypeOK' /\ StartsOver
  BY DEF Inv
<1>2. CASE pc \notin Ended /\ Fails
  BY <1>1, <1>2, ExitEndsWork
<1>3. CASE ~(pc \notin Ended /\ Fails)
  <2>1. restarts' = restarts
    BY <1>3, GoesOn
  <2>2. ScriptLeft(pc', at') < ScriptLeft(pc, at)
    BY <1>1, <1>3, GoesOn, GoOnShortens
  <2> QED BY <1>1, <2>1, <2>2, GoOnEndsWork
<1> QED BY <1>2, <1>3

\* Every command, whether it succeeds, is answered with an error or fails, brings the Job
\* nearer to its end: it runs no more than (BackoffLimit + 1) * (3 * N + 1) of them.
THEOREM WorkRunsOut ==
    Spec => /\ WorkLeft = (BackoffLimit + 1) * ScriptLength
            /\ [](WorkLeft \in Nat)
            /\ [][WorkLeft' < WorkLeft]_vars
<1>1. Inv => WorkLeft \in Nat
  <2> SUFFICES ASSUME Inv PROVE WorkLeft \in Nat
    OBVIOUS
  <2>1. /\ BackoffLimit - restarts \in Nat /\ ScriptLength \in Nat
        /\ ScriptLeft(pc, at) \in Nat
    BY ScriptLeftType, HarborProxyAssumption DEF Inv, TypeOK
  <2>2. (BackoffLimit - restarts) * ScriptLength \in Nat
    BY <2>1
  <2> QED BY <2>1, <2>2 DEF WorkLeft
<1>2. Inv /\ Inv' /\ [Next]_vars => [WorkLeft' < WorkLeft]_vars
  BY NextEndsWork
<1>3. Init => WorkLeft = (BackoffLimit + 1) * ScriptLength
  <2>1. ScriptLength \in Nat /\ BackoffLimit \in Nat
    BY ScriptLeftType, HarborProxyAssumption
  <2>2. BackoffLimit * ScriptLength + ScriptLength = (BackoffLimit + 1) * ScriptLength
    BY <2>1
  <2>3. Init => restarts = 0 /\ ScriptLeft(pc, at) = ScriptLength
    BY DEF Init, ScriptLeft
  <2> QED BY <2>1, <2>2, <2>3 DEF WorkLeft
<1> QED BY <1>1, <1>2, <1>3, Invariance, PTL DEF Spec
=============================================================================
