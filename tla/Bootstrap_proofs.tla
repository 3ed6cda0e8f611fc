--------------------------- MODULE Bootstrap_proofs ---------------------------
(***************************************************************************)
(* Proofs about Bootstrap for every set of passwords, every retry limit    *)
(* and any number of runs and rebuilds: its types, that the recorded       *)
(* password works, that a lockout is permanent, and that it implements     *)
(* PasswordRotation.                                                       *)
(***************************************************************************)
EXTENDS Bootstrap, Integers, TLAPS

-----------------------------------------------------------------------------
\* What create() holds at each of its awaits.
Holds ==
    /\ pc # "idle" => password \in Passwords /\ saved = None
    /\ pc \in {"loginBoot", "settle", "send", "await"} => token = Boot
    /\ reply # "none" => pc = "await"

\* Every request on the wire names the bootstrap password, belongs to this run or
\* an earlier one, and carries the password of its run.
Requests ==
    \A m \in wire :
        /\ m.current = Boot
        /\ m.run <= runs
        /\ m.run = runs /\ pc # "idle" => m.new = password

\* What create() has been told of its change is true of the server.
Knows == KnowsItsChange => serverPw = password

Inv ==
    /\ TypeOK
    /\ Holds
    /\ Requests
    /\ Knows
    /\ saved # None => savedGen <= gen
    /\ SavedPasswordWorks

LEMMA InvInit == Init => Inv
BY BootstrapAssumption
DEF Init, Inv, TypeOK, Stages, Holds, Requests, Knows, KnowsItsChange, SavedPasswordWorks

-----------------------------------------------------------------------------
(* One lemma for each kind of step.                                        *)

LEMMA AbandonInv ==
    ASSUME Inv, Abandon PROVE Inv'
BY BootstrapAssumption
DEF Abandon, serverVars, savedVars, Inv, TypeOK, Stages, Holds, Requests, Knows,
    KnowsItsChange, SavedPasswordWorks

\* A request of a later run, or of a later attempt, changes nothing an earlier one
\* has changed: they all name the bootstrap password.
LEMMA HandleInv ==
    ASSUME Inv, NEW m \in wire, Handle(m) PROVE Inv'
<1> USE BootstrapAssumption
<1>1. /\ m \in Request /\ m.current = Boot /\ m.new \in Passwords
      /\ InFlight(m) => m.new = password
  BY DEF Inv, TypeOK, Request, Requests, InFlight
<1>2. Accepts(m) <=> serverPw = Boot
  BY <1>1 DEF Accepts
<1>3. TypeOK'
  BY <1>1 DEF Handle, Inv, TypeOK, savedVars
<1>4. Holds' /\ Requests'
  BY DEF Handle, InFlight, Inv, Holds, Requests, savedVars
<1>5. Knows'
  BY <1>1, <1>2 DEF Handle, Inv, TypeOK, Holds, Knows, KnowsItsChange, InFlight, savedVars
<1>6. (saved # None => savedGen <= gen)' /\ SavedPasswordWorks'
  BY <1>2 DEF Handle, Inv, TypeOK, SavedPasswordWorks, savedVars
<1> QED BY <1>3, <1>4, <1>5, <1>6 DEF Inv

LEMMA RebuildInv ==
    ASSUME Inv, Rebuild PROVE Inv'
BY BootstrapAssumption
DEF Rebuild, savedVars, Inv, TypeOK, Stages, Holds, Requests, Knows, KnowsItsChange,
    SavedPasswordWorks

LEMMA StartInv ==
    ASSUME Inv, StartCreate \/ RunUnchanged \/ SecretAppears PROVE Inv'
<1> USE BootstrapAssumption
    DEF serverVars, savedVars, Inv, TypeOK, Stages, Holds, Requests, Knows,
        KnowsItsChange, SavedPasswordWorks
<1>1. CASE StartCreate
  <2>1. password' \in Passwords
    BY <1>1 DEF StartCreate
  <2>2. \A m \in wire : m.run # runs' /\ m.run \in Nat
    BY <1>1 DEF StartCreate, Request
  <2> QED BY <1>1, <2>1, <2>2 DEF StartCreate, Request
<1>2. CASE RunUnchanged
  BY <1>2 DEF RunUnchanged, Request
<1>3. CASE SecretAppears
  BY <1>3 DEF SecretAppears
<1> QED BY <1>1, <1>2, <1>3

LEMMA LoginInv ==
    ASSUME Inv, LoginWithToken \/ Verify PROVE Inv'
<1> USE BootstrapAssumption
    DEF serverVars, savedVars, Inv, TypeOK, Stages, Holds, Requests, Knows,
        KnowsItsChange, SavedPasswordWorks
<1>1. CASE Abandon
  BY <1>1, AbandonInv
<1>2. CASE LoginWithToken /\ ~Abandon
  BY <1>2 DEF LoginWithToken, LoginAttempt, GoTo
<1>3. CASE Verify /\ ~Abandon
  BY <1>3 DEF Verify, LoginAttempt, GoTo
<1> QED BY <1>1, <1>2, <1>3

LEMMA ChangeInv ==
    ASSUME Inv, SettleDelay \/ SendChange \/ ChangeAccepted \/ ChangeAttemptFails
    PROVE  Inv'
<1> USE BootstrapAssumption
    DEF serverVars, savedVars, Inv, TypeOK, Stages, Holds, Requests, Knows,
        KnowsItsChange, SavedPasswordWorks
<1>1. CASE SettleDelay
  BY <1>1 DEF SettleDelay, GoTo
<1>2. CASE SendChange
  <2> DEFINE sent == [run |-> runs, try |-> attempt', current |-> SentCurrent, new |-> password]
  <2>1. token = Boot /\ password \in Passwords /\ attempt' \in Nat
    BY <1>2 DEF SendChange
  <2>2. /\ sent \in Request /\ sent.current = Boot /\ sent.run = runs
        /\ sent.new = password
    BY <2>1 DEF SentCurrent, Request
  <2>3. wire' = wire \cup {sent}
    BY <1>2 DEF SendChange
  <2> HIDE DEF sent
  <2>4. TypeOK'
    BY <1>2, <2>1, <2>2, <2>3 DEF SendChange
  <2>5. Requests'
    BY <1>2, <2>2, <2>3 DEF SendChange
  <2>6. Holds' /\ Knows' /\ (saved # None => savedGen <= gen)' /\ SavedPasswordWorks'
    BY <1>2 DEF SendChange
  <2> QED BY <2>4, <2>5, <2>6
<1>3. CASE ChangeAccepted
  BY <1>3 DEF ChangeAccepted
<1>4. CASE ChangeAttemptFails
  <2>1. CASE Abandon
    BY <2>1, AbandonInv
  <2>2. CASE ~Abandon
    BY <1>4, <2>2 DEF ChangeAttemptFails
  <2> QED BY <2>1, <2>2
<1> QED BY <1>1, <1>2, <1>3, <1>4

LEMMA SaveInv ==
    ASSUME Inv, Save PROVE Inv'
BY BootstrapAssumption
DEF Save, OutsPassword, serverVars, Inv, TypeOK, Stages, Holds, Requests, Knows,
    KnowsItsChange, SavedPasswordWorks

LEMMA FetchInv ==
    ASSUME Inv, FetchToken PROVE Inv'
<1>1. CASE Abandon
  BY <1>1, AbandonInv
<1>2. CASE ~Abandon
  BY <1>2, BootstrapAssumption
  DEF FetchToken, GoTo, serverVars, savedVars, Inv, TypeOK, Stages, Holds, Requests,
      Knows, KnowsItsChange, SavedPasswordWorks
<1> QED BY <1>1, <1>2

LEMMA InvStep == Inv /\ [Next]_vars => Inv'
<1> SUFFICES ASSUME Inv, [Next]_vars PROVE Inv'
  OBVIOUS
<1>1. CASE UNCHANGED vars
  BY <1>1
  DEF vars, serverVars, savedVars, Inv, TypeOK, Holds, Requests, Knows, KnowsItsChange,
      SavedPasswordWorks
<1>2. CASE Next
  BY <1>2, AbandonInv, HandleInv, RebuildInv, StartInv, LoginInv, ChangeInv, SaveInv,
     FetchInv
  DEF Next, Provider, Crash
<1> QED BY <1>1, <1>2

LEMMA Invariance == Spec => []Inv
BY InvInit, InvStep, PTL DEF Spec

-----------------------------------------------------------------------------
\* The variables of the bootstrap keep their types.
THEOREM TypeCorrect == Spec => []TypeOK
<1>1. Inv => TypeOK
  BY DEF Inv
<1> QED BY <1>1, Invariance, PTL

\* The password in the stack opens the server it was recorded for, after any number
\* of runs, retries, crashes and requests that arrive late.
THEOREM SavedIsValid == Spec => []SavedPasswordWorks
<1>1. Inv => SavedPasswordWorks
  BY DEF Inv
<1> QED BY <1>1, Invariance, PTL

-----------------------------------------------------------------------------
LEMMA LockoutStep ==
    Inv /\ [Next]_vars => [LockedOut /\ gen' = gen => LockedOut']_vars
<1> SUFFICES ASSUME Inv, Next, LockedOut, gen' = gen
             PROVE  LockedOut'
  OBVIOUS
<1> USE BootstrapAssumption DEF serverVars, savedVars, LockedOut, KnowsItsChange
<1>1. pc # "created" /\ pc # "verify"
  OBVIOUS
<1>2. CASE SecretAppears
  BY <1>2 DEF SecretAppears
<1>3. ASSUME NEW m \in wire, Handle(m)
      PROVE  LockedOut'
  <2>1. ~Accepts(m) /\ m.new \in Passwords
    BY DEF Accepts, Inv, TypeOK, Requests, Request
  <2>2. serverPw' = serverPw /\ saved' = saved /\ pc' = pc
    BY <1>3, <2>1 DEF Handle
  <2>3. pc = "await" => reply' # "ok"
    BY <1>3, <2>1 DEF Handle
  <2> QED BY <1>1, <2>2, <2>3
<1>4. CASE Rebuild
  BY <1>4 DEF Rebuild, Inv, TypeOK
<1>5. CASE StartCreate \/ RunUnchanged
  BY <1>5 DEF StartCreate, RunUnchanged
<1>6. CASE Abandon
  BY <1>6 DEF Abandon
<1>7. CASE FetchToken
  BY <1>6, <1>7 DEF FetchToken, GoTo
<1>8. CASE LoginWithToken
  <2>1. token = Boot
    BY <1>8 DEF LoginWithToken, Inv, Holds
  <2> QED BY <1>6, <1>8, <2>1 DEF LoginWithToken, LoginAttempt
<1>9. CASE SettleDelay
  BY <1>9 DEF SettleDelay, GoTo
<1>10. CASE SendChange
  BY <1>10 DEF SendChange
<1>11. CASE ChangeAccepted
  BY <1>11 DEF ChangeAccepted
<1>12. CASE ChangeAttemptFails
  BY <1>6, <1>12 DEF ChangeAttemptFails
<1>13. CASE Verify \/ Save
  BY <1>1, <1>13 DEF Verify, Save
<1> QED
  BY <1>2, <1>3, <1>4, <1>5, <1>6, <1>7, <1>8, <1>9, <1>10, <1>11, <1>12, <1>13
  DEF Next, Provider, Crash

\* Once a change was made that no run saw succeed, the stack never records a
\* password for that server again.
THEOREM Lockout == Spec => LockoutIsPermanent
<1>1. Inv /\ [Next]_vars => [LockedOut /\ gen' = gen => LockedOut']_vars
  BY LockoutStep
<1> QED BY <1>1, Invariance, PTL DEF Spec, LockoutIsPermanent

-----------------------------------------------------------------------------
LEMMA RotationStep ==
    Inv /\ [Next]_vars => [Rotation!Next]_(Rotation!vars)
<1> SUFFICES ASSUME Inv, [Next]_vars
             PROVE  \/ Rotation!Rotate \/ Rotation!Record \/ Rotation!Rebuild
                    \/ UNCHANGED <<gen, serverPw, saved, savedGen>>
  BY DEF Rotation!Next, Rotation!vars
<1> USE BootstrapAssumption DEF serverVars, savedVars
<1>1. CASE UNCHANGED vars
  BY <1>1 DEF vars
<1>2. ASSUME NEW m \in wire, Handle(m)
      PROVE  Rotation!Rotate \/ UNCHANGED <<gen, serverPw, saved, savedGen>>
  <2>1. m.current = Boot /\ m.new \in Passwords
    BY DEF Inv, TypeOK, Requests, Request
  <2> QED BY <1>2, <2>1 DEF Handle, Accepts, Rotation!Rotate
<1>3. CASE Rebuild
  BY <1>3 DEF Rebuild, Rotation!Rebuild
<1>4. CASE Save
  <2>1. saved = None /\ password \in Passwords /\ serverPw = password
    BY <1>4 DEF Save, Inv, Holds, Knows, KnowsItsChange
  <2> QED BY <1>4, <2>1 DEF Save, OutsPassword, Rotation!Record
<1>5. CASE SecretAppears \/ StartCreate \/ RunUnchanged \/ Abandon
  BY <1>5 DEF SecretAppears, StartCreate, RunUnchanged, Abandon
<1>6. CASE FetchToken \/ LoginWithToken \/ SettleDelay \/ SendChange
  BY <1>6
  DEF FetchToken, LoginWithToken, LoginAttempt, SettleDelay, SendChange, GoTo, Abandon
<1>7. CASE ChangeAccepted \/ ChangeAttemptFails \/ Verify
  BY <1>7 DEF ChangeAccepted, ChangeAttemptFails, Verify, LoginAttempt, GoTo, Abandon
<1> QED BY <1>1, <1>2, <1>3, <1>4, <1>5, <1>6, <1>7 DEF Next, Provider, Crash

\* The bootstrap implements the abstract rotation: one change a server, and only the
\* password it then has is recorded.
THEOREM Refinement == Spec => ImplementsRotation
<1>1. Init => Rotation!Init
  BY DEF Init, Rotation!Init
<1>2. Inv /\ [Next]_vars => [Rotation!Next]_(Rotation!vars)
  BY RotationStep
<1> QED BY <1>1, <1>2, Invariance, PTL DEF Spec, ImplementsRotation, Rotation!Spec

-----------------------------------------------------------------------------
(***************************************************************************)
(* That a run ends: the safety half of EveryRunEnds.                       *)
(***************************************************************************)
\* The attempts of a request are no more than its retries and one.
AttemptInv ==
    /\ pc \in {"loginBoot", "verify"} => attempt <= LoginRetries
    /\ pc = "send" => attempt <= ChangeRetries
    /\ pc = "await" => attempt <= ChangeRetries + 1

LEMMA AttemptInit == Init => AttemptInv
BY DEF Init, AttemptInv

LEMMA AttemptStep == ASSUME Inv, AttemptInv, [Next]_vars PROVE AttemptInv'
<1> USE BootstrapAssumption DEF AttemptInv, Inv, TypeOK, Holds
<1>1. CASE SecretAppears \/ (\E m \in wire : Handle(m)) \/ Rebuild \/ RunUnchanged \/ UNCHANGED vars
  <2>1. UNCHANGED <<pc, attempt>>
    BY <1>1 DEF SecretAppears, Handle, Rebuild, RunUnchanged, vars
  <2> QED BY <2>1
<1>2. CASE StartCreate
  BY <1>2 DEF StartCreate
<1>3. CASE Abandon
  BY <1>3 DEF Abandon
<1>4. CASE FetchToken /\ ~Abandon
  BY <1>4 DEF FetchToken, GoTo
<1>5. CASE LoginWithToken /\ ~Abandon
  BY <1>5 DEF LoginWithToken, LoginAttempt, GoTo
<1>6. CASE SettleDelay
  BY <1>6 DEF SettleDelay, GoTo
<1>7. CASE SendChange \/ ChangeAccepted
  BY <1>7 DEF SendChange, ChangeAccepted
<1>8. CASE ChangeAttemptFails /\ ~Abandon
  BY <1>8 DEF ChangeAttemptFails
<1>9. CASE Verify /\ ~Abandon
  BY <1>9 DEF Verify, LoginAttempt, GoTo
<1>10. CASE Save
  BY <1>10 DEF Save
<1> QED BY <1>1, <1>2, <1>3, <1>4, <1>5, <1>6, <1>7, <1>8, <1>9, <1>10 DEF Next, Provider, Crash

\* The steps that are left to create() at stage s, after a attempts of its request, if it
\* fails as often as it may before it succeeds.
StepsLeft(s, a) ==
    CASE s = "fetch" -> 2 * LoginRetries + 2 * ChangeRetries + 7
      [] s = "loginBoot" -> (LoginRetries - a) + LoginRetries + 2 * ChangeRetries + 6
      [] s = "settle" -> LoginRetries + 2 * ChangeRetries + 5
      [] s = "send" -> LoginRetries + 2 * (ChangeRetries - a) + 4
      [] s = "await" -> LoginRetries + 2 * (ChangeRetries - a) + 5
      [] s = "verify" -> (LoginRetries - a) + 2
      [] s = "created" -> 1
      [] OTHER -> 0

RunLeft == StepsLeft(pc, attempt)

LEMMA StepsLeftValues ==
    \A a : /\ StepsLeft("fetch", a) = 2 * LoginRetries + 2 * ChangeRetries + 7
           /\ StepsLeft("loginBoot", a) =
                 (LoginRetries - a) + LoginRetries + 2 * ChangeRetries + 6
           /\ StepsLeft("settle", a) = LoginRetries + 2 * ChangeRetries + 5
           /\ StepsLeft("send", a) = LoginRetries + 2 * (ChangeRetries - a) + 4
           /\ StepsLeft("await", a) = LoginRetries + 2 * (ChangeRetries - a) + 5
           /\ StepsLeft("verify", a) = (LoginRetries - a) + 2
           /\ StepsLeft("created", a) = 1
           /\ StepsLeft("idle", a) = 0
BY DEF StepsLeft

LEMMA RunLeftType ==
    ASSUME Inv, AttemptInv
    PROVE  /\ RunLeft \in 0..(2 * LoginRetries + 2 * ChangeRetries + 7)
           /\ pc # "idle" => RunLeft > 0
<1>1. /\ LoginRetries \in Nat /\ ChangeRetries \in Nat
      /\ attempt \in Nat /\ pc \in Stages
  BY BootstrapAssumption DEF Inv, TypeOK
<1>2. CASE pc \in {"fetch", "settle", "created", "idle"}
  BY <1>1, <1>2, StepsLeftValues DEF RunLeft
<1>3. CASE pc \in {"loginBoot", "verify"}
  <2>1. attempt <= LoginRetries
    BY <1>3 DEF AttemptInv
  <2> QED BY <1>1, <1>3, <2>1, StepsLeftValues DEF RunLeft
<1>4. CASE pc \in {"send", "await"}
  <2>1. attempt <= ChangeRetries + 1
    BY <1>1, <1>4 DEF AttemptInv
  <2>2. LoginRetries + 2 * (ChangeRetries - attempt) \in -2..(LoginRetries + 2 * ChangeRetries)
    BY <1>1, <2>1
  <2> QED BY <1>1, <1>4, <2>1, <2>2, StepsLeftValues DEF RunLeft
<1> QED BY <1>1, <1>2, <1>3, <1>4 DEF Stages

LEMMA AbandonShortens ==
    ASSUME Inv, AttemptInv, pc # "idle", Abandon PROVE RunLeft' < RunLeft
<1>1. RunLeft' = 0
  BY StepsLeftValues DEF Abandon, RunLeft
<1> QED BY <1>1, RunLeftType

LEMMA ProviderShortens ==
    ASSUME Inv, AttemptInv, Provider PROVE RunLeft' < RunLeft
<1>1. /\ LoginRetries \in Nat /\ ChangeRetries \in Nat /\ attempt \in Nat /\ pc # "idle"
  BY BootstrapAssumption
  DEF Inv, TypeOK, Provider, FetchToken, LoginWithToken, SettleDelay, SendChange,
      ChangeAccepted, ChangeAttemptFails, Verify, Save
<1>2. CASE Abandon
  BY <1>1, <1>2, AbandonShortens
<1>3. CASE FetchToken /\ ~Abandon
  BY <1>1, <1>3, StepsLeftValues DEF FetchToken, GoTo, RunLeft
<1>4. CASE LoginWithToken /\ ~Abandon
  <2>1. pc = "loginBoot" /\ attempt <= LoginRetries
    BY <1>4 DEF LoginWithToken, AttemptInv
  <2>2. CASE pc' = "settle" /\ attempt' = 0
    BY <1>1, <2>1, <2>2, StepsLeftValues DEF RunLeft
  <2>3. CASE pc' = pc /\ attempt' = attempt + 1
    BY <1>1, <2>1, <2>3, StepsLeftValues DEF RunLeft
  <2> QED BY <1>4, <2>2, <2>3 DEF LoginWithToken, LoginAttempt, GoTo
<1>5. CASE SettleDelay
  BY <1>1, <1>5, StepsLeftValues DEF SettleDelay, GoTo, RunLeft
<1>6. CASE SendChange
  BY <1>1, <1>6, StepsLeftValues DEF SendChange, RunLeft
<1>7. CASE ChangeAccepted
  <2>1. pc = "await" /\ pc' = "verify" /\ attempt' = 0 /\ attempt <= ChangeRetries + 1
    BY <1>7 DEF ChangeAccepted, AttemptInv
  <2> QED BY <1>1, <2>1, StepsLeftValues DEF RunLeft
<1>8. CASE ChangeAttemptFails /\ ~Abandon
  BY <1>1, <1>8, StepsLeftValues DEF ChangeAttemptFails, RunLeft
<1>9. CASE Verify /\ ~Abandon
  <2>1. pc = "verify" /\ attempt <= LoginRetries
    BY <1>9 DEF Verify, AttemptInv
  <2>2. CASE pc' = "created" /\ attempt' = 0
    BY <1>1, <2>1, <2>2, StepsLeftValues DEF RunLeft
  <2>3. CASE pc' = pc /\ attempt' = attempt + 1
    BY <1>1, <2>1, <2>3, StepsLeftValues DEF RunLeft
  <2> QED BY <1>9, <2>2, <2>3 DEF Verify, LoginAttempt, GoTo
<1>10. CASE Save
  BY <1>10, StepsLeftValues DEF Save, RunLeft
<1> QED BY <1>2, <1>3, <1>4, <1>5, <1>6, <1>7, <1>8, <1>9, <1>10 DEF Provider

LEMMA OthersDoNotProlong ==
    ASSUME Inv, AttemptInv, Next, pc # "idle", ~Provider
    PROVE  RunLeft' = RunLeft \/ (Crash /\ RunLeft' < RunLeft)
<1>1. CASE SecretAppears \/ \E m \in wire : Handle(m)
  BY <1>1 DEF SecretAppears, Handle, RunLeft
<1>2. CASE Crash
  BY <1>2, AbandonShortens DEF Crash
<1> QED BY <1>1, <1>2 DEF Next, Rebuild, StartCreate, RunUnchanged

\* A run, once started, has a bounded number of steps left; each of its own steps leaves it
\* fewer, whatever the server answers or does not answer, and nothing that happens around it
\* gives it more.
THEOREM RunsRunOut ==
    Spec => /\ [](RunLeft \in 0..(2 * LoginRetries + 2 * ChangeRetries + 7))
            /\ [][Provider => RunLeft' < RunLeft]_vars
            /\ [][pc # "idle" => RunLeft' <= RunLeft]_vars
<1> DEFINE Total == 2 * LoginRetries + 2 * ChangeRetries + 7
<1>1. Inv /\ AttemptInv => RunLeft \in 0..Total
  BY RunLeftType
<1>2. Inv /\ AttemptInv /\ [Next]_vars => [Provider => RunLeft' < RunLeft]_vars
  BY ProviderShortens
<1>3. Inv /\ AttemptInv /\ RunLeft \in 0..Total /\ (RunLeft \in 0..Total)' /\ [Next]_vars
         => [pc # "idle" => RunLeft' <= RunLeft]_vars
  <2> SUFFICES ASSUME Inv, AttemptInv, RunLeft \in 0..Total, (RunLeft \in 0..Total)', Next,
                      pc # "idle"
               PROVE  RunLeft' <= RunLeft
    OBVIOUS
  <2>1. RunLeft \in Int /\ RunLeft' \in Int
    BY BootstrapAssumption
  <2>2. RunLeft' < RunLeft \/ RunLeft' = RunLeft
    BY ProviderShortens, OthersDoNotProlong
  <2> QED BY <2>1, <2>2
<1>4. Spec => []AttemptInv
  BY AttemptInit, AttemptStep, Invariance, PTL DEF Spec
<1> HIDE DEF Total
<1>5. Spec => [](RunLeft \in 0..Total) /\ [][Provider => RunLeft' < RunLeft]_vars
              /\ [][pc # "idle" => RunLeft' <= RunLeft]_vars
  BY <1>1, <1>2, <1>3, <1>4, Invariance, PTL DEF Spec
<1> QED BY <1>5 DEF Total
=============================================================================
