------------------------------- MODULE Bootstrap -------------------------------
(***************************************************************************)
(* BootstrapAdminPassword: the create() that reads Rancher's bootstrap     *)
(* token, logs in with it, changes the admin password and logs in again    *)
(* with the new one, run by `pulumi up` until the stack has recorded the   *)
(* resource.  Requests are sent, handled and answered in steps of their    *)
(* own; got gives an attempt up when its timeout elapses and sends it      *)
(* again, while the server may still handle the one given up, and a run    *)
(* may be killed at any await.                                             *)
(*                                                                         *)
(* External: the Rancher server (its password, its bootstrap secret, the   *)
(* changepassword action), the network, and the engine that records what   *)
(* create() returned and runs again on demand.                             *)
(***************************************************************************)
EXTENDS Naturals

CONSTANTS
    Passwords,      \* passwords an admin may be given
    Boot,           \* the bootstrap password of a new server
    None,           \* undefined
    NoCurrent,      \* the current password of a request that names none
    ChangeRetries,  \* retryLimit of updatePassword
    LoginRetries,   \* retryLimit of loginToRancher
    MaxRuns,        \* bound: runs of `pulumi up`
    MaxGen          \* bound: rebuilds of the VM

ASSUME BootstrapAssumption ==
    /\ Boot \notin Passwords /\ None \notin Passwords /\ NoCurrent \notin Passwords
    /\ Boot # None /\ Boot # NoCurrent
    /\ ChangeRetries \in Nat /\ LoginRetries \in Nat
    /\ MaxRuns \in Nat /\ MaxGen \in Nat

VARIABLES
    gen,        \* which server this is: one more for each rebuilt VM
    serverPw,   \* the admin password of that server
    secret,     \* the bootstrap secret: "missing", "empty" or "set"
    wire,       \* change requests the server has not handled
    reply,      \* what the server answered to the attempt in flight
    runs,       \* runs so far
    pc,         \* the await the current create() is suspended at
    token,      \* bootstrapToken
    password,   \* the password create() settled on
    attempt,    \* attempts of the current request so far
    saved,      \* the password output in the stack's state
    savedGen    \* the server it was recorded for

serverVars == <<gen, serverPw, secret>>
savedVars == <<saved, savedGen>>
vars == <<serverVars, wire, reply, runs, pc, token, password, attempt, savedVars>>

Stages == {"idle", "fetch", "loginBoot", "settle", "send", "await", "verify", "created"}

Init ==
    /\ gen = 0 /\ serverPw = Boot /\ secret = "missing"
    /\ wire = {} /\ reply = "none"
    /\ runs = 0 /\ pc = "idle"
    /\ token = None /\ password = None /\ attempt = 0
    /\ saved = None /\ savedGen = 0

-----------------------------------------------------------------------------
(* The Rancher server and the VM it runs on.                               *)

\* Rancher creates its secret, and fills it.
SecretAppears ==
    /\ secret # "set"
    /\ secret' \in {"empty", "set"} \ {secret}
    /\ UNCHANGED <<gen, serverPw, wire, reply, runs, pc, token, password, attempt, savedVars>>

\* The attempt create() is waiting for.
InFlight(m) == pc = "await" /\ m.run = runs /\ m.try = attempt

\* changepassword takes a request that names the current password; a request
\* that names none would be an administrative reset.
Accepts(m) == m.current \in {serverPw, NoCurrent}

\* The server handles a request, whether or not anyone still waits for it.
Handle(m) ==
    /\ wire' = wire \ {m}
    /\ serverPw' = IF Accepts(m) THEN m.new ELSE serverPw
    /\ reply' = IF ~InFlight(m) THEN reply ELSE IF Accepts(m) THEN "ok" ELSE "refused"
    /\ UNCHANGED <<gen, secret, runs, pc, token, password, attempt, savedVars>>

\* The VM is replaced between runs: a new server, and connections to the old die.
Rebuild ==
    /\ pc = "idle"
    /\ gen < MaxGen
    /\ gen' = gen + 1
    /\ serverPw' = Boot
    /\ secret' = "missing"
    /\ wire' = {}
    /\ UNCHANGED <<reply, runs, pc, token, password, attempt, savedVars>>

-----------------------------------------------------------------------------
(* One run of the provider.                                                *)

\* The stack has no such resource: the engine calls create(), which takes
\* inputs.adminPassword, perhaps the one of an earlier run, or a random one.
StartCreate ==
    /\ pc = "idle"
    /\ runs < MaxRuns
    /\ saved = None
    /\ runs' = runs + 1
    /\ pc' = "fetch"
    /\ password' \in Passwords
    /\ UNCHANGED <<serverVars, wire, reply, token, attempt, savedVars>>

\* The stack has it: diff() answers { changes: false } and update() would return
\* the old outputs, so nothing but the run is counted.
RunUnchanged ==
    /\ pc = "idle"
    /\ runs < MaxRuns
    /\ saved # None
    /\ runs' = runs + 1
    /\ UNCHANGED <<serverVars, wire, reply, pc, token, password, attempt, savedVars>>

\* create() rejects, or its process dies.
Abandon ==
    /\ pc' = "idle"
    /\ reply' = "none"
    /\ token' = None /\ password' = None /\ attempt' = 0
    /\ UNCHANGED <<serverVars, wire, runs, savedVars>>

GoTo(stage) ==
    /\ pc' = stage
    /\ attempt' = 0
    /\ UNCHANGED <<serverVars, wire, reply, runs, password, savedVars>>

\* waitFor(fetchBootstrapToken): an empty secret is polled again; a missing one,
\* an error or the deadline ends the wait (Probes has its clock).
FetchToken ==
    /\ pc = "fetch"
    /\ \/ /\ secret = "set"
          /\ token' = Boot
          /\ GoTo("loginBoot")
       \/ Abandon

\* One attempt of loginToRancher(): it works, is retried, or fails create().
LoginAttempt(pw, limit, next) ==
    \/ /\ serverPw = pw
       /\ GoTo(next)
       /\ UNCHANGED token
    \/ /\ attempt < limit
       /\ attempt' = attempt + 1
       /\ UNCHANGED <<serverVars, wire, reply, runs, pc, token, password, savedVars>>
    \/ /\ attempt >= limit
       /\ Abandon

LoginWithToken ==
    /\ pc = "loginBoot"
    /\ LoginAttempt(token, LoginRetries, "settle")

\* "waiting 5s for Rancher to settle"
SettleDelay ==
    /\ pc = "settle"
    /\ GoTo("send")
    /\ UNCHANGED token

\* Plausible bug: the change is made by a reset that does not name the password
\* it replaces.
SentCurrentMissing == NoCurrent

\* currentPassword: the token fetched before the two awaits in between.
SentCurrent == token

\* An attempt of updatePassword().
SendChange ==
    /\ pc = "send"
    /\ attempt' = attempt + 1
    /\ wire' = wire \cup
         {[run |-> runs, try |-> attempt', current |-> SentCurrent, new |-> password]}
    /\ reply' = "none"
    /\ pc' = "await"
    /\ UNCHANGED <<serverVars, runs, token, password, savedVars>>

\* A 2xx reply arrives.
ChangeAccepted ==
    /\ pc = "await"
    /\ reply = "ok"
    /\ pc' = "verify"
    /\ reply' = "none"
    /\ attempt' = 0
    /\ UNCHANGED <<serverVars, wire, runs, token, password, savedVars>>

\* Plausible bug: the request has no timeout, only a reply ends an attempt.
OnlyRepliesEnd == reply = "refused"

\* timeout.request may elapse, or the connection fail, whatever the server did.
MayEnd == TRUE

\* The attempt ends without a 2xx reply: got sends it again, even after a 4xx, or
\* gives up and the status test or the error rejects create().
ChangeAttemptFails ==
    /\ pc = "await"
    /\ MayEnd
    /\ \/ /\ attempt <= ChangeRetries
          /\ pc' = "send"
          /\ reply' = "none"
          /\ UNCHANGED <<serverVars, wire, runs, token, password, attempt, savedVars>>
       \/ /\ attempt > ChangeRetries
          /\ Abandon

Verify ==
    /\ pc = "verify"
    /\ LoginAttempt(password, LoginRetries, "created")

\* Plausible bug: only the inputs are returned, which have no password.
OutsInputsOnly == None

\* Plausible bug: the password that was sent as the current one is returned.
OutsBootstrapToken == token

\* outs: { ...inputs, username, password }
OutsPassword == password

\* The engine writes what create() returned to the state of the stack.
Save ==
    /\ pc = "created"
    /\ saved' = OutsPassword
    /\ savedGen' = gen
    /\ pc' = "idle"
    /\ token' = None /\ password' = None /\ attempt' = 0
    /\ UNCHANGED <<serverVars, wire, reply, runs>>

\* The process of the run is killed at an await, or before the state is written.
Crash == pc # "idle" /\ Abandon

-----------------------------------------------------------------------------
Provider ==
    \/ FetchToken \/ LoginWithToken \/ SettleDelay
    \/ SendChange \/ ChangeAccepted \/ ChangeAttemptFails
    \/ Verify \/ Save

Next ==
    \/ SecretAppears
    \/ \E m \in wire : Handle(m)
    \/ Rebuild
    \/ StartCreate \/ RunUnchanged
    \/ Provider
    \/ Crash

Spec == Init /\ [][Next]_vars

\* A run that is not killed goes on: timers and timeouts fire.  Nothing is assumed
\* of the server, the network or the user.
FairSpec == Spec /\ WF_vars(Provider)

-----------------------------------------------------------------------------
Request == [run : Nat, try : Nat, current : {Boot, NoCurrent}, new : Passwords]

\* The variables of create(), of the server and of the stack keep their types.
TypeOK ==
    /\ gen \in Nat /\ serverPw \in Passwords \cup {Boot}
    /\ secret \in {"missing", "empty", "set"}
    /\ wire \subseteq Request
    /\ reply \in {"none", "ok", "refused"}
    /\ runs \in Nat /\ pc \in Stages
    /\ token \in {Boot, None}
    /\ password \in Passwords \cup {None}
    /\ attempt \in Nat
    /\ saved \in Passwords \cup {None} /\ savedGen \in Nat

\* The password in the stack's state opens the server it was recorded for, however
\* late a request of this run or of an earlier one is handled.
SavedPasswordWorks == saved # None /\ savedGen = gen => serverPw = saved

\* This run's own change was answered with success.
KnowsItsChange == (pc = "await" /\ reply = "ok") \/ pc \in {"verify", "created"}

\* The password was changed and no run knows to what.
LockedOut == serverPw # Boot /\ saved = None /\ ~KnowsItsChange

\* create() has no way back: once a change has been made that no run saw succeed,
\* every later run logs in with the bootstrap token in vain, and only a new server
\* ends it.
LockoutIsPermanent == [][LockedOut /\ gen' = gen => LockedOut']_vars

\* Every run that is not killed comes to an end: retries are bounded, and no reply
\* is waited for for ever.
EveryRunEnds == pc # "idle" ~> pc = "idle"

\* create(), its retries and its reruns implement the abstract rotation.
Rotation == INSTANCE PasswordRotation
ImplementsRotation == Rotation!Spec
=============================================================================
