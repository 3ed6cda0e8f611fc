------------------------------ MODULE HarborProxy ------------------------------
(***************************************************************************)
(* The Job that gives Harbor its proxy caches: a bash script under         *)
(* `set -euo pipefail` that creates, for every registry of the values, the *)
(* registry and a project linked to it.  A curl without --fail exits 0     *)
(* whatever the status of the answer; a connection that fails, or an       *)
(* answer jq cannot read, ends the script, and restartPolicy OnFailure     *)
(* starts it again from the top.                                           *)
(*                                                                         *)
(* External: Harbor, which keeps names unique and hands out IDs in order   *)
(* of creation, and the Job controller with its backoffLimit.              *)
(***************************************************************************)
EXTENDS Naturals

CONSTANTS
    N,              \* length of .Values.registries, whose names are distinct
    BackoffLimit    \* restarts the Job controller allows

ASSUME HarborProxyAssumption == N \in Nat \ {0} /\ BackoffLimit \in Nat

VARIABLES
    pc,         \* the command the script is at, or how the Job ended
    at,         \* which registry the range is at
    regId,      \* REG_ID, 0 when it is empty
    lastId,     \* the last ID Harbor gave to a registry
    registries, \* Harbor's registries: the ID of each, 0 when there is none
    projects,   \* Harbor's projects: the registry each is linked to, 0 when there is none
    restarts,   \* restarts of the container
    done,       \* the registries the log calls Done
    erred       \* Harbor has answered a request to create with an error status

script == <<pc, at, regId>>
harbor == <<lastId, registries, projects>>
vars == <<script, harbor, restarts, done, erred>>

Registries == 1..N
Ended == {"complete", "failed"}

Init ==
    /\ pc = "install" /\ at = 1 /\ regId = 0
    /\ lastId = 0
    /\ registries = [r \in Registries |-> 0]
    /\ projects = [r \in Registries |-> 0]
    /\ restarts = 0
    /\ done = {}
    /\ erred = FALSE

-----------------------------------------------------------------------------
\* Plausible bug: without -e, the script goes on after a command that failed.
GoOn(next) == pc' = next /\ UNCHANGED <<at, regId, restarts>>

\* A command fails: -e ends the script, whatever was next, and the container is
\* restarted or given up.
Exit(next) ==
    \/ /\ restarts < BackoffLimit
       /\ restarts' = restarts + 1
       /\ pc' = "install" /\ at' = 1 /\ regId' = 0
    \/ /\ restarts >= BackoffLimit
       /\ pc' = "failed"
       /\ UNCHANGED <<at, regId, restarts>>

\* zypper install -y jq
Install ==
    /\ pc = "install"
    /\ \/ pc' = "registry" /\ UNCHANGED <<at, regId, restarts>>
       \/ Exit("registry")
    /\ UNCHANGED <<harbor, done, erred>>

\* What Harbor does with POST /registries: create it, or answer 409 if it exists.
CreateRegistry ==
    IF registries[at] = 0
    THEN /\ lastId' = lastId + 1
         /\ registries' = [registries EXCEPT ![at] = lastId + 1]
         /\ UNCHANGED projects
    ELSE UNCHANGED harbor

\* 1) the registry: curl exits 0 on any answer, an error's included; when the
\* connection fails, Harbor may or may not have got the request.
PostRegistry ==
    /\ pc = "registry"
    /\ UNCHANGED done
    /\ \/ /\ CreateRegistry
          /\ pc' = "lookup"
          /\ UNCHANGED <<at, regId, restarts, erred>>
       \/ /\ erred' = TRUE
          /\ pc' = "lookup"
          /\ UNCHANGED <<harbor, at, regId, restarts>>
       \/ /\ CreateRegistry \/ UNCHANGED harbor
          /\ Exit("lookup")
          /\ UNCHANGED erred

\* Plausible bug: `.[0].id` instead of select(.name == ...).
FirstId == IF lastId = 0 THEN 0 ELSE 1

\* jq prints nothing, and succeeds, when no registry has the name.
SelectedId == registries[at]

\* 2) the lookup: jq fails on an answer that is not a list of registries.
Lookup ==
    /\ pc = "lookup"
    /\ \/ regId' = SelectedId /\ pc' = "project" /\ UNCHANGED <<at, restarts>>
       \/ Exit("project")
    /\ UNCHANGED <<harbor, done, erred>>

\* What Harbor does with POST /projects: create it, answer 409 if it exists, and
\* 400 to the body `"registry_id": ,` of an empty REG_ID.
CreateProject ==
    /\ projects' = IF projects[at] = 0 /\ regId # 0
                   THEN [projects EXCEPT ![at] = regId]
                   ELSE projects
    /\ UNCHANGED <<lastId, registries>>

\* Plausible bug: the end of the range is not seen.
NextRegistryPastEnd ==
    /\ done' = done \cup {at}
    /\ at' = at + 1 /\ pc' = "registry"
    /\ UNCHANGED <<regId, restarts>>

\* Plausible bug: a `while` whose body does not advance.
NextRegistrySame ==
    /\ done' = done \cup {at}
    /\ pc' = "registry"
    /\ UNCHANGED <<at, regId, restarts>>

\* The echo of Done, and the next turn of the range.
NextRegistry ==
    /\ done' = done \cup {at}
    /\ \/ at < N /\ at' = at + 1 /\ pc' = "registry"
       \/ at = N /\ at' = at /\ pc' = "complete"
    /\ UNCHANGED <<regId, restarts>>

\* 3) the project: again only a failed connection is noticed.
PostProject ==
    /\ pc = "project"
    /\ \/ CreateProject /\ NextRegistry /\ UNCHANGED erred
       \/ erred' = TRUE /\ NextRegistry /\ UNCHANGED harbor
       \/ /\ CreateProject \/ UNCHANGED harbor
          /\ Exit("registry")
          /\ UNCHANGED <<done, erred>>

Next == Install \/ PostRegistry \/ Lookup \/ PostProject

Spec == Init /\ [][Next]_vars

\* Commands end, and the controller restarts the container it has to.
FairSpec == Spec /\ WF_vars(Next)

-----------------------------------------------------------------------------
\* The script's variables and Harbor's keep their types.
TypeOK ==
    /\ pc \in {"install", "registry", "lookup", "project"} \cup Ended
    /\ at \in Registries
    /\ regId \in Nat /\ lastId \in Nat
    /\ registries \in [Registries -> Nat] /\ projects \in [Registries -> Nat]
    /\ restarts \in 0..BackoffLimit
    /\ done \subseteq Registries
    /\ erred \in BOOLEAN

\* A project caches the registry of its own name: REG_ID, which the shell keeps from
\* one registry to the next and across the answers it ignores, is never another's.
LinkedToItsRegistry ==
    \A r \in Registries : projects[r] # 0 => projects[r] = registries[r]

\* A Job that completes has created every proxy, however often it was interrupted
\* and started again, unless Harbor answered a request with an error.
CompleteUnlessErred ==
    pc = "complete" /\ ~erred => \A r \in Registries : projects[r] # 0

\* The Job completes or is given up.
JobEnds == <>(pc \in Ended)

\* job-setup.yaml:67 logs Done for a registry whose proxy was created.
DoneIsTrue == \A r \in done : projects[r] # 0
=============================================================================
