------------------------------ MODULE MCLifecycle ------------------------------
(***************************************************************************)
(* An instance of Lifecycle for TLC.  Nothing tells one name, password,    *)
(* version or address from another, so a life that begins with the second  *)
(* is one that begins with the first, renamed.  The lists of GitRepos are  *)
(* not alike and each is tried.                                            *)
(***************************************************************************)
EXTENDS Lifecycle

InstalledInit ==
    /\ Init
    /\ config.name = "lab" /\ config.password = "p1" /\ config.version = "v1"
    /\ vm.ip = 1

\* FairSpec, of the lives that begin with the first of each.
InstalledSpec == InstalledInit /\ [][Next]_vars /\ WF_vars(Up)
=============================================================================
