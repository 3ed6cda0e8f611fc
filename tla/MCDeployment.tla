----------------------------- MODULE MCDeployment -----------------------------
(***************************************************************************)
(* Instances of Deployment for TLC.  Members of one table of the program   *)
(* differ in nothing but their name: one secret and one Git repository     *)
(* stand for all, two plugins differ in their repository.                  *)
(***************************************************************************)
EXTENDS Deployment

\* Everything but the AI extension, everything, and the AI extension alone.
Bare == [o \in {"vlan", "downloadImages", "certManager", "skipBootstrap", "lizEnabled"} |-> FALSE]
SomeOptions ==
    LET lab == [Bare EXCEPT !.vlan = TRUE, !.downloadImages = TRUE, !.certManager = TRUE]
    IN  {lab, [lab EXCEPT !.lizEnabled = TRUE], [Bare EXCEPT !.lizEnabled = TRUE]}
SkippedOnly == {[Bare EXCEPT !.skipBootstrap = TRUE]}

TwoPlugins ==
    [p \in {"harvester-ui-plugin", "virtual-clusters-ui-plugin"} |->
        IF p = "harvester-ui-plugin" THEN "rancher-ui-plugins" ELSE "virtual-clusters"]
=============================================================================
