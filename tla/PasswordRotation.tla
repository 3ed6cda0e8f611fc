--------------------------- MODULE PasswordRotation ---------------------------
(***************************************************************************)
(* What the program promises of the Rancher admin password: a server's     *)
(* password is rotated away from its bootstrap password once, and the      *)
(* stack records a password only as the one its server then has.           *)
(***************************************************************************)
EXTENDS Naturals

CONSTANTS
    Passwords,  \* passwords an admin may be given
    Boot,       \* the bootstrap password of a new server
    None        \* nothing recorded

VARIABLES
    gen,        \* which server this is: one more for each rebuilt VM
    serverPw,   \* the admin password of that server
    saved,      \* the password the stack recorded
    savedGen    \* the server it was recorded for

vars == <<gen, serverPw, saved, savedGen>>

Init ==
    /\ gen = 0 /\ serverPw = Boot
    /\ saved = None /\ savedGen = 0

Rotate ==
    /\ serverPw = Boot
    /\ serverPw' \in Passwords
    /\ UNCHANGED <<gen, saved, savedGen>>

Record ==
    /\ saved = None
    /\ serverPw \in Passwords
    /\ saved' = serverPw
    /\ savedGen' = gen
    /\ UNCHANGED <<gen, serverPw>>

Rebuild ==
    /\ gen' = gen + 1
    /\ serverPw' = Boot
    /\ UNCHANGED <<saved, savedGen>>

Next == Rotate \/ Record \/ Rebuild

Spec == Init /\ [][Next]_vars
=============================================================================
