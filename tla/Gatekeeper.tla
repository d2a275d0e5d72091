----------------------------- MODULE Gatekeeper -----------------------------
(***************************************************************************)
(* What the session promises the main screens, without screens, calls or   *)
(* stores: somebody is at the gate or on the main screens, and the main    *)
(* screens are for people who signed in.                                   *)
(***************************************************************************)
CONSTANTS
    Emails,             \* who may sign in
    NoEmail,            \* nobody is signed in
    Switching           \* may somebody else be signed in on the main screens?

VARIABLES
    who,                \* who is signed in
    place               \* "gate" or "main"

Init ==
    /\ who = NoEmail
    /\ place = "gate"

(* Sign in at the gate, and perhaps go in at once. *)
SignIn(e) ==
    /\ place = "gate"
    /\ who' = e
    /\ place' \in {"gate", "main"}

(* Go in, being signed in. *)
Enter ==
    /\ place = "gate"
    /\ who # NoEmail
    /\ place' = "main"
    /\ UNCHANGED who

(* Sign out: always at the gate afterwards. *)
SignOut ==
    /\ who' = NoEmail
    /\ place' = "gate"

(* A late login finds the user on the main screens. *)
Switch(e) ==
    /\ Switching
    /\ place = "main"
    /\ who' = e
    /\ UNCHANGED place

Next ==
    \/ \E e \in Emails : SignIn(e) \/ Switch(e)
    \/ Enter
    \/ SignOut

Spec == Init /\ [][Next]_<<who, place>>

=============================================================================
