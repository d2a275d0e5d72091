------------------------------- MODULE InOrder ------------------------------
(***************************************************************************)
(* What SWRevealViewController promises its callers: the operations they   *)
(* ask for are performed in order, one after the other, and each is done   *)
(* before the next begins.                                                 *)
(***************************************************************************)
EXTENDS Naturals, Sequences

VARIABLES
    pending,            \* the operations asked for and not done, oldest first
    performing          \* is the oldest one in progress?

Init ==
    /\ pending = <<>>
    /\ performing = FALSE

(* Ask for operations; asking disturbs nothing. *)
Ask ==
    /\ Len(pending') > Len(pending)
    /\ SubSeq(pending', 1, Len(pending)) = pending
    /\ UNCHANGED performing

(* A gesture needs no asking, and is alone when it begins. *)
Gesture ==
    /\ pending = <<>>
    /\ Len(pending') = 1
    /\ performing' = TRUE

Begin ==
    /\ pending # <<>>
    /\ ~performing
    /\ performing' = TRUE
    /\ UNCHANGED pending

(* The oldest is done; one that takes no time is never seen in progress. A *)
(* gesture's own move may follow at once.                                  *)
End ==
    /\ pending # <<>>
    /\ pending' = Tail(pending)
    /\ performing' = FALSE

Next == Ask \/ Gesture \/ Begin \/ End

Spec == Init /\ [][Next]_<<pending, performing>>
=============================================================================
