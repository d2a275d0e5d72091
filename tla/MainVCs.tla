------------------------------- MODULE MainVCs ------------------------------
(***************************************************************************)
(* The screens under the gate that depend on the session: FindVC, which    *)
(* logs in again from Core Data each time it appears, and burgerMenuVC,    *)
(* which offers one of two ways out.                                       *)
(***************************************************************************)
EXTENDS AuthVC

VARIABLE menu       \* "closed", or the button the open menu shows

Menus == {"closed", "facebook", "signOut"}

(* FindVC.viewDidAppear. *)
FindVCDidAppear(k) ==
    \/ /\ token # NoEmail
       /\ Free(k)
       /\ \E e \in Fetched(NoEmail) :
            Start(k, "findLogin", MainVC, e, FBPassword)
    \/ /\ token = NoEmail
       /\ UNCHANGED calls

(* The login's completion only prints. *)
FindLoginDone(k) ==
    /\ trap = NoTrap
    /\ calls[k].step = "findLogin"
    /\ \/ SignInSucceeds(calls[k].email, calls[k].password)
       \/ SignInFails(calls[k].email, calls[k].password)
    /\ Finish(k)
    /\ UNCHANGED <<users, coreDataVars, screenVars, trap, token, authVCVars,
                   menu>>

(* burgerMenuVC.viewDidAppear: without a Facebook token it force unwraps   *)
(* the signed-in user's e-mail.                                            *)
MenuDidAppear ==
    \/ /\ token # NoEmail
       /\ menu' = "facebook"
       /\ UNCHANGED trap
    \/ /\ token = NoEmail
       /\ menu' = "signOut"
       /\ trap' = IF SignedIn THEN trap ELSE "burgerMenuVC viewDidAppear"

-----------------------------------------------------------------------------
(* The main screens appear: after a launch, or when the gate is gone.      *)
(* FindVC does if its tab is the selected one, the menu if it is open.     *)
MainDidAppear(k) ==
    /\ trap = NoTrap
    /\ appearing
    /\ AtMain
    /\ appearing' = FALSE
    /\ FindVCDidAppear(k) \/ UNCHANGED calls
    /\ IF menu = "closed" THEN UNCHANGED <<menu, trap>> ELSE MenuDidAppear
    /\ UNCHANGED <<authVars, users, coreDataVars, stack, completions, token,
                   authVCVars>>

(* The user comes back to FindVC's tab. *)
SelectFind(k) ==
    /\ UserMayAct
    /\ AtMain
    /\ FindVCDidAppear(k)
    /\ UNCHANGED <<authVars, users, coreDataVars, screenVars, trap, token,
                   authVCVars, menu>>

OpenMenu ==
    /\ UserMayAct
    /\ AtMain
    /\ menu = "closed"
    /\ MenuDidAppear
    /\ UNCHANGED <<authVars, users, coreDataVars, screenVars, calls, token,
                   authVCVars>>

CloseMenu ==
    /\ UserMayAct
    /\ AtMain
    /\ menu' = "closed"
    /\ UNCHANGED <<authVars, users, coreDataVars, screenVars, trap, calls,
                   token, authVCVars>>

\* Mutant: nobody puts the gate up.
LeaveWithoutGate(a) ==
    /\ UserMayAct
    /\ AtMain
    /\ SignOut
    /\ DeleteAll
    /\ UNCHANGED <<users, trap, calls, menu, screenVars, authVCVars>>

(* Leaving: sign out, forget everybody, and put a new gate up. *)
Leave(a) ==
    /\ UserMayAct
    /\ AtMain
    /\ SignOut
    /\ DeleteAll
    /\ Unused(a)
    /\ Loaded(a)
    /\ Push(a)
    /\ UNCHANGED <<users, trap, calls, menu>>

(* signOutWasPressed *)
SignOutWasPressed(a) ==
    /\ menu = "signOut"
    /\ Leave(a)
    /\ UNCHANGED token

(* loginButtonDidLogOut: the Facebook button dropped the token first. *)
MenuFacebookLogout(a) ==
    /\ menu = "facebook"
    /\ token # NoEmail
    /\ token' = NoEmail
    /\ Leave(a)

=============================================================================
