------------------------------ MODULE SigninVC ------------------------------
(***************************************************************************)
(* Controllers/SigninVC.swift: e-mail and password, over AuthVC.  The same *)
(* chain as AuthVC's, but every closure reads the text fields again, and   *)
(* the registration branch remembers nobody in Core Data.                  *)
(***************************************************************************)
EXTENDS AuthVC

VARIABLES
    emailField,         \* each instance's emailField.text
    passwordField       \* each instance's passwordField.text

fieldVars == <<emailField, passwordField>>

SigninVCTypeOK ==
    /\ emailField \in [SigninVCs -> MaybeEmail]
    /\ passwordField \in [SigninVCs -> TypedPasswords \cup {NoPassword}]

-----------------------------------------------------------------------------
(* signInWithEmail presents a new instance, with empty fields. *)
OpenSignin(a, s) ==
    /\ SignInWithEmail(a, s)
    /\ emailField' = [emailField EXCEPT ![s] = NoEmail]
    /\ passwordField' = [passwordField EXCEPT ![s] = NoPassword]

(* viewDidAppear: leave at once when somebody is signed in.  The presented *)
(* controller that its completion dismisses is nil: this one is visible.   *)
SigninVCDidAppear(s) ==
    /\ trap = NoTrap
    /\ appearing
    /\ OnTop(s)
    /\ IF SignedIn
       THEN Dismiss(s)
       ELSE appearing' = FALSE /\ UNCHANGED <<stack, completions>>
    /\ UNCHANGED <<authVars, users, coreDataVars, trap, calls, token,
                   authVCVars, fieldVars>>

(* The user edits the fields. *)
Edit(s, e, p) ==
    /\ UserMayAct
    /\ OnTop(s)
    /\ emailField' = [emailField EXCEPT ![s] = e]
    /\ passwordField' = [passwordField EXCEPT ![s] = p]
    /\ UNCHANGED <<authVars, users, coreDataVars, screenVars, trap, calls,
                   token, authVCVars>>

(* signInButtonWasPressed *)
PressSignIn(s, k) ==
    /\ UserMayAct
    /\ OnTop(s)
    /\ Free(k)
    /\ Start(k, "login", s, emailField[s], passwordField[s])
    /\ UNCHANGED <<authVars, users, coreDataVars, screenVars, trap, token,
                   authVCVars, fieldVars>>

(* The login's completion: success forgets everybody, remembers the e-mail *)
(* now in the field and dismisses this screen and then AuthVC; then, in    *)
(* both cases, register what is in the fields now.                         *)
LoginDone(k) ==
    /\ trap = NoTrap
    /\ calls[k].step = "login"
    /\ LET c == calls[k] IN
       /\ \/ /\ SignInSucceeds(c.email, c.password)
             /\ SaveInto(Deleted, emailField[c.by])
             /\ DismissThenPresenter(c.by)
          \/ /\ SignInFails(c.email, c.password)
             /\ UNCHANGED <<coreDataVars, screenVars>>
       /\ Start(k, "register", c.by, emailField[c.by], passwordField[c.by])
    /\ UNCHANGED <<users, trap, token, authVCVars, fieldVars>>

(* The registration's completion. *)
RegisterDone(k) ==
    /\ trap = NoTrap
    /\ calls[k].step = "register"
    /\ LET c == calls[k] IN
       \/ /\ c.answer = "created"
          /\ RegistrationSucceeds(c.email)
          /\ Start(k, "relogin", c.by, emailField[c.by], passwordField[c.by])
       \/ /\ c.answer = "refused"
          /\ Finish(k)
          /\ UNCHANGED <<authVars, users>>
    /\ UNCHANGED <<coreDataVars, screenVars, trap, token, authVCVars, fieldVars>>

(* The second login's completion: its result is not looked at. *)
ReloginDone(k) ==
    /\ trap = NoTrap
    /\ calls[k].step = "relogin"
    /\ LET c == calls[k] IN
       /\ SignInSucceeds(c.email, c.password) \/ SignInFails(c.email, c.password)
       /\ PresentUpload(c.by)
    /\ Finish(k)
    /\ UNCHANGED <<users, coreDataVars, token, authVCVars, fieldVars>>

\* Mutant: closing leaves AuthVC too.
CloseBoth(s) ==
    /\ UserMayAct
    /\ OnTop(s)
    /\ DismissThenPresenter(s)
    /\ UNCHANGED <<authVars, users, coreDataVars, trap, calls, token,
                   authVCVars, fieldVars>>

(* The close button's unwind segue.  AuthVC's unwindfFromSigninVC runs     *)
(* first, and its dismiss, made while AuthVC still presents this screen,   *)
(* dismisses this screen: signed in or not, AuthVC is what appears next.   *)
Close(s) ==
    /\ UserMayAct
    /\ OnTop(s)
    /\ Dismiss(s)
    /\ UNCHANGED <<authVars, users, coreDataVars, trap, calls, token,
                   authVCVars, fieldVars>>

=============================================================================
