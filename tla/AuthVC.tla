------------------------------- MODULE AuthVC -------------------------------
(***************************************************************************)
(* Controllers/AuthVC.swift: the gate's first screen.  The Facebook and    *)
(* the Google flow run the same chain of calls with different passwords:   *)
(*                                                                         *)
(*   [graph request]  ->  login  ->  register  ->  login again             *)
(*                                                                         *)
(* Each closure reads self.email again when it runs.  A registration is    *)
(* always attempted, after a successful login too.                         *)
(***************************************************************************)
EXTENDS Calls

VARIABLES
    selfEmail,          \* each instance's "email" field
    emailLogged         \* each instance's "emailLogged" field

authVCVars == <<selfEmail, emailLogged>>

AuthVCTypeOK ==
    /\ selfEmail \in [AuthVCs -> MaybeEmail]
    /\ emailLogged \in [AuthVCs -> {0, 1}]

(* A new instance's fields. *)
Loaded(a) ==
    /\ selfEmail' = [selfEmail EXCEPT ![a] = NoEmail]
    /\ emailLogged' = [emailLogged EXCEPT ![a] = 0]

-----------------------------------------------------------------------------
\* Mutant: viewDidAppear looks at the flag alone.
LeavesUnchecked(a) == emailLogged[a] = 1

(* viewDidAppear: leave when the e-mail flow has signed somebody in. *)
Leaves(a) == SignedIn /\ emailLogged[a] = 1

AuthVCDidAppear(a) ==
    /\ trap = NoTrap
    /\ appearing
    /\ OnTop(a)
    /\ IF Leaves(a)
       THEN Dismiss(a)
       ELSE appearing' = FALSE /\ UNCHANGED <<stack, completions>>
    /\ UNCHANGED <<authVars, users, coreDataVars, trap, calls, token,
                   authVCVars>>

(* signInWithEmail *)
SignInWithEmail(a, s) ==
    /\ UserMayAct
    /\ OnTop(a)
    /\ Unused(s)
    /\ emailLogged' = [emailLogged EXCEPT ![a] = 1]
    /\ Push(s)
    /\ UNCHANGED <<authVars, users, coreDataVars, trap, calls, token,
                   selfEmail>>

(* loginButton(didCompleteWith:) after Facebook's own dialog, which leaves *)
(* a token or, when the user cancels, none.  The result and the error are  *)
(* ignored: the graph request is made in both cases.                       *)
FacebookLogin(a, k, f) ==
    /\ UserMayAct
    /\ OnTop(a)
    /\ token = NoEmail
    /\ Free(k)
    /\ token' = f
    /\ emailLogged' = [emailLogged EXCEPT ![a] = 0]
    /\ Start(k, "graph", a, f, FBPassword)
    /\ UNCHANGED <<authVars, users, coreDataVars, screenVars, trap, selfEmail>>

(* The graph request's completion: keep the profile's e-mail and log in    *)
(* with it; stop on an error.                                              *)
GraphDone(k) ==
    /\ trap = NoTrap
    /\ calls[k].step = "graph"
    /\ LET a == calls[k].by
           e == calls[k].email IN
       \/ /\ e # NoEmail
          /\ selfEmail' = [selfEmail EXCEPT ![a] = e]
          /\ Start(k, "socialLogin", a, e, FBPassword)
       \/ /\ e = NoEmail \/ Offline
          /\ Finish(k)
          /\ UNCHANGED selfEmail
    /\ UNCHANGED <<authVars, users, coreDataVars, screenVars, trap, token,
                   emailLogged>>

(* sign(didSignInFor:withError:) after Google's own dialog, with a profile *)
(* or with an error.                                                       *)
GoogleSignIn(a, k, g) ==
    /\ UserMayAct
    /\ OnTop(a)
    /\ Free(k)
    /\ emailLogged' = [emailLogged EXCEPT ![a] = 0]
    /\ \/ /\ g = NoEmail
          /\ UNCHANGED <<selfEmail, calls>>
       \/ /\ g # NoEmail
          /\ selfEmail' = [selfEmail EXCEPT ![a] = g]
          /\ Start(k, "socialLogin", a, g, GooglePassword)
    /\ UNCHANGED <<authVars, users, coreDataVars, screenVars, trap, token>>

(* The first login's completion.  Success saves the e-mail beside whatever *)
(* is remembered and dismisses the screen; then, in both cases, register.  *)
SocialLoginDone(k) ==
    /\ trap = NoTrap
    /\ calls[k].step = "socialLogin"
    /\ LET c == calls[k] IN
       /\ \/ /\ SignInSucceeds(c.email, c.password)
             /\ SaveInto(context, selfEmail[c.by])
             /\ Dismiss(c.by)
          \/ /\ SignInFails(c.email, c.password)
             /\ UNCHANGED <<coreDataVars, screenVars>>
       /\ Start(k, "socialRegister", c.by, selfEmail[c.by], c.password)
    /\ UNCHANGED <<users, trap, token, authVCVars>>

(* The registration's completion. *)
SocialRegisterDone(k) ==
    /\ trap = NoTrap
    /\ calls[k].step = "socialRegister"
    /\ LET c == calls[k] IN
       \/ /\ c.answer = "created"
          /\ RegistrationSucceeds(c.email)
          /\ Start(k, "socialRelogin", c.by, selfEmail[c.by], c.password)
       \/ /\ c.answer = "refused"
          /\ Finish(k)
          /\ UNCHANGED <<authVars, users>>
    /\ UNCHANGED <<coreDataVars, screenVars, trap, token, authVCVars>>

(* The second login's completion: its result is not looked at. *)
SocialReloginDone(k) ==
    /\ trap = NoTrap
    /\ calls[k].step = "socialRelogin"
    /\ LET c == calls[k] IN
       /\ SignInSucceeds(c.email, c.password) \/ SignInFails(c.email, c.password)
       /\ SaveInto(Deleted, selfEmail[c.by])
       /\ PresentUpload(c.by)
    /\ Finish(k)
    /\ UNCHANGED <<users, token, authVCVars>>

(* loginButtonDidLogOut: the button offers it while there is a token. *)
FacebookLogout(a) ==
    /\ UserMayAct
    /\ OnTop(a)
    /\ token # NoEmail
    /\ token' = NoEmail
    /\ SignOut
    /\ DeleteAll
    /\ UNCHANGED <<users, screenVars, trap, calls, authVCVars>>

=============================================================================
