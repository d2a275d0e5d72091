------------------------------- MODULE Session ------------------------------
(***************************************************************************)
(* The session: who is signed in, which screens are up, what the device    *)
(* remembers and what the directory holds, under every order of touches,   *)
(* answers, failures and restarts.  Composes the view controllers.         *)
(***************************************************************************)
EXTENDS SigninVC, UploadVC, MainVCs

vars == <<authVars, users, coreDataVars, screenVars, trap, calls, token,
          authVCVars, fieldVars, menu>>

TypeOK ==
    /\ FirebaseTypeOK
    /\ context \subseteq MaybeEmail
    /\ store \subseteq MaybeEmail
    /\ ScreensTypeOK
    /\ CallsTypeOK
    /\ AuthVCTypeOK
    /\ SigninVCTypeOK
    /\ menu \in Menus

-----------------------------------------------------------------------------
(* didFinishLaunchingWithOptions: the gate goes up when nobody is signed   *)
(* in.  Whatever was in memory is new; the keychain's user, the Facebook   *)
(* token and the store are what the last process left.                     *)
LaunchWith(user, a) == IF user = NoEmail THEN <<a>> ELSE <<>>

(* The app is installed on a device.  People may have used it elsewhere,   *)
(* so accounts and their records may exist.                                *)
Init ==
    /\ accounts \in [Emails -> Passwords \cup {NoPassword}]
    /\ \A e \in Emails : accounts[e] = FBPassword => e \in FacebookEmails
    /\ \A e \in Emails : accounts[e] = GooglePassword => e \in GoogleEmails
    /\ currentUser = NoEmail
    /\ users = [e \in Emails |-> IF accounts[e] = NoPassword THEN NoEmail ELSE e]
    /\ context = {}
    /\ store = {}
    /\ \E a \in AuthVCs : stack = LaunchWith(NoEmail, a)
    /\ appearing = TRUE
    /\ completions = {}
    /\ trap = NoTrap
    /\ calls = [k \in Lines |-> Idle]
    /\ token = NoEmail
    /\ selfEmail = [a \in AuthVCs |-> NoEmail]
    /\ emailLogged = [a \in AuthVCs |-> 0]
    /\ emailField = [s \in SigninVCs |-> NoEmail]
    /\ passwordField = [s \in SigninVCs |-> NoPassword]
    /\ menu = "closed"

(* The process dies, of a trap or because iOS or the user ends it, and is  *)
(* launched again.  applicationWillTerminate saves nothing.  Calls that    *)
(* the server has not seen are lost, and so is every completion.           *)
Relaunch ==
    /\ Restarts
    /\ context' = store
    /\ \E a \in AuthVCs : stack' = LaunchWith(currentUser, a)
    /\ appearing' = TRUE
    /\ completions' = {}
    /\ trap' = NoTrap
    /\ calls' = [k \in Lines |-> Idle]
    /\ selfEmail' = [a \in AuthVCs |-> NoEmail]
    /\ emailLogged' = [a \in AuthVCs |-> 0]
    /\ emailField' = [s \in SigninVCs |-> NoEmail]
    /\ passwordField' = [s \in SigninVCs |-> NoPassword]
    /\ menu' = "closed"
    /\ UNCHANGED <<authVars, users, store, token>>

-----------------------------------------------------------------------------
\* What each component's actions leave to the others.
authVCRest == <<fieldVars, menu>>
signinVCRest == <<menu>>
uploadVCRest == <<authVCVars, fieldVars, menu>>
mainRest == <<fieldVars>>

(* The user's touches. *)
AuthVCInput(a) ==
    \/ \E k \in Lines, f \in FacebookEmails \cup {NoEmail} :
         FacebookLogin(a, k, f) /\ UNCHANGED authVCRest
    \/ \E k \in Lines, g \in GoogleEmails \cup {NoEmail} :
         GoogleSignIn(a, k, g) /\ UNCHANGED authVCRest
    \/ FacebookLogout(a) /\ UNCHANGED authVCRest

SigninVCInput(s) ==
    \/ \E a \in AuthVCs : OpenSignin(a, s) /\ UNCHANGED signinVCRest
    \/ \E e \in Emails, p \in TypedPasswords :
         Edit(s, e, p) /\ UNCHANGED signinVCRest
    \/ \E k \in Lines : PressSignIn(s, k) /\ UNCHANGED signinVCRest
    \/ Close(s) /\ UNCHANGED signinVCRest

UploadVCInput(u) ==
    \E k \in Lines : PressDone(u, k) /\ UNCHANGED uploadVCRest

MainInput ==
    \/ \E k \in Lines : SelectFind(k) /\ UNCHANGED mainRest
    \/ OpenMenu /\ UNCHANGED mainRest
    \/ CloseMenu /\ UNCHANGED mainRest
    \/ \E a \in AuthVCs : SignOutWasPressed(a) /\ UNCHANGED mainRest
    \/ \E a \in AuthVCs : MenuFacebookLogout(a) /\ UNCHANGED mainRest

User ==
    \/ \E a \in AuthVCs : AuthVCInput(a)
    \/ \E s \in SigninVCs : SigninVCInput(s)
    \/ \E u \in UploadVCs : UploadVCInput(u)
    \/ MainInput

(* Line k makes progress: the server sees its call, or the app its answer. *)
Progress(k) ==
    \/ ServeRegistration(k) /\ UNCHANGED uploadVCRest
    \/ GraphDone(k) /\ UNCHANGED authVCRest
    \/ SocialLoginDone(k) /\ UNCHANGED authVCRest
    \/ SocialRegisterDone(k) /\ UNCHANGED authVCRest
    \/ SocialReloginDone(k) /\ UNCHANGED authVCRest
    \/ LoginDone(k) /\ UNCHANGED signinVCRest
    \/ RegisterDone(k) /\ UNCHANGED signinVCRest
    \/ ReloginDone(k) /\ UNCHANGED signinVCRest
    \/ UploadDone(k) /\ UNCHANGED uploadVCRest
    \/ FindLoginDone(k) /\ UNCHANGED mainRest

(* UIKit finishes what a transition deferred. *)
Transition ==
    \/ \E a \in AuthVCs : AuthVCDidAppear(a) /\ UNCHANGED authVCRest
    \/ \E s \in SigninVCs : SigninVCDidAppear(s) /\ UNCHANGED signinVCRest
    \/ \E u \in UploadVCs : UploadVCDidAppear(u) /\ UNCHANGED uploadVCRest
    \/ \E k \in Lines : MainDidAppear(k) /\ UNCHANGED mainRest
    \/ /\ \E v \in completions : RunCompletion(v)
       /\ UNCHANGED <<authVars, users, coreDataVars, calls, token>>
       /\ UNCHANGED uploadVCRest

Next ==
    \/ User
    \/ \E k \in Lines : Progress(k)
    \/ Transition
    \/ Relaunch

Spec == Init /\ [][Next]_vars

(* Firebase calls every completion in the end, with an answer or with an   *)
(* error, and UIKit ends every animation.  Nothing is assumed of the user. *)
FairSpec ==
    /\ Spec
    /\ WF_vars(Transition)
    /\ \A k \in Lines : WF_vars(Progress(k))

-----------------------------------------------------------------------------
(* The main screens are up only for somebody signed in: burgerMenuVC and   *)
(* FindVC take it for granted, and six calls of dismiss in three files can *)
(* take the last screen of the gate away.                                  *)
MainSignedIn == AtMain => SignedIn

(* The car form is up only for somebody signed in: doneBtnPressed force    *)
(* unwraps the e-mail.                                                     *)
UploadSignedIn == UploadShown => SignedIn

(* The force unwraps of burgerMenuVC.viewDidAppear (line 99) and of        *)
(* doneBtnPressed (line 49) never find nil.                                *)
UnwrapsHold ==
    trap \notin {"burgerMenuVC viewDidAppear", "uploadVC doneBtnPressed"}

(* Why the three above hold of every step: AuthVC is at the bottom of the  *)
(* gate, the car form is never covered, a completion block is pending only *)
(* while somebody is signed in, and whoever a registration will sign in is *)
(* somebody.                                                               *)
GateAtBottom == ~AtMain => stack[1] \in AuthVCs

UploadUncovered ==
    \A i \in DOMAIN stack : stack[i] \in UploadVCs => i = Len(stack)

CompletionsSignedIn == completions # {} => SignedIn

CreatedKnown ==
    \A k \in Lines : calls[k].answer = "created" => calls[k].email \in Emails

SessionInv ==
    /\ TypeOK
    /\ GateAtBottom
    /\ UploadUncovered
    /\ CompletionsSignedIn
    /\ CreatedKnown
    /\ MainSignedIn
    /\ UploadSignedIn
    /\ UnwrapsHold

(* No force unwrap finds nil when the user waits for every answer. *)
CrashFree == trap = NoTrap

(* At rest on the main screens Core Data remembers nobody but the user     *)
(* signed in, so that FindVC's login (FindVC.swift:120) cannot change who  *)
(* that is.                                                                *)
RemembersOnlyUser == (Quiet /\ AtMain) => context \subseteq {currentUser}

(* The gate keeps nobody who is signed in: at rest there are the main      *)
(* screens or the car form, never AuthVC or SigninVC with no reason to     *)
(* dismiss themselves any more.                                            *)
NotStranded == (Quiet /\ Settled /\ SignedIn) => (AtMain \/ UploadShown)

(* uploadCarInfo writes a user's e-mail only to that user's own record. *)
OwnRecords == \A uid \in Emails : users[uid] \in {uid, NoEmail}

(* At rest every account has its record: without one the car form of that  *)
(* user can never be left, and burgerMenuVC shows no name.                 *)
Recorded ==
    Quiet => \A e \in Emails : accounts[e] # NoPassword => users[e] # NoEmail

(* A social chain registers an address with its own provider's password;   *)
(* with the other's, the next login through the provider is refused.       *)
ProviderOwnsAccount ==
    \A e \in Emails :
        /\ accounts[e] = FBPassword => e \in FacebookEmails
        /\ accounts[e] = GooglePassword => e \in GoogleEmails

(* What Core Data shows after a launch was there before it: an e-mail that *)
(* a logout deleted does not come back ("Core Data Objects deleted",       *)
(* AuthVC.swift:215).                                                      *)
DeletedStaysDeleted == [][Relaunch => context' \subseteq context]_vars

(* The car form loads only for somebody signed in: viewDidLoad force       *)
(* unwraps the e-mail (line 31).                                           *)
UploadLoadsSignedIn == trap # "uploadVC viewDidLoad"

(* Whoever is signed in when the snapshot of uploadCarInfo arrives: it     *)
(* force unwraps the uid (Dataservice.swift:96).                           *)
UploadWritesSignedIn == trap # "uploadCarInfo"

(* An upload that was asked for takes the car form away in the end. *)
UploadLeaves ==
    \A u \in UploadVCs, k \in Lines :
        (calls[k].step = "upload" /\ calls[k].by = u) ~> ~Presented(u)

-----------------------------------------------------------------------------
(* The session seen as a gate in front of the main screens. *)
Place == IF AtMain THEN "main" ELSE "gate"

OpenGate == INSTANCE Gatekeeper
    WITH who <- currentUser, place <- Place, Switching <- TRUE

StrictGate == INSTANCE Gatekeeper
    WITH who <- currentUser, place <- Place, Switching <- FALSE

(* Whatever the user, the network and the process do, the gate opens only  *)
(* for somebody signed in and closes as it signs them out.                 *)
KeepsGate == OpenGate!Spec

(* For a user who waits, and without restarts, whoever came in through the *)
(* gate is the one on the main screens until they leave.                   *)
KeepsOneUser == StrictGate!Spec

=============================================================================
