-------------------------------- MODULE Calls -------------------------------
(***************************************************************************)
(* The asynchronous calls in flight.  Every network call of the app takes  *)
(* a closure; a call record names the closure by its "step", the view      *)
(* controller it captured, and the arguments evaluated when the call was   *)
(* made.  Closures that make the next call of a chain reuse the line.      *)
(***************************************************************************)
EXTENDS Firebase, CoreData, Screens

CONSTANTS
    Lines,              \* how many chains may be in flight: a bound
    MainVC,             \* FindVC, burgerMenuVC: the screens under the stack
    Overlap,            \* does the user act while calls are in flight?
    Restarts            \* may the process die and be launched again?

ASSUME CallsAssumption ==
    /\ MainVC \notin VCs
    /\ Overlap \in BOOLEAN
    /\ Restarts \in BOOLEAN

VARIABLES
    calls,              \* the call in flight on each line
    token               \* AccessToken.current: whose Facebook token it is

SocialSteps == {"graph", "socialLogin", "socialRegister", "socialRelogin"}
EmailSteps == {"login", "register", "relogin"}
Registrations == {"socialRegister", "register"}

\* What the server did with a createUser, before the app hears of it.
Answers == {"none", "created", "refused"}

CallBy(steps, vcs) ==
    [step : steps, by : vcs, email : MaybeEmail,
     password : Passwords \cup {NoPassword}, answer : Answers]

\* Each closure captures a controller of its own kind.
Call ==
    CallBy(SocialSteps, AuthVCs) \cup CallBy(EmailSteps, SigninVCs)
        \cup CallBy({"upload"}, UploadVCs) \cup CallBy({"findLogin"}, {MainVC})

Idle == [step |-> "idle", by |-> MainVC, email |-> NoEmail,
         password |-> NoPassword, answer |-> "none"]

CallsTypeOK ==
    /\ calls \in [Lines -> Call \cup {Idle}]
    /\ token \in MaybeEmail

-----------------------------------------------------------------------------
\* Mutant: the two strings are passed in the wrong order.
NewCallSwapped(step, v, e, p) ==
    [step |-> step, by |-> v, email |-> p, password |-> e, answer |-> "none"]

NewCall(step, v, e, p) ==
    [step |-> step, by |-> v, email |-> e, password |-> p, answer |-> "none"]

(* Make a call on line k: the first of a chain or the next one. *)
Start(k, step, v, e, p) ==
    calls' = [calls EXCEPT ![k] = NewCall(step, v, e, p)]

Finish(k) == calls' = [calls EXCEPT ![k] = Idle]

Free(k) == calls[k] = Idle
Quiet == \A k \in Lines : Free(k)

(* When the user's touches reach the app.  A serial user waits until       *)
(* everything asked for has been answered.                                 *)
UserMayAct == Settled /\ (Overlap \/ Quiet)

(* A controller that storyboard.instantiateViewController may return: one  *)
(* that nothing refers to any more.                                        *)
Unused(v) ==
    /\ ~Presented(v)
    /\ v \notin completions
    /\ \A k \in Lines : calls[k].by # v

(* The server's part of createUser.  When calls may fail, the account may  *)
(* be created and the answer lost, or the call may not get through.        *)
ServeRegistration(k) ==
    /\ trap = NoTrap
    /\ calls[k].step \in Registrations
    /\ calls[k].answer = "none"
    /\ LET e == calls[k].email IN
       \/ /\ CanCreate(e)
          /\ accounts' = [accounts EXCEPT ![e] = calls[k].password]
          /\ \E a \in {"created"} \cup (IF Offline THEN {"refused"} ELSE {}) :
               calls' = [calls EXCEPT ![k].answer = a]
       \/ /\ ~CanCreate(e) \/ Offline
          /\ calls' = [calls EXCEPT ![k].answer = "refused"]
          /\ UNCHANGED accounts
    /\ UNCHANGED <<currentUser, users, coreDataVars, screenVars, trap, token>>

\* Mutant: viewDidLoad reads the e-mail through "?".
PresentUploadUnchecked(p) ==
    /\ IF OnTop(p) THEN \E u \in UploadVCs : Unused(u) /\ Push(u)
                   ELSE UNCHANGED screenVars
    /\ UNCHANGED trap

(* Present an upload screen over p, which is what the last step of each    *)
(* registration chain does whatever its login answered: UIKit refuses when *)
(* p is not visible, and otherwise loads the view, whose viewDidLoad force *)
(* unwraps the e-mail of the user signed in by then.                       *)
PresentUpload(p) ==
    \/ /\ ~OnTop(p)
       /\ UNCHANGED <<screenVars, trap>>
    \/ /\ OnTop(p)
       /\ currentUser' = NoEmail
       /\ trap' = "uploadVC viewDidLoad"
       /\ UNCHANGED screenVars
    \/ /\ OnTop(p)
       /\ currentUser' # NoEmail
       /\ \E u \in UploadVCs : Unused(u) /\ Push(u)
       /\ UNCHANGED trap

=============================================================================
