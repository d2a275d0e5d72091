---------------------------- MODULE SessionProofs ---------------------------
(***************************************************************************)
(* Session's inductive invariant, proved for any number of people, of      *)
(* controller instances and of calls in flight, with overlapping touches,  *)
(* failures and restarts.                                                  *)
(***************************************************************************)
EXTENDS Session, TLAPS

(* What presenting and dismissing can do to the stack. *)
Popped == \E n \in 0..Len(stack) : stack' = SubSeq(stack, 1, n)

ScreensInv ==
    /\ stack \in Seq(VCs)
    /\ GateAtBottom
    /\ UploadUncovered

(* A dismissal leaves a lower part of the stack; when it leaves nothing,   *)
(* the controller dismissed was the one at the bottom.                     *)
LEMMA DismissPops ==
    ASSUME NEW v, stack \in Seq(VCs),
           Dismiss(v) \/ DismissThenPresenter(v) \/ RunCompletion(v)
    PROVE  Popped /\ (AtMain' => AtMain \/ v = stack[1])
<1>1. CASE UNCHANGED stack
  <2>1. stack = SubSeq(stack, 1, Len(stack))
    OBVIOUS
  <2>2. Len(stack) \in 0..Len(stack)
    OBVIOUS
  <2>3. stack' = SubSeq(stack, 1, Len(stack))
    BY <1>1, <2>1
  <2>4. Popped
    BY <2>2, <2>3 DEF Popped
  <2> QED
    BY <1>1, <2>4 DEF AtMain
<1>2. CASE \E i \in DOMAIN stack :
             stack[i] = v /\ stack' = SubSeq(stack, 1, Left(i))
  <2>1. PICK i \in DOMAIN stack :
           stack[i] = v /\ stack' = SubSeq(stack, 1, Left(i))
    BY <1>2
  <2>2. Left(i) \in 0..Len(stack) /\ (Left(i) = 0 => i = 1)
    BY <2>1 DEF Left
  <2>3. Len(stack') = Left(i)
    BY <2>1, <2>2
  <2> QED
    BY <2>1, <2>2, <2>3 DEF Popped, AtMain
<1> QED
  BY <1>1, <1>2 DEF Dismiss, DismissThenPresenter, RunCompletion, screenVars

(* Lower parts of a well-formed stack are well formed, and none shows a    *)
(* car form that was not shown.                                            *)
LEMMA PopKeeps ==
    ASSUME ScreensInv, Popped
    PROVE  ScreensInv' /\ (UploadShown' => UploadShown)
<1>1. PICK n \in 0..Len(stack) : stack' = SubSeq(stack, 1, n)
  BY DEF Popped
<1>2. /\ stack' \in Seq(VCs)
      /\ Len(stack') = n
      /\ \A i \in 1..n : stack'[i] = stack[i]
  BY <1>1 DEF ScreensInv
<1>3. DOMAIN stack' = 1..n /\ 1..n \subseteq DOMAIN stack
  BY <1>2 DEF ScreensInv
<1>4. GateAtBottom'
  <2>1. ASSUME n # 0 PROVE stack'[1] \in AuthVCs
    BY <1>2, <2>1 DEF ScreensInv, GateAtBottom, AtMain
  <2> QED
    BY <1>2, <2>1 DEF GateAtBottom, AtMain
<1>5. UploadUncovered'
  BY <1>2, <1>3 DEF ScreensInv, UploadUncovered
<1>6. UploadShown' => UploadShown
  BY <1>2, <1>3 DEF UploadShown, Presented
<1> QED
  BY <1>2, <1>4, <1>5, <1>6 DEF ScreensInv

(* Presenting v over a visible controller that is no car form, or over the *)
(* main screens when v is an AuthVC.                                       *)
LEMMA PushKeeps ==
    ASSUME ScreensInv, NEW v \in VCs, Push(v),
           (AtMain /\ v \in AuthVCs)
             \/ \E p \in AuthVCs \cup SigninVCs : OnTop(p)
    PROVE  /\ ScreensInv' /\ ~AtMain'
           /\ (UploadShown' => UploadShown \/ v \in UploadVCs)
<1>1. /\ stack' \in Seq(VCs)
      /\ Len(stack') = Len(stack) + 1
      /\ \A i \in 1..Len(stack) : stack'[i] = stack[i]
      /\ stack'[Len(stack) + 1] = v
  BY DEF Push, ScreensInv
<1>2. /\ DOMAIN stack = 1..Len(stack)
      /\ DOMAIN stack' = 1..Len(stack) + 1
      /\ Len(stack) \in Nat
  BY <1>1 DEF ScreensInv
<1>3. ~AtMain'
  BY <1>1, <1>2 DEF AtMain
<1>4. GateAtBottom'
  <2>1. CASE AtMain
    BY <1>1, <2>1 DEF AtMain, GateAtBottom, OnTop
  <2>2. CASE ~AtMain
    <3>1. 1 \in 1..Len(stack)
      BY <1>2, <2>2 DEF AtMain, ScreensInv
    <3> QED
      BY <1>1, <2>2, <3>1 DEF GateAtBottom, ScreensInv
  <2> QED
    BY <2>1, <2>2
<1>5. UploadUncovered'
  <2>1. \A i \in 1..Len(stack) : stack[i] \notin UploadVCs
    <3>1. CASE AtMain
      BY <1>2, <3>1 DEF AtMain
    <3>2. CASE \E p \in AuthVCs \cup SigninVCs : OnTop(p)
      BY <1>2, <3>2, InstancesAssumption
         DEF OnTop, ScreensInv, UploadUncovered
    <3> QED
      BY <3>1, <3>2
  <2> QED
    BY <1>1, <1>2, <2>1 DEF UploadUncovered
<1>6. UploadShown' => UploadShown \/ v \in UploadVCs
  <2> SUFFICES ASSUME NEW u \in UploadVCs, NEW i \in DOMAIN stack',
                      stack'[i] = u
               PROVE  UploadShown \/ v \in UploadVCs
    BY DEF UploadShown, Presented
  <2>1. CASE i \in 1..Len(stack)
    BY <1>1, <1>2, <2>1 DEF UploadShown, Presented
  <2>2. CASE i = Len(stack) + 1
    BY <1>1, <2>2
  <2> QED
    BY <1>2, <2>1, <2>2
<1> QED
  BY <1>1, <1>3, <1>4, <1>5, <1>6 DEF ScreensInv

-----------------------------------------------------------------------------
(* Types.  The stack's is part of ScreensInv; the rest is here. *)
DataTypeOK ==
    /\ FirebaseTypeOK
    /\ context \subseteq MaybeEmail
    /\ store \subseteq MaybeEmail
    /\ appearing \in BOOLEAN
    /\ completions \subseteq VCs
    /\ trap \in Traps
    /\ CallsTypeOK
    /\ AuthVCTypeOK
    /\ SigninVCTypeOK
    /\ menu \in Menus

(* A call's closure captures a controller of the kind its step belongs to. *)
LEMMA CallFacts ==
    ASSUME NEW c \in Call \cup {Idle}
    PROVE  /\ c.step \in SocialSteps => c.by \in AuthVCs
           /\ c.step \in EmailSteps => c.by \in SigninVCs
           /\ c.step = "upload" => c.by \in UploadVCs
           /\ c.step \in SocialSteps \cup EmailSteps \cup {"upload", "findLogin"}
                => c \in Call
           /\ c.email \in MaybeEmail
           /\ c.password \in Passwords \cup {NoPassword}
BY DEF Call, CallBy, Idle, SocialSteps, EmailSteps, MaybeEmail

(* The records NewCall makes are calls.                                    *)
LEMMA NewCallFacts ==
    ASSUME NEW step, NEW v, NEW e \in MaybeEmail,
           NEW p \in Passwords \cup {NoPassword},
           \/ step \in SocialSteps /\ v \in AuthVCs
           \/ step \in EmailSteps /\ v \in SigninVCs
           \/ step = "upload" /\ v \in UploadVCs
           \/ step = "findLogin" /\ v = MainVC
    PROVE  NewCall(step, v, e, p) \in Call
BY DEF Call, CallBy, NewCall, Answers

(* Making a call and ending one keep the type of calls.                    *)
LEMMA StartTypes ==
    ASSUME CallsTypeOK, NEW k \in Lines, NEW step, NEW v, NEW e \in MaybeEmail,
           NEW p \in Passwords \cup {NoPassword},
           \/ step \in SocialSteps /\ v \in AuthVCs
           \/ step \in EmailSteps /\ v \in SigninVCs
           \/ step = "upload" /\ v \in UploadVCs
           \/ step = "findLogin" /\ v = MainVC,
           Start(k, step, v, e, p)
    PROVE  calls' \in [Lines -> Call \cup {Idle}]
<1>1. NewCall(step, v, e, p) \in Call
  BY NewCallFacts
<1> QED
  BY <1>1 DEF CallsTypeOK, Start

(* Ending a call leaves the line idle.                                     *)
LEMMA FinishTypes ==
    ASSUME CallsTypeOK, NEW k \in Lines, Finish(k)
    PROVE  calls' \in [Lines -> Call \cup {Idle}]
BY DEF CallsTypeOK, Finish

(* Presenting and dismissing keep the types of what transitions defer. *)
LEMMA TransitionTypes ==
    ASSUME DataTypeOK, stack \in Seq(VCs), NEW v \in VCs,
           Dismiss(v) \/ DismissThenPresenter(v) \/ RunCompletion(v) \/ Push(v)
    PROVE  appearing' \in BOOLEAN /\ completions' \subseteq VCs
<1>1. CASE DismissThenPresenter(v)
  <2>1. CASE UNCHANGED screenVars
    BY <2>1 DEF DataTypeOK, screenVars
  <2>2. CASE ~UNCHANGED screenVars
    <3>1. PICK i \in DOMAIN stack :
             completions' = IF i = 1 THEN completions
                                     ELSE completions \cup {stack[i - 1]}
      BY <1>1, <2>2 DEF DismissThenPresenter
    <3>2. i # 1 => stack[i - 1] \in VCs
      OBVIOUS
    <3>3. appearing' = TRUE
      BY <1>1, <2>2 DEF DismissThenPresenter
    <3> QED
      BY <3>1, <3>2, <3>3 DEF DataTypeOK
  <2> QED
    BY <2>1, <2>2
<1>2. CASE Dismiss(v) \/ RunCompletion(v) \/ Push(v)
  BY <1>2 DEF Dismiss, RunCompletion, Push, DataTypeOK, screenVars
<1> QED
  BY <1>1, <1>2

(* Every step keeps the types. *)
LEMMA DataTypeStep ==
    ASSUME DataTypeOK, stack \in Seq(VCs), [Next]_vars
    PROVE  DataTypeOK'
<1> USE DEF authVars, coreDataVars, screenVars, authVCVars, fieldVars,
            authVCRest, signinVCRest, uploadVCRest, mainRest
<1>1. ASSUME NEW a \in AuthVCs, NEW k \in Lines,
               NEW f \in FacebookEmails \cup {NoEmail},
               FacebookLogin(a, k, f), UNCHANGED authVCRest
        PROVE  DataTypeOK'
  <2>1. f \in MaybeEmail /\ FBPassword \in Passwords
    BY EmailsAssumption DEF MaybeEmail, Passwords
  <2>2. CallsTypeOK'
    BY <1>1, <2>1, StartTypes DEF FacebookLogin, SocialSteps, DataTypeOK, CallsTypeOK
  <2> QED
    BY <1>1, <2>1, <2>2
       DEF FacebookLogin,
           DataTypeOK, FirebaseTypeOK, AuthVCTypeOK, SigninVCTypeOK
<1>2. ASSUME NEW a \in AuthVCs, NEW k \in Lines,
               NEW g \in GoogleEmails \cup {NoEmail},
               GoogleSignIn(a, k, g), UNCHANGED authVCRest
        PROVE  DataTypeOK'
  <2>1. g \in MaybeEmail /\ GooglePassword \in Passwords
    BY EmailsAssumption DEF MaybeEmail, Passwords
  <2>2. CallsTypeOK'
    BY <1>2, <2>1, StartTypes DEF GoogleSignIn, SocialSteps, DataTypeOK, CallsTypeOK
  <2> QED
    BY <1>2, <2>1, <2>2
       DEF GoogleSignIn,
           DataTypeOK, FirebaseTypeOK, AuthVCTypeOK, SigninVCTypeOK
<1>3. ASSUME NEW a \in AuthVCs,
               FacebookLogout(a), UNCHANGED authVCRest
        PROVE  DataTypeOK'
  <2>1. CallsTypeOK'
    BY <1>3 DEF FacebookLogout, DataTypeOK, CallsTypeOK, MaybeEmail
  <2> QED
    BY <1>3, <2>1
       DEF FacebookLogout, SignOut, DeleteAll, Deleted, MaybeEmail,
           DataTypeOK, FirebaseTypeOK, AuthVCTypeOK, SigninVCTypeOK
<1>4. ASSUME NEW a \in AuthVCs, NEW s \in SigninVCs,
               OpenSignin(a, s), UNCHANGED signinVCRest
        PROVE  DataTypeOK'
  <2>1. CallsTypeOK'
    BY <1>4 DEF OpenSignin, SignInWithEmail, DataTypeOK, CallsTypeOK
  <2>2. appearing' \in BOOLEAN /\ completions' \subseteq VCs
    BY <1>4, TransitionTypes DEF OpenSignin, SignInWithEmail, VCs
  <2> QED
    BY <1>4, <2>1, <2>2
       DEF OpenSignin, SignInWithEmail, MaybeEmail,
           DataTypeOK, FirebaseTypeOK, AuthVCTypeOK, SigninVCTypeOK
<1>5. ASSUME NEW s \in SigninVCs, NEW e \in Emails,
               NEW p \in TypedPasswords,
               Edit(s, e, p), UNCHANGED signinVCRest
        PROVE  DataTypeOK'
  <2>1. CallsTypeOK'
    BY <1>5 DEF Edit, DataTypeOK, CallsTypeOK
  <2> QED
    BY <1>5, <2>1
       DEF Edit, MaybeEmail,
           DataTypeOK, FirebaseTypeOK, AuthVCTypeOK, SigninVCTypeOK
<1>6. ASSUME NEW s \in SigninVCs, NEW k \in Lines,
               PressSignIn(s, k), UNCHANGED signinVCRest
        PROVE  DataTypeOK'
  <2>1. emailField[s] \in MaybeEmail /\ passwordField[s] \in Passwords \cup {NoPassword}
    BY DEF DataTypeOK, SigninVCTypeOK, Passwords
  <2>2. CallsTypeOK'
    BY <1>6, <2>1, StartTypes DEF PressSignIn, EmailSteps, DataTypeOK, CallsTypeOK
  <2> QED
    BY <1>6, <2>1, <2>2
       DEF PressSignIn,
           DataTypeOK, FirebaseTypeOK, AuthVCTypeOK, SigninVCTypeOK
<1>7. ASSUME NEW s \in SigninVCs,
               Close(s), UNCHANGED signinVCRest
        PROVE  DataTypeOK'
  <2>1. CallsTypeOK'
    BY <1>7 DEF Close, DataTypeOK, CallsTypeOK
  <2>2. appearing' \in BOOLEAN /\ completions' \subseteq VCs
    BY <1>7, TransitionTypes DEF Close, VCs
  <2> QED
    BY <1>7, <2>1, <2>2
       DEF Close,
           DataTypeOK, FirebaseTypeOK, AuthVCTypeOK, SigninVCTypeOK
<1>8. ASSUME NEW u \in UploadVCs, NEW k \in Lines,
               PressDone(u, k), UNCHANGED uploadVCRest
        PROVE  DataTypeOK'
  <2>1. CallsTypeOK'
    BY <1>8, StartTypes DEF PressDone, DataTypeOK, CallsTypeOK, FirebaseTypeOK
  <2> QED
    BY <1>8, <2>1
       DEF PressDone, Traps,
           DataTypeOK, FirebaseTypeOK, AuthVCTypeOK, SigninVCTypeOK
<1>9. ASSUME NEW k \in Lines,
               SelectFind(k), UNCHANGED mainRest
        PROVE  DataTypeOK'
  <2>1. Fetched(NoEmail) \subseteq MaybeEmail /\ FBPassword \in Passwords
    BY DEF DataTypeOK, Fetched, MaybeEmail, Passwords
  <2>2. CallsTypeOK'
    BY <1>9, <2>1, StartTypes DEF SelectFind, FindVCDidAppear, DataTypeOK, CallsTypeOK
  <2> QED
    BY <1>9, <2>1, <2>2
       DEF SelectFind,
           DataTypeOK, FirebaseTypeOK, AuthVCTypeOK, SigninVCTypeOK
<1>10. CASE OpenMenu /\ UNCHANGED mainRest
  <2>1. CallsTypeOK'
    BY <1>10 DEF OpenMenu, DataTypeOK, CallsTypeOK
  <2> QED
    BY <1>10, <2>1
       DEF OpenMenu, MenuDidAppear, Menus, Traps,
           DataTypeOK, FirebaseTypeOK, AuthVCTypeOK, SigninVCTypeOK
<1>11. CASE CloseMenu /\ UNCHANGED mainRest
  <2>1. CallsTypeOK'
    BY <1>11 DEF CloseMenu, DataTypeOK, CallsTypeOK
  <2> QED
    BY <1>11, <2>1
       DEF CloseMenu, Menus,
           DataTypeOK, FirebaseTypeOK, AuthVCTypeOK, SigninVCTypeOK
<1>12. ASSUME NEW a \in AuthVCs,
               SignOutWasPressed(a) \/ MenuFacebookLogout(a), UNCHANGED mainRest
        PROVE  DataTypeOK'
  <2>1. CallsTypeOK'
    BY <1>12 DEF SignOutWasPressed, MenuFacebookLogout, Leave, DataTypeOK,
              CallsTypeOK, MaybeEmail
  <2>2. appearing' \in BOOLEAN /\ completions' \subseteq VCs
    BY <1>12, TransitionTypes DEF SignOutWasPressed, MenuFacebookLogout, Leave, VCs
  <2> QED
    BY <1>12, <2>1, <2>2
       DEF SignOutWasPressed, MenuFacebookLogout, Leave, Loaded, SignOut,
           DeleteAll, Deleted, MaybeEmail,
           DataTypeOK, FirebaseTypeOK, AuthVCTypeOK, SigninVCTypeOK
<1>13. ASSUME NEW k \in Lines,
               ServeRegistration(k), UNCHANGED uploadVCRest
        PROVE  DataTypeOK'
  <2>1. calls[k] \in Call
    BY <1>13, CallFacts DEF ServeRegistration, Registrations, SocialSteps, EmailSteps,
                     DataTypeOK, CallsTypeOK
  <2>2. \A r \in Answers : [calls[k] EXCEPT !.answer = r] \in Call
    BY <2>1 DEF Call, CallBy
  <2>3. CallsTypeOK'
    BY <1>13, <2>2 DEF ServeRegistration, Answers, DataTypeOK, CallsTypeOK
  <2>4. accounts' \in [Emails -> Passwords \cup {NoPassword}]
    BY <1>13, <2>1, CallFacts DEF ServeRegistration, DataTypeOK, FirebaseTypeOK
  <2> QED
    BY <1>13, <2>1, <2>2, <2>3, <2>4
       DEF ServeRegistration,
           DataTypeOK, FirebaseTypeOK, AuthVCTypeOK, SigninVCTypeOK
<1>14. ASSUME NEW k \in Lines,
               GraphDone(k), UNCHANGED authVCRest
        PROVE  DataTypeOK'
  <2>1. calls[k] \in Call /\ calls[k].by \in AuthVCs /\ calls[k].email \in MaybeEmail
    BY <1>14, CallFacts DEF GraphDone, SocialSteps, DataTypeOK, CallsTypeOK
  <2>2. FBPassword \in Passwords
    BY DEF Passwords
  <2>3. CallsTypeOK'
    BY <1>14, <2>1, <2>2, StartTypes, FinishTypes
      DEF GraphDone, SocialSteps, DataTypeOK, CallsTypeOK
  <2> QED
    BY <1>14, <2>1, <2>2, <2>3
       DEF GraphDone,
           DataTypeOK, FirebaseTypeOK, AuthVCTypeOK, SigninVCTypeOK
<1>15. ASSUME NEW k \in Lines,
               SocialLoginDone(k), UNCHANGED authVCRest
        PROVE  DataTypeOK'
  <2>1. /\ calls[k] \in Call /\ calls[k].by \in AuthVCs
        /\ calls[k].password \in Passwords \cup {NoPassword}
        /\ selfEmail[calls[k].by] \in MaybeEmail
    BY <1>15, CallFacts DEF SocialLoginDone, SocialSteps, DataTypeOK, CallsTypeOK,
                           AuthVCTypeOK
  <2>2. CallsTypeOK'
    BY <1>15, <2>1, StartTypes DEF SocialLoginDone, SocialSteps, DataTypeOK, CallsTypeOK
  <2>3. appearing' \in BOOLEAN /\ completions' \subseteq VCs
    BY <1>15, <2>1, TransitionTypes DEF SocialLoginDone, VCs, screenVars, DataTypeOK
  <2> QED
    BY <1>15, <2>1, <2>2, <2>3
       DEF SocialLoginDone, SignInSucceeds, SignInFails, Accepts, SaveInto,
           MaybeEmail,
           DataTypeOK, FirebaseTypeOK, AuthVCTypeOK, SigninVCTypeOK
<1>16. ASSUME NEW k \in Lines,
               SocialRegisterDone(k), UNCHANGED authVCRest
        PROVE  DataTypeOK'
  <2>1. /\ calls[k] \in Call /\ calls[k].by \in AuthVCs
        /\ calls[k].password \in Passwords \cup {NoPassword}
        /\ calls[k].email \in MaybeEmail
        /\ selfEmail[calls[k].by] \in MaybeEmail
    BY <1>16, CallFacts DEF SocialRegisterDone, SocialSteps, DataTypeOK, CallsTypeOK,
                           AuthVCTypeOK
  <2>2. CallsTypeOK'
    BY <1>16, <2>1, StartTypes, FinishTypes
      DEF SocialRegisterDone, SocialSteps, DataTypeOK, CallsTypeOK
  <2> QED
    BY <1>16, <2>1, <2>2
       DEF SocialRegisterDone, RegistrationSucceeds, CreateDBUser,
           DataTypeOK, FirebaseTypeOK, AuthVCTypeOK, SigninVCTypeOK
<1>17. ASSUME NEW k \in Lines,
               SocialReloginDone(k), UNCHANGED authVCRest
        PROVE  DataTypeOK'
  <2>1. /\ calls[k] \in Call /\ calls[k].by \in AuthVCs
        /\ selfEmail[calls[k].by] \in MaybeEmail
    BY <1>17, CallFacts DEF SocialReloginDone, SocialSteps, DataTypeOK, CallsTypeOK,
                           AuthVCTypeOK
  <2>2. CallsTypeOK'
    BY <1>17, FinishTypes DEF SocialReloginDone, DataTypeOK, CallsTypeOK
  <2>3. appearing' \in BOOLEAN /\ completions' \subseteq VCs
    BY <1>17, TransitionTypes DEF SocialReloginDone, PresentUpload, VCs, screenVars,
                                  DataTypeOK
  <2> QED
    BY <1>17, <2>1, <2>2, <2>3
       DEF SocialReloginDone, PresentUpload, SignInSucceeds, SignInFails,
           Accepts, SaveInto, Deleted, MaybeEmail, Traps,
           DataTypeOK, FirebaseTypeOK, AuthVCTypeOK, SigninVCTypeOK
<1>18. ASSUME NEW k \in Lines,
               LoginDone(k), UNCHANGED signinVCRest
        PROVE  DataTypeOK'
  <2>1. /\ calls[k] \in Call /\ calls[k].by \in SigninVCs
        /\ emailField[calls[k].by] \in MaybeEmail
        /\ passwordField[calls[k].by] \in Passwords \cup {NoPassword}
    BY <1>18, CallFacts DEF LoginDone, EmailSteps, DataTypeOK, CallsTypeOK,
                           SigninVCTypeOK, Passwords
  <2>2. CallsTypeOK'
    BY <1>18, <2>1, StartTypes DEF LoginDone, EmailSteps, DataTypeOK, CallsTypeOK
  <2>3. appearing' \in BOOLEAN /\ completions' \subseteq VCs
    BY <1>18, <2>1, TransitionTypes DEF LoginDone, VCs, screenVars, DataTypeOK
  <2> QED
    BY <1>18, <2>1, <2>2, <2>3
       DEF LoginDone, SignInSucceeds, SignInFails, Accepts, SaveInto, Deleted,
           MaybeEmail,
           DataTypeOK, FirebaseTypeOK, AuthVCTypeOK, SigninVCTypeOK
<1>19. ASSUME NEW k \in Lines,
               RegisterDone(k), UNCHANGED signinVCRest
        PROVE  DataTypeOK'
  <2>1. /\ calls[k] \in Call /\ calls[k].by \in SigninVCs
        /\ calls[k].email \in MaybeEmail
        /\ emailField[calls[k].by] \in MaybeEmail
        /\ passwordField[calls[k].by] \in Passwords \cup {NoPassword}
    BY <1>19, CallFacts DEF RegisterDone, EmailSteps, DataTypeOK, CallsTypeOK,
                           SigninVCTypeOK, Passwords
  <2>2. CallsTypeOK'
    BY <1>19, <2>1, StartTypes, FinishTypes
      DEF RegisterDone, EmailSteps, DataTypeOK, CallsTypeOK
  <2> QED
    BY <1>19, <2>1, <2>2
       DEF RegisterDone, RegistrationSucceeds, CreateDBUser,
           DataTypeOK, FirebaseTypeOK, AuthVCTypeOK, SigninVCTypeOK
<1>20. ASSUME NEW k \in Lines,
               ReloginDone(k), UNCHANGED signinVCRest
        PROVE  DataTypeOK'
  <2>1. CallsTypeOK'
    BY <1>20, FinishTypes DEF ReloginDone, DataTypeOK, CallsTypeOK
  <2>2. appearing' \in BOOLEAN /\ completions' \subseteq VCs
    BY <1>20, TransitionTypes DEF ReloginDone, PresentUpload, VCs, screenVars,
                                  DataTypeOK
  <2> QED
    BY <1>20, <2>1, <2>2
       DEF ReloginDone, PresentUpload, SignInSucceeds, SignInFails, Accepts,
           MaybeEmail, Traps,
           DataTypeOK, FirebaseTypeOK, AuthVCTypeOK, SigninVCTypeOK
<1>21. ASSUME NEW k \in Lines,
               UploadDone(k), UNCHANGED uploadVCRest
        PROVE  DataTypeOK'
  <2>1. /\ calls[k] \in Call /\ calls[k].by \in UploadVCs
        /\ calls[k].email \in MaybeEmail
    BY <1>21, CallFacts DEF UploadDone, DataTypeOK, CallsTypeOK
  <2>2. CallsTypeOK'
    BY <1>21, FinishTypes DEF UploadDone, DataTypeOK, CallsTypeOK
  <2>3. appearing' \in BOOLEAN /\ completions' \subseteq VCs
    BY <1>21, <2>1, TransitionTypes DEF UploadDone, VCs, screenVars, DataTypeOK
  <2> QED
    BY <1>21, <2>1, <2>2, <2>3
       DEF UploadDone, WriteRecord, Traps,
           DataTypeOK, FirebaseTypeOK, AuthVCTypeOK, SigninVCTypeOK
<1>22. ASSUME NEW k \in Lines,
               FindLoginDone(k), UNCHANGED mainRest
        PROVE  DataTypeOK'
  <2>1. CallsTypeOK'
    BY <1>22, FinishTypes DEF FindLoginDone, DataTypeOK, CallsTypeOK
  <2> QED
    BY <1>22, <2>1
       DEF FindLoginDone, SignInSucceeds, SignInFails, Accepts, MaybeEmail,
           DataTypeOK, FirebaseTypeOK, AuthVCTypeOK, SigninVCTypeOK
<1>23. ASSUME NEW a \in AuthVCs,
               AuthVCDidAppear(a), UNCHANGED authVCRest
        PROVE  DataTypeOK'
  <2>1. CallsTypeOK'
    BY <1>23 DEF AuthVCDidAppear, DataTypeOK, CallsTypeOK
  <2>2. appearing' \in BOOLEAN /\ completions' \subseteq VCs
    BY <1>23, TransitionTypes DEF AuthVCDidAppear, VCs, DataTypeOK
  <2> QED
    BY <1>23, <2>1, <2>2
       DEF AuthVCDidAppear,
           DataTypeOK, FirebaseTypeOK, AuthVCTypeOK, SigninVCTypeOK
<1>24. ASSUME NEW s \in SigninVCs,
               SigninVCDidAppear(s), UNCHANGED signinVCRest
        PROVE  DataTypeOK'
  <2>1. CallsTypeOK'
    BY <1>24 DEF SigninVCDidAppear, DataTypeOK, CallsTypeOK
  <2>2. appearing' \in BOOLEAN /\ completions' \subseteq VCs
    BY <1>24, TransitionTypes DEF SigninVCDidAppear, VCs, DataTypeOK
  <2> QED
    BY <1>24, <2>1, <2>2
       DEF SigninVCDidAppear,
           DataTypeOK, FirebaseTypeOK, AuthVCTypeOK, SigninVCTypeOK
<1>25. ASSUME NEW u \in UploadVCs,
               UploadVCDidAppear(u), UNCHANGED uploadVCRest
        PROVE  DataTypeOK'
  <2>1. CallsTypeOK'
    BY <1>25 DEF UploadVCDidAppear, DataTypeOK, CallsTypeOK
  <2> QED
    BY <1>25, <2>1
       DEF UploadVCDidAppear,
           DataTypeOK, FirebaseTypeOK, AuthVCTypeOK, SigninVCTypeOK
<1>26. ASSUME NEW k \in Lines,
               MainDidAppear(k), UNCHANGED mainRest
        PROVE  DataTypeOK'
  <2>1. Fetched(NoEmail) \subseteq MaybeEmail /\ FBPassword \in Passwords
    BY DEF DataTypeOK, Fetched, MaybeEmail, Passwords
  <2>2. CallsTypeOK'
    BY <1>26, <2>1, StartTypes DEF MainDidAppear, FindVCDidAppear, DataTypeOK, CallsTypeOK
  <2> QED
    BY <1>26, <2>1, <2>2
       DEF MainDidAppear, MenuDidAppear, Menus, Traps,
           DataTypeOK, FirebaseTypeOK, AuthVCTypeOK, SigninVCTypeOK
<1>27. ASSUME NEW v \in completions,
               RunCompletion(v) /\ UNCHANGED <<authVars, users, coreDataVars, calls, token>>, UNCHANGED uploadVCRest
        PROVE  DataTypeOK'
  <2>1. CallsTypeOK'
    BY <1>27 DEF DataTypeOK, CallsTypeOK
  <2>2. appearing' \in BOOLEAN /\ completions' \subseteq VCs
    BY <1>27, TransitionTypes DEF DataTypeOK
  <2> QED
    BY <1>27, <2>1, <2>2
       DEF RunCompletion,
           DataTypeOK, FirebaseTypeOK, AuthVCTypeOK, SigninVCTypeOK
<1>28. CASE Relaunch
  <2>1. CallsTypeOK'
    BY <1>28 DEF Relaunch, DataTypeOK, CallsTypeOK
  <2> QED
    BY <1>28, <2>1
       DEF Relaunch, Menus, Traps, NoTrap, MaybeEmail,
           DataTypeOK, FirebaseTypeOK, AuthVCTypeOK, SigninVCTypeOK
<1>29. CASE UNCHANGED vars
  BY <1>29 DEF vars, DataTypeOK, FirebaseTypeOK, CallsTypeOK, AuthVCTypeOK,
             SigninVCTypeOK
<1> QED
  BY <1>1, <1>2, <1>3, <1>4, <1>5, <1>6, <1>7, <1>8, <1>9, <1>10, <1>11,
     <1>12, <1>13, <1>14, <1>15, <1>16, <1>17, <1>18, <1>19, <1>20, <1>21,
     <1>22, <1>23, <1>24, <1>25, <1>26, <1>27, <1>28, <1>29
     DEF Next, User, AuthVCInput, SigninVCInput, UploadVCInput, MainInput,
         Progress, Transition

(* Who is signed in, what is up and what is pending, together.  Three      *)
(* lemmas say how a step that dismisses, presents or leaves the screens    *)
(* alone keeps it.                                                         *)
SignedInv ==
    /\ ScreensInv
    /\ CompletionsSignedIn
    /\ MainSignedIn
    /\ UploadSignedIn
    /\ UnwrapsHold

\* The two force unwraps that can find nil.
OtherTraps == {"uploadVC viewDidLoad", "uploadCarInfo"}

TrapAllowed == trap' = trap \/ trap' \in OtherTraps

(* A dismissal keeps it when somebody is signed in afterwards, or when the *)
(* controller dismissed is no AuthVC and nobody signs in or out.           *)
LEMMA DismissKeeps ==
    ASSUME SignedInv, TrapAllowed, NEW v,
           Dismiss(v) \/ DismissThenPresenter(v) \/ RunCompletion(v),
           \/ SignedIn'
           \/ UNCHANGED <<currentUser, completions>> /\ v \notin AuthVCs
    PROVE  SignedInv'
<1>1. Popped /\ (AtMain' => AtMain \/ v = stack[1])
  BY DismissPops DEF SignedInv, ScreensInv
<1>2. ScreensInv' /\ (UploadShown' => UploadShown)
  BY <1>1, PopKeeps DEF SignedInv
<1>3. UnwrapsHold'
  BY DEF SignedInv, UnwrapsHold, TrapAllowed, OtherTraps
<1>4. CASE SignedIn'
  BY <1>2, <1>3, <1>4
     DEF SignedInv, CompletionsSignedIn, MainSignedIn, UploadSignedIn
<1>5. CASE UNCHANGED <<currentUser, completions>> /\ v \notin AuthVCs
  BY <1>1, <1>2, <1>3, <1>5
     DEF SignedInv, ScreensInv, GateAtBottom, SignedIn, CompletionsSignedIn,
         MainSignedIn, UploadSignedIn
<1> QED
  BY <1>4, <1>5

(* A presentation keeps it: of the gate over the main screens, or of a     *)
(* controller over a visible AuthVC or SigninVC.                           *)
LEMMA PushSigned ==
    ASSUME SignedInv, TrapAllowed, NEW v \in VCs, Push(v),
           \/ AtMain /\ v \in AuthVCs /\ completions = {}
           \/ /\ \E p \in AuthVCs \cup SigninVCs : OnTop(p)
              /\ SignedIn' \/ (UNCHANGED currentUser /\ v \notin UploadVCs)
    PROVE  SignedInv'
<1>1. /\ ScreensInv' /\ ~AtMain'
      /\ UploadShown' => UploadShown \/ v \in UploadVCs
  BY PushKeeps DEF SignedInv
<1>2. UnwrapsHold' /\ completions' = completions
  BY DEF SignedInv, UnwrapsHold, TrapAllowed, OtherTraps, Push
<1>3. CASE AtMain /\ v \in AuthVCs /\ completions = {}
  <2>1. ~UploadShown
    BY <1>3 DEF AtMain, UploadShown, Presented
  <2>2. v \notin UploadVCs
    BY <1>3, InstancesAssumption
  <2> QED
    BY <1>1, <1>2, <1>3, <2>1, <2>2
       DEF SignedInv, CompletionsSignedIn, MainSignedIn, UploadSignedIn
<1>4. CASE SignedIn' \/ (UNCHANGED currentUser /\ v \notin UploadVCs)
  BY <1>1, <1>2, <1>4
     DEF SignedInv, SignedIn, CompletionsSignedIn, MainSignedIn, UploadSignedIn
<1> QED
  BY <1>3, <1>4

(* A step that leaves the screens alone keeps it unless it signs out.      *)
LEMMA StillKeeps ==
    ASSUME SignedInv, TrapAllowed, UNCHANGED <<stack, completions>>,
           SignedIn' \/ UNCHANGED currentUser
    PROVE  SignedInv'
BY DEF SignedInv, ScreensInv, GateAtBottom, UploadUncovered, AtMain, SignedIn,
       CompletionsSignedIn, MainSignedIn, UploadSignedIn, UploadShown,
       Presented, UnwrapsHold, TrapAllowed, OtherTraps

(* The last step of a registration chain: the car form comes up only with  *)
(* somebody signed in.                                                     *)
LEMMA PresentUploadKeeps ==
    ASSUME SignedInv, NEW p \in AuthVCs \cup SigninVCs, PresentUpload(p),
           SignedIn' \/ UNCHANGED currentUser
    PROVE  SignedInv'
<1>1. CASE UNCHANGED screenVars /\ TrapAllowed
  BY <1>1, StillKeeps DEF screenVars
<1>2. CASE /\ OnTop(p) /\ currentUser' # NoEmail /\ UNCHANGED trap
           /\ \E u \in UploadVCs : Unused(u) /\ Push(u)
  <2>1. PICK u \in UploadVCs : Push(u)
    BY <1>2
  <2>2. SignedIn' /\ TrapAllowed /\ u \in VCs
    BY <1>2 DEF SignedIn, TrapAllowed, VCs
  <2>3. \E q \in AuthVCs \cup SigninVCs : OnTop(q)
    BY <1>2
  <2> QED
    BY <2>1, <2>2, <2>3, PushSigned
<1> QED
  BY <1>1, <1>2 DEF PresentUpload, TrapAllowed, OtherTraps

(* Every step keeps it. *)
LEMMA SignedStep ==
    ASSUME SignedInv, DataTypeOK, CreatedKnown, [Next]_vars
    PROVE  SignedInv'
<1> USE DEF authVars, screenVars, authVCVars, uploadVCRest
<1>1. ASSUME NEW a \in AuthVCs, NEW k \in Lines,
               NEW f \in FacebookEmails \cup {NoEmail},
               FacebookLogin(a, k, f)
        PROVE  SignedInv'
  BY <1>1, StillKeeps DEF FacebookLogin, TrapAllowed
<1>2. ASSUME NEW a \in AuthVCs, NEW k \in Lines,
               NEW g \in GoogleEmails \cup {NoEmail},
               GoogleSignIn(a, k, g)
        PROVE  SignedInv'
  BY <1>2, StillKeeps DEF GoogleSignIn, TrapAllowed
<1>3. ASSUME NEW a \in AuthVCs,
               FacebookLogout(a)
        PROVE  SignedInv'
  <2>1. ~AtMain /\ stack[Len(stack)] \notin UploadVCs
    BY <1>3, InstancesAssumption DEF FacebookLogout, OnTop
  <2>2. ~UploadShown
    BY <2>1 DEF SignedInv, ScreensInv, UploadUncovered, UploadShown, Presented
  <2> QED
    BY <1>3, <2>1, <2>2
       DEF FacebookLogout, UserMayAct, Settled, SignedInv, ScreensInv,
           GateAtBottom, UploadUncovered, AtMain, CompletionsSignedIn,
           MainSignedIn, UploadSignedIn, UploadShown, Presented, UnwrapsHold
<1>4. ASSUME NEW a \in AuthVCs, NEW s \in SigninVCs,
               OpenSignin(a, s)
        PROVE  SignedInv'
  <2>1. s \in VCs /\ s \notin UploadVCs /\ TrapAllowed
    BY <1>4, InstancesAssumption
       DEF VCs, TrapAllowed, OpenSignin, SignInWithEmail
  <2> QED
    BY <1>4, <2>1, PushSigned DEF OpenSignin, SignInWithEmail
<1>5. ASSUME NEW s \in SigninVCs, NEW e \in Emails,
               NEW p \in TypedPasswords,
               Edit(s, e, p)
        PROVE  SignedInv'
  BY <1>5, StillKeeps DEF Edit, TrapAllowed
<1>6. ASSUME NEW s \in SigninVCs, NEW k \in Lines,
               PressSignIn(s, k)
        PROVE  SignedInv'
  BY <1>6, StillKeeps DEF PressSignIn, TrapAllowed
<1>7. ASSUME NEW s \in SigninVCs,
               Close(s)
        PROVE  SignedInv'
  <2>1. s \notin AuthVCs /\ TrapAllowed
    BY <1>7, InstancesAssumption DEF TrapAllowed, Close
  <2>2. Dismiss(s) /\ UNCHANGED <<currentUser, completions>>
    BY <1>7 DEF Close, Dismiss
  <2> QED
    BY <2>1, <2>2, DismissKeeps
<1>8. ASSUME NEW u \in UploadVCs, NEW k \in Lines,
               PressDone(u, k)
        PROVE  SignedInv'
  <2>1. UploadShown
    <3>1. stack # <<>> /\ stack[Len(stack)] = u /\ stack \in Seq(VCs)
      BY <1>8 DEF PressDone, OnTop, AtMain, SignedInv, ScreensInv
    <3>2. Len(stack) \in DOMAIN stack
      BY <3>1
    <3> QED
      BY <3>1, <3>2 DEF UploadShown, Presented
  <2>2. SignedIn
    BY <2>1 DEF SignedInv, UploadSignedIn
  <2> QED
    BY <1>8, <2>2, StillKeeps DEF PressDone, TrapAllowed
<1>9. ASSUME NEW k \in Lines,
               SelectFind(k)
        PROVE  SignedInv'
  BY <1>9, StillKeeps DEF SelectFind, TrapAllowed
<1>10. CASE OpenMenu
  <2>1. SignedIn
    BY <1>10 DEF OpenMenu, SignedInv, MainSignedIn
  <2> QED
    BY <1>10, <2>1, StillKeeps DEF OpenMenu, MenuDidAppear, TrapAllowed
<1>11. CASE CloseMenu
  BY <1>11, StillKeeps DEF CloseMenu, TrapAllowed
<1>12. ASSUME NEW a \in AuthVCs,
               SignOutWasPressed(a) \/ MenuFacebookLogout(a)
        PROVE  SignedInv'
  <2>1. a \in VCs
    BY DEF VCs
  <2> QED
    BY <1>12, <2>1, PushSigned
       DEF SignOutWasPressed, MenuFacebookLogout, Leave, UserMayAct, Settled,
           TrapAllowed
<1>13. ASSUME NEW k \in Lines,
               ServeRegistration(k)
        PROVE  SignedInv'
  BY <1>13, StillKeeps DEF ServeRegistration, TrapAllowed
<1>14. ASSUME NEW k \in Lines,
               GraphDone(k)
        PROVE  SignedInv'
  BY <1>14, StillKeeps DEF GraphDone, TrapAllowed
<1>15. ASSUME NEW k \in Lines,
               SocialLoginDone(k)
        PROVE  SignedInv'
  <2>1. CASE SignInSucceeds(calls[k].email, calls[k].password)
    <3>1. SignedIn'
      BY <2>1, EmailsAssumption DEF SignInSucceeds, Accepts, SignedIn
    <3>2. CASE Dismiss(calls[k].by)
      BY <1>15, <3>1, <3>2, DismissKeeps DEF SocialLoginDone, TrapAllowed
    <3>3. CASE UNCHANGED screenVars
      BY <1>15, <3>1, <3>3, StillKeeps DEF SocialLoginDone, TrapAllowed
    <3> QED
      BY <1>15, <3>2, <3>3 DEF SocialLoginDone
  <2>2. CASE UNCHANGED currentUser /\ UNCHANGED screenVars
    BY <1>15, <2>2, StillKeeps DEF SocialLoginDone, TrapAllowed
  <2> QED
    BY <1>15, <2>1, <2>2 DEF SocialLoginDone, SignInFails
<1>16. ASSUME NEW k \in Lines,
               SocialRegisterDone(k)
        PROVE  SignedInv'
  <2>1. calls[k].step = "socialRegister" => calls[k].email \in MaybeEmail
    BY CallFacts DEF DataTypeOK, CallsTypeOK
  <2>2. calls[k].answer = "created" => calls[k].email # NoEmail
    BY EmailsAssumption DEF CreatedKnown
  <2> QED
    BY <1>16, <2>1, <2>2, StillKeeps
       DEF SocialRegisterDone, RegistrationSucceeds, SignedIn, TrapAllowed
<1>17. ASSUME NEW k \in Lines,
               SocialReloginDone(k)
        PROVE  SignedInv'
  <2>1. calls[k].by \in AuthVCs
    BY <1>17, CallFacts DEF SocialReloginDone, SocialSteps, DataTypeOK, CallsTypeOK
  <2>2. SignedIn' \/ UNCHANGED currentUser
    BY <1>17, EmailsAssumption
       DEF SocialReloginDone, SignInSucceeds, SignInFails, Accepts, SignedIn
  <2> QED
    BY <1>17, <2>1, <2>2, PresentUploadKeeps DEF SocialReloginDone
<1>18. ASSUME NEW k \in Lines,
               LoginDone(k)
        PROVE  SignedInv'
  <2>1. CASE SignInSucceeds(calls[k].email, calls[k].password)
    <3>1. SignedIn'
      BY <2>1, EmailsAssumption DEF SignInSucceeds, Accepts, SignedIn
    <3>2. CASE DismissThenPresenter(calls[k].by)
      BY <1>18, <3>1, <3>2, DismissKeeps DEF LoginDone, TrapAllowed
    <3>3. CASE UNCHANGED screenVars
      BY <1>18, <3>1, <3>3, StillKeeps DEF LoginDone, TrapAllowed
    <3> QED
      BY <1>18, <3>2, <3>3 DEF LoginDone
  <2>2. CASE UNCHANGED currentUser /\ UNCHANGED screenVars
    BY <1>18, <2>2, StillKeeps DEF LoginDone, TrapAllowed
  <2> QED
    BY <1>18, <2>1, <2>2 DEF LoginDone, SignInFails
<1>19. ASSUME NEW k \in Lines,
               RegisterDone(k)
        PROVE  SignedInv'
  <2>1. calls[k].answer = "created" => calls[k].email # NoEmail
    BY EmailsAssumption DEF CreatedKnown
  <2> QED
    BY <1>19, <2>1, StillKeeps
       DEF RegisterDone, RegistrationSucceeds, SignedIn, TrapAllowed
<1>20. ASSUME NEW k \in Lines,
               ReloginDone(k)
        PROVE  SignedInv'
  <2>1. calls[k].by \in SigninVCs
    BY <1>20, CallFacts DEF ReloginDone, EmailSteps, DataTypeOK, CallsTypeOK
  <2>2. SignedIn' \/ UNCHANGED currentUser
    BY <1>20, EmailsAssumption
       DEF ReloginDone, SignInSucceeds, SignInFails, Accepts, SignedIn
  <2> QED
    BY <1>20, <2>1, <2>2, PresentUploadKeeps DEF ReloginDone
<1>21. ASSUME NEW k \in Lines,
               UploadDone(k)
        PROVE  SignedInv'
  <2>1. CASE SignedIn /\ UNCHANGED trap /\ DismissThenPresenter(calls[k].by)
    BY <1>21, <2>1, DismissKeeps DEF UploadDone, SignedIn, TrapAllowed
  <2>2. CASE TrapAllowed /\ UNCHANGED screenVars
    BY <1>21, <2>2, StillKeeps DEF UploadDone
  <2> QED
    BY <1>21, <2>1, <2>2 DEF UploadDone, TrapAllowed, OtherTraps
<1>22. ASSUME NEW k \in Lines,
               FindLoginDone(k)
        PROVE  SignedInv'
  <2>1. SignedIn' \/ UNCHANGED currentUser
    BY <1>22, EmailsAssumption
       DEF FindLoginDone, SignInSucceeds, SignInFails, Accepts, SignedIn
  <2> QED
    BY <1>22, <2>1, StillKeeps DEF FindLoginDone, TrapAllowed
<1>23. ASSUME NEW a \in AuthVCs,
               AuthVCDidAppear(a)
        PROVE  SignedInv'
  <2>1. CASE SignedIn /\ Dismiss(a)
    BY <1>23, <2>1, DismissKeeps DEF AuthVCDidAppear, Leaves, SignedIn, TrapAllowed
  <2>2. CASE UNCHANGED <<stack, completions>>
    BY <1>23, <2>2, StillKeeps DEF AuthVCDidAppear, TrapAllowed
  <2> QED
    BY <1>23, <2>1, <2>2 DEF AuthVCDidAppear, Leaves
<1>24. ASSUME NEW s \in SigninVCs,
               SigninVCDidAppear(s)
        PROVE  SignedInv'
  <2>1. CASE SignedIn /\ Dismiss(s)
    BY <1>24, <2>1, DismissKeeps DEF SigninVCDidAppear, SignedIn, TrapAllowed
  <2>2. CASE UNCHANGED <<stack, completions>>
    BY <1>24, <2>2, StillKeeps DEF SigninVCDidAppear, TrapAllowed
  <2> QED
    BY <1>24, <2>1, <2>2 DEF SigninVCDidAppear
<1>25. ASSUME NEW u \in UploadVCs,
               UploadVCDidAppear(u)
        PROVE  SignedInv'
  BY <1>25, StillKeeps DEF UploadVCDidAppear, TrapAllowed
<1>26. ASSUME NEW k \in Lines,
               MainDidAppear(k)
        PROVE  SignedInv'
  <2>1. SignedIn
    BY <1>26 DEF MainDidAppear, SignedInv, MainSignedIn
  <2> QED
    BY <1>26, <2>1, StillKeeps DEF MainDidAppear, MenuDidAppear, TrapAllowed
<1>27. ASSUME NEW v \in completions,
               RunCompletion(v), UNCHANGED authVars
        PROVE  SignedInv'
  <2>1. SignedIn' /\ TrapAllowed
    BY <1>27 DEF SignedInv, CompletionsSignedIn, SignedIn, RunCompletion,
                TrapAllowed
  <2> QED
    BY <1>27, <2>1, DismissKeeps
<1>28. CASE Relaunch
  <2>1. PICK a \in AuthVCs : stack' = LaunchWith(currentUser, a)
    BY <1>28 DEF Relaunch
  <2>2. CASE SignedIn
    <3>1. /\ stack' = <<>> /\ completions' = {} /\ trap' = "none"
          /\ SignedIn'
      BY <1>28, <2>1, <2>2 DEF Relaunch, LaunchWith, SignedIn, NoTrap
    <3>2. ScreensInv'
      BY <3>1 DEF ScreensInv, GateAtBottom, UploadUncovered, AtMain
    <3> QED
      BY <3>1, <3>2 DEF SignedInv, CompletionsSignedIn, MainSignedIn,
                        UploadSignedIn, UnwrapsHold
  <2>3. CASE ~SignedIn
    <3>1. /\ stack' = <<a>> /\ a \in VCs /\ a \notin UploadVCs
          /\ completions' = {} /\ trap' = "none"
      BY <1>28, <2>1, <2>3, InstancesAssumption
         DEF Relaunch, LaunchWith, SignedIn, VCs, NoTrap
    <3>2. ScreensInv' /\ ~AtMain' /\ ~UploadShown'
      BY <3>1 DEF ScreensInv, GateAtBottom, UploadUncovered, AtMain,
                  UploadShown, Presented
    <3> QED
      BY <3>1, <3>2 DEF SignedInv, CompletionsSignedIn, MainSignedIn,
                        UploadSignedIn, UnwrapsHold
  <2> QED
    BY <2>2, <2>3
<1>29. CASE UNCHANGED vars
  BY <1>29, StillKeeps DEF vars, TrapAllowed
<1> QED
  BY <1>1, <1>2, <1>3, <1>4, <1>5, <1>6, <1>7, <1>8, <1>9, <1>10, <1>11,
     <1>12, <1>13, <1>14, <1>15, <1>16, <1>17, <1>18, <1>19, <1>20, <1>21,
     <1>22, <1>23, <1>24, <1>25, <1>26, <1>27, <1>28, <1>29
     DEF Next, User, AuthVCInput, SigninVCInput, UploadVCInput, MainInput,
         Progress, Transition

(* Whoever a registration will sign in is somebody: only the server says   *)
(* "created", of addresses it can create.                                  *)
LEMMA CreatedStep ==
    ASSUME DataTypeOK, CreatedKnown, [Next]_vars
    PROVE  CreatedKnown'
<1> DEFINE Fresh(j) == calls'[j] = calls[j] \/ calls'[j].answer = "none"
<1>0. CallsTypeOK
  BY DEF DataTypeOK
<1>1. (\A j \in Lines : Fresh(j)) => CreatedKnown'
  BY DEF CreatedKnown
<1>2. ASSUME NEW k \in Lines, NEW step, NEW v, NEW e, NEW p,
             Start(k, step, v, e, p)
      PROVE  \A j \in Lines : Fresh(j)
  BY <1>0, <1>2 DEF CallsTypeOK, Start, NewCall
<1>3. ASSUME NEW k \in Lines, Finish(k)
      PROVE  \A j \in Lines : Fresh(j)
  BY <1>0, <1>3 DEF CallsTypeOK, Finish, Idle
<1>4. UNCHANGED calls => \A j \in Lines : Fresh(j)
  OBVIOUS
<1>5. ASSUME NEW k \in Lines, ServeRegistration(k)
      PROVE  CreatedKnown'
  <2>1. /\ calls[k].answer = "none"
        /\ \/ calls' = [calls EXCEPT ![k].answer = "refused"]
           \/ /\ calls[k].email \in Emails
              /\ \E a : calls' = [calls EXCEPT ![k].answer = a]
    BY <1>5 DEF ServeRegistration, CanCreate
  <2>2. calls[k] \in Call
    BY <1>0, <1>5, CallFacts
       DEF ServeRegistration, Registrations, SocialSteps, EmailSteps, CallsTypeOK
  <2>3. \A j \in Lines : j # k => calls'[j] = calls[j]
    BY <1>0, <2>1 DEF CallsTypeOK
  <2>4. calls'[k].email = calls[k].email
    BY <1>0, <2>1, <2>2 DEF CallsTypeOK, Call, CallBy
  <2>5. calls'[k].answer = "created" => calls[k].email \in Emails
    BY <1>0, <2>1, <2>2 DEF CallsTypeOK, Call, CallBy
  <2> QED
    BY <2>3, <2>4, <2>5 DEF CreatedKnown
<1>6. CASE User
  <2>1. ASSUME NEW a \in AuthVCs, AuthVCInput(a) PROVE \A j \in Lines : Fresh(j)
    BY <1>2, <1>4, <2>1
       DEF AuthVCInput, FacebookLogin, GoogleSignIn, FacebookLogout
  <2>2. ASSUME NEW w \in SigninVCs, SigninVCInput(w)
        PROVE  \A j \in Lines : Fresh(j)
    BY <1>2, <1>4, <2>2
       DEF SigninVCInput, OpenSignin, SignInWithEmail, Edit, PressSignIn, Close
  <2>3. ASSUME NEW u \in UploadVCs, UploadVCInput(u)
        PROVE  \A j \in Lines : Fresh(j)
    BY <1>2, <1>4, <2>3 DEF UploadVCInput, PressDone
  <2>4. ASSUME MainInput PROVE \A j \in Lines : Fresh(j)
    BY <1>2, <1>4, <2>4
       DEF MainInput, SelectFind, FindVCDidAppear, OpenMenu, CloseMenu,
           SignOutWasPressed, MenuFacebookLogout, Leave
  <2> QED
    BY <1>1, <1>6, <2>1, <2>2, <2>3, <2>4 DEF User
<1>7. ASSUME NEW k \in Lines, Progress(k) PROVE CreatedKnown'
  <2>1. CASE ServeRegistration(k)
    BY <1>5, <2>1
  <2>2. CASE GraphDone(k) \/ SocialLoginDone(k) \/ SocialRegisterDone(k)
               \/ SocialReloginDone(k)
    BY <1>1, <1>2, <1>3, <2>2
       DEF GraphDone, SocialLoginDone, SocialRegisterDone, SocialReloginDone
  <2>3. CASE LoginDone(k) \/ RegisterDone(k) \/ ReloginDone(k)
    BY <1>1, <1>2, <1>3, <2>3 DEF LoginDone, RegisterDone, ReloginDone
  <2>4. CASE UploadDone(k) \/ FindLoginDone(k)
    BY <1>1, <1>3, <2>4 DEF UploadDone, FindLoginDone
  <2> QED
    BY <1>7, <2>1, <2>2, <2>3, <2>4 DEF Progress
<1>8. CASE Transition
  <2>1. ASSUME NEW k \in Lines, MainDidAppear(k)
        PROVE  \A j \in Lines : Fresh(j)
    BY <1>2, <1>4, <2>1 DEF MainDidAppear, FindVCDidAppear
  <2> QED
    BY <1>1, <1>4, <1>8, <2>1
       DEF Transition, AuthVCDidAppear, SigninVCDidAppear, UploadVCDidAppear
<1>9. CASE Relaunch
  BY <1>1, <1>9 DEF Relaunch, Idle
<1>10. CASE UNCHANGED vars
  BY <1>1, <1>10 DEF vars
<1> QED
  BY <1>6, <1>7, <1>8, <1>9, <1>10 DEF Next

-----------------------------------------------------------------------------
(* SessionInv is the conjunction of the parts treated above. *)
LEMMA Parts == SessionInv <=> DataTypeOK /\ SignedInv /\ CreatedKnown
BY DEF SessionInv, TypeOK, ScreensTypeOK, DataTypeOK, SignedInv, ScreensInv

(* The state after the installation satisfies it. *)
LEMMA InitInv == Init => SessionInv
<1> SUFFICES ASSUME Init PROVE DataTypeOK /\ SignedInv /\ CreatedKnown
  BY Parts
<1>1. DataTypeOK
  <2>1. FirebaseTypeOK
    BY DEF Init, FirebaseTypeOK, MaybeEmail
  <2>2. CallsTypeOK
    BY DEF Init, CallsTypeOK, MaybeEmail
  <2> QED
    BY <2>1, <2>2
       DEF Init, DataTypeOK, AuthVCTypeOK, SigninVCTypeOK, MaybeEmail, Menus,
           Traps, NoTrap
<1>2. SignedInv
  <2>1. PICK a \in AuthVCs : stack = <<a>>
    BY DEF Init, LaunchWith
  <2>2. a \in VCs /\ a \notin UploadVCs
    BY InstancesAssumption DEF VCs
  <2>3. ScreensInv /\ ~AtMain /\ ~UploadShown
    BY <2>1, <2>2 DEF ScreensInv, GateAtBottom, UploadUncovered, AtMain,
                      UploadShown, Presented
  <2> QED
    BY <2>3 DEF Init, NoTrap, SignedInv, CompletionsSignedIn, MainSignedIn,
                UploadSignedIn, UnwrapsHold
<1>3. CreatedKnown
  BY DEF Init, CreatedKnown, Idle
<1> QED
  BY <1>1, <1>2, <1>3

(* Every step keeps it. *)
LEMMA NextInv == SessionInv /\ [Next]_vars => SessionInv'
<1> SUFFICES ASSUME SessionInv, [Next]_vars PROVE SessionInv'
  OBVIOUS
<1>1. DataTypeOK /\ SignedInv /\ CreatedKnown
  BY Parts
<1>2. stack \in Seq(VCs)
  BY <1>1 DEF SignedInv, ScreensInv
<1>3. DataTypeOK' /\ SignedInv' /\ CreatedKnown'
  BY <1>1, <1>2, DataTypeStep, SignedStep, CreatedStep
<1> QED
  BY <1>3, Parts DEF SessionInv, TypeOK, ScreensTypeOK, DataTypeOK, SignedInv,
                     ScreensInv

(* The session's inductive invariant holds in every reachable state.       *)
THEOREM SessionInvariant == Spec => []SessionInv
BY InitInv, NextInv, PTL DEF Spec

(* No step, however calls and touches interleave, takes a variable out of  *)
(* its type.                                                               *)
THEOREM TypeCorrect == Spec => []TypeOK
<1>1. SessionInv => TypeOK
  BY DEF SessionInv
<1> QED
  BY <1>1, SessionInvariant, PTL

(* FindVC, ChatVC and burgerMenuVC are never reached by somebody not       *)
(* signed in, whichever of the dismissals of AuthVC.swift and              *)
(* SigninVC.swift take the gate away.                                      *)
THEOREM MainIsSignedIn == Spec => []MainSignedIn
<1>1. SessionInv => MainSignedIn
  BY DEF SessionInv
<1> QED
  BY <1>1, SessionInvariant, PTL

(* The car form is up only while somebody is signed in.                    *)
THEOREM CarFormSignedIn == Spec => []UploadSignedIn
<1>1. SessionInv => UploadSignedIn
  BY DEF SessionInv
<1> QED
  BY <1>1, SessionInvariant, PTL

(* burgerMenuVC.swift:99 and uploadColorAndModelVC.swift:49 never unwrap   *)
(* nil.                                                                    *)
THEOREM UnwrapsNeverFail == Spec => []UnwrapsHold
<1>1. SessionInv => UnwrapsHold
  BY DEF SessionInv
<1> QED
  BY <1>1, SessionInvariant, PTL

-----------------------------------------------------------------------------
(* Nothing but signing out takes the main screens away: there is no        *)
(* controller to dismiss or to present over.                               *)
LEMMA MainStays ==
    ASSUME AtMain, [Next]_vars
    PROVE  AtMain' \/ currentUser' = NoEmail
<1> USE DEF screenVars
<1>1. ASSUME NEW v, OnTop(v) PROVE FALSE
  BY <1>1 DEF OnTop
<1>2. ASSUME NEW v, Dismiss(v) \/ DismissThenPresenter(v) \/ RunCompletion(v)
      PROVE  AtMain'
  BY <1>2 DEF AtMain, Dismiss, DismissThenPresenter, RunCompletion
<1>3. ASSUME NEW p, PresentUpload(p) PROVE AtMain'
  BY <1>1, <1>3 DEF PresentUpload, AtMain
<1>4. UNCHANGED stack => AtMain'
  BY DEF AtMain
<1>5. CASE User
  <2>1. ASSUME NEW a \in AuthVCs PROVE ~AuthVCInput(a)
    BY <1>1, <2>1 DEF AuthVCInput, FacebookLogin, GoogleSignIn, FacebookLogout
  <2>2. ASSUME NEW w \in SigninVCs PROVE ~SigninVCInput(w)
    BY <1>1, <2>2
       DEF SigninVCInput, OpenSignin, SignInWithEmail, Edit, PressSignIn, Close
  <2>3. ASSUME NEW u \in UploadVCs PROVE ~UploadVCInput(u)
    BY <1>1, <2>3 DEF UploadVCInput, PressDone
  <2>4. MainInput => AtMain' \/ currentUser' = NoEmail
    BY <1>4 DEF MainInput, SelectFind, OpenMenu, CloseMenu, SignOutWasPressed,
                MenuFacebookLogout, Leave, SignOut
  <2> QED
    BY <1>5, <2>1, <2>2, <2>3, <2>4 DEF User
<1>6. ASSUME NEW k \in Lines, Progress(k) PROVE AtMain'
  <2>1. CASE ServeRegistration(k) \/ GraphDone(k) \/ FindLoginDone(k)
    BY <1>4, <2>1 DEF ServeRegistration, GraphDone, FindLoginDone
  <2>2. CASE SocialLoginDone(k) \/ SocialRegisterDone(k) \/ SocialReloginDone(k)
    BY <1>2, <1>3, <1>4, <2>2
       DEF SocialLoginDone, SocialRegisterDone, SocialReloginDone
  <2>3. CASE LoginDone(k) \/ RegisterDone(k) \/ ReloginDone(k)
    BY <1>2, <1>3, <1>4, <2>3 DEF LoginDone, RegisterDone, ReloginDone
  <2>4. CASE UploadDone(k)
    BY <1>2, <1>4, <2>4 DEF UploadDone
  <2> QED
    BY <1>6, <2>1, <2>2, <2>3, <2>4 DEF Progress
<1>7. CASE Transition
  <2>1. ASSUME NEW k \in Lines, MainDidAppear(k) PROVE AtMain'
    BY <1>4, <2>1 DEF MainDidAppear
  <2> QED
    BY <1>1, <1>2, <1>7, <2>1
       DEF Transition, AuthVCDidAppear, SigninVCDidAppear, UploadVCDidAppear
<1>8. CASE Relaunch
  BY <1>8 DEF Relaunch, LaunchWith, AtMain, authVars
<1>9. CASE UNCHANGED vars
  BY <1>4, <1>9 DEF vars
<1> QED
  BY <1>5, <1>6, <1>7, <1>8, <1>9 DEF Next

(* The session implements the gate: it starts at the gate, and every step  *)
(* is one of the gate's or changes neither who is signed in nor whether    *)
(* the main screens are up.                                                *)
THEOREM GateImplemented == Spec => KeepsGate
<1>1. Init => OpenGate!Init
  BY DEF Init, LaunchWith, OpenGate!Init, Place, AtMain
<1>2. SessionInv /\ SessionInv' /\ [Next]_vars
        => [OpenGate!Next]_<<currentUser, Place>>
  <2> SUFFICES ASSUME SessionInv, SessionInv', [Next]_vars
               PROVE  [OpenGate!Next]_<<currentUser, Place>>
    OBVIOUS
  <2>1. currentUser' = NoEmail \/ currentUser' \in Emails
    BY DEF SessionInv, TypeOK, FirebaseTypeOK, MaybeEmail
  <2>2. CASE AtMain'
    <3>1. currentUser' \in Emails
      BY <2>1, <2>2 DEF SessionInv, MainSignedIn, SignedIn
    <3>2. CASE AtMain
      BY <2>2, <3>1, <3>2 DEF OpenGate!Next, OpenGate!Switch, Place
    <3>3. CASE ~AtMain
      BY <2>2, <3>1, <3>3 DEF OpenGate!Next, OpenGate!SignIn, Place
    <3> QED
      BY <3>2, <3>3
  <2>3. CASE ~AtMain' /\ currentUser' = NoEmail
    BY <2>3 DEF OpenGate!Next, OpenGate!SignOut, Place
  <2>4. CASE ~AtMain' /\ currentUser' \in Emails
    <3>1. ~AtMain
      BY <2>4, MainStays, EmailsAssumption
    <3> QED
      BY <2>4, <3>1 DEF OpenGate!Next, OpenGate!SignIn, Place
  <2> QED
    BY <2>1, <2>2, <2>3, <2>4
<1> QED
  BY <1>1, <1>2, SessionInvariant, PTL DEF Spec, KeepsGate, OpenGate!Spec

-----------------------------------------------------------------------------
(* The session of a user who waits for every answer before touching the    *)
(* screen again (Overlap is FALSE), with failures and restarts: what it    *)
(* keeps that a hasty user's session does not.  Each theorem names what    *)
(* else it needs.                                                          *)

Asking == {"graph", "socialLogin", "login"}
Relogins == {"socialRelogin", "relogin"}

(* A chain of calls, as opposed to FindVC's login, and the controller on   *)
(* top with nothing on its way.                                            *)
Chain(k) == calls[k].step \notin {"idle", "findLogin"}
Up(v) == OnTop(v) /\ completions = {} /\ ~appearing

OneChain == \A j, k \in Lines : Chain(j) /\ Chain(k) => j = k

(* Where a call finds the screens: a chain's controller stays on top until *)
(* a login dismisses it, and somebody is signed in from then on.           *)
InPlace(k) ==
    LET c == calls[k]
    IN /\ c.step \in Asking => Up(c.by) /\ ~SignedIn
       /\ c.step \in Registrations =>
            \/ ~Presented(c.by) /\ SignedIn
            \/ Up(c.by) /\ ~SignedIn
       /\ c.step \in Relogins => SignedIn /\ (~Presented(c.by) \/ Up(c.by))
       /\ c.step = "upload" => SignedIn /\ Up(c.by) /\ c.email = currentUser
       /\ c.step = "findLogin" => AtMain

LinesInPlace == OneChain /\ \A k \in Lines : InPlace(k)

(* SigninVC is presented by AuthVC, which then knows of the e-mail flow. *)
GateShape ==
    \A i \in DOMAIN stack :
        /\ stack[i] \in AuthVCs => i = 1
        /\ stack[i] \in SigninVCs => i = 2 /\ emailLogged[stack[1]] = 1

(* Whoever is signed in at the gate is on the way out of it. *)
Passing ==
    SignedIn /\ ~AtMain =>
        \/ UploadShown
        \/ \E k \in Lines : calls[k].step \in Relogins /\ OnTop(calls[k].by)
        \/ Len(stack) = 1 /\ (stack[1] \in completions \/ (appearing /\ emailLogged[stack[1]] = 1))
        \/ Len(stack) = 2 /\ stack[2] \in SigninVCs /\ appearing

FormAlone == UploadShown => completions = {}

ScreensPass == GateShape /\ Passing /\ FormAlone

SerialInv == LinesInPlace /\ ScreensPass /\ CrashFree

-----------------------------------------------------------------------------
(* Steps of the calls.                                                     *)

LEMMA StartAt ==
    ASSUME CallsTypeOK, NEW k \in Lines, NEW step, NEW v, NEW e, NEW p, Start(k, step, v, e, p)
    PROVE  /\ calls'[k].step = step /\ calls'[k].by = v /\ calls'[k].email = e /\ calls'[k].password = p
           /\ calls'[k].answer = "none"
           /\ \A j \in Lines \ {k} : calls'[j] = calls[j]
  BY DEF CallsTypeOK, Start, NewCall

LEMMA FinishAt ==
    ASSUME CallsTypeOK, NEW k \in Lines, Finish(k)
    PROVE  calls'[k].step = "idle" /\ \A j \in Lines \ {k} : calls'[j] = calls[j]
  BY DEF CallsTypeOK, Finish, Idle

LEMMA ServeAt ==
    ASSUME CallsTypeOK, NEW k \in Lines, ServeRegistration(k)
    PROVE  /\ calls'[k].step = calls[k].step /\ calls'[k].by = calls[k].by
           /\ calls'[k].email = calls[k].email /\ calls'[k].password = calls[k].password
           /\ \A j \in Lines \ {k} : calls'[j] = calls[j]
<1>1. calls[k] \in Call
  BY CallFacts DEF ServeRegistration, Registrations, SocialSteps, EmailSteps, CallsTypeOK
<1>2. \E a : calls' = [calls EXCEPT ![k].answer = a]
  BY DEF ServeRegistration
<1> QED
  BY <1>1, <1>2 DEF CallsTypeOK, Call, CallBy

(* A line without a call is in its place. *)
LEMMA IdleInPlace == \A k \in Lines : calls[k].step = "idle" => InPlace(k) /\ ~Chain(k)
  BY DEF InPlace, Chain, Asking, Registrations, Relogins

(* The first call of a chain, or FindVC's login. *)
LEMMA OneStarts ==
    ASSUME Quiet, NEW k \in Lines, \A j \in Lines \ {k} : calls'[j] = calls[j], InPlace(k)'
    PROVE  LinesInPlace'
<1>1. \A j \in Lines \ {k} : calls'[j].step = "idle"
  BY DEF Quiet, Free, Idle
<1>2. \A j \in Lines \ {k} : InPlace(j)' /\ ~Chain(j)'
  BY <1>1, IdleInPlace DEF InPlace, Chain, Asking, Registrations, Relogins
<1> QED
  BY <1>2 DEF LinesInPlace, OneChain

(* Nobody calls. *)
LEMMA StaysQuiet ==
    ASSUME \A j \in Lines : calls'[j].step = "idle"
    PROVE  LinesInPlace'
  BY DEF LinesInPlace, OneChain, InPlace, Chain, Asking, Registrations, Relogins

(* The chain goes on or ends. *)
LEMMA ChainMoves ==
    ASSUME LinesInPlace, NEW k \in Lines, Chain(k), AtMain => AtMain',
           \A j \in Lines \ {k} : calls'[j] = calls[j], InPlace(k)'
    PROVE  LinesInPlace'
<1>1. \A j \in Lines \ {k} : ~Chain(j)
  BY DEF LinesInPlace, OneChain
<1>2. \A j \in Lines \ {k} : calls'[j].step \in {"idle", "findLogin"} /\ ~Chain(j)'
  BY <1>1 DEF Chain
<1>3. \A j \in Lines \ {k} : InPlace(j)'
  BY <1>2 DEF LinesInPlace, InPlace, Asking, Registrations, Relogins
<1> QED
  BY <1>2, <1>3 DEF LinesInPlace, OneChain

(* While a transition goes on, or behind the main screens, a chain cannot  *)
(* lose its place; FindVC may begin or end its login.                      *)
LEMMA ChainWaits ==
    ASSUME LinesInPlace, appearing \/ completions # {} \/ AtMain,
           AtMain => AtMain', SignedIn => SignedIn',
           \A v \in VCs : Presented(v)' => Presented(v), DataTypeOK,
           \A j \in Lines : \/ calls'[j] = calls[j]
                            \/ calls'[j].step = "idle"
                            \/ ~Chain(j) /\ calls'[j].step = "findLogin" /\ AtMain'
    PROVE  LinesInPlace'
<1>1. \A v : ~Up(v)
  BY DEF Up, OnTop
<1>2. \A j \in Lines : Chain(j)' => Chain(j) /\ calls'[j] = calls[j]
  BY DEF Chain
<1>3. ASSUME NEW j \in Lines PROVE InPlace(j)'
  <2>1. CASE calls'[j] = calls[j]
    <3>1. calls[j].step \in Registrations \cup Relogins => calls[j].by \in VCs
      BY CallFacts DEF DataTypeOK, CallsTypeOK, Registrations, Relogins, SocialSteps, EmailSteps, VCs
    <3>2. calls[j].step \notin Asking /\ calls[j].step # "upload"
      BY <1>1 DEF LinesInPlace, InPlace
    <3> QED
      BY <1>1, <2>1, <3>1, <3>2 DEF LinesInPlace, InPlace
  <2>2. CASE calls'[j].step = "idle"
    BY <2>2 DEF InPlace, Asking, Registrations, Relogins
  <2>3. CASE calls'[j].step = "findLogin" /\ AtMain'
    BY <2>3 DEF InPlace, Asking, Registrations, Relogins
  <2> QED
    BY <2>1, <2>2, <2>3
<1> QED
  BY <1>2, <1>3 DEF LinesInPlace, OneChain
-----------------------------------------------------------------------------
(* Steps of the screens.                                                   *)

(* The gate is AuthVC, SigninVC over it, and the car form over either.     *)
LEMMA Shapes ==
    ASSUME ScreensInv, GateShape, NEW v, OnTop(v)
    PROVE  /\ Len(stack) \in Nat \ {0} /\ DOMAIN stack = 1..Len(stack)
           /\ Presented(v) /\ stack[1] \in AuthVCs
           /\ v \in AuthVCs => Len(stack) = 1 /\ ~UploadShown
           /\ v \in SigninVCs =>
                Len(stack) = 2 /\ ~UploadShown /\ emailLogged[stack[1]] = 1
           /\ v \in UploadVCs =>
                UploadShown /\ (Len(stack) = 2 \/ (Len(stack) = 3 /\ stack[2] \in SigninVCs))
<1>1. Len(stack) \in Nat \ {0} /\ DOMAIN stack = 1..Len(stack) /\ v = stack[Len(stack)]
  BY DEF OnTop, AtMain, ScreensInv
<1>2. Presented(v) /\ stack[1] \in AuthVCs
  BY <1>1 DEF Presented, ScreensInv, GateAtBottom, OnTop
<1>3. v \notin UploadVCs => ~UploadShown
  BY <1>1 DEF UploadShown, Presented, ScreensInv, UploadUncovered
<1>4. v \in UploadVCs => UploadShown
  BY <1>2 DEF UploadShown
<1>5. v \in AuthVCs => Len(stack) = 1 /\ ~UploadShown
  BY <1>1, <1>3, InstancesAssumption DEF GateShape
<1>6. v \in SigninVCs => Len(stack) = 2 /\ ~UploadShown /\ emailLogged[stack[1]] = 1
  BY <1>1, <1>3, InstancesAssumption DEF GateShape
<1>7. v \in UploadVCs => Len(stack) = 2 \/ (Len(stack) = 3 /\ stack[2] \in SigninVCs)
  <2> SUFFICES ASSUME v \in UploadVCs
               PROVE  Len(stack) = 2 \/ (Len(stack) = 3 /\ stack[2] \in SigninVCs)
    OBVIOUS
  <2> DEFINE n == Len(stack)
  <2>0. n \in Nat /\ n >= 1
    BY <1>1
  <2>1. n # 1
    BY <1>1, <1>2, InstancesAssumption
  <2>2. ASSUME NEW i \in 2..(n - 1) PROVE stack[i] \in SigninVCs /\ i = 2
    <3>1. i \in 1..n /\ i # 1 /\ i # n
      BY <2>0
    <3>0. i \in DOMAIN stack
      BY <1>1, <3>1
    <3>2. stack[i] \in VCs
      BY <3>0 DEF ScreensInv
    <3> QED
      BY <3>0, <3>1, <3>2 DEF VCs, GateShape, ScreensInv, UploadUncovered
  <2>3. n < 4
    <3> SUFFICES ASSUME n >= 4 PROVE FALSE
      BY <2>0
    <3>1. 3 \in 2..(n - 1)
      BY <2>0
    <3> QED
      BY <2>2, <3>1
  <2>4. n = 3 => stack[2] \in SigninVCs
    BY <2>2
  <2>5. n = 2 \/ n = 3
    <3> HIDE DEF n
    <3> QED
      BY <2>0, <2>1, <2>3
  <2> QED
    BY <2>4, <2>5
<1> QED
  BY <1>1, <1>2, <1>4, <1>5, <1>6, <1>7

(* A lower part of the stack has the same shape.                           *)
LEMMA PopShape ==
    ASSUME ScreensInv, GateShape, Popped, UNCHANGED emailLogged
    PROVE  GateShape'
<1>1. PICK n \in 0..Len(stack) : stack' = SubSeq(stack, 1, n)
  BY DEF Popped
<1>2. DOMAIN stack' = 1..n /\ \A i \in 1..n : stack'[i] = stack[i] /\ i \in DOMAIN stack
  BY <1>1 DEF ScreensInv
<1>3. ASSUME NEW i \in 1..n PROVE 1 \in 1..n
  OBVIOUS
<1> QED
  BY <1>2, <1>3 DEF GateShape

(* Nobody is signed in, or the main screens are up: nothing to pass.       *)
LEMMA NobodyPasses ==
    ASSUME ~SignedIn', UploadSignedIn', GateShape'
    PROVE  ScreensPass'
  BY DEF ScreensPass, Passing, FormAlone, UploadSignedIn

LEMMA MainPasses ==
    ASSUME AtMain'
    PROVE  ScreensPass'
  BY DEF ScreensPass, Passing, FormAlone, AtMain, GateShape, UploadShown, Presented

(* The gate of one screen. *)
LEMMA GateAlone ==
    ASSUME NEW a \in AuthVCs, stack' = <<a>>
    PROVE  GateShape' /\ ~UploadShown' /\ ~AtMain'
<1>1. DOMAIN stack' = {1} /\ stack'[1] = a /\ Len(stack') = 1
  OBVIOUS
<1> QED
  BY <1>1, InstancesAssumption DEF GateShape, UploadShown, Presented, AtMain

(* When the user may act nothing is going on, and whoever is signed in is  *)
(* on the main screens or at the car form.                                 *)
LEMMA AtRest ==
    ASSUME SerialInv, Quiet, Settled
    PROVE  NotStranded /\ (SignedIn => AtMain \/ UploadShown)
<1>1. \A k \in Lines : calls[k].step \notin Relogins
  BY DEF Quiet, Free, Idle, Relogins
<1> QED
  BY <1>1 DEF SerialInv, ScreensPass, Passing, Settled, NotStranded

(* So nobody is signed in at AuthVC or SigninVC.                           *)
LEMMA GateAtRest ==
    ASSUME ~Overlap, SignedInv, SerialInv, UserMayAct,
           NEW v \in AuthVCs \cup SigninVCs, OnTop(v)
    PROVE  Quiet /\ Up(v) /\ ~SignedIn
<1>1. Quiet /\ Settled
  BY DEF UserMayAct
<1>2. ~UploadShown /\ ~AtMain
  BY Shapes DEF SignedInv, SerialInv, ScreensPass, OnTop
<1> QED
  BY <1>1, <1>2, AtRest DEF Up, Settled

(* The controller on top dismissed, alone or with its presenter to follow. *)
LEMMA TopDismissed ==
    ASSUME ScreensInv, GateShape, NEW v \in VCs, OnTop(v),
           Dismiss(v) \/ DismissThenPresenter(v)
    PROVE  /\ appearing' = TRUE /\ Len(stack') = Len(stack) - 1 /\ stack' \in Seq(VCs)
           /\ \A i \in 1..(Len(stack) - 1) : stack'[i] = stack[i]
           /\ DismissThenPresenter(v) /\ Len(stack) # 1 =>
                completions' = completions \cup {stack[Len(stack) - 1]}
<1>1. Len(stack) \in Nat \ {0} /\ DOMAIN stack = 1..Len(stack) /\ v = stack[Len(stack)]
  BY Shapes DEF OnTop
<1>2. Presented(v)
  BY Shapes
<1>3. ASSUME NEW i \in DOMAIN stack, stack[i] = v PROVE i = Len(stack)
  <2>1. CASE v \in AuthVCs
    BY <1>3, <2>1, Shapes DEF GateShape
  <2>2. CASE v \in SigninVCs
    BY <1>3, <2>2, Shapes DEF GateShape
  <2>3. CASE v \in UploadVCs
    BY <1>3, <2>3 DEF ScreensInv, UploadUncovered
  <2> QED
    BY <2>1, <2>2, <2>3 DEF VCs
<1>4. /\ appearing' = TRUE /\ stack' = SubSeq(stack, 1, Left(Len(stack)))
      /\ DismissThenPresenter(v) /\ Len(stack) # 1 =>
           completions' = completions \cup {stack[Len(stack) - 1]}
  <2> DEFINE Goes(i) == stack[i] = v /\ stack' = SubSeq(stack, 1, Left(i))
  <2>1. ASSUME Dismiss(v) PROVE appearing' = TRUE /\ \E i \in DOMAIN stack : Goes(i)
    BY <1>2, <2>1 DEF Dismiss
  <2>2. ASSUME DismissThenPresenter(v)
        PROVE  /\ appearing' = TRUE
               /\ \E i \in DOMAIN stack :
                    /\ Goes(i)
                    /\ completions' = IF i = 1 THEN completions
                                              ELSE completions \cup {stack[i - 1]}
    BY <1>2, <2>2 DEF DismissThenPresenter
  <2>3. appearing' = TRUE /\ stack' = SubSeq(stack, 1, Left(Len(stack)))
    BY <1>3, <2>1, <2>2
  <2>4. ASSUME DismissThenPresenter(v), Len(stack) # 1
        PROVE  completions' = completions \cup {stack[Len(stack) - 1]}
    BY <1>3, <2>2, <2>4
  <2> QED
    BY <2>3, <2>4
<1>5. Left(Len(stack)) = Len(stack) - 1 /\ Len(stack) - 1 \in 0..Len(stack)
  <2> DEFINE n == Len(stack)
  <2>1. n \in Nat /\ n # 0
    BY <1>1
  <2>2. Left(n) = n - 1
    BY <2>1 DEF Left
  <2>3. n - 1 \in 0..n
    <3> HIDE DEF n
    <3> QED
      BY <2>1
  <2> QED
    BY <2>2, <2>3
<1>6. stack' = SubSeq(stack, 1, Len(stack) - 1)
  BY <1>4, <1>5
<1>7. /\ stack' \in Seq(VCs) /\ Len(stack') = Len(stack) - 1
      /\ \A i \in 1..(Len(stack) - 1) : stack'[i] = stack[i]
  BY <1>1, <1>5, <1>6 DEF ScreensInv
<1> QED
  BY <1>4, <1>7

(* A step that leaves the screens and the session alone.                   *)
LEMMA StillPasses ==
    ASSUME ScreensPass,
           UNCHANGED <<stack, appearing, completions, emailLogged, currentUser>>,
           \A k \in Lines : calls[k].step \in Relogins /\ OnTop(calls[k].by) =>
             calls'[k].step \in Relogins /\ calls'[k].by = calls[k].by
    PROVE  ScreensPass'
<1>1. GateShape' /\ FormAlone'
  BY DEF ScreensPass, GateShape, FormAlone, UploadShown, Presented
<1>2. Passing'
  BY DEF ScreensPass, Passing, SignedIn, AtMain, UploadShown, Presented, OnTop
<1> QED
  BY <1>1, <1>2 DEF ScreensPass

(* One chain at a time: none is at its last call while another goes on.    *)
LEMMA NoRelogin ==
    ASSUME LinesInPlace, NEW k \in Lines, Chain(k), calls[k].step \notin Relogins
    PROVE  \A j \in Lines : calls[j].step \notin Relogins
  BY DEF LinesInPlace, OneChain, Chain, Relogins

-----------------------------------------------------------------------------
(* Steps of the user.                                                      *)

(* A touch that reaches AuthVC or SigninVC finds nobody signed in and      *)
(* leaves nobody signed in: the screens keep their shape.                  *)
LEMMA GateTouched ==
    ASSUME ~Overlap, DataTypeOK, SignedInv, SerialInv, UploadSignedIn',
           \/ \E a \in AuthVCs : AuthVCInput(a)
           \/ \E s \in SigninVCs : SigninVCInput(s)
    PROVE  SerialInv'
<1> USE DEF authVars, screenVars, authVCVars
<1>0. /\ ScreensInv /\ CallsTypeOK /\ GateShape /\ LinesInPlace
      /\ emailLogged \in [AuthVCs -> {0, 1}] /\ trap = NoTrap
  BY DEF SignedInv, DataTypeOK, AuthVCTypeOK, SerialInv, ScreensPass, CrashFree
<1>1. ASSUME NEW v \in AuthVCs \cup SigninVCs, OnTop(v), UserMayAct,
             UNCHANGED calls
      PROVE  LinesInPlace'
  BY <1>1, GateAtRest, StaysQuiet DEF Quiet, Free, Idle
<1>2. ASSUME NEW v \in AuthVCs \cup SigninVCs, OnTop(v), UserMayAct,
             UNCHANGED <<stack, appearing, completions, currentUser>>,
             NEW k \in Lines, NEW step \in Asking, NEW e, NEW p,
             Start(k, step, v, e, p)
      PROVE  LinesInPlace'
  <2>1. Quiet /\ Up(v) /\ ~SignedIn
    BY <1>2, GateAtRest
  <2>2. Up(v)' /\ ~SignedIn'
    BY <1>2, <2>1 DEF Up, OnTop, AtMain, SignedIn
  <2>3. /\ calls'[k].step = step /\ calls'[k].by = v
        /\ \A j \in Lines \ {k} : calls'[j] = calls[j]
    BY <1>0, <1>2, StartAt
  <2>4. InPlace(k)'
    BY <2>2, <2>3 DEF InPlace, Asking, Registrations, Relogins
  <2> QED
    BY <2>1, <2>3, <2>4, OneStarts
<1>3. ASSUME NEW a \in AuthVCs, OnTop(a), UNCHANGED stack
      PROVE  GateShape'
  <2>1. Len(stack) = 1 /\ DOMAIN stack = 1..Len(stack) /\ stack[1] \in AuthVCs
    BY <1>0, <1>3, Shapes
  <2> QED
    BY <1>3, <2>1, InstancesAssumption DEF GateShape
<1>4. ASSUME NEW a \in AuthVCs, AuthVCInput(a) PROVE SerialInv'
  <2>1. OnTop(a) /\ UserMayAct /\ UNCHANGED <<stack, appearing, completions, trap>>
    BY <1>4 DEF AuthVCInput, FacebookLogin, GoogleSignIn, FacebookLogout
  <2>2. ~SignedIn
    BY <2>1, GateAtRest
  <2>3. ~SignedIn'
    BY <1>4, <2>2 DEF AuthVCInput, FacebookLogin, GoogleSignIn, FacebookLogout,
                      SignOut, SignedIn
  <2>4. LinesInPlace'
    <3>1. CASE UNCHANGED calls
      BY <1>1, <2>1, <3>1
    <3>2. ASSUME NEW k \in Lines, NEW f, FacebookLogin(a, k, f)
          PROVE  LinesInPlace'
      BY <1>2, <2>1, <3>2 DEF FacebookLogin, Asking
    <3>3. ASSUME NEW k \in Lines, NEW g, GoogleSignIn(a, k, g)
          PROVE  LinesInPlace'
      BY <1>2, <2>1, <3>1, <3>3 DEF GoogleSignIn, Asking
    <3>4. CASE FacebookLogout(a)
      BY <3>1, <3>4 DEF FacebookLogout
    <3> QED
      BY <1>4, <3>2, <3>3, <3>4 DEF AuthVCInput
  <2>5. GateShape'
    BY <1>3, <2>1
  <2> QED
    BY <1>0, <2>1, <2>3, <2>4, <2>5, NobodyPasses DEF SerialInv, CrashFree
<1>5. ASSUME NEW s \in SigninVCs, NEW a \in AuthVCs, OpenSignin(a, s) PROVE SerialInv'
  <2>1. /\ OnTop(a) /\ UserMayAct /\ UNCHANGED <<calls, currentUser, trap>>
        /\ Push(s) /\ emailLogged' = [emailLogged EXCEPT ![a] = 1]
    BY <1>5 DEF OpenSignin, SignInWithEmail
  <2>2. ~SignedIn'
    BY <2>1, GateAtRest DEF SignedIn
  <2>3. LinesInPlace'
    BY <1>1, <2>1
  <2>4. Len(stack) = 1 /\ stack[1] = a
    BY <1>0, <2>1, Shapes DEF OnTop
  <2>5. /\ stack' \in Seq(VCs) /\ Len(stack') = 2
        /\ stack'[1] = a /\ stack'[2] = s
    <3>1. s \in VCs /\ stack \in Seq(VCs) /\ stack' = Append(stack, s)
      BY <1>0, <2>1 DEF Push, ScreensInv, VCs
    <3>2. /\ stack' \in Seq(VCs) /\ Len(stack') = Len(stack) + 1
          /\ \A i \in 1..Len(stack) : stack'[i] = stack[i]
          /\ stack'[Len(stack) + 1] = s
      BY <3>1
    <3> QED
      BY <2>4, <3>2
  <2>6. DOMAIN stack' = {1, 2} /\ emailLogged'[a] = 1
    BY <1>0, <2>1, <2>5
  <2>7. GateShape'
    BY <2>5, <2>6, InstancesAssumption DEF GateShape
  <2> QED
    BY <1>0, <2>1, <2>2, <2>3, <2>7, NobodyPasses DEF SerialInv, CrashFree
<1>6. ASSUME NEW s \in SigninVCs, NEW k \in Lines, PressSignIn(s, k)
      PROVE  SerialInv'
  <2>1. /\ OnTop(s) /\ UserMayAct
        /\ UNCHANGED <<stack, appearing, completions, currentUser, trap, emailLogged>>
    BY <1>6 DEF PressSignIn
  <2>2. ~SignedIn'
    BY <2>1, GateAtRest DEF SignedIn
  <2>3. LinesInPlace'
    BY <1>2, <1>6, <2>1 DEF PressSignIn, Asking
  <2>4. GateShape'
    BY <1>0, <2>1 DEF GateShape
  <2> QED
    BY <1>0, <2>1, <2>2, <2>3, <2>4, NobodyPasses DEF SerialInv, CrashFree
<1>7. ASSUME NEW s \in SigninVCs, Close(s) \/ \E e, p : Edit(s, e, p)
      PROVE  SerialInv'
  <2>1. OnTop(s) /\ UserMayAct /\ UNCHANGED <<calls, currentUser, trap, emailLogged>>
    BY <1>7 DEF Close, Edit
  <2>2. ~SignedIn'
    BY <2>1, GateAtRest DEF SignedIn
  <2>3. LinesInPlace'
    BY <1>1, <2>1
  <2>4. GateShape'
    <3>1. CASE Close(s)
      <4>1. Popped
        BY <1>0, <3>1, DismissPops DEF Close, ScreensInv
      <4> QED
        BY <1>0, <2>1, <4>1, PopShape
    <3>2. CASE UNCHANGED stack
      BY <1>0, <2>1, <3>2 DEF GateShape
    <3> QED
      BY <1>7, <3>1, <3>2 DEF Edit
  <2> QED
    BY <1>0, <2>1, <2>2, <2>3, <2>4, NobodyPasses DEF SerialInv, CrashFree
<1> QED
  BY <1>4, <1>5, <1>6, <1>7 DEF SigninVCInput

(* The car form asks for its upload. *)
LEMMA FormTouched ==
    ASSUME ~Overlap, DataTypeOK, SignedInv, SerialInv,
           NEW u \in UploadVCs, UploadVCInput(u)
    PROVE  SerialInv'
<1> USE DEF authVars, screenVars, authVCVars, uploadVCRest
<1>0. /\ ScreensInv /\ CallsTypeOK /\ GateShape /\ LinesInPlace /\ ScreensPass
      /\ trap = NoTrap
  BY DEF SignedInv, DataTypeOK, SerialInv, ScreensPass, CrashFree
<1>1. PICK k \in Lines : PressDone(u, k) /\ UNCHANGED authVCVars
  BY DEF UploadVCInput
<1>2. /\ OnTop(u) /\ UserMayAct
      /\ UNCHANGED <<stack, appearing, completions, emailLogged, currentUser>>
  BY <1>1 DEF PressDone
<1>3. UploadShown /\ Quiet /\ Up(u)
  BY <1>0, <1>2, Shapes DEF UserMayAct, Settled, Up
<1>4. SignedIn
  BY <1>3 DEF SignedInv, UploadSignedIn
<1>5. Start(k, "upload", u, currentUser, NoPassword) /\ UNCHANGED trap
  BY <1>1, <1>4 DEF PressDone
<1>6. /\ calls'[k].step = "upload" /\ calls'[k].by = u /\ calls'[k].email = currentUser
      /\ \A j \in Lines \ {k} : calls'[j] = calls[j]
  BY <1>0, <1>5, StartAt
<1>7. SignedIn' /\ Up(u)'
  BY <1>2, <1>3, <1>4 DEF SignedIn, Up, OnTop, AtMain
<1>8. InPlace(k)'
  BY <1>2, <1>6, <1>7 DEF InPlace, Asking, Registrations, Relogins
<1>9. LinesInPlace'
  BY <1>3, <1>6, <1>8, OneStarts
<1>10. ScreensPass'
  <2>1. \A j \in Lines : calls[j].step \notin Relogins
    BY <1>3 DEF Quiet, Free, Idle, Relogins
  <2> QED
    BY <1>0, <1>2, <2>1, StillPasses
<1> QED
  BY <1>0, <1>5, <1>9, <1>10 DEF SerialInv, CrashFree

(* The main screens are touched: they stay, or the gate comes up again.    *)
LEMMA MainTouched ==
    ASSUME ~Overlap, DataTypeOK, SignedInv, SerialInv, UploadSignedIn', MainInput
    PROVE  SerialInv'
<1> USE DEF authVars, screenVars, authVCVars, mainRest
<1>0. CallsTypeOK /\ trap = NoTrap
  BY DEF DataTypeOK, SerialInv, CrashFree
<1>1. UserMayAct /\ AtMain
  BY DEF MainInput, SelectFind, OpenMenu, CloseMenu, SignOutWasPressed,
         MenuFacebookLogout, Leave
<1>2. Quiet /\ SignedIn
  BY <1>1 DEF UserMayAct, SignedInv, MainSignedIn
<1>3. UNCHANGED calls => LinesInPlace'
  BY <1>2, StaysQuiet DEF Quiet, Free, Idle
<1>4. ASSUME NEW k \in Lines, SelectFind(k) PROVE SerialInv'
  <2>1. AtMain' /\ UNCHANGED trap
    BY <1>1, <1>4 DEF SelectFind, AtMain
  <2>2. CASE UNCHANGED calls
    BY <1>0, <1>3, <2>1, <2>2, MainPasses DEF SerialInv, CrashFree
  <2>3. ASSUME NEW e, Start(k, "findLogin", MainVC, e, FBPassword)
        PROVE  LinesInPlace'
    <3>1. calls'[k].step = "findLogin" /\ \A j \in Lines \ {k} : calls'[j] = calls[j]
      BY <1>0, <2>3, StartAt
    <3>2. InPlace(k)'
      BY <2>1, <3>1 DEF InPlace, Asking, Registrations, Relogins
    <3> QED
      BY <1>2, <3>1, <3>2, OneStarts
  <2> QED
    BY <1>0, <1>4, <2>1, <2>2, <2>3, MainPasses
       DEF SelectFind, FindVCDidAppear, SerialInv, CrashFree
<1>5. CASE OpenMenu \/ CloseMenu
  <2>1. AtMain' /\ UNCHANGED <<calls, trap>>
    BY <1>1, <1>2, <1>5 DEF OpenMenu, CloseMenu, MenuDidAppear, AtMain
  <2> QED
    BY <1>0, <1>3, <2>1, MainPasses DEF SerialInv, CrashFree
<1>6. ASSUME NEW a \in AuthVCs, Leave(a) PROVE SerialInv'
  <2>1. ~SignedIn' /\ UNCHANGED <<calls, trap>> /\ Push(a)
    BY <1>6 DEF Leave, SignOut, SignedIn
  <2>2. stack' = <<a>>
    BY <1>1, <2>1 DEF Push, AtMain
  <2> QED
    BY <1>0, <1>3, <2>1, <2>2, GateAlone, NobodyPasses DEF SerialInv, CrashFree
<1> QED
  BY <1>4, <1>5, <1>6 DEF MainInput, SignOutWasPressed, MenuFacebookLogout

-----------------------------------------------------------------------------
(* Steps of the calls' closures.                                           *)

\* What the steps below need of SessionInv and of SerialInv.
LEMMA SerialParts ==
    ASSUME DataTypeOK, SignedInv, SerialInv
    PROVE  /\ ScreensInv /\ CallsTypeOK /\ GateShape /\ LinesInPlace /\ ScreensPass
           /\ FormAlone /\ trap = NoTrap /\ currentUser \in MaybeEmail
           /\ \A k \in Lines : calls[k] \in Call \cup {Idle} /\ InPlace(k)
  BY DEF SignedInv, DataTypeOK, CallsTypeOK, FirebaseTypeOK, SerialInv, ScreensPass,
         CrashFree, LinesInPlace

(* The server's part of a registration shows nowhere in the app.           *)
LEMMA ServeSerial ==
    ASSUME DataTypeOK, SignedInv, SerialInv, NEW k \in Lines, ServeRegistration(k),
           UNCHANGED authVCVars
    PROVE  SerialInv'
<1> USE DEF screenVars, authVCVars
<1>1. UNCHANGED <<stack, appearing, completions, trap, emailLogged, currentUser>>
  BY DEF ServeRegistration
<1>2. /\ calls'[k].step = calls[k].step /\ calls'[k].by = calls[k].by
      /\ calls'[k].email = calls[k].email
      /\ \A j \in Lines \ {k} : calls'[j] = calls[j]
  BY SerialParts, ServeAt
<1>3. Chain(k)
  BY DEF ServeRegistration, Registrations, Chain
<1>4. InPlace(k)'
  BY <1>1, <1>2, SerialParts DEF InPlace, Up, OnTop, AtMain, Presented, SignedIn
<1>5. LinesInPlace'
  BY <1>1, <1>2, <1>3, <1>4, SerialParts, ChainMoves DEF AtMain
<1>6. ScreensPass'
  BY <1>1, <1>2, SerialParts, StillPasses
<1> QED
  BY <1>1, <1>5, <1>6, SerialParts DEF SerialInv, CrashFree

(* A question is answered without anybody signing in: the chain asks on,   *)
(* or ends.                                                                *)
LEMMA AskedInVain ==
    ASSUME DataTypeOK, SignedInv, SerialInv, UploadSignedIn',
           NEW k \in Lines, calls[k].step \in Asking,
           UNCHANGED <<stack, appearing, completions, trap, emailLogged, currentUser>>,
           \/ Finish(k)
           \/ \E step \in Asking \cup Registrations : \E e, p :
                Start(k, step, calls[k].by, e, p)
    PROVE  SerialInv'
<1>1. Up(calls[k].by) /\ ~SignedIn
  BY SerialParts DEF InPlace
<1>2. Up(calls[k].by)' \/ Finish(k)
  <2>1. ASSUME NEW step, NEW e, NEW p, Start(k, step, calls[k].by, e, p)
        PROVE  Up(calls[k].by)'
    BY <1>1, <2>1, SerialParts, StartAt DEF Up, OnTop, AtMain
  <2> QED
    BY <2>1
<1>3. /\ \/ calls'[k].step \in Asking \cup Registrations
         \/ calls'[k].step = "idle"
      /\ \A j \in Lines \ {k} : calls'[j] = calls[j]
  BY SerialParts, StartAt, FinishAt
<1>4. ~SignedIn' /\ (AtMain => AtMain')
  BY <1>1 DEF SignedIn, AtMain
<1>5. InPlace(k)'
  <2>1. CASE Finish(k)
    BY <2>1, SerialParts, FinishAt DEF InPlace, Asking, Registrations, Relogins
  <2>2. CASE ~Finish(k)
    BY <1>2, <1>3, <1>4, <2>2 DEF InPlace, Asking, Registrations, Relogins
  <2> QED
    BY <2>1, <2>2
<1>6. Chain(k)
  BY DEF Chain, Asking
<1>7. LinesInPlace'
  BY <1>3, <1>4, <1>5, <1>6, SerialParts, ChainMoves
<1>8. GateShape'
  BY SerialParts DEF GateShape
<1> QED
  BY <1>4, <1>7, <1>8, SerialParts, NobodyPasses DEF SerialInv, CrashFree

(* A login succeeds: AuthVC goes, or SigninVC goes and AuthVC is to follow.*)
LEMMA LoggedIn ==
    ASSUME DataTypeOK, SignedInv, SerialInv, SignedIn', NEW k \in Lines,
           UNCHANGED <<trap, emailLogged>>,
           \/ calls[k].step = "socialLogin" /\ Dismiss(calls[k].by)
           \/ calls[k].step = "login" /\ DismissThenPresenter(calls[k].by),
           \E step \in Registrations : \E e, p : Start(k, step, calls[k].by, e, p)
    PROVE  SerialInv'
<1> DEFINE v == calls[k].by
<1>0. Up(v) /\ OnTop(v) /\ ~SignedIn /\ Chain(k) /\ ~AtMain
  BY SerialParts DEF InPlace, Asking, Chain, Up, OnTop
<1>1. v \in VCs /\ (calls[k].step = "socialLogin" => v \in AuthVCs)
                /\ (calls[k].step = "login" => v \in SigninVCs)
  BY SerialParts, CallFacts DEF SocialSteps, EmailSteps, VCs
<1>2. /\ calls'[k].step \in Registrations /\ calls'[k].by = v
      /\ \A j \in Lines \ {k} : calls'[j] = calls[j]
  BY SerialParts, StartAt
<1>3. /\ appearing' = TRUE /\ Len(stack') = Len(stack) - 1 /\ stack' \in Seq(VCs)
      /\ \A i \in 1..(Len(stack) - 1) : stack'[i] = stack[i]
      /\ DismissThenPresenter(v) /\ Len(stack) # 1 =>
           completions' = completions \cup {stack[Len(stack) - 1]}
  BY <1>0, <1>1, SerialParts, TopDismissed
<1>4. stack[1] \in AuthVCs /\ GateShape'
  <2>1. Popped
    BY <1>0, <1>1, SerialParts, DismissPops DEF ScreensInv
  <2> QED
    BY <1>0, <2>1, SerialParts, Shapes, PopShape
<1>5. ~Presented(v)' /\ ScreensPass'
  <2>1. CASE calls[k].step = "socialLogin"
    <3>1. Len(stack) = 1
      BY <1>0, <1>1, <2>1, SerialParts, Shapes
    <3>2. AtMain'
      BY <1>3, <3>1 DEF AtMain
    <3> QED
      BY <3>2, MainPasses DEF AtMain, Presented
  <2>2. CASE calls[k].step = "login"
    <3>1. Len(stack) = 2
      BY <1>0, <1>1, <2>2, SerialParts, Shapes
    <3>2. /\ Len(stack') = 1 /\ DOMAIN stack' = {1} /\ stack'[1] = stack[1]
          /\ stack[1] \in completions'
      BY <1>3, <2>2, <3>1
    <3>3. ~UploadShown' /\ ~Presented(v)'
      BY <1>1, <1>2, <1>4, <2>2, <3>2, InstancesAssumption DEF UploadShown, Presented
    <3> QED
      BY <1>4, <3>2, <3>3 DEF ScreensPass, Passing, FormAlone
  <2> QED
    BY <2>1, <2>2
<1>6. InPlace(k)'
  BY <1>2, <1>5 DEF InPlace, Asking, Registrations, Relogins
<1>7. LinesInPlace'
  BY <1>0, <1>2, <1>6, SerialParts, ChainMoves
<1> QED
  BY <1>5, <1>7, SerialParts DEF SerialInv, CrashFree

(* A registration is answered: the new account is signed in and logged in  *)
(* again, or the chain ends.                                               *)
LEMMA Registered ==
    ASSUME DataTypeOK, SignedInv, SerialInv, NEW k \in Lines,
           calls[k].step \in Registrations,
           UNCHANGED <<stack, appearing, completions, trap, emailLogged>>,
           \/ UNCHANGED currentUser /\ Finish(k)
           \/ /\ SignedIn'
              /\ \E step \in Relogins : \E e, p : Start(k, step, calls[k].by, e, p)
    PROVE  SerialInv'
<1> DEFINE v == calls[k].by
<1>0. Chain(k) /\ (AtMain => AtMain')
  BY DEF Chain, Registrations, AtMain
<1>1. \A j \in Lines : calls[j].step \notin Relogins
  BY <1>0, SerialParts, NoRelogin DEF Registrations, Relogins
<1>2. \/ ~Presented(v) /\ SignedIn
      \/ Up(v) /\ ~SignedIn
  BY SerialParts DEF InPlace
<1>3. GateShape' /\ FormAlone'
  BY SerialParts DEF GateShape, FormAlone, UploadShown, Presented
<1>4. CASE UNCHANGED currentUser /\ Finish(k)
  <2>1. calls'[k].step = "idle" /\ \A j \in Lines \ {k} : calls'[j] = calls[j]
    BY <1>4, SerialParts, FinishAt
  <2>2. InPlace(k)'
    BY <2>1 DEF InPlace, Asking, Registrations, Relogins
  <2>3. LinesInPlace'
    BY <1>0, <2>1, <2>2, SerialParts, ChainMoves
  <2>4. ScreensPass'
    BY <1>1, <1>4, SerialParts, StillPasses
  <2> QED
    BY <2>3, <2>4, SerialParts DEF SerialInv, CrashFree
<1>5. ASSUME SignedIn', NEW step \in Relogins, NEW e, NEW p, Start(k, step, v, e, p)
      PROVE  SerialInv'
  <2>1. /\ calls'[k].step \in Relogins /\ calls'[k].by = v
        /\ \A j \in Lines \ {k} : calls'[j] = calls[j]
    BY <1>5, SerialParts, StartAt
  <2>2. /\ ~Presented(v) => ~Presented(calls[k].by)'
        /\ Up(v) => Up(v)' /\ OnTop(v)'
    BY <2>1 DEF Presented, Up, OnTop, AtMain
  <2>3. InPlace(k)'
    BY <1>2, <1>5, <2>1, <2>2 DEF InPlace, Asking, Registrations, Relogins
  <2>4. LinesInPlace'
    BY <1>0, <2>1, <2>3, SerialParts, ChainMoves
  <2>5. Passing'
    <3>1. CASE Up(v)
      BY <2>1, <2>2, <3>1 DEF Passing
    <3>2. CASE SignedIn
      BY <1>1, <3>2, SerialParts DEF ScreensPass, Passing, AtMain, UploadShown, Presented
    <3> QED
      BY <1>2, <3>1, <3>2
  <2> QED
    BY <1>3, <2>4, <2>5, SerialParts DEF SerialInv, ScreensPass, CrashFree
<1> QED
  BY <1>4, <1>5

(* The last login of a registration: the car form comes up over whoever    *)
(* asked for it, if they are still there.                                  *)
LEMMA Relogged ==
    ASSUME DataTypeOK, SignedInv, SerialInv, NEW k \in Lines,
           calls[k].step \in Relogins, SignedIn', UNCHANGED emailLogged,
           PresentUpload(calls[k].by), Finish(k)
    PROVE  SerialInv'
<1> USE DEF screenVars
<1> DEFINE v == calls[k].by
<1>0. Chain(k) /\ SignedIn /\ (~Presented(v) \/ Up(v))
  BY SerialParts DEF InPlace, Chain, Relogins
<1>1. calls'[k].step = "idle" /\ \A j \in Lines \ {k} : calls'[j] = calls[j]
  BY SerialParts, FinishAt
<1>2. InPlace(k)'
  BY <1>1 DEF InPlace, Asking, Registrations, Relogins
<1>3. LinesInPlace'
  <2>1. AtMain => AtMain'
    BY DEF PresentUpload, OnTop, AtMain
  <2> QED
    BY <1>0, <1>1, <1>2, <2>1, SerialParts, ChainMoves
<1>4. CASE ~OnTop(v)
  <2>1. UNCHANGED <<stack, appearing, completions, trap>>
    BY <1>4 DEF PresentUpload
  <2>2. \A j \in Lines : calls[j].step \in Relogins => ~OnTop(calls[j].by)
    BY <1>4, SerialParts DEF LinesInPlace, OneChain, Chain, Relogins
  <2>3. ScreensPass'
    BY <1>0, <2>1, <2>2, SerialParts
       DEF ScreensPass, GateShape, Passing, FormAlone, AtMain, UploadShown, Presented
  <2> QED
    BY <1>3, <2>1, <2>3, SerialParts DEF SerialInv, CrashFree
<1>5. CASE OnTop(v)
  <2>1. PICK u \in UploadVCs : Push(u) /\ UNCHANGED trap
    BY <1>5 DEF PresentUpload, SignedIn
  <2>2. completions' = {}
    <3>1. Presented(v)
      BY <1>5, SerialParts, Shapes
    <3> QED
      BY <1>0, <2>1, <3>1 DEF Up, Push
  <2>3. /\ Len(stack) \in Nat \ {0} /\ DOMAIN stack = 1..Len(stack)
        /\ stack \in Seq(VCs) /\ u \in VCs
    BY <1>5, SerialParts, Shapes DEF ScreensInv, VCs
  <2>4. /\ DOMAIN stack' = 1..(Len(stack) + 1)
        /\ \A i \in 1..Len(stack) : stack'[i] = stack[i]
        /\ stack'[Len(stack) + 1] = u
    BY <2>1, <2>3 DEF Push
  <2>5. UploadShown' /\ 1 \in 1..Len(stack)
    <3>1. Len(stack) + 1 \in DOMAIN stack' /\ 1 \in 1..Len(stack)
      BY <2>3, <2>4
    <3> QED
      BY <2>4, <3>1 DEF UploadShown, Presented
  <2>6. GateShape'
    <3> SUFFICES ASSUME NEW i \in DOMAIN stack'
                 PROVE  /\ stack'[i] \in AuthVCs => i = 1
                        /\ stack'[i] \in SigninVCs => i = 2 /\ emailLogged'[stack'[1]] = 1
      BY DEF GateShape
    <3>1. CASE i \in 1..Len(stack)
      BY <2>3, <2>4, <2>5, <3>1, SerialParts DEF GateShape
    <3>2. CASE i = Len(stack) + 1
      BY <2>4, <3>2, InstancesAssumption
    <3>3. i \in 1..Len(stack) \/ i = Len(stack) + 1
      BY <2>3, <2>4
    <3> QED
      BY <3>1, <3>2, <3>3
  <2>7. ScreensPass'
    BY <2>2, <2>5, <2>6 DEF ScreensPass, Passing, FormAlone
  <2> QED
    BY <1>3, <2>1, <2>7, SerialParts DEF SerialInv, CrashFree
<1> QED
  BY <1>4, <1>5

(* The car form's snapshot arrives: it leaves, and AuthVC or SigninVC is   *)
(* to follow; without a record it stays.                                   *)
LEMMA Uploaded ==
    ASSUME DataTypeOK, SignedInv, SerialInv, NEW k \in Lines, UploadDone(k),
           UNCHANGED authVCVars
    PROVE  SerialInv'
<1> USE DEF authVars, screenVars, authVCVars
<1> DEFINE u == calls[k].by
<1>0. Chain(k) /\ SignedIn /\ OnTop(u) /\ u \in UploadVCs /\ ~AtMain
  <2>1. calls[k].step = "upload"
    BY DEF UploadDone
  <2> QED
    BY <2>1, SerialParts, CallFacts DEF InPlace, Chain, Up, OnTop
<1>1. calls'[k].step = "idle" /\ \A j \in Lines \ {k} : calls'[j] = calls[j]
  BY SerialParts, FinishAt DEF UploadDone
<1>2. InPlace(k)'
  BY <1>1 DEF InPlace, Asking, Registrations, Relogins
<1>3. LinesInPlace'
  BY <1>0, <1>1, <1>2, SerialParts, ChainMoves
<1>4. UNCHANGED <<trap, emailLogged, currentUser>>
  BY <1>0 DEF UploadDone
<1>5. CASE UNCHANGED <<stack, appearing, completions>>
  <2>1. calls[k].step \notin Relogins
    BY DEF UploadDone, Relogins
  <2>2. ScreensPass'
    BY <1>0, <1>4, <1>5, <2>1, SerialParts, NoRelogin, StillPasses
  <2> QED
    BY <1>3, <1>4, <2>2, SerialParts DEF SerialInv, CrashFree
<1>6. CASE DismissThenPresenter(u)
  <2>1. /\ appearing' = TRUE /\ Len(stack') = Len(stack) - 1 /\ stack' \in Seq(VCs)
        /\ \A i \in 1..(Len(stack) - 1) : stack'[i] = stack[i]
        /\ Len(stack) # 1 => completions' = completions \cup {stack[Len(stack) - 1]}
    BY <1>0, <1>6, SerialParts, TopDismissed DEF VCs
  <2>2. GateShape'
    <3>1. Popped
      BY <1>6, SerialParts, DismissPops DEF ScreensInv
    <3> QED
      BY <1>4, <3>1, SerialParts, PopShape
  <2>3. /\ stack[1] \in AuthVCs
        /\ Len(stack) = 2 \/ (Len(stack) = 3 /\ stack[2] \in SigninVCs)
    BY <1>0, SerialParts, Shapes
  <2>4. CASE Len(stack) = 2
    <3>1. /\ Len(stack') = 1 /\ DOMAIN stack' = {1} /\ stack'[1] = stack[1]
          /\ stack[1] \in completions'
      BY <2>1, <2>4
    <3>2. ~UploadShown'
      BY <2>3, <3>1, InstancesAssumption DEF UploadShown, Presented
    <3> QED
      BY <1>3, <1>4, <2>2, <3>1, <3>2, SerialParts
         DEF SerialInv, ScreensPass, Passing, FormAlone, CrashFree
  <2>5. CASE Len(stack) = 3 /\ stack[2] \in SigninVCs
    <3>1. /\ Len(stack') = 2 /\ DOMAIN stack' = {1, 2} /\ stack'[1] = stack[1]
          /\ stack'[2] = stack[2]
      BY <2>1, <2>5
    <3>2. ~UploadShown'
      BY <2>3, <2>5, <3>1, InstancesAssumption DEF UploadShown, Presented
    <3> QED
      BY <1>3, <1>4, <2>1, <2>2, <2>5, <3>1, <3>2, SerialParts
         DEF SerialInv, ScreensPass, Passing, FormAlone, CrashFree
  <2> QED
    BY <2>3, <2>4, <2>5
<1> QED
  BY <1>0, <1>5, <1>6 DEF UploadDone

(* Every answer. *)
LEMMA Answered ==
    ASSUME DataTypeOK, SignedInv, CreatedKnown, SerialInv, UploadSignedIn',
           NEW k \in Lines, Progress(k)
    PROVE  SerialInv'
<1> USE DEF authVars, screenVars, authVCVars, authVCRest, signinVCRest,
            uploadVCRest, mainRest
<1>0. ASSUME NEW e, NEW p, SignInSucceeds(e, p) PROVE SignedIn'
  BY <1>0, EmailsAssumption DEF SignInSucceeds, Accepts, SignedIn
<1>1. CASE ServeRegistration(k) /\ UNCHANGED uploadVCRest
  BY <1>1, ServeSerial
<1>2. CASE GraphDone(k) /\ UNCHANGED authVCRest
  BY <1>2, AskedInVain DEF GraphDone, Asking
<1>3. CASE SocialLoginDone(k) /\ UNCHANGED authVCRest
  <2>1. CASE SignInSucceeds(calls[k].email, calls[k].password) /\ Dismiss(calls[k].by)
    BY <1>0, <1>3, <2>1, LoggedIn DEF SocialLoginDone, Registrations
  <2>2. CASE UNCHANGED <<authVars, screenVars>>
    BY <1>3, <2>2, AskedInVain DEF SocialLoginDone, Registrations, Asking
  <2> QED
    BY <1>3, <2>1, <2>2 DEF SocialLoginDone, SignInFails
<1>4. CASE \/ SocialRegisterDone(k) /\ UNCHANGED authVCRest
           \/ RegisterDone(k) /\ UNCHANGED signinVCRest
  <2>1. ASSUME calls[k].answer = "created", RegistrationSucceeds(calls[k].email)
        PROVE  SignedIn'
    BY <2>1, EmailsAssumption DEF CreatedKnown, RegistrationSucceeds, SignedIn
  <2> QED
    BY <1>4, <2>1, Registered DEF SocialRegisterDone, RegisterDone, Registrations, Relogins
<1>5. CASE \/ SocialReloginDone(k) /\ UNCHANGED authVCRest
           \/ ReloginDone(k) /\ UNCHANGED signinVCRest
  <2>1. calls[k].step \in Relogins
    BY <1>5 DEF SocialReloginDone, ReloginDone, Relogins
  <2>2. SignedIn
    BY <2>1, SerialParts DEF InPlace
  <2>3. SignedIn'
    BY <1>0, <1>5, <2>2 DEF SocialReloginDone, ReloginDone, SignInFails, SignedIn
  <2> QED
    BY <1>5, <2>1, <2>3, Relogged DEF SocialReloginDone, ReloginDone
<1>6. CASE LoginDone(k) /\ UNCHANGED signinVCRest
  <2>1. CASE /\ SignInSucceeds(calls[k].email, calls[k].password)
             /\ DismissThenPresenter(calls[k].by)
    BY <1>0, <1>6, <2>1, LoggedIn DEF LoginDone, Registrations
  <2>2. CASE UNCHANGED <<authVars, screenVars>>
    BY <1>6, <2>2, AskedInVain DEF LoginDone, Registrations, Asking
  <2> QED
    BY <1>6, <2>1, <2>2 DEF LoginDone, SignInFails
<1>7. CASE UploadDone(k) /\ UNCHANGED uploadVCRest
  BY <1>7, Uploaded
<1>8. CASE FindLoginDone(k) /\ UNCHANGED mainRest
  <2>1. AtMain
    BY <1>8, SerialParts DEF FindLoginDone, InPlace
  <2>2. AtMain' /\ UNCHANGED <<stack, trap>>
    BY <1>8, <2>1 DEF FindLoginDone, AtMain
  <2>3. SignedIn => SignedIn'
    BY <1>0, <1>8 DEF FindLoginDone, SignInFails, SignedIn
  <2>4. calls'[k].step = "idle" /\ \A j \in Lines \ {k} : calls'[j] = calls[j]
    BY <1>8, SerialParts, FinishAt DEF FindLoginDone
  <2>5. LinesInPlace'
    BY <2>1, <2>2, <2>3, <2>4, SerialParts, ChainWaits DEF Presented
  <2> QED
    BY <2>2, <2>5, SerialParts, MainPasses DEF SerialInv, CrashFree
<1> QED
  BY <1>1, <1>2, <1>3, <1>4, <1>5, <1>6, <1>7, <1>8 DEF Progress

-----------------------------------------------------------------------------
(* Steps of UIKit and of the process.                                      *)

(* AuthVC or SigninVC appears: it leaves at once when it has to.           *)
LEMMA GateAppears ==
    ASSUME DataTypeOK, SignedInv, SerialInv, UploadSignedIn',
           \/ \E a \in AuthVCs : AuthVCDidAppear(a)
           \/ \E s \in SigninVCs : SigninVCDidAppear(s)
    PROVE  SerialInv'
<1> USE DEF authVars, screenVars, authVCVars
<1>1. PICK v \in AuthVCs \cup SigninVCs :
        /\ OnTop(v)
        /\ \/ AuthVCDidAppear(v) /\ v \in AuthVCs
           \/ SigninVCDidAppear(v) /\ v \in SigninVCs
  BY DEF AuthVCDidAppear, SigninVCDidAppear
<1>2. /\ appearing /\ ~AtMain /\ v \in VCs
      /\ UNCHANGED <<calls, trap, currentUser, emailLogged>>
      /\ Dismiss(v) \/ UNCHANGED <<stack, completions>>
  BY <1>1 DEF AuthVCDidAppear, SigninVCDidAppear, OnTop, VCs
<1>3. /\ Len(stack) \in Nat \ {0} /\ DOMAIN stack = 1..Len(stack) /\ stack[1] \in AuthVCs
      /\ v \in AuthVCs => Len(stack) = 1 /\ ~UploadShown
      /\ v \in SigninVCs => Len(stack) = 2 /\ ~UploadShown /\ emailLogged[stack[1]] = 1
  BY <1>1, SerialParts, Shapes
<1>4. Popped
  <2>1. CASE Dismiss(v)
    BY <2>1, SerialParts, DismissPops DEF ScreensInv
  <2>2. CASE UNCHANGED stack
    <3>1. stack = SubSeq(stack, 1, Len(stack)) /\ Len(stack) \in 0..Len(stack)
      BY SerialParts, <1>3 DEF ScreensInv
    <3> QED
      BY <2>2, <3>1 DEF Popped
  <2> QED
    BY <1>2, <2>1, <2>2
<1>5. GateShape' /\ ScreensInv' /\ (UploadShown' => UploadShown)
  BY <1>2, <1>4, SerialParts, PopShape, PopKeeps
<1>6. LinesInPlace'
  <2>1. \A w \in VCs : Presented(w)' => Presented(w)
    <3>1. PICK n \in 0..Len(stack) : stack' = SubSeq(stack, 1, n)
      BY <1>4 DEF Popped
    <3>2. \A i \in DOMAIN stack' : i \in DOMAIN stack /\ stack'[i] = stack[i]
      BY <3>1, SerialParts DEF ScreensInv
    <3> QED
      BY <3>2 DEF Presented
  <2> QED
    BY <1>2, <2>1, SerialParts, ChainWaits DEF SignedIn
<1>7. ~UploadShown /\ ~UploadShown'
  BY <1>1, <1>3, <1>5
<1>8. ASSUME Dismiss(v)
      PROVE  /\ appearing' = TRUE /\ Len(stack') = Len(stack) - 1 /\ stack' \in Seq(VCs)
             /\ \A i \in 1..(Len(stack) - 1) : stack'[i] = stack[i]
  BY <1>1, <1>2, <1>8, SerialParts, TopDismissed
<1>9. CASE AuthVCDidAppear(v) /\ v \in AuthVCs
  <2>1. CASE Leaves(v)
    <3>1. Dismiss(v)
      BY <1>9, <2>1 DEF AuthVCDidAppear
    <3>2. AtMain'
      BY <1>3, <1>8, <1>9, <3>1 DEF AtMain
    <3> QED
      BY <1>2, <1>6, <3>2, SerialParts, MainPasses DEF SerialInv, CrashFree
  <2>2. CASE ~Leaves(v)
    <3>1. UNCHANGED <<stack, completions>> /\ Len(stack) = 1 /\ stack[1] = v
      BY <1>1, <1>3, <1>9, <2>2 DEF AuthVCDidAppear, OnTop
    <3>2. SignedIn => emailLogged[stack[1]] # 1
      BY <2>2, <3>1 DEF Leaves
    <3>3. Passing'
      BY <1>2, <1>7, <3>1, <3>2, SerialParts
         DEF ScreensPass, Passing, AtMain, SignedIn, OnTop
    <3> QED
      BY <1>2, <1>5, <1>6, <1>7, <3>3, SerialParts
         DEF SerialInv, ScreensPass, FormAlone, CrashFree
  <2> QED
    BY <2>1, <2>2
<1>10. CASE SigninVCDidAppear(v) /\ v \in SigninVCs
  <2>1. CASE SignedIn
    <3>1. Dismiss(v)
      BY <1>10, <2>1 DEF SigninVCDidAppear
    <3>0. Len(stack) = 2 /\ emailLogged[stack[1]] = 1
      BY <1>3, <1>10
    <3>2. /\ Len(stack') = 1 /\ appearing' /\ stack'[1] = stack[1]
          /\ emailLogged'[stack[1]] = 1
      BY <1>2, <1>8, <3>0, <3>1
    <3>3. Passing'
      BY <3>2 DEF Passing
    <3> QED
      BY <1>2, <1>5, <1>6, <1>7, <3>3, SerialParts
         DEF SerialInv, ScreensPass, FormAlone, CrashFree
  <2>2. CASE ~SignedIn
    <3>1. ~SignedIn'
      BY <1>2, <2>2 DEF SignedIn
    <3> QED
      BY <1>2, <1>5, <1>6, <3>1, SerialParts, NobodyPasses DEF SerialInv, CrashFree
  <2> QED
    BY <2>1, <2>2
<1> QED
  BY <1>1, <1>9, <1>10

(* A completion block runs: it takes AuthVC away, or finds nothing to take.*)
LEMMA CompletionRuns ==
    ASSUME DataTypeOK, SignedInv, SerialInv, NEW v \in completions, RunCompletion(v),
           UNCHANGED <<calls, currentUser, emailLogged>>
    PROVE  SerialInv'
<1> USE DEF screenVars
<1>1. /\ completions # {} /\ ~appearing /\ SignedIn /\ ~UploadShown
      /\ completions' = completions \ {v} /\ UNCHANGED trap /\ v \in VCs
  BY SerialParts DEF RunCompletion, SignedInv, CompletionsSignedIn, FormAlone, DataTypeOK
<1>2. \A k \in Lines : calls[k].step \in Relogins => ~OnTop(calls[k].by)
  <2> SUFFICES ASSUME NEW k \in Lines, calls[k].step \in Relogins, OnTop(calls[k].by)
               PROVE  FALSE
    OBVIOUS
  <2>1. Presented(calls[k].by)
    BY SerialParts, Shapes
  <2> QED
    BY <1>1, <2>1, SerialParts DEF InPlace, Up
<1>3. ~AtMain => Len(stack) = 1 /\ stack[1] \in completions
  BY <1>1, <1>2, SerialParts DEF ScreensPass, Passing
<1>4. Popped
  BY SerialParts, DismissPops DEF ScreensInv
<1>5. GateShape' /\ ~UploadShown'
  BY <1>1, <1>4, SerialParts, PopShape, PopKeeps
<1>6. CASE UNCHANGED <<stack, appearing>> /\ ~Presented(v)
  <2>1. ~AtMain => stack[1] # v
    <3>1. Len(stack) = 1 => 1 \in DOMAIN stack
      BY SerialParts DEF ScreensInv
    <3> QED
      BY <1>3, <1>6, <3>1 DEF Presented
  <2>2. ScreensPass'
    BY <1>1, <1>3, <1>5, <1>6, <2>1
       DEF ScreensPass, Passing, FormAlone, AtMain
  <2>3. LinesInPlace'
    BY <1>1, <1>6, SerialParts, ChainWaits DEF AtMain, Presented, SignedIn
  <2> QED
    BY <1>1, <2>2, <2>3, SerialParts DEF SerialInv, CrashFree
<1>7. ASSUME NEW i \in DOMAIN stack, stack[i] = v, stack' = SubSeq(stack, 1, Left(i))
      PROVE  SerialInv'
  <2>1. Len(stack) = 1 /\ DOMAIN stack = 1..Len(stack)
    BY <1>3, <1>7, SerialParts DEF AtMain, ScreensInv
  <2>2. Left(i) = 0
    BY <2>1 DEF Left
  <2>3. AtMain'
    BY <1>7, <2>2, SerialParts DEF AtMain, ScreensInv
  <2>4. \A w \in VCs : ~Presented(w)'
    BY <2>3 DEF AtMain, Presented
  <2>5. LinesInPlace'
    BY <1>1, <2>3, <2>4, SerialParts, ChainWaits DEF SignedIn
  <2> QED
    BY <1>1, <2>3, <2>5, SerialParts, MainPasses DEF SerialInv, CrashFree
<1> QED
  BY <1>6, <1>7 DEF RunCompletion

(* The car form appears. *)
LEMMA FormAppears ==
    ASSUME DataTypeOK, SignedInv, SerialInv, NEW u \in UploadVCs, UploadVCDidAppear(u),
           UNCHANGED authVCVars
    PROVE  SerialInv'
<1> USE DEF authVars, screenVars, authVCVars
<1>1. /\ appearing /\ OnTop(u) /\ appearing' = FALSE
      /\ UNCHANGED <<calls, trap, currentUser, emailLogged, stack, completions>>
  BY DEF UploadVCDidAppear
<1>2. UploadShown
  BY <1>1, SerialParts, Shapes
<1>3. LinesInPlace'
  BY <1>1, SerialParts, ChainWaits DEF AtMain, Presented, SignedIn
<1>4. ScreensPass'
  BY <1>1, <1>2, SerialParts
     DEF ScreensPass, GateShape, Passing, FormAlone, UploadShown, Presented
<1> QED
  BY <1>1, <1>3, <1>4, SerialParts DEF SerialInv, CrashFree

(* The main screens appear. *)
LEMMA MainAppears ==
    ASSUME DataTypeOK, SignedInv, SerialInv, NEW k \in Lines, MainDidAppear(k)
    PROVE  SerialInv'
<1> USE DEF authVars, screenVars, authVCVars
<1>1. AtMain /\ SignedIn /\ UNCHANGED <<currentUser, stack>>
  BY DEF MainDidAppear, SignedInv, MainSignedIn
<1>2. AtMain' /\ UNCHANGED trap
  BY <1>1, SerialParts DEF MainDidAppear, MenuDidAppear, AtMain
<1>3. \A j \in Lines : \/ calls'[j] = calls[j]
                       \/ ~Chain(j) /\ calls'[j].step = "findLogin"
  <2>1. ASSUME NEW e, Free(k), Start(k, "findLogin", MainVC, e, FBPassword)
        PROVE  /\ ~Chain(k) /\ calls'[k].step = "findLogin"
               /\ \A j \in Lines \ {k} : calls'[j] = calls[j]
    BY <2>1, SerialParts, StartAt DEF Free, Idle, Chain
  <2> QED
    BY <2>1 DEF MainDidAppear, FindVCDidAppear
<1>4. LinesInPlace'
  BY <1>1, <1>2, <1>3, SerialParts, ChainWaits DEF Presented, SignedIn
<1> QED
  BY <1>2, <1>4, SerialParts, MainPasses DEF SerialInv, CrashFree

(* The process dies and is launched again. *)
LEMMA Relaunched ==
    ASSUME UploadSignedIn', Relaunch
    PROVE  SerialInv'
<1>1. LinesInPlace'
  BY StaysQuiet DEF Relaunch, Idle
<1>2. CASE currentUser = NoEmail
  <2>1. PICK a \in AuthVCs : stack' = <<a>>
    BY <1>2 DEF Relaunch, LaunchWith
  <2>2. ~SignedIn'
    BY <1>2 DEF Relaunch, SignedIn, authVars
  <2> QED
    BY <1>1, <2>1, <2>2, GateAlone, NobodyPasses DEF Relaunch, SerialInv, CrashFree
<1>3. CASE currentUser # NoEmail
  <2>1. AtMain'
    BY <1>3 DEF Relaunch, LaunchWith, AtMain
  <2> QED
    BY <1>1, <2>1, MainPasses DEF Relaunch, SerialInv, CrashFree
<1> QED
  BY <1>2, <1>3

(* Every step keeps the serial invariant. *)
LEMMA SerialStep ==
    ASSUME ~Overlap, SessionInv, SessionInv', SerialInv, [Next]_vars
    PROVE  SerialInv'
<1>1. DataTypeOK /\ SignedInv /\ CreatedKnown /\ UploadSignedIn'
  BY Parts DEF SessionInv
<1>2. CASE User
  BY <1>1, <1>2, GateTouched, FormTouched, MainTouched DEF User
<1>3. ASSUME NEW k \in Lines, Progress(k) PROVE SerialInv'
  BY <1>1, <1>3, Answered
<1>4. CASE Transition
  BY <1>1, <1>4, GateAppears, FormAppears, MainAppears, CompletionRuns
     DEF Transition, uploadVCRest, authVars, authVCVars
<1>5. CASE Relaunch
  BY <1>1, <1>5, Relaunched
<1>6. CASE UNCHANGED vars
  <2>1. UNCHANGED <<calls, stack, appearing, completions, emailLogged, currentUser, trap>>
    BY <1>6 DEF vars, screenVars, authVars, authVCVars
  <2>2. LinesInPlace'
    BY <1>1, <2>1, SerialParts
       DEF LinesInPlace, OneChain, Chain, InPlace, Up, OnTop, AtMain, Presented, SignedIn
  <2>3. ScreensPass'
    BY <1>1, <2>1, SerialParts, StillPasses
  <2> QED
    BY <1>1, <2>1, <2>2, <2>3, SerialParts DEF SerialInv, CrashFree
<1> QED
  BY <1>2, <1>3, <1>4, <1>5, <1>6 DEF Next

(* The app just installed satisfies it. *)
LEMMA SerialInit ==
    ASSUME Init
    PROVE  SerialInv
<1>1. \A k \in Lines : calls[k].step = "idle"
  BY DEF Init, Idle
<1>2. LinesInPlace
  BY <1>1, IdleInPlace DEF LinesInPlace, OneChain
<1>3. ~SignedIn /\ CrashFree
  BY DEF Init, SignedIn, CrashFree
<1>4. PICK a \in AuthVCs : stack = <<a>>
  BY DEF Init, LaunchWith
<1>5. GateShape /\ ~UploadShown
  BY <1>4, InstancesAssumption DEF GateShape, UploadShown, Presented
<1> QED
  BY <1>2, <1>3, <1>5 DEF SerialInv, ScreensPass, Passing, FormAlone

-----------------------------------------------------------------------------
(* For a user who waits for every answer, the screens and the calls keep   *)
(* their places, whatever fails and however often the process restarts.    *)
THEOREM SerialInvariant ==
    ASSUME ~Overlap
    PROVE  Spec => [](SessionInv /\ SerialInv)
<1>1. Init => SessionInv /\ SerialInv
  BY InitInv, SerialInit
<1>2. SessionInv /\ SerialInv /\ [Next]_vars => (SessionInv /\ SerialInv)'
  BY NextInv, SerialStep
<1> QED
  BY <1>1, <1>2, PTL DEF Spec

(* The app of a user who waits for every answer never unwraps nil:         *)
(* uploadColorAndModelVC.swift:31 and :49, Dataservice.swift:96 and        *)
(* burgerMenuVC.swift:99 find somebody signed in.                          *)
THEOREM NeverCrashes ==
    ASSUME ~Overlap
    PROVE  Spec => []CrashFree
<1>1. SerialInv => CrashFree
  BY DEF SerialInv
<1> QED
  BY <1>1, SerialInvariant, PTL

(* And the gate keeps nobody who is signed in: AuthVC.swift's and          *)
(* SigninVC.swift's dismissals leave nobody behind.                        *)
THEOREM NobodyStranded ==
    ASSUME ~Overlap
    PROVE  Spec => []NotStranded
<1>1. SerialInv => NotStranded
  BY AtRest DEF NotStranded
<1> QED
  BY <1>1, SerialInvariant, PTL

-----------------------------------------------------------------------------
(* What the calls carry.  A closure reads its controller's fields again    *)
(* when it runs; with one chain at a time they are what the call was made  *)
(* with.                                                                   *)

\* Facebook's users have Facebook's password, Google's have Google's.
Provided(e, p) ==
    \/ p = FBPassword /\ e \in FacebookEmails
    \/ p = GooglePassword /\ e \in GoogleEmails

Carries(k) ==
    LET c == calls[k]
    IN /\ c.step = "graph" => c.email \in FacebookEmails \cup {NoEmail}
       /\ c.step \in SocialSteps \ {"graph"} =>
            c.email = selfEmail[c.by] /\ Provided(c.email, c.password)
       /\ c.step \in EmailSteps =>
            c.email = emailField[c.by] /\ c.password = passwordField[c.by]

CallData == \A k \in Lines : Carries(k)

(* Whom the device remembers, and whom a call will sign in, is whoever is  *)
(* signed in.                                                              *)
Recalls(k) ==
    LET c == calls[k]
    IN /\ c.step \in Registrations /\ ~Presented(c.by) => c.email = currentUser
       /\ c.step \in Relogins => c.email = currentUser
       /\ c.step = "findLogin" => c.email \in {currentUser, NoEmail}

MemoryInv ==
    /\ context \subseteq {currentUser} \cap Emails
    /\ \A k \in Lines : Recalls(k)

(* An account without a record has its registration on the way, and the    *)
(* car form uploads somebody's e-mail: needs no patience of the user, but  *)
(* that every answer arrives.                                              *)
RecordPending(e) ==
    \E k \in Lines : /\ calls[k].step \in Registrations
                     /\ calls[k].answer = "created"
                     /\ calls[k].email = e

RecordedInv ==
    /\ \A e \in Emails :
         accounts[e] # NoPassword => users[e] # NoEmail \/ RecordPending(e)
    /\ \A k \in Lines : calls[k].step = "upload" => calls[k].email \in Emails

\* A line that is idle, or whose call reads no field.
LEMMA Carefree ==
    \A k \in Lines : calls[k].step \in {"idle", "findLogin", "upload"} => Carries(k)
  BY DEF Carries, SocialSteps, EmailSteps

(* The user acts only when no call is in flight. *)
LEMMA UserWaits ==
    ASSUME ~Overlap, User
    PROVE  Quiet
  BY DEF User, AuthVCInput, FacebookLogin, GoogleSignIn, FacebookLogout,
         SigninVCInput, OpenSignin, SignInWithEmail, Edit, PressSignIn, Close,
         UploadVCInput, PressDone, MainInput, SelectFind, OpenMenu, CloseMenu,
         SignOutWasPressed, MenuFacebookLogout, Leave, UserMayAct

(* The first call of a chain carries what it was made with.                *)
LEMMA UserCarries ==
    ASSUME ~Overlap, DataTypeOK, User
    PROVE  CallData'
<1> USE DEF authVars, screenVars, authVCVars, fieldVars, authVCRest, signinVCRest,
            uploadVCRest, mainRest
<1>0. CallsTypeOK /\ Quiet /\ \A j \in Lines : calls[j].step = "idle"
  BY UserWaits DEF DataTypeOK, Quiet, Free, Idle
<1>1. UNCHANGED calls => CallData'
  BY <1>0, Carefree DEF CallData, Carries, SocialSteps, EmailSteps
<1>2. ASSUME NEW k \in Lines, NEW step, NEW v, NEW e, NEW p, Start(k, step, v, e, p),
             \/ step = "graph" /\ e \in FacebookEmails \cup {NoEmail}
             \/ step = "socialLogin" /\ e = selfEmail'[v] /\ Provided(e, p)
             \/ step = "login" /\ e = emailField'[v] /\ p = passwordField'[v]
             \/ step = "upload"
             \/ step = "findLogin"
      PROVE  CallData'
  <2>1. /\ calls'[k].step = step /\ calls'[k].by = v /\ calls'[k].email = e
        /\ calls'[k].password = p
        /\ \A j \in Lines \ {k} : calls'[j].step = "idle"
    BY <1>0, <1>2, StartAt
  <2>2. Carries(k)'
    BY <1>2, <2>1 DEF Carries, SocialSteps, EmailSteps, Provided
  <2>3. \A j \in Lines \ {k} : Carries(j)'
    BY <2>1 DEF Carries, SocialSteps, EmailSteps
  <2> QED
    BY <2>2, <2>3 DEF CallData
<1>3. ASSUME NEW a \in AuthVCs, AuthVCInput(a) PROVE CallData'
  <2>1. ASSUME NEW k \in Lines, NEW g \in GoogleEmails \cup {NoEmail}, GoogleSignIn(a, k, g)
        PROVE  CallData'
    <3>1. CASE g = NoEmail
      BY <1>1, <2>1, <3>1 DEF GoogleSignIn
    <3>2. CASE g # NoEmail
      <4>1. selfEmail'[a] = g /\ Provided(g, GooglePassword)
        BY <2>1, <3>2 DEF GoogleSignIn, DataTypeOK, AuthVCTypeOK, Provided
      <4> QED
        BY <1>2, <2>1, <3>2, <4>1 DEF GoogleSignIn
    <3> QED
      BY <3>1, <3>2
  <2> QED
    BY <1>1, <1>2, <1>3, <2>1 DEF AuthVCInput, FacebookLogin, FacebookLogout
<1>4. ASSUME NEW s \in SigninVCs, SigninVCInput(s) PROVE CallData'
  BY <1>1, <1>2, <1>4 DEF SigninVCInput, OpenSignin, SignInWithEmail, Edit, PressSignIn, Close
<1>5. ASSUME NEW u \in UploadVCs, UploadVCInput(u) PROVE CallData'
  BY <1>1, <1>2, <1>5 DEF UploadVCInput, PressDone
<1>6. CASE MainInput
  BY <1>1, <1>2, <1>6
     DEF MainInput, SelectFind, FindVCDidAppear, OpenMenu, CloseMenu, SignOutWasPressed,
         MenuFacebookLogout, Leave
<1> QED
  BY <1>3, <1>4, <1>5, <1>6 DEF User

(* The next call of a chain carries it on.                                 *)
LEMMA AnswerCarries ==
    ASSUME DataTypeOK, SignedInv, SerialInv, CallData, NEW k \in Lines, Progress(k)
    PROVE  CallData'
<1> USE DEF authVars, screenVars, authVCVars, fieldVars, authVCRest, signinVCRest,
            uploadVCRest, mainRest
<1> DEFINE c == calls[k]
<1>0. /\ CallsTypeOK /\ Carries(k)
      /\ c.step \in SocialSteps => c.by \in AuthVCs
  BY CallFacts DEF CallData, DataTypeOK, CallsTypeOK
<1>1. ASSUME \A j \in Lines \ {k} : calls'[j] = calls[j],
             Carries(k)',
             UNCHANGED <<authVCVars, fieldVars>> \/ Chain(k)
      PROVE  CallData'
  <2>1. CASE UNCHANGED <<authVCVars, fieldVars>>
    BY <1>1, <2>1 DEF CallData, Carries
  <2>2. CASE Chain(k)
    <3>1. \A j \in Lines \ {k} : calls'[j].step \in {"idle", "findLogin"}
      BY <1>1, <2>2, SerialParts DEF LinesInPlace, OneChain, Chain
    <3>2. \A j \in Lines \ {k} : Carries(j)'
      BY <3>1 DEF Carries, SocialSteps, EmailSteps
    <3> QED
      BY <1>1, <3>2 DEF CallData
  <2> QED
    BY <1>1, <2>1, <2>2
<1>2. ASSUME Finish(k), UNCHANGED <<authVCVars, fieldVars>> PROVE CallData'
  <2>1. calls'[k].step = "idle" /\ \A j \in Lines \ {k} : calls'[j] = calls[j]
    BY <1>0, <1>2, FinishAt
  <2>2. Carries(k)'
    BY <2>1 DEF Carries, SocialSteps, EmailSteps
  <2> QED
    BY <1>1, <1>2, <2>1, <2>2
<1>3. ASSUME NEW step, NEW e, NEW p, Start(k, step, c.by, e, p), Chain(k),
             \/ /\ step \in {"socialLogin", "socialRegister", "socialRelogin"}
                /\ e = selfEmail'[c.by] /\ Provided(e, p)
             \/ /\ step \in {"register", "relogin"}
                /\ e = emailField'[c.by] /\ p = passwordField'[c.by]
      PROVE  CallData'
  <2>1. /\ calls'[k].step = step /\ calls'[k].by = c.by /\ calls'[k].email = e
        /\ calls'[k].password = p
        /\ \A j \in Lines \ {k} : calls'[j] = calls[j]
    BY <1>0, <1>3, StartAt
  <2>2. Carries(k)'
    BY <1>3, <2>1 DEF Carries, SocialSteps, EmailSteps, Provided
  <2> QED
    BY <1>1, <1>3, <2>1, <2>2
<1>4. CASE ServeRegistration(k) /\ UNCHANGED uploadVCRest
  <2>1. /\ calls'[k].step = c.step /\ calls'[k].by = c.by
        /\ calls'[k].email = c.email /\ calls'[k].password = c.password
        /\ \A j \in Lines \ {k} : calls'[j] = calls[j]
    BY <1>0, <1>4, ServeAt
  <2>2. Carries(k)'
    BY <1>0, <1>4, <2>1 DEF Carries, Provided
  <2> QED
    BY <1>1, <1>4, <2>1, <2>2
<1>5. CASE GraphDone(k) /\ UNCHANGED authVCRest
  <2>1. Chain(k) /\ c.step = "graph" /\ c.by \in AuthVCs
    BY <1>0, <1>5 DEF GraphDone, Chain, SocialSteps
  <2>2. ASSUME c.email # NoEmail, selfEmail' = [selfEmail EXCEPT ![c.by] = c.email],
               Start(k, "socialLogin", c.by, c.email, FBPassword)
        PROVE  CallData'
    <3>1. selfEmail'[c.by] = c.email
      BY <2>1, <2>2 DEF DataTypeOK, AuthVCTypeOK
    <3>2. Provided(c.email, FBPassword)
      BY <1>0, <2>1, <2>2 DEF Carries, Provided
    <3> QED
      BY <1>3, <2>1, <2>2, <3>1, <3>2
  <2> QED
    BY <1>2, <1>5, <2>2 DEF GraphDone
<1>6. CASE SocialLoginDone(k) /\ UNCHANGED authVCRest
  <2>1. Chain(k) /\ c.email = selfEmail[c.by] /\ Provided(c.email, c.password)
    BY <1>0, <1>6 DEF SocialLoginDone, Chain, SocialSteps, Carries
  <2> QED
    BY <1>3, <1>6, <2>1 DEF SocialLoginDone
<1>7. CASE SocialRegisterDone(k) /\ UNCHANGED authVCRest
  <2>1. Chain(k) /\ c.email = selfEmail[c.by] /\ Provided(c.email, c.password)
    BY <1>0, <1>7 DEF SocialRegisterDone, Chain, SocialSteps, Carries
  <2> QED
    BY <1>2, <1>3, <1>7, <2>1 DEF SocialRegisterDone
<1>8. CASE LoginDone(k) /\ UNCHANGED signinVCRest
  BY <1>3, <1>8 DEF LoginDone, Chain
<1>9. CASE RegisterDone(k) /\ UNCHANGED signinVCRest
  BY <1>2, <1>3, <1>9 DEF RegisterDone, Chain
<1>10. CASE \/ SocialReloginDone(k) /\ UNCHANGED authVCRest
            \/ ReloginDone(k) /\ UNCHANGED signinVCRest
            \/ UploadDone(k) /\ UNCHANGED uploadVCRest
            \/ FindLoginDone(k) /\ UNCHANGED mainRest
  BY <1>2, <1>10 DEF SocialReloginDone, ReloginDone, UploadDone, FindLoginDone
<1> QED
  BY <1>4, <1>5, <1>6, <1>7, <1>8, <1>9, <1>10 DEF Progress

(* Every step keeps what the calls carry. *)
LEMMA CarryStep ==
    ASSUME ~Overlap, SessionInv, SerialInv, CallData, [Next]_vars
    PROVE  CallData'
<1> USE DEF authVars, screenVars, authVCVars, fieldVars, authVCRest, signinVCRest,
            uploadVCRest, mainRest
<1>0. DataTypeOK /\ SignedInv /\ CallsTypeOK
  BY Parts DEF DataTypeOK
<1>1. UNCHANGED <<calls, authVCVars, fieldVars>> => CallData'
  BY DEF CallData, Carries
<1>2. CASE Transition
  <2>1. ASSUME NEW k \in Lines, MainDidAppear(k), UNCHANGED mainRest PROVE CallData'
    <3>1. ASSUME NEW e, Start(k, "findLogin", MainVC, e, FBPassword) PROVE CallData'
      <4>1. calls'[k].step = "findLogin" /\ \A j \in Lines \ {k} : calls'[j] = calls[j]
        BY <1>0, <3>1, StartAt
      <4> QED
        BY <2>1, <4>1 DEF MainDidAppear, CallData, Carries, SocialSteps, EmailSteps
    <3> QED
      BY <1>1, <2>1, <3>1 DEF MainDidAppear, FindVCDidAppear
  <2> QED
    BY <1>1, <1>2, <2>1
       DEF Transition, AuthVCDidAppear, SigninVCDidAppear, UploadVCDidAppear
<1>3. CASE Relaunch
  BY <1>3 DEF Relaunch, Idle, CallData, Carries, SocialSteps, EmailSteps
<1>4. CASE UNCHANGED vars
  BY <1>1, <1>4 DEF vars
<1> QED
  BY <1>0, <1>2, <1>3, <1>4, UserCarries, AnswerCarries DEF Next

LEMMA CarryInit ==
    ASSUME Init
    PROVE  CallData
  BY Carefree DEF Init, Idle, CallData

(* A call in flight carries what its controller's fields still say: the    *)
(* closures of AuthVC.swift and SigninVC.swift read self.email and the     *)
(* text fields again, and a user who waits has not changed them.           *)
THEOREM CallsCarry ==
    ASSUME ~Overlap
    PROVE  Spec => [](SessionInv /\ SerialInv /\ CallData)
<1>1. Init => SessionInv /\ SerialInv /\ CallData
  BY InitInv, SerialInit, CarryInit
<1>2. SessionInv /\ SerialInv /\ CallData /\ [Next]_vars
        => (SessionInv /\ SerialInv /\ CallData)'
  BY NextInv, SerialStep, CarryStep
<1> QED
  BY <1>1, <1>2, PTL DEF Spec

-----------------------------------------------------------------------------
(* Accounts and records.                                                   *)

\* The provider's passwords are not what people type.
TypesOwn == {FBPassword, GooglePassword} \cap TypedPasswords = {}

(* Only the server's part of a registration creates an account.            *)
LEMMA AccountsStay ==
    ASSUME [Next]_vars
    PROVE  UNCHANGED accounts \/ \E k \in Lines : ServeRegistration(k)
<1> USE DEF authVars, SignInSucceeds, SignInFails, SignOut, RegistrationSucceeds
<1>1. CASE User
  BY <1>1 DEF User, AuthVCInput, FacebookLogin, GoogleSignIn, FacebookLogout,
              SigninVCInput, OpenSignin, SignInWithEmail, Edit, PressSignIn, Close,
              UploadVCInput, PressDone, MainInput, SelectFind, OpenMenu, CloseMenu,
              SignOutWasPressed, MenuFacebookLogout, Leave
<1>2. ASSUME NEW k \in Lines, Progress(k)
      PROVE  UNCHANGED accounts \/ ServeRegistration(k)
  BY <1>2 DEF Progress, GraphDone, SocialLoginDone, SocialRegisterDone, SocialReloginDone,
              LoginDone, RegisterDone, ReloginDone, UploadDone, FindLoginDone
<1>3. CASE Transition
  BY <1>3 DEF Transition, AuthVCDidAppear, SigninVCDidAppear, UploadVCDidAppear,
              MainDidAppear
<1> QED
  BY <1>1, <1>2, <1>3 DEF Next, Relaunch, vars

(* Only a registration's answer and an upload write records.               *)
LEMMA RecordsStay ==
    ASSUME [Next]_vars
    PROVE  \/ UNCHANGED users
           \/ \E k \in Lines : \/ SocialRegisterDone(k) \/ RegisterDone(k)
                               \/ UploadDone(k)
<1>1. CASE User
  BY <1>1 DEF User, AuthVCInput, FacebookLogin, GoogleSignIn, FacebookLogout,
              SigninVCInput, OpenSignin, SignInWithEmail, Edit, PressSignIn, Close,
              UploadVCInput, PressDone, MainInput, SelectFind, OpenMenu, CloseMenu,
              SignOutWasPressed, MenuFacebookLogout, Leave
<1>2. ASSUME NEW k \in Lines, Progress(k)
      PROVE  UNCHANGED users \/ SocialRegisterDone(k) \/ RegisterDone(k) \/ UploadDone(k)
  BY <1>2 DEF Progress, ServeRegistration, GraphDone, SocialLoginDone, SocialReloginDone,
              LoginDone, ReloginDone, FindLoginDone
<1>3. CASE Transition
  BY <1>3 DEF Transition, AuthVCDidAppear, SigninVCDidAppear, UploadVCDidAppear,
              MainDidAppear
<1> QED
  BY <1>1, <1>2, <1>3 DEF Next, Relaunch, vars

(* Dataservice.uploadCarInfo (Dataservice.swift:96) writes an e-mail to    *)
(* the record of whoever is signed in when the snapshot arrives: for a     *)
(* user who waits, that is still whose e-mail it is.                       *)
THEOREM RecordsOwned ==
    ASSUME ~Overlap
    PROVE  Spec => []OwnRecords
<1>1. Init => OwnRecords
  BY DEF Init, OwnRecords
<1>2. SessionInv /\ SerialInv /\ OwnRecords /\ [Next]_vars => OwnRecords'
  <2> SUFFICES ASSUME SessionInv, SerialInv, OwnRecords, [Next]_vars PROVE OwnRecords'
    OBVIOUS
  <2>0. DataTypeOK /\ SignedInv /\ users \in [Emails -> MaybeEmail]
    BY Parts DEF DataTypeOK, FirebaseTypeOK
  <2>1. ASSUME NEW e, users' = [users EXCEPT ![e] = e] PROVE OwnRecords'
    BY <2>0, <2>1 DEF OwnRecords
  <2>2. ASSUME NEW k \in Lines, UploadDone(k) PROVE OwnRecords'
    <3>1. calls[k].email = currentUser
      BY <2>0, <2>2, SerialParts DEF UploadDone, InPlace
    <3> QED
      BY <2>1, <2>2, <3>1 DEF UploadDone, WriteRecord, OwnRecords
  <2>3. ASSUME NEW k \in Lines, SocialRegisterDone(k) \/ RegisterDone(k) PROVE OwnRecords'
    BY <2>1, <2>3 DEF SocialRegisterDone, RegisterDone, RegistrationSucceeds,
                      CreateDBUser, OwnRecords
  <2> QED
    BY <2>2, <2>3, RecordsStay DEF OwnRecords
<1> QED
  BY <1>1, <1>2, SerialInvariant, PTL DEF Spec

(* An account made with a provider's password is of an address of that     *)
(* provider: AuthVC.swift's two flows do not register each other's people, *)
(* when nobody types a provider's password in SigninVC.                    *)
THEOREM ProvidersOwn ==
    ASSUME ~Overlap, TypesOwn
    PROVE  Spec => []ProviderOwnsAccount
<1>1. Init => ProviderOwnsAccount
  BY DEF Init, ProviderOwnsAccount
<1>2. /\ SessionInv /\ SerialInv /\ CallData /\ ProviderOwnsAccount /\ [Next]_vars
      => ProviderOwnsAccount'
  <2> SUFFICES ASSUME SessionInv, SerialInv, CallData, ProviderOwnsAccount, [Next]_vars
               PROVE  ProviderOwnsAccount'
    OBVIOUS
  <2>0. DataTypeOK /\ accounts \in [Emails -> Passwords \cup {NoPassword}]
    BY Parts DEF DataTypeOK, FirebaseTypeOK
  <2>1. ASSUME NEW k \in Lines, ServeRegistration(k) PROVE ProviderOwnsAccount'
    <3> DEFINE c == calls[k]
    <3>1. /\ Carries(k) /\ c.step \in Registrations
          /\ c.step \in EmailSteps => c.by \in SigninVCs
      BY <2>0, <2>1, CallFacts DEF CallData, DataTypeOK, CallsTypeOK, ServeRegistration
    <3>2. CASE c.step = "socialRegister"
      <4>1. Provided(c.email, c.password)
        BY <3>1, <3>2 DEF Carries, SocialSteps
      <4>2. FBPassword # GooglePassword
        BY DEF FBPassword, GooglePassword
      <4>3. \/ UNCHANGED accounts
            \/ accounts' = [accounts EXCEPT ![c.email] = c.password]
        BY <2>1 DEF ServeRegistration
      <4> QED
        BY <2>0, <4>1, <4>2, <4>3 DEF Provided, ProviderOwnsAccount
    <3>3. CASE c.step = "register"
      <4>1. c.password \in TypedPasswords \cup {NoPassword}
        BY <2>0, <3>1, <3>3 DEF Carries, EmailSteps, DataTypeOK, SigninVCTypeOK
      <4>2. NoPassword # FBPassword /\ NoPassword # GooglePassword
        BY DEF NoPassword, FBPassword, GooglePassword
      <4>3. c.password # FBPassword /\ c.password # GooglePassword
        BY <4>1, <4>2 DEF TypesOwn
      <4>4. \/ UNCHANGED accounts
            \/ accounts' = [accounts EXCEPT ![c.email] = c.password]
        BY <2>1 DEF ServeRegistration
      <4> QED
        BY <2>0, <4>3, <4>4 DEF ProviderOwnsAccount
    <3> QED
      BY <3>1, <3>2, <3>3 DEF Registrations
  <2> QED
    BY <2>1, AccountsStay DEF ProviderOwnsAccount
<1> QED
  BY <1>1, <1>2, CallsCarry, PTL DEF Spec

-----------------------------------------------------------------------------
(* Whom the device remembers.                                              *)

(* A chain's answer leaves the calls and the memory of one user.           *)
LEMMA ChainRecalls ==
    ASSUME LinesInPlace, NEW k \in Lines, Chain(k), ~AtMain \/ UNCHANGED currentUser,
           \A j \in Lines \ {k} : calls'[j] = calls[j],
           \A j \in Lines : Recalls(j), Recalls(k)'
    PROVE  \A j \in Lines : Recalls(j)'
<1>1. ASSUME NEW j \in Lines \ {k} PROVE Recalls(j)'
  <2>1. calls'[j].step \in {"idle", "findLogin"} /\ InPlace(j) /\ Recalls(j)
    BY <1>1 DEF LinesInPlace, OneChain, Chain
  <2> QED
    BY <1>1, <2>1 DEF Recalls, InPlace, Registrations, Relogins
<1> QED
  BY <1>1

(* The user begins with whoever is remembered, or forgets everybody.       *)
LEMMA UserRecalls ==
    ASSUME ~Overlap, DataTypeOK, MemoryInv, User
    PROVE  MemoryInv'
<1> USE DEF authVars, coreDataVars, screenVars, authVCVars, SignOut, DeleteAll, Deleted
<1>0. CallsTypeOK /\ Quiet /\ \A j \in Lines : calls[j].step = "idle"
  BY UserWaits DEF DataTypeOK, Quiet, Free, Idle
<1>1. UNCHANGED calls => \A j \in Lines : Recalls(j)'
  BY <1>0 DEF Recalls, Registrations, Relogins
<1>2. ASSUME NEW k \in Lines, NEW step, NEW v, NEW e, NEW p, Start(k, step, v, e, p),
             \/ step \in Asking \cup {"upload"}
             \/ step = "findLogin" /\ e \in {currentUser', NoEmail}
      PROVE  \A j \in Lines : Recalls(j)'
  <2>1. /\ calls'[k].step = step /\ calls'[k].email = e
        /\ \A j \in Lines \ {k} : calls'[j].step = "idle"
    BY <1>0, <1>2, StartAt
  <2>2. Recalls(k)'
    BY <1>2, <2>1 DEF Recalls, Asking, Registrations, Relogins
  <2>3. \A j \in Lines \ {k} : Recalls(j)'
    BY <2>1 DEF Recalls, Registrations, Relogins
  <2> QED
    BY <2>2, <2>3
<1>3. Fetched(NoEmail) \subseteq {currentUser, NoEmail}
  BY DEF Fetched, MemoryInv
<1>4. \A j \in Lines : Recalls(j)'
  <2>1. ASSUME NEW a \in AuthVCs, AuthVCInput(a) PROVE \A j \in Lines : Recalls(j)'
    BY <1>1, <1>2, <2>1
       DEF AuthVCInput, FacebookLogin, GoogleSignIn, FacebookLogout, Asking
  <2>2. ASSUME NEW s \in SigninVCs, SigninVCInput(s) PROVE \A j \in Lines : Recalls(j)'
    BY <1>1, <1>2, <2>2
       DEF SigninVCInput, OpenSignin, SignInWithEmail, Edit, PressSignIn, Close, Asking
  <2>3. ASSUME NEW u \in UploadVCs, UploadVCInput(u) PROVE \A j \in Lines : Recalls(j)'
    BY <1>1, <1>2, <2>3 DEF UploadVCInput, PressDone
  <2>4. CASE MainInput
    <3>1. ASSUME NEW k \in Lines, SelectFind(k) PROVE \A j \in Lines : Recalls(j)'
      BY <1>1, <1>2, <1>3, <3>1 DEF SelectFind, FindVCDidAppear
    <3> QED
      BY <1>1, <2>4, <3>1 DEF MainInput, OpenMenu, CloseMenu, SignOutWasPressed,
                              MenuFacebookLogout, Leave
  <2> QED
    BY <2>1, <2>2, <2>3, <2>4 DEF User
<1>5. context' = {} \/ UNCHANGED <<context, currentUser>>
  BY DEF User, AuthVCInput, FacebookLogin, GoogleSignIn, FacebookLogout,
         SigninVCInput, OpenSignin, SignInWithEmail, Edit, PressSignIn, Close,
         UploadVCInput, PressDone, MainInput, SelectFind, OpenMenu, CloseMenu,
         SignOutWasPressed, MenuFacebookLogout, Leave
<1> QED
  BY <1>4, <1>5 DEF MemoryInv

(* Nobody remembered but somebody: at the gate nobody is signed in and     *)
(* nobody is remembered.                                                   *)
LEMMA NobodyRemembered ==
    ASSUME MemoryInv, ~SignedIn
    PROVE  context = {}
  BY EmailsAssumption DEF MemoryInv, SignedIn

(* Every answer remembers the user it signs in.                            *)
LEMMA AnswerRecalls ==
    ASSUME DataTypeOK, SignedInv, CreatedKnown, SerialInv, CallData, MemoryInv,
           NEW k \in Lines, Progress(k)
    PROVE  MemoryInv' /\ (AtMain => UNCHANGED currentUser)
<1> USE DEF authVars, coreDataVars, screenVars, authVCVars, fieldVars, authVCRest,
            signinVCRest, uploadVCRest, mainRest
<1> DEFINE c == calls[k]
<1>0. /\ CallsTypeOK /\ Carries(k) /\ InPlace(k) /\ Recalls(k) /\ LinesInPlace
      /\ context \subseteq {currentUser} \cap Emails
      /\ \A j \in Lines : Recalls(j)
      /\ currentUser \in MaybeEmail
  BY SerialParts DEF CallData, MemoryInv
<1>1. ASSUME NEW e, NEW p, SignInSucceeds(e, p) PROVE currentUser' = e /\ e \in Emails
  BY <1>1 DEF SignInSucceeds, Accepts
<1>2. ASSUME Finish(k), ~AtMain \/ UNCHANGED currentUser, Chain(k)
      PROVE  \A j \in Lines : Recalls(j)'
  <2>1. calls'[k].step = "idle" /\ \A j \in Lines \ {k} : calls'[j] = calls[j]
    BY <1>0, <1>2, FinishAt
  <2>3. Recalls(k)'
    BY <2>1 DEF Recalls, Registrations, Relogins
  <2> QED
    BY <1>0, <1>2, <2>1, <2>3, ChainRecalls
<1>3. ASSUME NEW step, NEW e, NEW p, Start(k, step, c.by, e, p), Chain(k),
             ~AtMain \/ UNCHANGED currentUser,
             \/ step = "socialLogin"
             \/ step \in Registrations \cup Relogins /\ e = currentUser'
      PROVE  \A j \in Lines : Recalls(j)'
  <2>1. /\ calls'[k].step = step /\ calls'[k].by = c.by /\ calls'[k].email = e
        /\ \A j \in Lines \ {k} : calls'[j] = calls[j]
    BY <1>0, <1>3, StartAt
  <2>2. Recalls(k)'
    BY <1>3, <2>1 DEF Recalls, Registrations, Relogins
  <2> QED
    BY <1>0, <1>3, <2>1, <2>2, ChainRecalls
<1>4. UNCHANGED <<context, currentUser>> => context' \subseteq {currentUser'} \cap Emails
  BY <1>0
<1>5. CASE ServeRegistration(k) /\ UNCHANGED uploadVCRest
  <2>1. /\ calls'[k].step = c.step /\ calls'[k].by = c.by /\ calls'[k].email = c.email
        /\ \A j \in Lines \ {k} : calls'[j] = calls[j]
    BY <1>0, <1>5, ServeAt
  <2>2. UNCHANGED <<currentUser, context, stack>>
    BY <1>5 DEF ServeRegistration
  <2>3. \A j \in Lines : Recalls(j)'
    BY <1>0, <2>1, <2>2 DEF Recalls, Presented
  <2> QED
    BY <1>4, <2>2, <2>3 DEF MemoryInv
<1>6. CASE GraphDone(k) /\ UNCHANGED authVCRest
  <2>1. Chain(k) /\ UNCHANGED <<currentUser, context>>
    BY <1>6 DEF GraphDone, Chain
  <2> QED
    BY <1>2, <1>3, <1>4, <1>6, <2>1 DEF GraphDone, MemoryInv
<1>7. CASE \/ SocialLoginDone(k) /\ UNCHANGED authVCRest
           \/ LoginDone(k) /\ UNCHANGED signinVCRest
  <2>1. Chain(k) /\ ~AtMain /\ ~SignedIn /\ Up(c.by) /\ context = {}
    BY <1>0, <1>7, NobodyRemembered
       DEF SocialLoginDone, LoginDone, Chain, InPlace, Asking, Up, OnTop
  <2>2. Presented(c.by)
    BY <2>1, SerialParts, Shapes DEF Up
  <2>3. PICK step \in Registrations : \E p : Start(k, step, c.by, c.email, p)
    BY <1>0, <1>7 DEF SocialLoginDone, LoginDone, Carries, SocialSteps, EmailSteps,
                      Registrations
  <2>4. CASE /\ SignInSucceeds(c.email, c.password)
             /\ SaveInto(context, c.email) \/ SaveInto({}, c.email)
    <3>1. context' = {c.email} /\ currentUser' = c.email /\ c.email \in Emails
      BY <1>1, <2>1, <2>4 DEF SaveInto
    <3> QED
      BY <1>3, <2>1, <2>3, <3>1 DEF MemoryInv
  <2>5. CASE UNCHANGED <<currentUser, context, stack>>
    <3>2. \A j \in Lines : Recalls(j)'
      <4>1. PICK p : Start(k, step, c.by, c.email, p)
        BY <2>3
      <4>2. /\ calls'[k].step = step /\ calls'[k].by = c.by
            /\ \A j \in Lines \ {k} : calls'[j] = calls[j]
        BY <1>0, <4>1, StartAt
      <4>3. Recalls(k)'
        BY <2>2, <2>5, <4>2 DEF Recalls, Presented, Registrations, Relogins
      <4> QED
        BY <1>0, <2>1, <4>2, <4>3, ChainRecalls
    <3> QED
      BY <1>4, <2>1, <2>5, <3>2 DEF MemoryInv
  <2> QED
    BY <1>0, <1>7, <2>1, <2>4, <2>5
       DEF SocialLoginDone, LoginDone, SignInFails, Deleted, Carries, SocialSteps, EmailSteps
<1>8. CASE \/ SocialRegisterDone(k) /\ UNCHANGED authVCRest
           \/ RegisterDone(k) /\ UNCHANGED signinVCRest
  <2>1. Chain(k) /\ c.step \in Registrations /\ UNCHANGED <<context, stack>>
    BY <1>8 DEF SocialRegisterDone, RegisterDone, Chain, Registrations
  <2>2. CASE UNCHANGED currentUser /\ Finish(k)
    BY <1>2, <1>4, <2>1, <2>2 DEF MemoryInv
  <2>3. CASE /\ c.answer = "created" /\ RegistrationSucceeds(c.email)
             /\ \E step \in Relogins : \E p : Start(k, step, c.by, c.email, p)
    <3>1. currentUser' = c.email /\ c.email \in Emails
      BY <2>3 DEF RegistrationSucceeds, CreatedKnown
    <3>2. \/ UNCHANGED currentUser
          \/ ~AtMain /\ context = {}
      BY <1>0, <2>1, <3>1, NobodyRemembered DEF InPlace, Recalls, Up, OnTop
    <3> QED
      BY <1>3, <1>4, <2>1, <2>3, <3>1, <3>2 DEF MemoryInv
  <2> QED
    BY <1>0, <1>8, <2>2, <2>3
       DEF SocialRegisterDone, RegisterDone, Carries, SocialSteps, EmailSteps, Relogins
<1>9. CASE \/ SocialReloginDone(k) /\ UNCHANGED authVCRest
           \/ ReloginDone(k) /\ UNCHANGED signinVCRest
  <2>1. Chain(k) /\ c.step \in Relogins /\ Finish(k)
    BY <1>9 DEF SocialReloginDone, ReloginDone, Chain, Relogins
  <2>2. c.email = currentUser /\ currentUser \in Emails
    BY <1>0, <2>1 DEF Recalls, InPlace, SignedIn, MaybeEmail
  <2>3. UNCHANGED currentUser
    BY <1>1, <1>9, <2>2 DEF SocialReloginDone, ReloginDone, SignInFails
  <2>4. context' = {currentUser} \/ UNCHANGED context
    BY <1>0, <1>9, <2>2
       DEF SocialReloginDone, ReloginDone, SaveInto, Deleted, Carries, SocialSteps
  <2> QED
    BY <1>0, <1>2, <2>1, <2>2, <2>3, <2>4 DEF MemoryInv
<1>10. CASE UploadDone(k) /\ UNCHANGED uploadVCRest
  <2>1. Chain(k) /\ Finish(k) /\ UNCHANGED <<currentUser, context>>
    BY <1>10 DEF UploadDone, Chain
  <2> QED
    BY <1>2, <1>4, <2>1 DEF MemoryInv
<1>11. CASE FindLoginDone(k) /\ UNCHANGED mainRest
  <2>1. c.email \in {currentUser, NoEmail} /\ UNCHANGED <<context, stack>> /\ Finish(k)
    BY <1>0, <1>11 DEF FindLoginDone, Recalls
  <2>2. UNCHANGED currentUser
    BY <1>1, <1>11, <2>1, EmailsAssumption DEF FindLoginDone, SignInFails
  <2>3. calls'[k].step = "idle" /\ \A j \in Lines \ {k} : calls'[j] = calls[j]
    BY <1>0, <2>1, FinishAt
  <2>4. \A j \in Lines : Recalls(j)'
    BY <1>0, <2>1, <2>2, <2>3 DEF Recalls, Presented, Registrations, Relogins
  <2> QED
    BY <1>4, <2>1, <2>2, <2>4 DEF MemoryInv
<1> QED
  BY <1>5, <1>6, <1>7, <1>8, <1>9, <1>10, <1>11 DEF Progress

(* A transition, with the calls in their places, takes away no controller  *)
(* whose chain goes on.                                                    *)
LEMMA TransitionRecalls ==
    ASSUME DataTypeOK, SignedInv, SerialInv, MemoryInv, Transition
    PROVE  MemoryInv' /\ UNCHANGED currentUser
<1> USE DEF authVars, coreDataVars, screenVars, authVCVars, fieldVars, authVCRest,
            signinVCRest, uploadVCRest, mainRest
<1>0. CallsTypeOK /\ LinesInPlace /\ (\A j \in Lines : Recalls(j) /\ InPlace(j))
  BY SerialParts DEF MemoryInv
<1>1. UNCHANGED <<context, currentUser>>
  BY DEF Transition, AuthVCDidAppear, SigninVCDidAppear, UploadVCDidAppear, MainDidAppear
<1>2. appearing \/ completions # {}
  BY DEF Transition, AuthVCDidAppear, SigninVCDidAppear, UploadVCDidAppear, MainDidAppear
<1>3. ASSUME NEW j \in Lines, calls'[j] = calls[j] PROVE Recalls(j)'
  <2>1. ~Up(calls[j].by)
    BY <1>2 DEF Up
  <2> QED
    BY <1>0, <1>1, <1>3, <2>1 DEF Recalls, InPlace, Registrations, Relogins
<1>4. ASSUME NEW k \in Lines, MainDidAppear(k) PROVE \A j \in Lines : Recalls(j)'
  <2>1. Fetched(NoEmail) \subseteq {currentUser, NoEmail}
    BY DEF Fetched, MemoryInv
  <2>2. ASSUME NEW e \in Fetched(NoEmail), Start(k, "findLogin", MainVC, e, FBPassword)
        PROVE  \A j \in Lines : Recalls(j)'
    <3>1. /\ calls'[k].step = "findLogin" /\ calls'[k].email = e
          /\ \A j \in Lines \ {k} : calls'[j] = calls[j]
      BY <1>0, <2>2, StartAt
    <3>2. Recalls(k)'
      BY <1>1, <2>1, <3>1 DEF Recalls, Registrations, Relogins
    <3> QED
      BY <1>3, <3>1, <3>2
  <2> QED
    BY <1>3, <1>4, <2>2 DEF MainDidAppear, FindVCDidAppear
<1>5. \A j \in Lines : Recalls(j)'
  BY <1>3, <1>4 DEF Transition, AuthVCDidAppear, SigninVCDidAppear, UploadVCDidAppear
<1> QED
  BY <1>1, <1>5 DEF MemoryInv

(* Every step but a restart keeps the memory.                              *)
LEMMA MemoryStep ==
    ASSUME ~Overlap, ~Restarts, SessionInv, SerialInv, CallData, MemoryInv, [Next]_vars
    PROVE  MemoryInv' /\ (AtMain /\ AtMain' => UNCHANGED currentUser)
<1> USE DEF authVars, coreDataVars, screenVars
<1>0. DataTypeOK /\ SignedInv /\ CreatedKnown
  BY Parts
<1>1. CASE User
  <2>1. AtMain /\ AtMain' => UNCHANGED currentUser
    <3>1. ASSUME AtMain, NEW v PROVE ~OnTop(v)
      BY <3>1 DEF OnTop
    <3>2. ASSUME NEW a, Leave(a) PROVE ~AtMain'
      BY <3>2, <1>0 DEF Leave, Push, AtMain, SignedInv, ScreensInv
    <3> QED
      BY <1>1, <3>1, <3>2
         DEF User, AuthVCInput, FacebookLogin, GoogleSignIn, FacebookLogout,
             SigninVCInput, OpenSignin, SignInWithEmail, Edit, PressSignIn, Close,
             UploadVCInput, PressDone, MainInput, SelectFind, OpenMenu, CloseMenu,
             SignOutWasPressed, MenuFacebookLogout
  <2> QED
    BY <1>0, <1>1, <2>1, UserRecalls
<1>2. ASSUME NEW k \in Lines, Progress(k)
      PROVE  MemoryInv' /\ (AtMain => UNCHANGED currentUser)
  BY <1>0, <1>2, AnswerRecalls
<1>3. CASE Transition
  BY <1>0, <1>3, TransitionRecalls
<1>4. ~Relaunch
  BY DEF Relaunch
<1>5. CASE UNCHANGED vars
  BY <1>5 DEF vars, MemoryInv, Recalls, Presented
<1> QED
  BY <1>1, <1>2, <1>3, <1>4, <1>5 DEF Next

LEMMA MemoryInit ==
    ASSUME Init
    PROVE  MemoryInv
  BY DEF Init, MemoryInv, Recalls, Idle, Registrations, Relogins

(* Core Data holds nobody but the user signed in, and no call in flight    *)
(* will sign in anybody else: what Dataservice.swift's save and            *)
(* deleteAllDataFromCoreData leave behind in one life of the process.      *)
THEOREM MemoryInvariant ==
    ASSUME ~Overlap, ~Restarts
    PROVE  Spec => [](SessionInv /\ SerialInv /\ CallData /\ MemoryInv)
<1>1. Init => SessionInv /\ SerialInv /\ CallData /\ MemoryInv
  BY InitInv, SerialInit, CarryInit, MemoryInit
<1>2. SessionInv /\ SerialInv /\ CallData /\ MemoryInv /\ [Next]_vars
        => (SessionInv /\ SerialInv /\ CallData /\ MemoryInv)'
  BY NextInv, SerialStep, CarryStep, MemoryStep
<1> QED
  BY <1>1, <1>2, PTL DEF Spec

(* At rest on the main screens the device remembers nobody but the user    *)
(* signed in, so that FindVC's login (FindVC.swift:120) signs in nobody    *)
(* else.  A restart can bring a forgotten e-mail back: deletions are not   *)
(* saved.                                                                  *)
THEOREM OnlyUserRemembered ==
    ASSUME ~Overlap, ~Restarts
    PROVE  Spec => []RemembersOnlyUser
<1>1. MemoryInv => RemembersOnlyUser
  BY DEF MemoryInv, RemembersOnlyUser
<1> QED
  BY <1>1, MemoryInvariant, PTL

(* Whoever came in through the gate is the one on the main screens until   *)
(* they leave: the session implements the gate that lets nobody switch.    *)
THEOREM OneUserImplemented ==
    ASSUME ~Overlap, ~Restarts
    PROVE  Spec => KeepsOneUser
<1>1. Init => StrictGate!Init
  BY DEF Init, LaunchWith, StrictGate!Init, Place, AtMain
<1> DEFINE Inv == SessionInv /\ SerialInv /\ CallData /\ MemoryInv
<1>2. Inv /\ Inv' /\ [Next]_vars => [StrictGate!Next]_<<currentUser, Place>>
  <2> SUFFICES ASSUME Inv, Inv', [Next]_vars
               PROVE  [StrictGate!Next]_<<currentUser, Place>>
    OBVIOUS
  <2>1. currentUser' = NoEmail \/ currentUser' \in Emails
    BY DEF SessionInv, TypeOK, FirebaseTypeOK, MaybeEmail
  <2>2. CASE AtMain'
    <3>1. currentUser' \in Emails
      BY <2>1, <2>2 DEF SessionInv, MainSignedIn, SignedIn
    <3>2. CASE AtMain
      BY <2>2, <3>2, MemoryStep DEF Place
    <3>3. CASE ~AtMain
      BY <2>2, <3>1, <3>3 DEF StrictGate!Next, StrictGate!SignIn, Place
    <3> QED
      BY <3>2, <3>3
  <2>3. CASE ~AtMain' /\ currentUser' = NoEmail
    BY <2>3 DEF StrictGate!Next, StrictGate!SignOut, Place
  <2>4. CASE ~AtMain' /\ currentUser' \in Emails
    <3>1. ~AtMain
      BY <2>4, MainStays, EmailsAssumption
    <3> QED
      BY <2>4, <3>1 DEF StrictGate!Next, StrictGate!SignIn, Place
  <2> QED
    BY <2>1, <2>2, <2>3, <2>4
<1>3. Spec => []Inv
  BY MemoryInvariant
<1> HIDE DEF Inv
<1> QED
  BY <1>1, <1>2, <1>3, PTL DEF Spec, KeepsOneUser, StrictGate!Spec

-----------------------------------------------------------------------------
(* Every account gets its record.                                          *)

\* A registration that succeeded and whose closure has yet to run.
Made(k) == calls[k].step \in Registrations /\ calls[k].answer = "created"

UploadsKnown == \A k \in Lines : calls[k].step = "upload" => calls[k].email \in Emails

(* Records stay and accounts are as before, while the closures that will   *)
(* write a record wait.                                                    *)
LEMMA RecordedWaits ==
    ASSUME RecordedInv, UNCHANGED accounts, UploadsKnown',
           \A k \in Lines : Made(k) => calls'[k] = calls[k],
           \A e \in Emails : users[e] # NoEmail => users'[e] # NoEmail
    PROVE  RecordedInv'
  BY DEF RecordedInv, RecordPending, UploadsKnown, Made

(* One line goes on, and was not such a closure.                           *)
LEMMA LineGoesOn ==
    ASSUME CallsTypeOK, RecordedInv, NEW k \in Lines, ~Made(k),
           \/ Finish(k)
           \/ \E step, v, e, p : /\ Start(k, step, v, e, p)
                                 /\ step = "upload" => e \in Emails
    PROVE  UploadsKnown' /\ \A j \in Lines : Made(j) => calls'[j] = calls[j]
<1>1. CASE Finish(k)
  BY <1>1, FinishAt DEF UploadsKnown, RecordedInv
<1>2. ASSUME NEW step, NEW v, NEW e, NEW p, Start(k, step, v, e, p),
             step = "upload" => e \in Emails
      PROVE  UploadsKnown' /\ \A j \in Lines : Made(j) => calls'[j] = calls[j]
  <2>1. /\ calls'[k].step = step /\ calls'[k].email = e
        /\ \A j \in Lines \ {k} : calls'[j] = calls[j]
    BY <1>2, StartAt
  <2> QED
    BY <1>2, <2>1 DEF UploadsKnown, RecordedInv
<1> QED
  BY <1>1, <1>2

(* Every step but a restart keeps it, when no answer is lost.              *)
LEMMA RecordedStep ==
    ASSUME ~Offline, ~Restarts, SessionInv, RecordedInv, [Next]_vars
    PROVE  RecordedInv'
<1> USE DEF authVars, screenVars, coreDataVars, authVCVars, SignInSucceeds, SignInFails,
            SignOut
<1>0. /\ CallsTypeOK /\ currentUser \in MaybeEmail /\ users \in [Emails -> MaybeEmail]
      /\ accounts \in [Emails -> Passwords \cup {NoPassword}]
      /\ CreatedKnown /\ NoEmail \notin Emails
  BY EmailsAssumption DEF SessionInv, TypeOK, FirebaseTypeOK
<1>1. UNCHANGED calls => UploadsKnown' /\ \A j \in Lines : Made(j) => calls'[j] = calls[j]
  BY DEF RecordedInv, UploadsKnown
<1>2. ASSUME NEW k \in Lines, Free(k),
             \E step \in {"graph", "socialLogin", "login", "findLogin"} : \E v, e, p :
                Start(k, step, v, e, p)
      PROVE  UploadsKnown' /\ \A j \in Lines : Made(j) => calls'[j] = calls[j]
  BY <1>0, <1>2, LineGoesOn DEF Made, Free, Idle, Registrations
<1>3. CASE User
  <2>1. UNCHANGED <<accounts, users>>
    BY <1>3 DEF User, AuthVCInput, FacebookLogin, GoogleSignIn, FacebookLogout,
                SigninVCInput, OpenSignin, SignInWithEmail, Edit, PressSignIn, Close,
                UploadVCInput, PressDone, MainInput, SelectFind, OpenMenu, CloseMenu,
                SignOutWasPressed, MenuFacebookLogout, Leave
  <2>2. ASSUME NEW a \in AuthVCs, AuthVCInput(a)
        PROVE  UploadsKnown' /\ \A j \in Lines : Made(j) => calls'[j] = calls[j]
    BY <1>1, <1>2, <2>2 DEF AuthVCInput, FacebookLogin, GoogleSignIn, FacebookLogout
  <2>3. ASSUME NEW s \in SigninVCs, SigninVCInput(s)
        PROVE  UploadsKnown' /\ \A j \in Lines : Made(j) => calls'[j] = calls[j]
    BY <1>1, <1>2, <2>3
       DEF SigninVCInput, OpenSignin, SignInWithEmail, Edit, PressSignIn, Close
  <2>4. ASSUME NEW u \in UploadVCs, NEW k \in Lines, PressDone(u, k)
        PROVE  UploadsKnown' /\ \A j \in Lines : Made(j) => calls'[j] = calls[j]
    <3>1. CASE ~SignedIn
      BY <1>1, <2>4, <3>1 DEF PressDone
    <3>2. CASE SignedIn
      <4>1. currentUser \in Emails /\ ~Made(k)
        BY <1>0, <2>4, <3>2 DEF PressDone, SignedIn, MaybeEmail, Made, Free, Idle, Registrations
      <4>2. Start(k, "upload", u, currentUser, NoPassword)
        BY <2>4, <3>2 DEF PressDone
      <4> QED
        BY <1>0, <4>1, <4>2, LineGoesOn
    <3> QED
      BY <3>1, <3>2
  <2>5. ASSUME MainInput
        PROVE  UploadsKnown' /\ \A j \in Lines : Made(j) => calls'[j] = calls[j]
    <3>1. ASSUME NEW k \in Lines, SelectFind(k)
          PROVE  UploadsKnown' /\ \A j \in Lines : Made(j) => calls'[j] = calls[j]
      BY <1>1, <1>2, <3>1 DEF SelectFind, FindVCDidAppear
    <3> QED
      BY <1>1, <2>5, <3>1 DEF MainInput, OpenMenu, CloseMenu, SignOutWasPressed,
                              MenuFacebookLogout, Leave
  <2> QED
    BY <1>3, <2>1, <2>2, <2>3, <2>4, <2>5, RecordedWaits DEF User, UploadVCInput
<1>4. ASSUME NEW k \in Lines, Progress(k) PROVE RecordedInv'
  <2> DEFINE c == calls[k]
  <2>1. CASE ServeRegistration(k)
    <3>1. /\ calls'[k].step = c.step /\ calls'[k].email = c.email
          /\ \A j \in Lines \ {k} : calls'[j] = calls[j]
          /\ UNCHANGED users /\ c.step \in Registrations
      BY <1>0, <2>1, ServeAt DEF ServeRegistration
    <3>2. \/ UNCHANGED accounts /\ ~Made(k)
          \/ /\ accounts' = [accounts EXCEPT ![c.email] = c.password]
             /\ calls'[k].answer = "created"
      <4>1. c \in Call
        BY <1>0, <2>1, CallFacts DEF ServeRegistration, Registrations, SocialSteps,
                                     EmailSteps, CallsTypeOK
      <4> QED
        BY <1>0, <2>1, <4>1 DEF ServeRegistration, Made, CallsTypeOK, Call, CallBy
    <3>3. UploadsKnown'
      BY <3>1 DEF RecordedInv, UploadsKnown, Registrations
    <3>4. CASE UNCHANGED accounts /\ ~Made(k)
      BY <3>1, <3>3, <3>4 DEF RecordedInv, RecordPending, UploadsKnown, Made
    <3>5. CASE /\ accounts' = [accounts EXCEPT ![c.email] = c.password]
               /\ calls'[k].answer = "created"
      <4>1. ASSUME NEW e \in Emails, accounts'[e] # NoPassword
            PROVE  users'[e] # NoEmail \/ RecordPending(e)'
        <5>1. CASE e = c.email
          BY <3>1, <3>5, <5>1 DEF RecordPending
        <5>2. CASE e # c.email
          <6>1. accounts[e] # NoPassword
            BY <1>0, <3>5, <4>1, <5>2
          <6>2. ASSUME NEW j \in Lines, Made(j), calls[j].email = e
                PROVE  j # k
            BY <5>2, <6>2
          <6> QED
            BY <3>1, <6>1, <6>2 DEF RecordedInv, RecordPending, Made
        <5> QED
          BY <5>1, <5>2
      <4> QED
        BY <3>3, <4>1 DEF RecordedInv, UploadsKnown
    <3> QED
      BY <3>2, <3>4, <3>5
  <2>2. ASSUME NEW e \in Emails, c.email = e, Made(k), users' = [users EXCEPT ![e] = e],
               UNCHANGED accounts,
               \E step \in Relogins : \E v, f, p : Start(k, step, v, f, p)
        PROVE  RecordedInv'
    <3>1. /\ calls'[k].step \in Relogins
          /\ \A j \in Lines \ {k} : calls'[j] = calls[j]
      BY <1>0, <2>2, StartAt
    <3>2. UploadsKnown'
      BY <3>1 DEF RecordedInv, UploadsKnown, Relogins
    <3>3. \A d \in Emails : users'[d] = IF d = e THEN e ELSE users[d]
      BY <1>0, <2>2
    <3>4. ASSUME NEW d \in Emails, accounts'[d] # NoPassword
          PROVE  users'[d] # NoEmail \/ RecordPending(d)'
      <4>1. CASE d = e
        BY <1>0, <3>3, <4>1
      <4>2. CASE d # e
        <5>1. ASSUME NEW j \in Lines, Made(j), calls[j].email = d
              PROVE  j # k
          BY <2>2, <4>2, <5>1
        <5> QED
          BY <2>2, <3>1, <3>3, <3>4, <4>2, <5>1 DEF RecordedInv, RecordPending, Made
      <4> QED
        BY <4>1, <4>2
    <3> QED
      BY <3>2, <3>4 DEF RecordedInv, UploadsKnown
  <2>3. CASE SocialRegisterDone(k) \/ RegisterDone(k)
    <3>1. CASE c.answer = "created"
      BY <1>0, <2>2, <2>3, <3>1
         DEF SocialRegisterDone, RegisterDone, RegistrationSucceeds, CreateDBUser,
             CreatedKnown, Made, Registrations, Relogins
    <3>2. CASE c.answer # "created"
      <4>1. ~Made(k) /\ Finish(k) /\ UNCHANGED <<accounts, users>>
        BY <2>3, <3>2 DEF SocialRegisterDone, RegisterDone, Made
      <4> QED
        BY <1>0, <4>1, LineGoesOn, RecordedWaits
    <3> QED
      BY <3>1, <3>2
  <2>4. CASE UploadDone(k)
    <3>1. ~Made(k) /\ Finish(k) /\ UNCHANGED accounts /\ c.email \in Emails
      BY <2>4 DEF UploadDone, Made, Registrations, RecordedInv
    <3>2. \A e \in Emails : users[e] # NoEmail => users'[e] # NoEmail
      BY <1>0, <2>4, <3>1 DEF UploadDone, WriteRecord
    <3> QED
      BY <1>0, <3>1, <3>2, LineGoesOn, RecordedWaits
  <2>5. CASE \/ GraphDone(k) \/ SocialLoginDone(k) \/ SocialReloginDone(k)
             \/ LoginDone(k) \/ ReloginDone(k) \/ FindLoginDone(k)
    <3>1. ~Made(k) /\ UNCHANGED <<accounts, users>>
      BY <2>5 DEF GraphDone, SocialLoginDone, SocialReloginDone, LoginDone, ReloginDone,
                  FindLoginDone, Made, Registrations
    <3>2. \/ Finish(k)
          \/ \E step, v, e, p : Start(k, step, v, e, p) /\ step # "upload"
      <4>1. ASSUME NEW step \in {"socialLogin", "socialRegister", "register"}, NEW v,
                   NEW e, NEW p, Start(k, step, v, e, p)
            PROVE  \E t, w, f, q : Start(k, t, w, f, q) /\ t # "upload"
        <5>1. step # "upload"
          OBVIOUS
        <5> QED
          BY <4>1, <5>1
      <4> QED
        BY <2>5, <4>1 DEF GraphDone, SocialLoginDone, SocialReloginDone, LoginDone,
                          ReloginDone, FindLoginDone
    <3> QED
      BY <1>0, <3>1, <3>2, LineGoesOn, RecordedWaits
  <2> QED
    BY <1>4, <2>1, <2>3, <2>4, <2>5 DEF Progress
<1>5. CASE Transition
  <2>1. UNCHANGED <<accounts, users>>
    BY <1>5 DEF Transition, AuthVCDidAppear, SigninVCDidAppear, UploadVCDidAppear,
                MainDidAppear
  <2>2. ASSUME NEW k \in Lines, MainDidAppear(k)
        PROVE  UploadsKnown' /\ \A j \in Lines : Made(j) => calls'[j] = calls[j]
    BY <1>1, <1>2, <2>2 DEF MainDidAppear, FindVCDidAppear
  <2>3. UploadsKnown' /\ \A j \in Lines : Made(j) => calls'[j] = calls[j]
    BY <1>1, <1>5, <2>2
       DEF Transition, AuthVCDidAppear, SigninVCDidAppear, UploadVCDidAppear
  <2> QED
    BY <2>1, <2>3, RecordedWaits
<1>6. ~Relaunch
  BY DEF Relaunch
<1>7. CASE UNCHANGED vars
  BY <1>1, <1>7, RecordedWaits DEF vars
<1> QED
  BY <1>3, <1>4, <1>5, <1>6, <1>7 DEF Next

(* When every answer arrives and the process goes on, every account has    *)
(* its record at rest (Dataservice.swift's createDBUser), however hasty    *)
(* the user.                                                               *)
THEOREM AccountsRecorded ==
    ASSUME ~Offline, ~Restarts
    PROVE  Spec => []Recorded
<1>1. Init => RecordedInv
  BY EmailsAssumption DEF Init, RecordedInv, Idle
<1>2. SessionInv /\ RecordedInv /\ [Next]_vars => RecordedInv'
  BY RecordedStep
<1>3. RecordedInv => Recorded
  BY DEF RecordedInv, RecordPending, Recorded, Quiet, Free, Idle, Registrations
<1> QED
  BY <1>1, <1>2, <1>3, SessionInvariant, PTL DEF Spec

=============================================================================
