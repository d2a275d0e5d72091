------------------------------- MODULE Screens ------------------------------
(***************************************************************************)
(* UIKit's modal presentation as the view controllers use it.  The main    *)
(* screens (the reveal controller with FindVC, ChatVC and the menu) are at *)
(* the bottom and always there; "stack" holds what is presented over them, *)
(* the visible controller last.                                            *)
(*                                                                         *)
(* A transition is taken on the stack at once; what its animation defers   *)
(* is kept: "appearing" says that the controller now visible is owed its   *)
(* viewDidAppear, "completions" holds the presenting controllers that      *)
(* completion blocks of the form { pvc?.dismiss(...) } will dismiss.  Until*)
(* both are settled the user's touches do not reach the app; answers from  *)
(* the network do.                                                         *)
(***************************************************************************)
EXTENDS Naturals, Sequences

CONSTANTS
    AuthVCs,            \* instances of AuthVC
    SigninVCs,          \* instances of SigninVC
    UploadVCs           \* instances of uploadColorAndModelVC

ASSUME InstancesAssumption ==
    /\ AuthVCs # {}
    /\ AuthVCs \cap SigninVCs = {}
    /\ AuthVCs \cap UploadVCs = {}
    /\ SigninVCs \cap UploadVCs = {}

VCs == AuthVCs \cup SigninVCs \cup UploadVCs

VARIABLES
    stack,              \* the presented controllers, bottom first
    appearing,          \* is a viewDidAppear owed?
    completions,        \* controllers a completion block will dismiss
    trap                \* the force unwrap that found nil, if one did

screenVars == <<stack, appearing, completions>>

NoTrap == "none"
Traps == {NoTrap, "uploadVC viewDidLoad", "uploadVC doneBtnPressed",
          "uploadCarInfo", "burgerMenuVC viewDidAppear"}

ScreensTypeOK ==
    /\ stack \in Seq(VCs)
    /\ appearing \in BOOLEAN
    /\ completions \subseteq VCs
    /\ trap \in Traps

-----------------------------------------------------------------------------
AtMain == stack = <<>>
OnTop(v) == ~AtMain /\ stack[Len(stack)] = v
Presented(v) == \E i \in DOMAIN stack : stack[i] = v
UploadShown == \E u \in UploadVCs : Presented(u)

(* Input reaches the visible controller only between transitions. *)
Settled == ~appearing /\ completions = {} /\ trap = NoTrap

(* How much of the stack v.dismiss leaves: v's own presentation stays when *)
(* v presents something, which goes instead; otherwise v goes.             *)
Left(i) == IF i < Len(stack) THEN i ELSE i - 1

(* v.dismiss(animated: true, completion: nil) *)
Dismiss(v) ==
    \/ /\ ~Presented(v)
       /\ UNCHANGED screenVars
    \/ /\ \E i \in DOMAIN stack :
            /\ stack[i] = v
            /\ stack' = SubSeq(stack, 1, Left(i))
       /\ appearing' = TRUE
       /\ UNCHANGED completions

\* Mutant: the completion block is forgotten.
DismissAlone(v) == Dismiss(v)

(* let pvc = v.presentingViewController; v.dismiss { pvc?.dismiss }: pvc   *)
(* is nil when v is not presented any more, and is the main controller,    *)
(* which none of the code dismisses, when v is at the bottom.              *)
DismissThenPresenter(v) ==
    \/ /\ ~Presented(v)
       /\ UNCHANGED screenVars
    \/ /\ \E i \in DOMAIN stack :
            /\ stack[i] = v
            /\ stack' = SubSeq(stack, 1, Left(i))
            /\ completions' = IF i = 1 THEN completions
                                       ELSE completions \cup {stack[i - 1]}
       /\ appearing' = TRUE

(* p.present(v): UIKit refuses, with a message on the console, when p is   *)
(* not visible.  v's view is loaded by its presentation.                   *)
Push(v) ==
    /\ stack' = Append(stack, v)
    /\ appearing' = TRUE
    /\ UNCHANGED completions

(* The completion block { pvc?.dismiss } runs once the animation is over.  *)
RunCompletion(v) ==
    /\ trap = NoTrap
    /\ ~appearing
    /\ v \in completions
    /\ completions' = completions \ {v}
    /\ \/ /\ ~Presented(v)
          /\ UNCHANGED <<stack, appearing>>
       \/ /\ \E i \in DOMAIN stack :
               /\ stack[i] = v
               /\ stack' = SubSeq(stack, 1, Left(i))
          /\ appearing' = TRUE
    /\ UNCHANGED trap

=============================================================================
