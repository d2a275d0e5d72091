------------------------------- MODULE Reveal -------------------------------
(***************************************************************************)
(* SWRevealViewController: a front view over a rear one (the menu) and a   *)
(* right one.  Callers ask for positions and controllers through a queue   *)
(* of blocks; gestures move the front view directly.  A call, a gesture or *)
(* the completion of an animation is a turn of the main queue; a turn that *)
(* must still execute the oldest block is not over ("due"), and nothing    *)
(* else happens before it has.                                             *)
(***************************************************************************)
EXTENDS RevealGeometry, Sequences, FiniteSets

CONSTANTS
    RearVCs, FrontVCs, RightVCs,    \* the controllers each side may show
    NoVC,                           \* no controller (nil)
    Storyboard,                     \* what the storyboard's segues give each side
    Targets,                        \* positions callers ask for
    Drags,                          \* ways a finger is from where it went down
    Velocities,                     \* and its velocities as it leaves
    MaxQueue,                       \* bound: blocks waiting at once
    Buttons,                        \* are buttons in the views the only callers?
    Taps,                           \* do people tap the front view?
    Cancels                         \* may the system cancel a pan?

Sides == {"rear", "front", "right"}
VCs == [rear |-> RearVCs, front |-> FrontVCs, right |-> RightVCs]
AllVCs == RearVCs \cup FrontVCs \cup RightVCs

ASSUME RevealAssumption ==
    /\ \A s, t \in Sides : s # t => VCs[s] \cap VCs[t] = {}
    /\ NoVC \notin AllVCs
    /\ Storyboard \in [Sides -> AllVCs \cup {NoVC}]
    /\ \A s \in Sides : Storyboard[s] \in VCs[s] \cup {NoVC}
    /\ Storyboard["front"] # NoVC
    /\ Targets \subseteq Positions
    /\ Drags \subseteq Int /\ Velocities \subseteq Int
    /\ MaxQueue \in Nat
    /\ {Buttons, Taps, Cancels} \subseteq BOOLEAN

VARIABLES
    loaded,             \* isViewLoaded
    view,               \* controllers, their positions and their views
    x,                  \* the front view's place
    queue,              \* _animationQueue, oldest block first
    due,                \* must the oldest block be executed in this turn?
    animations,         \* the completions of the animations in flight
    pan,                \* _panInitialFrontPosition during a pan, or None
    interaction         \* the content view's userInteractionEnabled

vars == <<loaded, view, x, queue, due, animations, pan, interaction>>

Panning == pan # None

(* Blocks.  A pan holds the queue with one that does nothing. *)
Move(p, animated) == [op |-> "move", to |-> p, animated |-> animated]
Replace(s, vc, animated) ==
    [op |-> "replace", side |-> s, new |-> vc, animated |-> animated]
Hold == [op |-> "hold"]

Moves == [op : {"move"}, to : Positions, animated : BOOLEAN]
Replaces == {b \in [op : {"replace"}, side : Sides, new : AllVCs \cup {NoVC},
                    animated : BOOLEAN] : b.new \in VCs[b.side] \cup {NoVC}}
Blocks == Moves \cup Replaces \cup {Hold}

(* What a completion does: views it takes out, containers it drops,        *)
(* controllers that stop being children; and who started its animation.    *)
Completions == [out : SUBSET AllVCs, drop : SUBSET {"rear", "right"},
                leave : SUBSET AllVCs, by : {"block", "gesture"}]

Views == [controller : [Sides -> AllVCs \cup {NoVC}],
          position   : [Sides -> Positions \cup {None}],
          container  : SUBSET Sides,    \* the sides that have a container view
          shown      : SUBSET AllVCs,   \* whose view is in its container
          children   : SUBSET AllVCs]   \* childViewControllers

TypeOK ==
    /\ loaded \in BOOLEAN
    /\ view \in Views
    /\ \A s \in Sides : view.controller[s] \in VCs[s] \cup {NoVC}
    /\ x \in Int
    /\ queue \in Seq(Blocks)
    /\ due \in BOOLEAN
    /\ animations \in Seq(Completions)
    /\ pan \in Positions \cup {None}
    /\ interaction \in BOOLEAN

-----------------------------------------------------------------------------
(* Deployment of controllers.  v is a view state, p a new front position.  *)

\* Mutant: the front view moves off a side that has no controller
EffectiveHere(v, s, p) ==
    IF \/ s = "rear"  /\ p > Left /\ v.controller["rear"] = NoVC
       \/ s = "right" /\ p < Left /\ v.controller["right"] = NoVC
    THEN Left ELSE p

(* A side that has no controller is not revealed. *)
Effective(v, s, p) ==
    IF \/ s # "right" /\ p > Left /\ v.controller["rear"] = NoVC
       \/ s # "rear"  /\ p < Left /\ v.controller["right"] = NoVC
    THEN Left ELSE p

InSight(s, p) ==
    /\ p # None
    /\ CASE s = "rear"  -> p > Left
         [] s = "right" -> p < Left
         [] s = "front" -> p \notin RemovedPositions

(* Does a move to p put the side in view, or take it out? *)
Appears(v, s, p) == ~InSight(s, v.position[s]) /\ InSight(s, Effective(v, s, p))

\* Mutant: only a move to the resting place hides a side
DisappearsAtLeft(v, s, p) == InSight(s, v.position[s]) /\ Effective(v, s, p) = Left

Disappears(v, s, p) == InSight(s, v.position[s]) /\ ~InSight(s, Effective(v, s, p))

Some(v, sides) == {v.controller[s] : s \in sides} \ {NoVC}

(* _rear-, _right- and _frontViewDeploymentForNewFrontViewPosition for the *)
(* given sides: what is done at once, and what on completion.              *)
Deployed(v, p, sides) ==
    LET appearing == {s \in sides : Appears(v, s, p)}
    IN [v EXCEPT !.position  = [s \in Sides |-> IF s \in sides THEN Effective(v, s, p)
                                                               ELSE @[s]],
                 !.container = @ \cup appearing,
                 !.shown     = @ \cup Some(v, appearing)]

\* Mutant: the container view is not unloaded
DeploymentKeeps(v, p, sides, by) ==
    [out |-> Some(v, {s \in sides : Disappears(v, s, p)}), drop |-> {},
     leave |-> {}, by |-> by]

Deployment(v, p, sides, by) ==
    LET disappearing == {s \in sides : Disappears(v, s, p)}
    IN [out |-> Some(v, disappearing), drop |-> disappearing \ {"front"},
        leave |-> {}, by |-> by]

\* Mutant: the new controller is not added as a child
ReplacedOrphan(v, s, vc) ==
    IF vc = v.controller[s] THEN v
    ELSE [v EXCEPT !.controller[s] = vc,
                   !.shown = @ \cup (IF s \in v.container THEN {vc} \ {NoVC} ELSE {})]

(* _transitionFromViewController:toViewController:inView:, likewise. *)
Replaced(v, s, vc) ==
    IF vc = v.controller[s] THEN v
    ELSE [v EXCEPT !.controller[s] = vc,
                   !.children = @ \cup ({vc} \ {NoVC}),
                   !.shown    = @ \cup (IF s \in v.container THEN {vc} \ {NoVC} ELSE {})]

\* Mutant: the old controller's view is left in
ReplacementStays(v, s, vc) ==
    [out |-> {}, drop |-> {}, by |-> "block",
     leave |-> IF vc = v.controller[s] THEN {} ELSE {v.controller[s]} \ {NoVC}]

Replacement(v, s, vc) ==
    LET old == IF vc = v.controller[s] THEN {} ELSE {v.controller[s]} \ {NoVC}
    IN [out |-> old, drop |-> {}, leave |-> old, by |-> "block"]

(* A container that is dropped takes the views in it along. *)
Completed(v, c) ==
    [v EXCEPT !.shown     = @ \ (c.out \cup UNION {VCs[s] : s \in c.drop}),
              !.container = @ \ c.drop,
              !.children  = @ \ c.leave]

-----------------------------------------------------------------------------
(* The queue. *)

\* Mutant: the newest block is put where the oldest is taken
EnqueueFirst(blocks) ==
    /\ Len(queue) + Len(blocks) <= MaxQueue
    /\ queue' = blocks \o queue
    /\ due' = (queue = <<>>)
    /\ UNCHANGED <<loaded, view, x, animations, pan, interaction>>

(* _enqueueBlock: a block that finds the queue empty is executed at once. *)
Enqueue(blocks) ==
    /\ Len(queue) + Len(blocks) <= MaxQueue
    /\ queue' = queue \o blocks
    /\ due' = (queue = <<>>)
    /\ UNCHANGED <<loaded, view, x, animations, pan, interaction>>

\* Mutant: the next block is not executed
DequeueOnly ==
    /\ queue' = IF queue = <<>> THEN <<>> ELSE Tail(queue)
    /\ due' = FALSE

(* _dequeue, with nothing to remove or execute in an empty queue *)
Dequeue ==
    /\ queue' = IF queue = <<>> THEN <<>> ELSE Tail(queue)
    /\ due' = (Len(queue) > 1)

(* Go on to view w; completion c comes with the animation's end, or now. *)
Perform(w, c, animated) ==
    IF animated
    THEN /\ view' = w
         /\ animations' = Append(animations, c)
         /\ due' = FALSE
         /\ UNCHANGED queue
    ELSE /\ view' = Completed(w, c)
         /\ UNCHANGED animations
         /\ Dequeue

(* layoutSubviews, which does nothing while a pan disables it *)
LayoutSubviews == x' = IF interaction' THEN FrontLocation(view'.position["front"]) ELSE x

(* _setFrontViewPosition:withDuration: and _performTransitionOperation *)
SetFront(p, animated, by) ==
    /\ Perform(Deployed(view, p, Sides), Deployment(view, p, Sides, by), animated)
    /\ LayoutSubviews

PerformTransition(s, vc, animated) ==
    /\ Perform(Replaced(view, s, vc), Replacement(view, s, vc), animated)
    /\ UNCHANGED x

RunBlock ==
    /\ due
    /\ UNCHANGED <<loaded, pan, interaction>>
    /\ \/ /\ Head(queue).op = "move"
          /\ SetFront(Head(queue).to, Head(queue).animated, "block")
       \/ /\ Head(queue).op = "replace"
          /\ PerformTransition(Head(queue).side, Head(queue).new, Head(queue).animated)

(* The completion of an animation, whichever ends first. *)
AnimationDone(i) ==
    /\ ~due
    /\ view' = Completed(view, animations[i])
    /\ animations' = SubSeq(animations, 1, i - 1)
                        \o SubSeq(animations, i + 1, Len(animations))
    /\ Dequeue
    /\ UNCHANGED <<loaded, x, pan, interaction>>

-----------------------------------------------------------------------------
(* UIKit gives no touches to views that are being animated, nor during a   *)
(* pan.                                                                    *)
Touchable ==
    /\ loaded /\ ~due
    /\ interaction
    /\ animations = <<>>

(* What callers ask for, at any time between turns; buttons ask when they   *)
(* are touched.                                                            *)
MayCall == ~due /\ (Buttons /\ loaded => Touchable)

SetFrontViewPosition(p, animated) ==
    /\ MayCall
    /\ \/ /\ ~loaded
          /\ view' = [view EXCEPT !.position = [s \in Sides |-> p]]
          /\ UNCHANGED <<loaded, x, queue, due, animations, pan, interaction>>
       \/ /\ loaded
          /\ Enqueue(<<Move(p, animated)>>)

(* The targets are computed as the call is made, not as it is executed. *)
RevealToggle(animated) ==
    SetFrontViewPosition(ToggleTarget(view.position["front"]), animated)

RightRevealToggle(animated) ==
    SetFrontViewPosition(RightToggleTarget(view.position["front"]), animated)

(* A controller set before the view is loaded is set at once. *)
SetBeforeLoad(s, vc) ==
    /\ ~loaded
    /\ PerformTransition(s, vc, FALSE)
    /\ UNCHANGED <<loaded, pan, interaction>>

SetViewController(s, vc, animated) ==
    /\ MayCall
    /\ \/ SetBeforeLoad(s, vc)
       \/ /\ loaded
          /\ Enqueue(<<Replace(s, vc, animated)>>)

PushFrontViewController(vc, animated) ==
    LET front == view.position["front"]
        aside == PushTarget(front)
    IN /\ MayCall
       /\ \/ SetBeforeLoad("front", vc)
          \/ /\ loaded
             /\ animated
             /\ Enqueue(<<Move(aside, aside # front), Replace("front", vc, FALSE),
                          Move(Left, TRUE)>>)
          \/ /\ loaded
             /\ ~animated
             /\ Enqueue(<<Replace("front", vc, FALSE)>>)

(* loadView: the storyboard's segues, unless a rear controller is there, and *)
(* then everything the initial position reveals.                           *)
Segued ==
    IF view.controller["rear"] # NoVC THEN view.controller
    ELSE [s \in Sides |-> IF Storyboard[s] # NoVC THEN Storyboard[s]
                                                  ELSE view.controller[s]]

(* Nothing is in view but the empty front view. *)
Unrevealed ==
    [view EXCEPT !.controller = Segued,
                 !.children   = {Segued[s] : s \in Sides} \ {NoVC},
                 !.container  = {"front"},
                 !.position   = [s \in Sides |-> None]]

LoadView ==
    LET w == Unrevealed
        p == view.position["front"]
    IN /\ ~loaded
       /\ Segued["front"] # NoVC
       /\ loaded' = TRUE
       /\ UNCHANGED <<pan, interaction>>
       /\ Perform(Deployed(w, p, Sides), Deployment(w, p, Sides, "block"), FALSE)
       /\ LayoutSubviews

-----------------------------------------------------------------------------
(* Gestures. *)

(* gestureRecognizerShouldBegin *)
ShouldBegin == Touchable /\ queue = <<>>

(* The tap's move does not go through the queue; its completion dequeues. *)
Tap ==
    /\ Taps
    /\ ShouldBegin
    /\ view.position["front"] \notin {Left} \cup RemovedPositions
    /\ UNCHANGED <<loaded, pan, interaction>>
    /\ SetFront(Left, TRUE, "gesture")

(* Nothing is dragged away from the resting place but to reveal a controller. *)
PanForbidden(t) ==
    /\ view.position["front"] = Left
    /\ \/ t > 0 /\ view.controller["rear"] = NoVC
       \/ t < 0 /\ view.controller["right"] = NoVC

\* Mutant: the pan does not hold the queue
PanBeganUnheld(t) ==
    /\ ShouldBegin
    /\ ~PanForbidden(t)
    /\ pan' = view.position["front"]
    /\ interaction' = FALSE
    /\ UNCHANGED <<loaded, view, x, queue, due, animations>>

PanBegan(t) ==
    /\ ShouldBegin
    /\ ~PanForbidden(t)
    /\ queue' = <<Hold>>
    /\ pan' = view.position["front"]
    /\ interaction' = FALSE
    /\ UNCHANGED <<loaded, view, x, due, animations>>

(* The side the finger goes to is deployed, and completed, at once. *)
Swept(p) == Completed(Deployed(view, p, {"rear", "right"}),
                      Deployment(view, p, {"rear", "right"}, "gesture"))

PanChanged(t) ==
    LET to == FrontLocation(pan) + t
        blocked == \/ to < 0 /\ view.controller["right"] = NoVC
                   \/ to > 0 /\ view.controller["rear"] = NoVC
    IN /\ Panning /\ ~due
       /\ view' = CASE to < 0 -> Swept(LeftSide)
                     [] to > 0 -> Swept(Right)
                     [] OTHER  -> view
       /\ x' = AdjustedDrag(IF blocked THEN 0 ELSE to, view.position["front"])
       /\ UNCHANGED <<loaded, queue, due, animations, pan, interaction>>

\* Mutant: layout is restored after the move
PanEndedLate(velocity) ==
    /\ Panning /\ ~due
    /\ pan' = None
    /\ interaction' = TRUE
    /\ LET p == PanTarget(x, velocity)
       IN Perform(Deployed(view, p, Sides), Deployment(view, p, Sides, "gesture"),
                  PanAnimated(x, velocity))
    /\ UNCHANGED <<loaded, x>>

PanEnded(velocity) ==
    /\ Panning /\ ~due
    /\ pan' = None
    /\ interaction' = TRUE
    /\ SetFront(PanTarget(x, velocity), PanAnimated(x, velocity), "gesture")
    /\ UNCHANGED loaded

\* Mutant: touches stay disabled
PanCancelledDisabled ==
    /\ Cancels
    /\ Panning /\ ~due
    /\ pan' = None
    /\ Dequeue
    /\ UNCHANGED <<loaded, view, x, animations, interaction>>

PanCancelled ==
    /\ Cancels
    /\ Panning /\ ~due
    /\ pan' = None
    /\ interaction' = TRUE
    /\ Dequeue
    /\ UNCHANGED <<loaded, view, x, animations>>

(* A layout pass of UIKit's, after a rotation for example *)
LayoutPass ==
    /\ loaded /\ ~due
    /\ UNCHANGED <<loaded, view, queue, due, animations, pan, interaction>>
    /\ LayoutSubviews

-----------------------------------------------------------------------------
Init ==
    /\ loaded = FALSE
    /\ view = [controller |-> [s \in Sides |-> NoVC],
               position   |-> [s \in Sides |-> Left],
               container  |-> {}, shown |-> {}, children |-> {}]
    /\ x = 0
    /\ queue = <<>>
    /\ due = FALSE
    /\ animations = <<>>
    /\ pan = None
    /\ interaction = TRUE

(* The rear and the right side may be left without a controller. *)
Settable(s) == VCs[s] \cup (IF s = "front" THEN {} ELSE {NoVC})

Call ==
    \/ \E animated \in BOOLEAN :
        \/ \E p \in Targets : SetFrontViewPosition(p, animated)
        \/ RevealToggle(animated)
        \/ RightRevealToggle(animated)
        \/ \E s \in Sides : \E vc \in Settable(s) : SetViewController(s, vc, animated)
        \/ \E vc \in FrontVCs : PushFrontViewController(vc, animated)

FingerLeaves ==
    \/ \E velocity \in Velocities : PanEnded(velocity)
    \/ PanCancelled

AnimationEnds == \E i \in DOMAIN animations : AnimationDone(i)

Next ==
    \/ LoadView
    \/ Call
    \/ Tap
    \/ \E t \in Drags : PanBegan(t) \/ PanChanged(t)
    \/ FingerLeaves
    \/ RunBlock
    \/ AnimationEnds
    \/ LayoutPass

Spec == Init /\ [][Next]_vars

(* A turn of the main queue is completed, an animation ends, and a finger  *)
(* does not stay on the glass for ever.                                    *)
FairSpec ==
    /\ Spec
    /\ WF_vars(RunBlock)
    /\ WF_vars(AnimationEnds)
    /\ WF_vars(FingerLeaves)

-----------------------------------------------------------------------------
(* Properties.  Those of the queue and of the views assume that nobody taps *)
(* the front view, or that only buttons call.                               *)

AtRest == loaded /\ queue = <<>> /\ animations = <<>>

(* _enqueueBlock and _dequeue are paired: exactly one animation, pan or    *)
(* block yet to be executed stands for the oldest block in the queue, and  *)
(* nothing is in progress that the queue does not know of.                 *)
Paired ==
    Len(animations) + (IF Panning THEN 1 ELSE 0) + (IF due THEN 1 ELSE 0)
        = (IF queue = <<>> THEN 0 ELSE 1)

(* Every view in the window is the revealed controller's of its side, and  *)
(* every revealed side has it.  (A front controller that was set in a      *)
(* removed position is in the window all the same.)                        *)
MenuRested(v) ==
    \A s \in {"rear", "right"} :
        IF InSight(s, v.position[s])
        THEN s \in v.container /\ v.shown \cap VCs[s] = Some(v, {s})
        ELSE s \notin v.container /\ v.shown \cap VCs[s] = {}

FrontRested(v) ==
    /\ "front" \in v.container
    /\ v.shown \cap FrontVCs \subseteq Some(v, {"front"})
    /\ InSight("front", v.position["front"])
            => v.shown \cap FrontVCs = Some(v, {"front"})

ChildrenRested(v) == v.children = Some(v, Sides)

(* At rest the menu's and the right controller's views are in the window   *)
(* exactly when their position says that they are revealed: no completion  *)
(* of an earlier move has taken out what a later one put in.               *)
MenuInPlace == AtRest => MenuRested(view)

(* At rest the front controller, and no earlier one, is in the window, and *)
(* the child controllers are the ones on the three sides: a replacement    *)
(* that another one overtook has left nothing behind.                      *)
ControllersInPlace == AtRest => FrontRested(view) /\ ChildrenRested(view)

(* The front view is never dragged or moved beyond the overdraw.           *)
DragBounded == Abs(x) <= RevealWidth + RevealOverdraw

(* The views take touches unless a pan is in progress: a pan gives back    *)
(* what it disabled however it ends.                                       *)
InteractionRestored == interaction <=> ~Panning

(* Without cancelled pans the three positions agree: a side is revealed    *)
(* exactly when the front view has moved off it.                           *)
PositionsAgree ==
    loaded /\ ~Panning => \A s \in {"rear", "right"} :
        InSight(s, view.position[s]) <=> InSight(s, view.position["front"])

(* Without cancelled pans the front view is where its position says, or on *)
(* its way there.                                                          *)
InItsPlace == loaded /\ ~Panning => x = FrontLocation(view.position["front"])

(* A drag that may stay in the overdraw and is let go slowly ends in the   *)
(* position nearest to it.                                                 *)
DropsAtNearest ==
    Panning => \A p \in Positions :
        Abs(x - FrontLocation(PanTarget(x, 0))) <= Abs(x - FrontLocation(p))

(* Blocks are performed in the order of the calls, each when the one before *)
(* it is done (SWRevealViewController.h, setFrontViewPosition:animated:).  *)
Promise == INSTANCE InOrder WITH
    pending <- queue, performing <- Panning \/ animations # <<>>
KeepsOrder == Promise!Spec

(* The queue never gets stuck: blocks are done again and again, or it is   *)
(* empty again and again.                                                  *)
KeepsPerforming ==
    \/ []<><<queue # <<>> /\ queue' = Tail(queue)>>_queue
    \/ []<>(queue = <<>>)

-----------------------------------------------------------------------------
(* What SWRevealViewController.h says, and the code does otherwise.        *)

(* Moves that callers asked for are never animated at the same time.       *)
OneAfterTheOther ==
    Cardinality({i \in DOMAIN animations : animations[i].by = "block"}) <= 1

(* In a removed position no front controller is in the window.             *)
RemovedStaysOut ==
    AtRest /\ view.position["front"] \in RemovedPositions
        => view.shown \cap FrontVCs = {}
=============================================================================
