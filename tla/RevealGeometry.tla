--------------------------- MODULE RevealGeometry ---------------------------
(***************************************************************************)
(* Where SWRevealViewController puts its front view: the positions, the    *)
(* place each one stands for, how far a drag goes and where a drag ends.   *)
(* Places are points to the right of the resting place.  Both sides have   *)
(* the same widths and switches, as by default, and the widths are         *)
(* positive.                                                               *)
(***************************************************************************)
EXTENDS Integers

CONSTANTS
    RevealWidth,        \* rearViewRevealWidth, rightViewRevealWidth
    RevealOverdraw,     \* rearViewRevealOverdraw, rightViewRevealOverdraw
    QuickFlick,         \* quickFlickVelocity
    BounceBack,         \* bounceBackOnOverdraw, bounceBackOnLeftOverdraw
    StableDrag          \* stableDragOnOverdraw, stableDragOnLeftOverdraw

ASSUME GeometryAssumption ==
    /\ RevealWidth \in Nat \ {0}
    /\ RevealOverdraw \in Nat \ {0}
    /\ QuickFlick \in Nat
    /\ BounceBack \in BOOLEAN
    /\ StableDrag \in BOOLEAN

(* enum FrontViewPosition, and the FrontViewPositionNone of loadView. *)
LeftSideMostRemoved  == 0
LeftSideMost         == 1
LeftSide             == 2
Left                 == 3
Right                == 4
RightMost            == 5
RightMostRemoved     == 6
Positions == LeftSideMostRemoved .. RightMostRemoved
None == 255

RemovedPositions == {LeftSideMostRemoved, RightMostRemoved}

Abs(n) == IF n < 0 THEN -n ELSE n
Symmetry(p) == IF p < Left THEN -1 ELSE 1
SideOf(x) == IF x < 0 THEN -1 ELSE 1

\* Mutant: mirrored about the wrong position
AdjustedAboutZero(p, symmetry) == Left + symmetry * p

(* Positions of the left side are mirrored: what is computed for the right *)
(* holds for both.                                                         *)
AdjustedPosition(p, symmetry) == Left + symmetry * (p - Left)

(* frontLocationForPosition *)
FrontLocation(p) ==
    LET mirrored == AdjustedPosition(p, Symmetry(p))
    IN Symmetry(p) * (CASE mirrored = Right -> RevealWidth
                        [] mirrored > Right -> RevealWidth + RevealOverdraw
                        [] OTHER            -> 0)

-----------------------------------------------------------------------------
\* Mutant: nothing stops the slowed drag
AdjustedDragFree(x, p) ==
    SideOf(x) * (IF Abs(x) <= RevealWidth THEN Abs(x)
                 ELSE RevealWidth + (Abs(x) - RevealWidth) \div 2)

(* How far the front view follows a finger at x: all the way to the width, *)
(* by half the way in the overdraw, and then no further.  A drag that may  *)
(* stay in the overdraw is followed all the way.                           *)
AdjustedDrag(x, p) ==
    LET stable   == ~BounceBack \/ StableDrag \/ p \in {LeftSideMost, RightMost}
        width    == RevealWidth + (IF stable THEN RevealOverdraw ELSE 0)
        overdraw == IF stable THEN 0 ELSE RevealOverdraw
    IN SideOf(x) * (CASE Abs(x) <= width                -> Abs(x)
                      [] Abs(x) > width + 2 * overdraw  -> width + overdraw
                      [] OTHER -> width + (Abs(x) - width) \div 2)

(* Where a drag that ends at distance d from the resting place goes, moving *)
(* outwards or not with velocity: a flick goes by its direction, anything  *)
(* slower by the distance.                                                 *)
Flicked(velocity) == Abs(velocity) > QuickFlick

FlickTarget(d, outwards) ==
    CASE ~outwards -> Left
      [] outwards /\ d > RevealWidth /\ ~BounceBack /\ StableDrag -> RightMost
      [] OTHER -> Right

\* Mutant: any overdraw is kept
DropTargetOver(d) ==
    CASE 2 * d <= RevealWidth -> Left
      [] 2 * d > RevealWidth /\ d <= RevealWidth -> Right
      [] OTHER -> IF BounceBack THEN Left ELSE IF StableDrag THEN RightMost ELSE Right

DropTarget(d) ==
    CASE 2 * d <= RevealWidth -> Left
      [] 2 * d > RevealWidth /\ d <= RevealWidth -> Right
      [] d > RevealWidth /\ BounceBack -> Left
      [] d > RevealWidth /\ ~BounceBack ->
            IF StableDrag /\ 2 * d > 2 * RevealWidth + RevealOverdraw
            THEN RightMost ELSE Right

PanTarget(x, velocity) ==
    AdjustedPosition(IF Flicked(velocity)
                     THEN FlickTarget(Abs(x), velocity * SideOf(x) > 0)
                     ELSE DropTarget(Abs(x)), SideOf(x))

(* A flick lasts as long as its way takes: no time when there is none to go. *)
PanAnimated(x, velocity) ==
    Flicked(velocity) => Abs(x) # Abs(FrontLocation(PanTarget(x, velocity)))

-----------------------------------------------------------------------------
(* revealToggleAnimated and rightRevealToggleAnimated *)
ToggleTarget(p)      == IF p <= Left THEN Right ELSE Left
RightToggleTarget(p) == IF p >= Left THEN LeftSide ELSE Left

(* Where _dispatchPushFrontViewController first takes the front view. *)
PushTarget(p) ==
    CASE p > Left -> RightMost
      [] p < Left -> LeftSideMost
      [] OTHER    -> Left
=============================================================================
