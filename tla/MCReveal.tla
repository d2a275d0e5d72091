------------------------------ MODULE MCReveal ------------------------------
(* Reveal as streetParker's storyboard sets it up: a menu behind the tabs, *)
(* and nothing on the right until somebody sets it.                        *)
EXTENDS Reveal

CONSTANTS menu, tabs

StreetParker == [rear |-> menu, front |-> tabs, right |-> NoVC]

(* A finger resting, going a little way, past the middle and off the edge. *)
Fingers == {-400, -300, -280, -200, -140, -100, 0, 100, 140, 200, 280, 300, 400}
ShortFingers == {-300, -140, 140, 300}

Flicks == {-300, 0, 300}
=============================================================================
