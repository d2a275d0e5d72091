SPECIFICATION Spec
CONSTANTS
    menu = menu
    tabs = tabs
    NoVC = NoVC
    RearVCs = {menu}
    FrontVCs = {tabs, f2}
    RightVCs = {r1}
    Storyboard <- StreetParker
    RevealWidth = 260
    RevealOverdraw = 60
    QuickFlick = 250
    BounceBack = FALSE
    StableDrag = TRUE
    Targets = {2, 4, 5}
    Drags <- Fingers
    Velocities <- Flicks
    MaxQueue = 3
    Buttons = TRUE
    Taps = TRUE
    Cancels = FALSE
INVARIANTS PositionsAgree InItsPlace DragBounded DropsAtNearest
