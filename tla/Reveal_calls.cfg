SPECIFICATION FairSpec
CONSTANTS
    menu = menu
    tabs = tabs
    NoVC = NoVC
    RearVCs = {menu}
    FrontVCs = {tabs, f2}
    RightVCs = {r1}
    Storyboard <- StreetParker
    RevealWidth = 260
    RevealOverdraw = 60
    QuickFlick = 250
    BounceBack = TRUE
    StableDrag = FALSE
    Targets = {2, 4, 6}
    Drags <- ShortFingers
    Velocities <- Flicks
    MaxQueue = 3
    Buttons = FALSE
    Taps = FALSE
    Cancels = TRUE
INVARIANTS TypeOK Paired MenuInPlace ControllersInPlace InteractionRestored
PROPERTIES KeepsOrder KeepsPerforming
