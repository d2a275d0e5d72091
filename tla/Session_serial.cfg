SPECIFICATION FairSpec
CONSTANTS
    x = x
    y = y
    a1 = a1
    a2 = a2
    l1 = l1
    l2 = l2
    NoEmail = NoEmail
    MainVC = MainVC
    Emails = {x, y}
    FacebookEmails = {x}
    GoogleEmails = {y}
    TypedPasswords = {"typed"}
    AuthVCs = {a1, a2}
    SigninVCs = {s1}
    UploadVCs = {u1}
    Lines = {l1}
    Offline = TRUE
    DiskFaults = FALSE
    Overlap = FALSE
    Restarts = FALSE
INVARIANTS TypeOK CrashFree RemembersOnlyUser NotStranded OwnRecords ProviderOwnsAccount
PROPERTIES KeepsOneUser UploadLeaves
