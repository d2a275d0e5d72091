SPECIFICATION Spec
CONSTANTS
    x = x
    y = y
    a1 = a1
    a2 = a2
    l1 = l1
    l2 = l2
    NoEmail = NoEmail
    MainVC = MainVC
    Emails = {x}
    FacebookEmails = {x}
    GoogleEmails = {x}
    TypedPasswords = {"typed"}
    AuthVCs = {a1, a2}
    SigninVCs = {s1}
    UploadVCs = {u1}
    Lines = {l1, l2}
    Offline = TRUE
    DiskFaults = FALSE
    Overlap = TRUE
    Restarts = FALSE
INVARIANTS UploadLoadsSignedIn
CHECK_DEADLOCK FALSE
