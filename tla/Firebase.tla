------------------------------ MODULE Firebase ------------------------------
(***************************************************************************)
(* The two Firebase services as the app sees them through Authservice and  *)
(* Dataservice: password accounts and the signed-in user (Auth), and the   *)
(* tree /users of the realtime database.  The services are not part of the *)
(* repository; what is modelled is what Services/Authservice.swift and     *)
(* Services/Dataservice.swift rely on.                                     *)
(*                                                                         *)
(* An account's uid is identified with the e-mail it was created with.     *)
(***************************************************************************)
EXTENDS Naturals

CONSTANTS
    Emails,             \* the e-mail addresses of the people using the app
    NoEmail,            \* nil or the empty string
    FacebookEmails,     \* the addresses Facebook reports for its users
    GoogleEmails,       \* the addresses Google reports for its users
    TypedPasswords,     \* what people type in SigninVC's password field
    Offline             \* may calls fail and answers get lost?

FBPassword == "FBUser"           \* the same password for every Facebook user
\* Mutant: Facebook's password copied into the Google flow.
GooglePasswordCopied == FBPassword
GooglePassword == "googleUser"   \* the same password for every Google user
NoPassword == "no account"
Passwords == {FBPassword, GooglePassword} \cup TypedPasswords
MaybeEmail == Emails \cup {NoEmail}

ASSUME EmailsAssumption ==
    /\ NoEmail \notin Emails
    /\ FacebookEmails \subseteq Emails
    /\ GoogleEmails \subseteq Emails
    /\ NoPassword \notin TypedPasswords
    /\ Offline \in BOOLEAN

VARIABLES
    accounts,           \* the server's accounts: the password of each address
    currentUser,        \* Auth.auth().currentUser, kept in the keychain
    users               \* /users: the "email" child of each uid's record

authVars == <<accounts, currentUser>>

FirebaseTypeOK ==
    /\ accounts \in [Emails -> Passwords \cup {NoPassword}]
    /\ currentUser \in MaybeEmail
    /\ users \in [Emails -> MaybeEmail]

SignedIn == currentUser # NoEmail

-----------------------------------------------------------------------------
(* Auth.signIn: right when the account exists and has this password.       *)
Accepts(e, p) == e \in Emails /\ accounts[e] = p

(* loginUser and loginSocialUser, completing with success. *)
SignInSucceeds(e, p) ==
    /\ Accepts(e, p)
    /\ currentUser' = e
    /\ UNCHANGED accounts

\* Mutant: a failed login ends the session.
SignInFailsSignsOut(e, p) ==
    /\ Offline \/ ~Accepts(e, p)
    /\ currentUser' = NoEmail
    /\ UNCHANGED accounts

(* loginUser and loginSocialUser, completing with an error: the signed-in  *)
(* user, if any, stays signed in.                                          *)
SignInFails(e, p) ==
    /\ Offline \/ ~Accepts(e, p)
    /\ UNCHANGED authVars

\* Mutant: the keychain's error is swallowed.
SignOutIgnored == UNCHANGED authVars

(* signOut is synchronous and local. *)
SignOut ==
    /\ currentUser' = NoEmail
    /\ UNCHANGED accounts

(* Auth.createUser on the server: the address must be new. *)
CanCreate(e) == e \in Emails /\ accounts[e] = NoPassword

\* Mutant: the record is never written.
CreateDBUserForgotten(e) == UNCHANGED users

(* createDBUser: the write is applied to the local copy at once. *)
CreateDBUser(e) == users' = [users EXCEPT ![e] = e]

\* Mutant: the completion ends before createDBUser.
RegistrationWithoutRecord(e) ==
    /\ currentUser' = e
    /\ UNCHANGED <<accounts, users>>

(* The success branch of createUser's completion in registerUser and       *)
(* registerSocialUser: Firebase signs the new account in, then the app     *)
(* writes its record.                                                      *)
RegistrationSucceeds(e) ==
    /\ currentUser' = e
    /\ CreateDBUser(e)
    /\ UNCHANGED accounts

=============================================================================
