------------------------------ MODULE UploadVC ------------------------------
(***************************************************************************)
(* Controllers/uploadColorAndModelVC.swift, the car form that ends every   *)
(* registration, with Dataservice.uploadCarInfo.  The form leaves the      *)
(* screen only from the upload's handler.                                  *)
(***************************************************************************)
EXTENDS Calls

(* The screen has no viewDidAppear of its own. *)
UploadVCDidAppear(u) ==
    /\ trap = NoTrap
    /\ appearing
    /\ OnTop(u)
    /\ appearing' = FALSE
    /\ UNCHANGED <<authVars, users, coreDataVars, stack, completions, trap,
                   calls, token>>

(* doneBtnPressed: force unwraps the signed-in user's e-mail, then asks    *)
(* for one snapshot of /users.                                             *)
PressDone(u, k) ==
    /\ UserMayAct
    /\ OnTop(u)
    /\ Free(k)
    /\ IF SignedIn
       THEN Start(k, "upload", u, currentUser, NoPassword) /\ UNCHANGED trap
       ELSE trap' = "uploadVC doneBtnPressed" /\ UNCHANGED calls
    /\ UNCHANGED <<authVars, users, coreDataVars, screenVars, token>>

HasRecord(e) == \E uid \in Emails : users[uid] = e

\* Mutant: the loop over the snapshot writes whatever child it meets.
WriteEveryRecord(e) == users' = [uid \in Emails |-> e]

(* The write: under the uid of whoever is signed in now. *)
WriteRecord(e) == users' = [users EXCEPT ![currentUser] = e]

(* uploadCarInfo's snapshot: look the e-mail up, write the record of the   *)
(* user signed in now, and leave.  Without a match nothing happens, and    *)
(* the handler is never called.                                            *)
UploadDone(k) ==
    /\ trap = NoTrap
    /\ calls[k].step = "upload"
    /\ LET c == calls[k] IN
       \/ /\ HasRecord(c.email)
          /\ SignedIn
          /\ WriteRecord(c.email)
          /\ DismissThenPresenter(c.by)
          /\ UNCHANGED trap
       \/ /\ HasRecord(c.email)
          /\ ~SignedIn
          /\ trap' = "uploadCarInfo"
          /\ UNCHANGED <<users, screenVars>>
       \/ /\ ~HasRecord(c.email)
          /\ UNCHANGED <<users, screenVars, trap>>
    /\ Finish(k)
    /\ UNCHANGED <<authVars, coreDataVars, token>>

=============================================================================
