------------------------------ MODULE CoreData ------------------------------
(***************************************************************************)
(* The device's own memory of who logged in: the UserAndCar objects of     *)
(* Dataservice.  The managed context is what the running app reads and     *)
(* edits; only context.save() writes it to the store, and the store is     *)
(* what a new process starts from.  Objects hold an e-mail and nothing     *)
(* else, and the code only tells e-mails apart, so a context is a set.     *)
(***************************************************************************)

CONSTANT DiskFaults     \* may context.save() throw?

ASSUME DiskFaultsAssumption == DiskFaults \in BOOLEAN

VARIABLES
    context,            \* what fetch() returns
    store               \* what is on disk

coreDataVars == <<context, store>>

(* save(forEmail:) on a context that holds "objects": the insertion stays  *)
(* in the context even when the save throws; a save that succeeds writes   *)
(* every pending change, earlier deletions included.                       *)
SaveInto(objects, e) ==
    /\ context' = objects \cup {e}
    /\ \/ store' = context'
       \/ DiskFaults /\ UNCHANGED store

\* Mutant: what deleteAllDataFromCoreData leaves when it fails.
DeletedNothing == context

(* deleteAllDataFromCoreData deletes in the context and never saves. *)
Deleted == {}

\* Mutant: the objects are fetched and none is deleted.
DeleteAllSkipped == UNCHANGED coreDataVars

DeleteAll ==
    /\ context' = Deleted
    /\ UNCHANGED store

(* fetchUserInfo calls its handler once per object, in no order, and its   *)
(* callers keep the last answer: any object's e-mail, or the initial value *)
(* when there is none.                                                     *)
Fetched(none) == IF context = {} THEN {none} ELSE context

=============================================================================
