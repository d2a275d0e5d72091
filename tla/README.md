# streetParker: a verification project

streetParker is an iOS app (Swift) with a Firebase backend: people sign in
with Facebook, with Google or with an e-mail address, describe their car, and
then use a map, a chat and a side menu. The repository also holds the libraries the
app is linked with, two of them in source: leveldb, in which Firebase keeps what
it caches and has yet to send, and nanopb, with which it encodes messages. This
directory holds TLA+ modules that model three parts of it, the TLC
configurations that check them, and proofs checked by TLAPS. The first part is
the *session*: who is signed in, which screens are up, what the device and the
directory remember. The second is the *side menu's container*,
SWRevealViewController: its queue of operations, its gestures, and which
controllers' views are in the window. The third is the *native libraries*:
leveldb's tree of tables, its threads, log, crashes and recoveries, its file
formats, iterators, caches and environment, and nanopb. Paths of the first two
are relative to `src/streetParker/streetParker/`, those of the third to
`src/streetParker/Pods/leveldb-library/` and `src/streetParker/Pods/nanopb/`.

## Inventory

| component | state | operations | how it interacts |
|---|---|---|---|
| `Services/Authservice.swift` over Firebase Auth | the server's accounts, `Auth.auth().currentUser` (kept in the keychain) | `registerUser`, `registerSocialUser`, `loginUser`, `loginSocialUser`, `signOut` | asynchronous; completions run on the main queue; a registration writes the directory |
| `Services/Dataservice.swift`, directory | `/users`: a record per uid with an `email` | `createDBUser`, `uploadCarInfo`, `getNameForEmail` | snapshots and observers call closures of the view controllers |
| `Services/Dataservice.swift`, Core Data | `UserAndCar` objects: managed context, store on disk | `save`, `deleteAllDataFromCoreData`, `fetchUserInfo` | synchronous; AuthVC, SigninVC, burgerMenuVC write, FindVC and burgerMenuVC read |
| `Services/Dataservice.swift`, Bluetooth | none | `checkForBluetoothConnection` | called by FindVC and by the background fetch |
| `Controllers/AuthVC.swift` | `email`, `emailLogged` | Facebook and Google chains, the way to SigninVC, Facebook logout, `viewDidAppear`, the unwind from SigninVC | presented by AppDelegate and burgerMenuVC; presents SigninVC and the car form |
| `Controllers/SigninVC.swift` | two text fields | the e-mail chain, close, `viewDidAppear` | presented by AuthVC; presents the car form |
| `Controllers/uploadColorAndModelVC.swift` | three text fields | `viewDidLoad`, Done | dismisses itself and its presenter from the upload's handler |
| `Controllers/burgerMenuVC.swift` | which way out it shows | `viewDidAppear`, two logouts | presents a new AuthVC |
| `Controllers/FindVC.swift` | - | `viewDidAppear` logs in again from Core Data | the selected tab under the gate |
| `AppDelegate.swift` | the persistent container | launch, termination, background fetch | puts the gate up |
| `Supporting Files/SWRevealViewController.m` | positions of three controllers, a queue of blocks, two gesture recognizers | toggles, pans, taps, transitions | contains burgerMenuVC, FindVC and ChatVC |
| `ChatVC`, `messagingViewVC`, `Model/Message`, `views/` | - | layout | no behaviour of their own yet |
| leveldb `db/version_set`, `db/version_edit`, `db/dbformat` | the current `Version`: tables by level; where compactions begin; the manifest | lookup, level of a new table, choice of compactions and their inputs, `SaveTo`, `LogAndApply`, `Recover` | under DBImpl's mutex, but for the manifest's write |
| leveldb `db/db_impl` | memtables, the queue of writers, snapshots, the manual compaction, one background thread | `Open`, `Write`, `Get`, snapshots, `CompactRange`, `DeleteObsoleteFiles`, close | threads, one mutex given up around disk work |
| leveldb `db/log_writer`, `db/log_reader` | a place in a block | `AddRecord`, `ReadRecord` | carries batches and manifest edits |
| leveldb `table/*`, `db/db_iter` | bytes of a table; places of iterators | building, lookup, iterating both ways | a tower of iterators from blocks up to the user |
| leveldb `db/skiplist` | nodes and their links | insertion, search | one writer, readers without a lock |
| leveldb `util/cache`, `db/table_cache` | entries counted by reference | insert, look up, release, erase, prune | readers open tables without DBImpl's mutex |
| leveldb `util/env_posix` | the background queue, limits, buffers, locked files | `Schedule`, files to read and write, `LockFile` | the system below |
| nanopb `pb_encode`, `pb_decode`, `pb_common` | a stream, a field iterator, the message's struct and what is allocated for it | encode, decode, release | a byte stream that may end anywhere |

**What is hard here.** Everything runs on the main queue, so there are no data
races; but every operation on the network is a chain of closures, each of which
reads shared state again (`self.email`, the text fields, `currentUser`, the
presentation stack) after the world may have changed: another chain may have
started, the user may have logged out, the process may have died between the
server's part and the app's. Six `dismiss` calls in three files take screens
away, and seven force unwraps assume somebody is signed in. `PROJECT.json` lists
the hazards at their lines, with the properties that look for each.

The side menu's container has the same trouble on a smaller scale: three
sources (callers, two gesture recognizers, completions of animations) change
the same positions, one queue keeps them apart, and it does so only if every
`_enqueueBlock` meets exactly one `_dequeue`, from whichever completion.

The native libraries are where the threads, crashes and limits are. leveldb gives
its mutex up in the middle of a write, a compaction and a manifest's record, and
looks at the world again afterwards; its directory has to be recoverable after a
crash between any two steps on the disk; file numbers, versions and cache entries
must outlive those who read them and nobody else. Its iterators turn around over
layers that each know a part of the truth. nanopb reads input that somebody else
has written, with fewer or narrower fields than the writer, and has to free
exactly what it allocated.

**What makes it correct.** *Gate*: the main screens are up only for somebody
signed in and go away as that user signs out (`MainSignedIn`, `KeepsGate`);
nobody signed in is kept at the gate (`NotStranded`). *Car form*: it is up only
for somebody signed in, writes only that user's record, and goes away
(`UploadSignedIn`, `OwnRecords`, `UploadLeaves`). *Accounts*: one provider's
addresses keep that provider's password, and every account has a record
(`ProviderOwnsAccount`, `Recorded`). *Device*: Core Data remembers nobody but
the user, so FindVC cannot change who that is (`RemembersOnlyUser`,
`KeepsOneUser`). *No trap*: no force unwrap finds nil (`UnwrapsHold`,
`CrashFree`). *Container, queue*: each operation asked for is performed after
the one before it is done (`Paired`, `KeepsOrder`), and the queue never waits
for a completion nobody owes (`KeepsPerforming`). *Container, views*: when it is
at rest the window holds the revealed controllers' views and no others
(`MenuInPlace`, `ControllersInPlace`). *Container, gestures*: a pan
gives back the touches it took (`InteractionRestored`), the three positions
agree with each other and with the place of the front view (`PositionsAgree`,
`InItsPlace`, `DragBounded`), and a drag ends where it is nearest to
(`DropsAtNearest`). *leveldb, tree*: below level 0 no two tables of a level
overlap (`LevelsDisjoint`), and a read finds the newest entry it may see
(`ReadsRight`). *leveldb, database*: writes are batches that take effect whole and
in order, and those that were promised survive (`KeepsPromises`, `Durable`); every
directory a crash leaves can be opened (`Recoverable`); a table exists as long as
somebody may read it and is never written again (`PinnedTablesExist`,
`TablesImmutable`); every writer returns (`WritersReturn`). *leveldb, files*: a log
reads back what was written up to the damage (`LogReadsBack`), tables and the
iterators over them find and show what was put in (`TablesSound`,
`IteratorAgrees`). *leveldb, memory*: a reader beside an insertion finds all that
was there before (`SearchesSound`), a handle is of the table asked for and open
(`TableHandlesSound`), the environment keeps its books (`EnvSound`). *nanopb*: what
is decoded is what was encoded, as far as the reader knows it, and what was
allocated is released once, but for two kinds of oneof in which the code fails
(`MessagesSound`; see *What was found*).

## Modules

    Firebase   CoreData   Screens        state and operations of the services
         \        |        /
                Calls                    calls in flight; shared steps of the chains
               /     \
          AuthVC     UploadVC
          /    \        |
    SigninVC  MainVCs   |                one module per view controller
          \     |      /
             Session                     Init, Next, fairness, properties
            /   |    \
    Gatekeeper  |  SessionProofs         abstract specification; theorems
             MCSession                   instances for TLC

- **Firebase**: `accounts` and `users` are the server's, `currentUser` the
  keychain's. A uid is identified with the e-mail it was created with. The
  Facebook flow uses one password for all its users, the Google flow another
  (`FBPassword`, `GooglePassword`).
- **CoreData**: `context` is what `fetch` sees, `store` what a new process
  starts from. Only `save` writes the store, so deletions reach it late.
- **Screens**: `stack` is what is presented over the main screens. A transition
  changes the stack at once; what its animation defers is kept in `appearing`
  (a `viewDidAppear` is owed) and `completions` (blocks `{ pvc?.dismiss }` not
  yet run). Touches wait for both, answers from the network do not. `trap` names
  the force unwrap that found nil; nothing but a relaunch happens after one.
- **Calls**: a record in `calls` is a closure that Firebase or Facebook holds:
  its step in the chain, the controller it captured and the arguments evaluated
  when the call was made. `ServeRegistration` is the server's half of
  `createUser`, apart from the completion, so that an answer can be lost.
- **AuthVC, SigninVC, UploadVC, MainVCs**: one action per handler or closure.
  The Facebook and Google chains have the same closures with another password,
  so they share `SocialLoginDone`, `SocialRegisterDone`, `SocialReloginDone`.
- **Session** composes them. `Relaunch` is any end of the process with the next
  launch: keychain, Facebook token, store and server survive it.
- **Gatekeeper** is the promise to the main screens, with two variables. With
  `Switching` somebody else may be signed in while the main screens are up; with
  no switching whoever came in stays until leaving. `KeepsGate` and
  `KeepsOneUser` are the refinements, mapping `who` to `currentUser` and `place`
  to whether the stack is empty.

The container is a specification of its own:

    RevealGeometry                       positions, places, drags
          |
        Reveal ---- InOrder              the controller; what it promises
        /    \
    MCReveal  RevealProofs               instance for TLC; theorems

- **RevealGeometry** is arithmetic: `FrontViewPosition`, the place each stands
  for, how far a drag follows the finger (`AdjustedDrag`) and which position it
  ends in (`PanTarget`).
- **Reveal**: `queue` is `_animationQueue`; a block is a move, a replacement of
  a controller, or the empty one with which a pan holds the queue.
  `_enqueueBlock` and `_dequeue` execute the oldest block within the same turn of
  the main queue; here that is a step of its own, `RunBlock`, and while it is
  `due` no other action is enabled, so nothing comes between that did not in the
  code. The three blocks of a push are enqueued together: only the first can be
  executed at once, and the others would find the queue as it is when their turn
  comes. `animations` are the completions that UIKit owes, each with what it will
  do; an operation that is not animated completes in the same step. `view` is
  what deployment changes: each side's controller, its position, whether it has a
  container view, which controllers' views are in the window and which are
  children. `x` is the front view's place, set by moves, drags and
  `layoutSubviews`. `pan` is `_panInitialFrontPosition`.
- **InOrder** is the queue's promise with two variables: the operations asked
  for and whether the oldest is in progress. `KeepsOrder` maps `pending` to
  `queue` and `performing` to `Panning \/ animations # <<>>`.

The native libraries are two families. The first is the database:

    InternalKeys                         keys, sequence numbers, their order
         |
      Versions                           levels of tables: lookup, choices, inputs
         |
     Compactions                         what a compaction writes
       /     \
     LSM         DB ---- KVStore         one thread; all of them; the promise
    /   \       /  \
 MCLSM   \   MCDB  DBProofs              workloads and scenarios; tables and recovery
     LSMProofs         |
                  PromiseProofs          sorted levels; the refinement of KVStore

`VersionLemmas`, over `Compactions` and `DataLemmas`, has the lemmas about versions and
compactions that `LSMProofs` and `DBProofs` share.

- **InternalKeys**: the sequence number names the write, and so stands for the
  value written.
- **Versions**: a `Version` is a function from levels to sequences of
  `FileMetaData`, and every operation on it an operator, as versions are
  immutable: `FindFile`, `SomeFileOverlapsRange`, `GetOverlappingInputs`,
  `PickLevelForMemTableOutput`, the search of a `Get`, the choice of a compaction by
  size, by seeks or by request, `SetupOtherInputs` with its expansion,
  `AddBoundaryInputs`, `SaveTo`. Sizes count entries.
- **Compactions** is `DoCompactionWork`: which entries are dropped, where one output
  ends and the next begins, and what is a trivial move.
- **LSM** takes them in any order, one thread, no disk.
- **DB**: an action is what one thread does between taking the mutex and giving it
  up, or one step on the disk without it. `disk` is the directory: logs and
  manifests with how many records are synced, tables, and what CURRENT names.
  A crash leaves any prefix of a log or manifest that holds what was synced.
  Opening takes five actions (`NewDB`, `Recover`, `WriteNewManifest`,
  `SetCurrentFile`, `FinishOpen`), a write `BeginWrite` to `FinishWrite` around
  `AddRecord`, a compaction `BeginCompaction`, `OpenOutputs` and
  `FinishCompactionWork`, with `WriteEdit` and `InstallEdit` around the unlocked part
  of `LogAndApply`; a memtable may be compacted in between. `written` and `promised`
  are history: the groups the database stands for and those whose synced write
  returned ok.
- **KVStore** is the promise about them, three actions long. `KeepsPromises` maps
  `up` to `phase = "open"` and `store` to `written`.

The second is the parts that stand alone; **MCNative** runs one of them at a time:

    LogFormat    Tables --- TwoLevelIterator    SkipList    LRUCache    PosixEnv    Protobuf
        |          |            /                  |           |           |           |
        |       FileIterators -                    |       TableCache      |           |
        |          |                               |           |           |           |
        |       Iterators                          |           |           |           |
        +----------+------------- MCNative --------+-----------+-----------+-----------+

`NativeProofs` holds the theorems about `SkipList`, `TableCache` and `PosixEnv`;
`DataLemmas`, under it and under `VersionLemmas`, lemmas about folds, sums and finite
sets.

- **LogFormat**: a file is a sequence of cells, a header takes several. After the
  writer, the file is left whole, cut anywhere, or has one cell changed, and a
  reader may begin at an offset. A checksum is taken to tell damage.
- **Tables** builds blocks with shared prefixes and restart points, shortened index
  keys and filters by offset, byte by byte, since those are where it can go wrong.
  **TwoLevelIterator** is instantiated twice in **FileIterators**: blocks of a table,
  tables of a level. **Iterators** is the merging iterator and DBIter over any
  sorted children. The state is an iterator and the place a reader expects it at.
- **SkipList**: an insertion links one level at a time; iterators load one pointer
  at a time and may see an old `max_height_`.
- **LRUCache** is one shard, every call a function on it, under **TableCache**'s
  readers, which look up, open and insert in three steps, and evictions.
- **PosixEnv**: four machines: the background queue and its thread, the limiters of
  maps and descriptors, buffered writable files and a manifest's directory, and file
  locks within and between processes.
- **Protobuf**: messages of a schema go through `pb_encode` into a buffer and a
  stream that may be cut, and through `pb_decode` into a struct of a reader that
  knows the same, fewer or narrower fields, over fields that were released or not.
  The members of a oneof share one slot, with what the last of them left there. When
  the decoder frees or reallocates what is no pointer, the phase is `undefined` and
  nothing follows.

Definitions introduced by `\* Mutant:` are faulty versions of the operator below
or above them, with which a checked property must fail. They are used nowhere else.

## Runs

| run | instance | shows |
|---|---|---|
| `serial` | two people (one on Facebook, one on Google, both may type), one call at a time, failures, the user waits | `TypeOK`, `CrashFree`, `RemembersOnlyUser`, `NotStranded`, `OwnRecords`, `ProviderOwnsAccount`, `KeepsOneUser`, `UploadLeaves` |
| `reliable` | one person, two chains in flight, network and process reliable | `Recorded` |
| `chains` | one person, two chains in flight, network and disk fail, restarts | `MainSignedIn`, `UploadSignedIn`, `UnwrapsHold`, `SessionInv`, `KeepsGate` |
| `carform` | as `chains`, disk and process reliable | finding: the car form is loaded for nobody (`uploadColorAndModelVC.swift:31`) |
| `reveal_calls` | callers at any time, pans that may be cancelled, no taps, fair | `TypeOK`, `Paired`, `MenuInPlace`, `ControllersInPlace`, `InteractionRestored`, `KeepsOrder`, `KeepsPerforming` |
| `reveal_app` | the app's use: buttons call, people tap and pan, thirteen places of the finger, an overdraw in which drags may stay | `PositionsAgree`, `InItsPlace`, `DragBounded`, `DropsAtNearest` |
| `reveal_tap` | taps and callers at any time | finding: two of the caller's moves are animated at once (`SWRevealViewController.m:1193`) |
| `lsm` | four workloads, every order of flushes and compactions | `LevelsDisjoint`, `ReadsRight` |
| `resurrect` | a key deleted while a snapshot sees its value, then another | finding: a deleted value comes back (`version_set.cc:1411`) |
| `db` | six scenarios: crashes, reads, manual compactions, failing syncs, an append that fails half-way, an error during a manual compaction | `ReadsRight`, `Recoverable`, `PinnedTablesExist`, `TablesImmutable`, `KeepsPromises`, `WritersReturn` |
| `torn` | an append that fails half-way, and a synced write after it | finding: the synced write is not recovered (`db_impl.cc:1215`) |
| `native` | the other parts, one at a time | `LogReadsBack`, `IteratorAgrees`, `TablesSound`, `SearchesSound`, `TableHandlesSound`, `EnvSound`, `MessagesSound` |

The switches matter: `CrashFree`, `RemembersOnlyUser`, `NotStranded`, `OwnRecords`
and `KeepsOneUser` are about a user who waits (`Overlap` FALSE) and do not hold of
overlapping chains; `carform` shows one of the ways they fail. `Recorded` needs
`Offline` and `Restarts` FALSE: with a lost answer the account exists and its
record is never written. It then holds even with overlapping chains. The gate's
invariants need none of this.

In Reveal, `Taps` lets people tap the front view: the tap's move bypasses the
queue but its completion dequeues, so `Paired` and `KeepsOrder` are about a
container without taps (`reveal_tap` shows how a tap breaks the order). `Buttons`
says that the only callers are buttons in the views, which get no touches while
an animation or a pan is in progress; that is all this app has (the menu buttons
of FindVC and ChatVC, `revealToggle:`), and with it the tap does no harm.
`Cancels` lets the system cancel a pan: the front view then stays where it was
dragged, without a position that says so, hence `PositionsAgree` and `InItsPlace`
are stated without it.

In DB a scenario says what is written and how often each of the other things may
happen; TLC takes them in every order. `Crashing` has two crashes, one of which may
hit a recovery; `Reading` a reader that pins a version, and a snapshot; `Manually`
two manual compactions; `Failing` a new database whose log and manifest fail to be
synced; `HalfWay` an append of which a part reaches the file; `Cancelled` an error
while a manual compaction is waited for. `KeepsPromises` and `ReadsRight` are about
the writes the database stands for, so a failed append is followed by no synced
write in `HalfWay`: that is `torn`. `Failing` has no crash: see below.

**What was found.** Four runs end in a violation of something the code, its
documents or tests say; `PROJECT.json` quotes the lines. More was met in passing:

- *A car's record needs a user.* In `chains`' instance with two people,
  `UploadWritesSignedIn` (Session) fails: `uid!` finds nil at `Dataservice.swift:96`
  when the user logged out between Done and the snapshot.
- *Deleted e-mails come back.* With restarts, `DeletedStaysDeleted` (Session) fails:
  deletions wait for the next save (`Dataservice.swift:163`).
- *A removed front view.* With a removed position and a new front controller,
  `RemovedStaysOut` (Reveal) fails (`SWRevealViewController.m:1466`).
- *Resurrection.* `AddBoundaryInputs` exists to keep the versions of a key together.
  It is called for the inputs of level *n* (`version_set.cc:1407` and 1422) and not
  for those of level *n+1*, so that `resurrect` still finds versions that are split
  between two tables of the output level, one of which is compacted alone.
- *A memtable in the gap.* While level 0 tables with keys 1 and 3 are being
  compacted, a memtable with key 2 is free to go to level 1, into the gap, and then
  overlaps the output 1..3: the assertion at `version_set.cc:747` fails, or, without
  assertions, reads may miss. In DB: level-0 triggers 3, one thread, batches of 1,
  flush, 3, flush, twice, then 2, flush, with a manual compaction of level 0;
  `LevelsDisjoint` fails. `db`'s scenarios have keys without a gap.
- *A crash while a database is created.* `NewDB` makes CURRENT name the first
  manifest, which it has closed and never synced (`db_impl.cc:182-212`): with
  `created` FALSE and a crash, `Recoverable` fails, where the comment on line 283
  relies on what a failed creation leaves being opened again. Later manifests are
  synced before CURRENT names them; the mutant of `Recoverable`,
  `SetCurrentUnsynced`, takes that away.
- *A cancelled manual compaction.* `TEST_CompactRange` takes
  `manual_compaction_` back on a background error (`db_impl.cc:618`) while the
  background thread may be in the middle of it; that thread then writes through the
  null pointer (`db_impl.cc:761`). In `db` this is the phase `dead`, after which
  nothing is promised; `NoNullManual` says that it does not happen, and fails.
- *A lock that is given away.* A second `LockFile` in the process opens the lock
  file, finds it locked in the table, and closes its descriptor (`env_posix.cc:627`),
  which with `fcntl` releases the process's lock. `LocksExclude` is about the time
  until then (`slipped`).
- *A oneof that forgets.* nanopb promises that `pb_release` releases any allocated
  field and that a failed `pb_decode` already did (`pb_decode.h:101-103`). A
  submessage in a oneof, kept in the struct, with an allocated field of its own,
  that comes twice in one message is zeroed without being released
  (`pb_decode.c:466-473`), since `pb_release_union_field` returns early when the
  member stays the same (lines 1136-1137): the first value's allocations leak. The
  wire format allows a field to come twice. `native` has such a oneof (member 8 of `InStruct`, sent
  twice in plain framing), and `EverythingReleased` says that something stays
  allocated after that, and after nothing else.
- *A oneof whose bytes are taken for a pointer.* When one member of a oneof is kept
  in the struct and another is allocated, and both come in this order in one message,
  the first one's bytes are still in the union when `allocate_field` reads a pointer
  there and reallocates it (`pb_decode.c:489`, after line 569 has taken it for one in
  the case of a submessage): undefined, unless they are all zero. `native` has such a
  oneof (`Mixed`), and `EverythingReleased` says that decoding is undefined after
  these messages, and after no others. The fields of `Mixed` that are kept in the
  struct are numbers, whose bytes are zero exactly if their value is.
- *A oneof that is replaced.* The comment at `pb_decode.c:1137` has a second value
  of the same member merged into the first; the decoder zeroes the submessage first,
  or releases it when it is allocated (line 571). `MessagesArrive` expects what the code
  does (`MergeViews`), with different values of the same member.

Read and not run: a new log does not sync the one before, so a synced write
promises nothing of unsynced ones in it; `BuildBatchGroup` also takes a waiting
null batch (a request for compaction) along, which then returns without one; a bad
record before its initial offset ends the reader's skipping (`resyncing_`), so
that it reports the rest of that record as a corruption; the manifest may reach
the disk by write-back before `SyncDirIfManifest` has synced the names in it.

**Bounds.** Two instances of AuthVC are enough for an old one to be captured by
a late closure while a new one is up; when no instance is free the presentation
waits. One SigninVC and one car form: with two the state space of `chains` is
out of reach, and the theorems cover any number. Two lines give the overlap of
two chains; the proofs cover any number. Two people, in `serial`, give every
mix-up of one with another; two people and two chains together are left to the
theorems. Traps stop the system until a relaunch, so `reliable` and
`carform` do not check deadlock.

For the container: one menu, two front controllers so that one replaces another,
one right controller, the app's default widths (260 and 60) and flick velocity
(250). `MaxQueue` 3 holds a whole push, or one behind which another call waits.
Callers ask for the left side, the right and a removed position (2, 4, 6) in
`reveal_calls`, for 2, 4 and 5 in `reveal_app`, where drags may stay in the
overdraw, and by toggles for `Left`. Fingers go a short way, past half the width,
into the overdraw and beyond it on both sides; velocities are a flick each way and
none.

For the tree: four levels, so that an entry can be moved, merged and dropped, two
tables of level 0 that start a compaction, two entries in a memtable and in a table,
four writes over at most three keys. That is where a key's versions are split over
tables, a table is moved past another, and a deletion is dropped: 132,277 states.
`db` has three levels and one entry in a memtable, so that every write after the
first needs room; two threads that write, so that one can write for the other; one
reader. Its workloads end, and so `lsm`, `resurrect`, `db`, `torn` and `native` do
not check deadlock; that writers do not wait for ever is `WritersReturn`. `native`:
blocks of seven cells with headers of three, so that a record of six spans three
blocks and headers meet every offset; blocks of two restarts; one descriptor and
one map; two readers and three tables over a cache of none or one; two heights;
six pairs of schemas, with required, optional, repeated, packed, fixed-count and oneof
fields in the struct, all but the required and the fixed-count ones also allocated,
and a oneof of both kinds; two messages, so that in plain framing a field comes a second
time, submessages and members of a oneof with the same value and with another.

**Fairness.** `FairSpec` asks that UIKit finishes its transitions
(`WF(Transition)`) and that Firebase and Facebook call every completion, with an
answer or an error (`WF(Progress(k))`). The user owes nothing. Only `UploadLeaves`
uses it. Reveal's `FairSpec` asks that a turn of the main queue is completed
(`WF(RunBlock)`: no scheduling lies between), that UIKit calls the completion of
every animation (`WF(AnimationEnds)`) and that a finger leaves the glass in the
end (`WF(FingerLeaves)`). Callers owe nothing. Only `KeepsPerforming` uses it.
DB's `FairSpec` asks that a thread in `Write` that need not wait, and a background
thread that is scheduled, take steps: threads of the system are scheduled. It is
weak fairness of `WriteSteps` and `Background` with the guards written out
(`WriterRuns`, `BackgroundRuns`): a thread that does not wait has a step to take.
Readers, snapshots, manual compactions, closes, crashes and faults owe nothing.
Only `WritersReturn` uses it; the phase `dead` counts as the process's end.

## Proofs

A theorem holds for all constants that satisfy the named assumptions of the modules
it extends (`NoEmail` is no address, instances of different controllers differ,
widths are positive, the greatest height is not 0, ...); what else it needs is a
hypothesis, and each hypothesis is one of the switches of the runs.

**The session.** `SessionProofs` needs no hypothesis: any number of people,
controllers and chains, overlapping, with failures and restarts.

- `SessionInvariant`, `Spec => []SessionInv`, and from it `TypeCorrect`,
  `MainIsSignedIn`, `CarFormSignedIn` and `UnwrapsNeverFail`;
- `GateImplemented`, `Spec => KeepsGate`.

`MainSignedIn` is not inductive: a dismissal of AuthVC leaves the main screens,
and whether somebody is signed in then depends on which screen was dismissed and
by whom. `SessionInv` adds that AuthVC is at the bottom of a non-empty stack
(so nothing but a dismissal *of AuthVC* empties it, and closing SigninVC does
not), that the car form is never covered (so a logout on AuthVC finds none), that
completion blocks wait only while somebody is signed in (touches, and so
logouts, wait for them), that an account the server created belongs to a real
address, and the types, among them that a closure captured a controller of the
right kind. Three lemmas say what a step that dismisses, presents, or leaves the
screens alone does to that invariant; `DataTypeStep`, `SignedStep` and
`CreatedStep` go through the actions.

Its second part is about what a hasty user's session does not keep:

| theorem | states | assumes |
|---|---|---|
| `SerialInvariant` | `[](SessionInv /\ SerialInv)` | the user waits (`~Overlap`) |
| `NeverCrashes`, `NobodyStranded` | `[]CrashFree`, `[]NotStranded` | the user waits |
| `CallsCarry` | `[]CallData`, with the above | the user waits |
| `RecordsOwned` | `[]OwnRecords` | the user waits |
| `ProvidersOwn` | `[]ProviderOwnsAccount` | the user waits; nobody types a provider's password |
| `MemoryInvariant` | `[]MemoryInv`, with the above | the user waits; no restarts |
| `OnlyUserRemembered` | `[]RemembersOnlyUser` | the user waits; no restarts |
| `OneUserImplemented` | `KeepsOneUser` | the user waits; no restarts |
| `AccountsRecorded` | `[]Recorded` | every answer arrives; no restarts |

The invariant follows a chain of calls across the screens. `LinesInPlace` says
that there is one chain at most and where each of its steps finds its
controller: on top with nothing owed and nobody signed in while it asks, dismissed
or still on top with somebody signed in from the first login that succeeds.
`ScreensPass` says that SigninVC is on an AuthVC that knows of the e-mail flow,
that no completion waits under the car form, and who will take somebody signed
in out of the gate: the car form, a relogin on its way, a completion block, or a
`viewDidAppear` that is owed. That list is what `NotStranded` is without rest, and
finding it was most of the proof: a `viewDidAppear` of AuthVC dismisses only
with `emailLogged` 1, which the way to SigninVC set, and nothing under SigninVC
may have reset (`GateShape`).
`CallData` adds that a call's e-mail and password are still in the fields they
came from (the closures read the fields again), and that the providers' passwords go
with the providers' addresses; `MemoryInv` that Core Data holds nobody but the
user signed in and that no call in flight will sign in anybody else. The hypotheses are
needed: `carform` shows a hasty user's failure; a restart brings back
an e-mail whose deletion was not saved, so that FindVC may sign somebody else in; who
types a provider's password in SigninVC makes such an account by hand.
`AccountsRecorded` does not need patience: an account without a record has its
registration among the answers in flight (`RecordedInv`).

**The container.** `RevealProofs` proves, for any controllers, widths, queue length, drags and
velocities that satisfy `RevealAssumption` and `GeometryAssumption`:

| theorem | states | beyond `Orderly`, assumes |
|---|---|---|
| `RevealInvariant`, `RevealTyped` | `[]RevealInv`, `[]TypeOK` | |
| `ViewsInPlace` | `[](MenuInPlace /\ ControllersInPlace)` | |
| `TouchesRestored` | `[]InteractionRestored` | |
| `NeverBeyond` | `[]DragBounded` | |
| `QueuePaired`, `QueueKeepsOrder` | `[]Paired`, `KeepsOrder` | no taps |
| `PositionsKept` | `[](PositionsAgree /\ InItsPlace)` | no cancelled pans |
| `DropsNearest` | `[]DropsAtNearest` | drags may stay in the overdraw (`StableDrag`, no `BounceBack`) |

`Orderly` is `Taps => Buttons`: who taps has no callers but buttons. What the
views look like at rest is not inductive: while an animation is in flight they are
not as they will be, and the completion is a record made earlier. So `RevealInv`
speaks of the views as they will be once the animation in flight has completed
(`Future`): `Settling` says that they will be at rest then, `Serial` that there is
at most one animation, the oldest block's or a gesture's, and that nothing else is
in progress beside it, `Unloaded` what holds before `loadView`, `Positioned` that
positions exist. The two lemmas that carry it are `MoveRests` and `ReplaceRests`:
a move or a replacement that starts from views at rest and is completed leaves
views at rest. A second move deployed before the first has completed need not,
which is why `Serial`, and with it the pairing of the queue, is needed for what
the user sees. `QueueKeepsOrder` sorts the steps into those that ask, end, perform
or do nothing (`AskStep`, `EndStep`, `PerformStep`, `PerformNothing`). `NeverBeyond`
and `PositionsKept` rest on `NextPlaced`: a step keeps the positions and the place,
makes a move, drags, or comes before the view is loaded. `DropsNearest` is
arithmetic about any place (`NearestTarget`): half the width, and the middle of the
overdraw, are where the nearest place changes.

**The skip list.** `NativeProofs` proves `SkipListTyped` and
`ReadersWithoutLock`, `SkipSpec => []SearchesSound`, for any keys, heights and
number of readers. `SkipInv` adds to the types that on every level links go up
and skip no key of the level (`Ordered`), that each level is part of the one below
(`Nested`), on which levels an insertion under way is linked and between which keys
it goes on the others (`Linking`), and that a search stands on a node of its level
before its target, in a list that still has every key that was there when it began
(`Searching`).

**The environment.** `NativeProofs` also proves `EnvironmentSound`,
`EnvSpec => []EnvSound`, for any limits, files, buffers, threads and processes; the
threads that open files are finitely many. Its four machines have an invariant
each: `WorkInv` (what ran and what waits is what was scheduled, in order),
`ReadableInv` (what is taken and what is allowed is the limit: a thread's step
moves it from one place to another, and lemmas about cardinalities say what that
does to the number at a set of places), `WritableInv` (the kernel's and the buffer's
bytes are in order and, unless a write failed, without gap) and `LockInv` (who is in
the table, who holds the descriptor, and what a call in flight owes).

**The table cache.** It proves, last, `HandlesBalance`,
`TableCacheSpec => []TableHandlesSound`, for any readers (finitely many), file numbers,
capacities and number of entries. `TableCacheInv` is the cache's books in a form each call
keeps (`Books`: an entry is counted once for each holder and once for the cache,
is in the table under its own key, and on the list that its count says), what a reader
between two steps relies on (`ReaderSound`), that what is in the cache is on disk, and that
usage is over the capacity only by entries in use. An eviction calls `FinishErase` while
the books are open for one entry, so `Books` takes the entries it does not speak
of. `EvictOver`, `Prune` and `DeleteObsolete` are folds: `EvictSteps`,
`PruneSteps` and `EraseSteps` say that there is a chain of caches, one call
apart, from what goes in to what comes out, and an induction along it gives `Shrunk`,
what any number of evictions may do. `AllInUse` bounds the usage when nothing is
left to evict: every entry in the table then has a reader, and no reader has two.

**The database.** `DBProofs` proves, for any threads, readers, scenarios, levels and limits
that satisfy `DBAssumption`, `VersionsAssumption` and `ScenariosAssumption`:

| theorem | states | assumes |
|---|---|---|
| `DBInvariant` | `[]DBInv` | |
| `DBPinned` | `[]PinnedTablesExist` | |
| `DBImmutable` | `TablesImmutable` | |
| `DBRecovers` | `[]Recoverable` | every scenario has a database already, or no crash |

None of the three properties is inductive: whether a table is there when somebody reads
it was settled when its number was given out, when its file was written, when the edit
that adds it was recorded, and each time obsolete files were deleted. `DBInv` says of every version somebody may
get hold of that its tables exist, hold what their metadata say and have numbers
below `next_file_number` (`VersionSound`). Those versions are the current one, the
readers', the compactions', and what *any* prefix of CURRENT's manifest that a crash may
leave leads to (`ManifestSound`). `RecordSound` adds that the `next_file` recorded with a
version is above all numbers in it, so that a recovery that lost the later records
gives none of them out again: that is `TablesImmutable` across a crash.
`BackgroundSound` says that the outputs of a compaction and a memtable's table exist and are
pending while the mutex is given up; `Running` that, up to an edit on its way and until a
manifest fails, the current version is the one the manifest leads to, so that
deleting what no live version needs deletes nothing a recovery needs. `PhaseSound` has
the same for each step of `Open`.

The lemmas come in layers. *Data*, in `VersionLemmas`: what is put in order comes out whole
(`KeysInOrder`, `FilesInOrder`), `SaveTo` keeps exactly the files it should
(`SaveToSound`; `Replays` in `DBProofs` for a list of edits), whatever chooses files chooses
them from the level asked (`FindFile` stays in range, by an induction along its halving;
`GetOverlappingInputs`, `AddBoundaryInputs`, `PickCompaction`, `CompactRange`), a read
charges a file of the version, a compaction's outputs are sets of keys and not
empty, whatever `Drop` says. *Disk*: writing tables with new numbers and
deleting those nobody needs keep `DiskSound`. *Steps*: one lemma per action (names in `Keeps`),
and `DBKept` puts them together. `DBImmutable` and `DBRecovers` sort the steps again: most
are `Ordinary`, that is, leave the manifests alone and write tables with new numbers only
while the version stays.

The hypothesis of `DBRecovers` is what `NewDB` makes necessary (see *A crash while a
database is created*, above): with `created` FALSE and a crash the property fails. `MCDB`'s
scenarios satisfy it. The theorem needs no limit on crashes, also of recoveries,
on failed writes or on failed syncs.

**The promise.** `PromiseProofs` proves, over the same assumptions:

| theorem | states | assumes |
|---|---|---|
| `DBPromises` | `[](DBInv /\ PromiseInv)` | `AppendsWhole` |
| `DBKeepsPromises` | `KeepsPromises`, DB implements KVStore | `AppendsWhole` |
| `DBDurable` | `[]Durable` | `AppendsWhole` |

`AppendsWhole` says that in no scenario an append to a log fails half-way. It
cannot be dropped: `torn` is the counterexample. Everything else may go wrong:
crashes at every step and during recoveries, logs and manifests cut anywhere after
what was synced, failed syncs, failed manifests, a database being created.

That a group which was promised is found again is not inductive either. When
it was synced, it was in a log; whether somebody replays that log depends on what
CURRENT's manifest, or the part of it that a crash leaves, says of the oldest log; and
whether its numbers are used again depends on the last sequence number recorded with it
and on what the replayed logs hold. `PromiseInv`, over `DBInv`, says:

- `LogsSafe`: no two groups, in a log or in `written`, share a number (`Apart`, which is
  `Consistent` of KVStore), and the promised groups of a log are in its synced part;
- `ManifestSays`: for *every* prefix of CURRENT's manifest that a crash may leave, each
  group of `written` is in a log that a recovery from this prefix replays, or its numbers
  are not above the last one the prefix records; those of the logs that are not
  replayed never are (`Carries`);
- `NumbersGoOn`: no number above `vs.last_sequence` is used, save by the group being
  written (`WritersSound`), which the current log may hold already;
- `EditOpens` and `LogsGoOn`: the edit a recovery will record names its own, empty log,
  and an edit of the background thread the current log or an older one, so that what it
  records accounts for everything (`EditCarries`).

`Carries` is the invariant's core: a log is forgotten only by an edit that records a last
number not below its groups', and the edit is there before the log is deleted. TLC
checked `PromiseInv` on `MCDB`'s scenarios, apart from `HalfWay`, and on a
few with less luck before it was proved. The proof has a lemma for each action again,
sorted by what they do to logs and manifests: those that leave both alone (`ClientPromises`,
`BackgroundStep`), an edit that is written, an edit that is installed and the logs deleted
after it, a new log, a record, the end of a write, an opening, an end. The hard ones
are the last two. `CrashPromises` cuts the logs and takes a prefix of the manifest, and
shows that what is left in `written` (`WrittenIn`) is what the next recovery accounts for. `RecoverPromises` needs what replaying a
log computes: `LogReplays` and `LogsRecovered` (in `DBProofs`) follow the fold over records
and over logs along a chain of states, and say that every group of a
replayed log ends up below the recovered last number, which is the largest that the
manifest or any of those logs has. `DBKeepsPromises` sorts the same steps into KVStore's three
actions and stutters (`StepsStore`): `FinishOpen` is `Open`, the write of a group to the
memtable `Commit`, and a crash or a close `Stop`.

`DataLemmas` has the inductions this needs, each for sets (an induction
theorem that takes an operator cannot be instantiated; one that takes a set can):
along a range of numbers, over the subsets of a finite set, and along the recursive
functions by which the library's folds and sums are defined.

**The levels.** `LSMProofs` proves `TablesDisjoint`, `Spec => []LevelsDisjoint` of LSM, for
any workloads, sizes and numbers of levels that satisfy `LSMAssumption` and
`VersionsAssumption`: the files of a level below 0 are in key order and do not overlap, which
the binary search in `Version::Get` relies on and the assertions of `Builder::SaveTo` and
`MaybeAddFile` say. `LSMInv` adds to it what the steps need: a file's metadata say what
its table holds, tables are not empty and their numbers are below
`next_file_number` (`TreeSound`, with `VersionSound` as in DB); no sequence number is
above `kMaxSequenceNumber`, with which `SomeFileOverlapsRange` begins its search
(`SeqsBounded`); and `file_to_compact` names a file of the version. TLC checked `LSMInv`
on `MCLSM`'s workloads before it was proved. A level that `SaveTo` writes is sorted when
its files lie apart (`SavedSorted`), so each step has to show that what it adds lies apart
from what the level keeps:

- a memtable's table (`MemTree`): `PickLevelForMemTableOutput` stops above a level that it
  finds to overlap, and in a sorted level the one file that it asks,
  the first that does not end before the table, speaks for all (`FindFileBefore`,
  `NoOverlap`);
- what a compaction writes (`WorkTree`): the outputs are cut from one ascending
  sequence of entries (`OutputsInOrder`, by an induction along the loop of
  `DoCompactionWork`), and a file of the next level that is no input lies wholly before or
  wholly behind all entries that are read (`OutsideInputs`): the inputs of that level are
  exactly those that meet the user keys of the others, with `AddBoundaryInputs` and the
  expansion of `SetupOtherInputs` or without (`ReachesDown`), and a file between two of them
  would meet them too;
- a trivial move (`MoveTree`), which is the same with no inputs at the next level.

Boundary files play no part in this: they keep a user key's entries from being split between
levels, which is what `ReadsRight` is about. One thread is: with several, a memtable's table
may be put into a level while a compaction into it is on its way (*A memtable in the gap*, above).

**With TLC only.** Liveness under fairness (`UploadLeaves`, `KeepsPerforming`,
`WritersReturn`) is out of the prover's reach. `Tables`, the iterators and
`Protobuf` use recursive operators, and no theorem may rest on those:
`IteratorAgrees`, `TablesSound` and `MessagesSound` stay with TLC. `LogReadsBack` is what a
recursion over the cells of a file computes, as is `ReadsRight`, in both modules, over the
entries a compaction drops: the lemmas show that a compaction writes tables of keys, in which order, and
that they are some of the entries read, not which. The two proofs meet there: up to the table that a log becomes, `PromiseProofs`
follows the groups, and from then on `DBProofs` keeps the table; that a read then finds
the newest entry in the tables is checked. In general it
does not hold: `resurrect` is a counterexample, and `ReadsRight` is checked on workloads
that do not lead there.

## What is left out, and assumptions

- Firebase updates `currentUser` and then calls the completion on the main
  queue; the model takes both in one step.
- Facebook's and Google's own dialogs are instantaneous; a Facebook profile has
  an e-mail (`AuthVC.swift:158` casts it with `as!`); Facebook tokens do not
  expire; `signOut` does not throw (`try!`, `Authservice.swift:73`).
- The permanent observers of `getNameForEmail`, with the unwrap on
  `Dataservice.swift:74`, are not modelled yet: `CrashFree` and the trap set are
  about the other unwraps.
- Other devices do not change the directory or the accounts after the launch.
- Names, car data, labels and layout are abstracted away. In Session the side
  menu is open or closed.
- Reveal: UIKit gives no touches to views that are being animated. The last
  object removed from an empty queue is none (`removeLastObject` of
  `_dequeue` after a tap), as the code relies on. Both sides share their widths
  and switches, as by default, and widths are positive; a negative width (which
  means "up to the edge") and `presentFrontViewHierarchically` are left out. A
  controller belongs to one side. `viewDidAppear` does not come during a pan.
- Read and not run: a flick outwards goes to `FrontViewPositionRight` even from
  the overdraw (`.m:1302`), where the header (`.h:259`) has `bounceBackOnOverdraw`
  bounce every drag further than the width. `FlickTarget` does what the code does.
- Reveal leaves out delegates (none is set in this app), state restoration, the
  rear views' frames, z-order, shadows, status bar, the draggable border, and
  which view holds the recognizers.

- leveldb: sizes count entries, keys are naturals, and the sequence number stands
  for the value. Left out: the one-millisecond delay at eight tables of level 0,
  `reuse_logs` and `ReuseManifest` (off by default), compression, `GetProperty`,
  `GetApproximateSizes`, `DestroyDB`, `RepairDB` (which puts every table it finds in
  level 0), the C binding, the tools, the port, the arena, hashes, checksums and
  coding, the hash table's chains and the sixteen shards of the cache, the block
  cache. Memory orders of the skip list are taken as the code states them; an old
  `max_height_` is the only stale value a reader may see.
- A failed write of a manifest may leave it whole, or not there; data that reached
  a file is read back as it was written. In PosixEnv `close` and `F_UNLCK` do not fail,
  nor does a manifest's directory when it is synced for the second time.
- nanopb: callbacks and extensions (the application writes those), `bytes` fields,
  and running out of memory. What a oneof's member leaves in the union is kept as zero
  or not zero, not byte by byte. Fields are allocated, as the
  pods are built with `PB_ENABLE_MALLOC=1`
  (`Pods/Target Support Files/Pods-streetParker/Pods-streetParker.debug.xcconfig`).
- `NewestOnTop` and `CompactionsDescend` of LSM, and `LevelsDisjoint`, `NoLostWakeup`
  and both modules' `TypeOK`, are stated for a reader and for proofs, and are in no
  run; `NoNullManual` is violated, see above.
- The closed frameworks in `Pods/` (Firebase, Google, Facebook) are headers only.
  How they use leveldb and nanopb cannot be seen, so the session does not rest on
  those modules: Firebase keeps its promises to the session's modules by assumption.

## Plan

1. Session and its services, invariants and the gate's refinement (done).
2. Reveal: the queue's order, the deployment of controllers, gestures, and the
   proofs of its invariants (done).
3. leveldb and nanopb: the tree, the database and its refinement of a store that
   keeps its promises, and the parts that stand alone (done).
4. Proofs: the serial user's invariants, `Recorded`, the skip list, the
   environment, the table cache, the database's tables and recovery, its promise,
   the order of the tree's levels (done).
5. `Directory`: the permanent observers of `/users` that `getNameForEmail` leaves
   behind, names, changes by other devices, the unwrap on `Dataservice.swift:74`.
6. `BluetoothCheck`: how often the background fetch's handler is called.
