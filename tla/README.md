# TLA+ models of Doing

Doing is a desktop to-do client (Rust and Tauri, with a React view). A device
works offline on one snapshot of tasks and synchronises it with a server that
keeps one versioned snapshot per account. This directory holds TLA+ models of
the program's stateful parts, the TLC configurations that check them and proofs
of their main invariants.

## The system

| component | state | operations | hard behaviour |
|---|---|---|---|
| Synchronisation engine (`engine.rs`, `state.rs`) | the committed `CoreInner` (store, `SyncMeta`), `EngineInner` (operation, session generation, epoch, retry), one flow under `push_lock` | edits, debounce, flush, restore, retry, arbitration, upload, acknowledge, 409 handling, choices | edits while a request is out, lost answers, late PUTs, crashes, hand-over between accounts |
| Authentication (`auth.rs`) | `AuthInner`, session generation | login, logout, lost session, restore at start | late login answers, half-ended sessions |
| Credential vault and API client (`creds.rs`, `net/client.rs`) | vault generation and active id, keychain entry, `auth-session.json` | activate, revoke, restore, replace tokens, reject a refresh | two stores written one after the other, late refreshes |
| Migration journal (`migrate.rs`, `migrate/*.rs`) | journal phase, staged files, two published files | begin, resume, cancel, roll back, keep current | a crash at each of its steps |
| Task store (`doing-core/store.rs`) | ordered items, focus, reminder marks, undo and redo stacks | add, toggle, due date, rename, delete, focus, clear, move, undo, redo | long sequences of legal calls |
| Data file repository (`doing-core/repo.rs`) | data.json, its backup, archives | load, save, archive (`initialize` and `restore_backup` have no caller) | a crash between two writes, unknown versions |
| Reminders (`reminder.rs`, `reminder/routes.rs`) | route table (Reserved, Pending, Consumed), marks | reserve, submit, record, activate, acknowledge | edits and logouts between those steps, the table's limit |
| Preferences (`preferences.rs`) | settings file, its backup and revision | load, update, reset, place of the window | failed reads and writes |
| Frontend replica (`src/lib/replica.ts`, `useDoing.tsx`) | last revision per channel and session | subscribe, ask, merge an event or an answer, repair, retry | events out of order, lost or late |
| Windows, tray, native notification adapters, React views | operating-system calls and rendering | | not modelled |

Components share state under three locks taken in the order engine, auth, core;
network calls happen outside of them, which is where the interleavings come
from. A flow captures a session context (`SessionContext`) before its request
and checks it again, under the locks, before it commits what came back. The
client and the server exchange GET and PUT of a whole snapshot, a PUT naming
the version it was derived from.

## Modules

| module | content |
|---|---|
| `Contract` | abstract: what a device, its user and the clouds do with the tasks, without requests, locks, retries and restarts |
| `Sync` | the synchronisation engine, sessions and restarts as the engine sees them, and the server; properties and the inductive invariant; refines `Contract` |
| `MCSync` | accounts, tasks and restricted next-state relations for TLC |
| `SyncProofs` | TLAPS proof that the invariant is inductive and of what follows from it |
| `SyncUserProofs` | TLAPS proofs of what the user is promised: whose tasks travel where, what the view says, who gives up edits and settles conflicts, and of the refinement |
| `Credentials` | login in two halves, the vault over the keychain and the control file, a request with its refresh, the ends of a session; properties and the inductive invariant |
| `MCCredentials` | two accounts for TLC |
| `CredentialsProofs` | TLAPS proof of the invariant and of the properties |
| `Journal` | the import of the old application's data: every step of the coordinator, the two published files, start, crash, other programs; properties and the inductive invariant |
| `MCJournal` | contents of foreign files for TLC |
| `JournalProofs` | TLAPS proof of the invariant and of the properties |
| `Routes` | the file of notification routes and its operations, used by the next two |
| `Reminder` | from a due task over a route and a notification to its mark, with every edit, session and click in between; properties and the inductive invariant |
| `ReminderProofs` | TLAPS proof of the invariant and of the properties |
| `Navigation` | from a click to its acknowledgement: reads and answers of the view across sessions, tasks and crashes |
| `MCNavigation` | an initial account for TLC |
| `NavigationProofs` | TLAPS proof of two invariants and of the safety properties, and that a system at rest owes no click |
| `Tasks` | the task store as data: what each operation makes of a list and its history |
| `Store` | abstract: a change of the tasks and its saving are one step |
| `Storage` | how a change is saved: copy, check, backup, staging, publication, flushing, with failures between the steps; refines `Store` |
| `MCStorage` | three tasks and foreign files for TLC |
| `StorageProofs` | TLAPS proof of the refinement, of the properties and of undo |
| `Preferences` | settings.json, its revision check and the preferences in force |
| `Replica` | the copies the process sends of its state, their way to the window, and the replica the window merges them into; includes `Preferences` |
| `ReplicaProofs` | TLAPS proof that the view never goes back, misses nothing for good, and of what rests on that |

`Tasks` is extended by `Storage`, `Preferences` by `Replica`, `Routes` by
`Reminder` and by `Navigation`. `Sync` assumes the atomic commit that `Storage`
shows, the sessions that `Credentials` shows and the stop of writes that
`Journal` shows; `Navigation` assumes of the events what `Replica` shows of
them (a replica never goes back, and shows the process once all has arrived).

### Plan

All of the first plan is done: 1. `Sync`, the part where data can be lost or
sent to the wrong place; 2. `Credentials`; 3. `Journal`; 4. `Routes`,
`Reminder`, `Navigation`; 5. and 6. `Tasks`, `Store`, `Storage` and
`Preferences`; 7. `Replica`; 8. `NavigationProofs`, and `ReplicaProofs` besides.
`SyncUserProofs` came after that, and then `Contract`, which puts together what
`EditsSurvive`, `NoForeignUpload`, `NoBlindOverwrite` and `ConflictIsAsked` say one
by one: every edit of an account is in its cloud, in the local store or was given
up by its user. Last came `RestIsCurrent`, the part of `ViewConverges` that needs no
fairness, and its proof.

## Sync

### Correspondence

`core` is what one `commit_core` writes to data.json and publishes: the tasks
and `SyncMeta`. A commit is one durable step that succeeds or fails as a whole
(`ok`). Code that runs under the engine, auth and core locks is one action;
the points where a flow awaits the network are the phases of `flow`:

| phase | waiting for | leaves by |
|---|---|---|
| `get` | the GET of `run_flow` | `Arbitrate`, `ArchiveFails`, `RequestFails`, `DropFlow` |
| `upload` | the locks, before `upload` | `Upload`, `DropFlow` |
| `put` | the PUT | `Acknowledge`, `MarkNeedsCandidate`, `RequestFails`, `DropFlow` |
| `fetch` | the candidate after a 409 | `StoreCandidate`, `RequestFails`, `DropFlow` |
| `lost` | the session's end after a rejected refresh | `LoseSession`, `DropFlow` |

`flow.ctx` is the outcome of `SessionContext::live`: `live`, `superseded` once
a choice moved the operation, `orphan` once the session ended. `flow.same` is
the outcome of comparing the store revision with the one captured at the
start. `core.uncertain` is the upload marker together with the comparison of
`local_edit_revision` with the revision in it: `exact` until the next edit,
then `outdated`. `waiter` is the flow that `wait_guarded` holds back or the
retry driver released; whatever moves the epoch replaces or removes it.

Tasks are a set: order, text, due date and focus do not change any decision of
the engine beyond equality of two snapshots. `Home[i]` is the account under
which task i is created, so that a foreign task can be recognised wherever it
goes; `recall` holds foreign tasks that undo and redo can still bring back.
`approved`, `agreed`, `overtaken` and `faults` are auxiliary: they record what
the user agreed to and what the device has seen, and no action reads them
(`faults` only bounds the failures).

`Contract` is `Sync` without its machinery. A device has one list of tasks of one
account; a cloud is a sequence of snapshots; `offers` are the writes the server
may still accept, `wish` is a Restore that is on, `known` the accounts whose
newest snapshot is no surprise. A step either edits, settles a conflict for the
list or for the cloud's copy, confirms that a snapshot holds the list as it is,
takes another baseline, records a conflict, or offers the list; or a cloud
accepts an offer or a snapshot of another device; or somebody logs in or out. The
mapping: `user` is the session while its lease is active, `offers` are
`Outstanding`, the rest are fields of `core` and the auxiliary variables. All
phases of a flow, requests, retries, crashes and failed writes are stutters
(`Fade` at most: an offer is lost or a wish given up).

The server and other devices are external. A PUT under the wrong base is
refused with 409; one whose caller gave up may arrive later (`wire`, LatePut)
or never.

### Properties

- `TypeOK`: types, and nothing of a session outlives it. Here and in the
  modules below it is proved, as a part of the inductive invariant
  `Consistent`, and no run repeats it; TLC has checked every `Consistent` on
  the instances of the runs before it was proved.
- `CleanMeansSynced`: a clean store is exactly the confirmed snapshot.
- `UploadIsMarked`: a live PUT keeps its marker, owner and baseline.
- `NoBlindOverwrite`: no PUT can replace a snapshot the device never saw.
- `NoForeignUpload`: tasks reach another account's cloud only by a choice.
- `SyncedIsTrue`: the view says synced only when that is so.
- `EditsSurvive`: unsynced edits become clean only by an upload, a choice or a
  Restore that no edit overtook while its request ran.
- `KeepsContract`: `Sync` implements `Contract`. Two of its clauses have a name and
  a proof of their own: `CommitsFollowSession`, a task of an ended session commits
  nothing; `ConflictIsAsked`, a conflict is resolved by its user only.
- `SyncingIsRunning`: the view says syncing only while a flow runs (as long as
  no save fails).
- `EditsAreScheduled`: edits of the account logged in never lie there without a
  flow, a debounce or a retry that will take them, unless automatic sync is off, a
  save failed or a conflict is in the way. It is what `EditsSettle` says of a single
  state.
- `EditsSettle` (liveness): once the user rests, edits are uploaded or the
  user is asked.

### Runs

| run | instance | shows |
|---|---|---|
| `sync_faults` | one account, an imported task besides one of the account, one version, one failed write, failed request, rejected token or crash | the baseline and the view survive the fault, and the first login uploads nothing unasked, also when an archive or a write fails |
| `sync_two` | two accounts taking turns, one fault | every step is one of the contract: a flow of one account commits nothing to the other; its upload keeps its marker |
| `sync_live` | two versions, one late PUT, one fault, working disk, a user who leaves uploads to the automatic flows, fairness | no edit is lost and no foreign snapshot overwritten unseen; edits always have a flow to wait for and settle, syncing ends |
| `sync_stranded`, `sync_restore_race` | no faults | two places where the code does not do what a document says, see below |

Bounds. One task is enough to tell every pair of snapshots that the engine
compares (equal, different, empty); two versions let the server overtake the
device, and the device overtake itself with a PUT it gave up; `MaxQueue` = 1
is one request waiting behind the running flow (choices and logins add theirs
without asking), which is enough for every order of two flows; one fault is
enough because a second one of the same kind meets a state the first one also
reaches. Two accounts are checked with the actions of a hand-over only
(`HandOver` in `MCSync`), because the full product is out of reach. For the same
reason `WorkingDiskSpec`, the instance of `sync_live`, leaves out `Logout`, `Flush`,
`DeferConflict`, `MarkNotified` and `SaveNow` beside the failing saves; for
`SyncingIsRunning` and `EditsAreScheduled` the theorems have all of them but the
failing saves.

Fairness. `WF_vars(Flows \/ AnswerGet \/ AnswerPut \/ LoseSession)`: tokio
polls each spawned task, the client's timeout turns a silent server into a
failed request, so a flow that holds `push_lock` always moves.
`WF_vars(RetryTick)`: the driver ticks every second and a due retry stays due.
The user and other devices are never assumed to act. `EditsSettle` assumes
that the user rests from some point on.

### What the documents say otherwise

- `OwnEditsResume` (README.md:139, the same owner resumes the upload): a
  conflict that another account left behind makes `upload` refuse for ever.
- `RestoreKeepsNewEdits` (docs/manual.md:81): an edit made while a Restore
  waits for `push_lock` is replaced by the cloud copy, because the revision is
  captured when the flow starts.

### Proofs

`SyncProofs` proves `Spec => []Consistent` for every set of accounts and tasks
and every bound, from `BoundsAssumption` and `NoneAssumption` (`None` differs
from every other value; `HomeAssumption` is not needed). `CleanMeansSynced`
and `UploadIsMarked` are not inductive alone: an acknowledgement is right only
if its reply names a snapshot that exists and is the one sent (`ReplyOK`), an
arbitration only if the confirmed baseline is still one of the owner's
versions (`BaselineOK`), and both rest on the flow's account being the
session's while it is live (`FlowOK`). `NoBlindOverwrite` follows from
`PutsOK`, which says the same of older versions too and that a PUT names a
version that exists. `Consistent` is their conjunction. There is one lemma per
action; `Grow` and `GrowFrame` say what a write on the server leaves true, and
`EndFrame`, `DoneFrame` and `CoreFrame` what the end of a flow does.

`SyncUserProofs` adds three invariants to it. `Owned`, for `NoForeignUpload`: the
store of an account, and what undo brings back into it, hold only tasks of that
account or agreed to by its user; so does every cloud; and a store that another
account could claim has no history, which is why a claim followed by an undo
brings no foreign task along. `Told`, for `SyncedIsTrue`, is what `refresh_view`
computes, kept by every step that does not refresh. `Watched`, for the action
properties: a Restore whose request is out knows of the edits that overtook it
(`flow.same` is false), and a flow that counts has an active lease, so what it
commits is committed by the account logged in. `Running`, for `SyncingIsRunning`,
needs `NoFailedSave` of `MCSync`, which allows everything but a failed save: after
one the view may go on showing "syncing" when its flow is gone. `Awaited`, for
`EditsAreScheduled`, needs it too and adds what a flow must find when it uploads
(else it would end without an upload and without a retry), and that an edit which
overtook a PUT has asked for the next flow, because its acknowledgement does not.
These theorems rest on `BoundsAssumption`
and `NoneAssumption` too.

`ContractKept` is the refinement, for every set of accounts and tasks, also with a
failing disk. It needs `Consistent` (an upload that is acknowledged and a clean
copy are snapshots that exist), `Watched` (who commits is logged in), `Owned` (what
a choice adopts) and `Unclaimed`: before the first owner the store holds imported
tasks only. The argument sorts the steps by what they do to the contract: a
lemma `...Map` for each kind, and for all that only make offers and wishes fade
`OffersFade` and `WishesFade`.

Proved: all safety properties that the runs `sync_faults`, `sync_two` and
`sync_live` check, and the refinement. Only model-checked: `EditsSettle`
(liveness under fairness is outside the prover's reach).

## Credentials

### Correspondence

`secret` is the keychain entry (a `SavedSession`), `control` the session id in
`auth-session.json`. `KeychainStore` writes them one after the other, so each
action that touches them takes the outcomes as parameters: `w`, the control
file was written; `d`, the entry was deleted; `s`, the entry was set. `relogin`
and `importing` are the two facts of the migration journal that `auth.rs` asks
for. `active` is `VaultState::active`, `client` the client in `AuthInner`.

A session id is activated at most once per process, so the generation in a
`SessionLease` adds nothing to its id and is left out. The generation that
`authenticate` captures before the request and compares afterwards is kept as
the outcome of that comparison: `login` is the attempt whose answer counts,
`cancelled` the accounts of attempts whose answer will be dropped.
`req` is one request: `push_lock` admits one flow at a time and each flow has
one request out. Its phases are the awaits of `ApiClient::send`: the first
try, the refresh after a 401, the second try, and `lost`, after which the flow
calls `lose_session`. `Checked` is the look at the lease that follows each
await. The server is external: it rotates a refresh token once and may revoke
a session at any time, which also stands for a refresh that arrives after its
caller gave up.

### Properties

- `TypeOK`: types, and nothing volatile survives the process.
- `SessionAsWanted`: who is logged in is whom the user asked for last, across
  late answers, failing stores and restarts. The exception, `leaked`, is a
  session that neither store could be made to forget.
- `ClientIsLive` (proved, not in a run): an installed client has a live lease,
  or the request that lost it is closing it.
- `ActiveIsStored`: a session in use can be restored with the tokens the server
  accepts.
- `LossHasCause`: no session ends for a reason that belongs to another one.
- `DeadSessionIsClosed` (liveness): a session whose lease died is closed.

### Runs

| run | instance | shows |
|---|---|---|
| `credentials` | two accounts, two sessions, two refreshes each, two faults, fairness | the safety properties; a dead session is closed |

Two sessions give a late answer a later session to disturb, two refreshes let
a token be overtaken by its own successor, and two faults make both stores of
one operation fail, or one and then the process. Fairness is
`WF_vars(Request)`: the HTTP client has a timeout, so a request that was begun
is answered or fails, and its flow then closes a lost session without further
waiting. The user and the server are not assumed to act.

### Proofs

`CredentialsProofs` proves `Spec => []Consistent` for every set of accounts and
every bound, from `BoundsAssumption` and `NoneAssumption`. `SessionAsWanted`
speaks of the session in use; a start makes one from what is stored, hence
`RestorableAsWanted` (whom a start would restore) and `VaultOK` (the disk
agrees with the client). A login in progress must find nothing to restore
(`LoginOK`). `ActiveIsStored` needs `TokensOK`, where the newest tokens may
still be in the answer of a refresh, and `RequestOK`, by which that request
used the tokens on disk. `IssuedOK` says that ids are fresh. All safety
properties of the runs are proved, `LossHasCause` from the invariant step by
step; the liveness property is only model-checked.

Not modelled: the comparison of the saved server address with the configured
one at start-up (a saved session of another server is not restored), the
parsing of tokens, and the expiry time, which is the nondeterministic
`expired`.

## Journal

### Correspondence

`journal` is `migration-state.json` (the transaction, its phase,
whether it imports preferences, `requires_login`), `art` the directory of the
transaction (which source it was staged from, what the settings file held
before, whether the staged files are complete and intact), `disk` the two files
that an import publishes, `stored` the session in the credential store.
`CoreInner` is `mem`: what was loaded and its copy of the journal's state.

`run` is the operation of the coordinator. Each value of `run.pc` is a point
where it can die with a different disk, or where another program can change
what it has checked:

| steps | code |
|---|---|
| `stage`, `ready` | `Coordinator::begin`: staged files, then the phase `ready` |
| `check`, `revoke`, `publishing`, `data`, `settings`, `settingsWrite`, `marker`, `commit` | `Coordinator::publish` |
| `rollback`, `undoSettings`, `undoSettingsWrite`, `undoData`, `undoDataWrite`, `cancel` | `Coordinator::rollback` |
| `finish` | the end of `run_action_observed`, or of start-up |

The engine, auth and core locks are held from the first step to the last, so
the user's actions need `run.pc = "idle"`; a crash and other programs
(`Others`) come between any two steps. Where the code replaces or removes a
file, the check of its content and the write are two steps, and `raced` records
that another program wrote in between; a publication of data.json refuses to
replace anything in the same system call and is one step. A content is the
number of the import that staged it or a member of `Contents`. A session is
the number of the newest import at its login. `StepFails` is any error of a
step, with `record_error`, whose own save may fail too.

`touched`, `apart`, `raced`, `fenced` and `faults` are auxiliary: what somebody
else changed since the import began, files that were overwritten after they
were loaded, the race above, and the newest import that demanded a login.

### Properties

- `TypeOK`: types, and nothing in memory survives the process.
- `NoTrace`: an import that was not published, or was taken back, left no file.
- `CommittedIsWhole`: a committed import published both files.
- `MemoryIsAuthority`: what the user edits is the pair of files on disk.
- `SessionIsNew`: no session from before the demand for a login comes back.
- `RecoveryConverges`: an import that only crashes disturbed is over after the
  next start or retry.
- `LaterWorkKept`: the coordinator replaces or removes only what the import
  found or staged, except in a race.
- `DecisionStands`: a finished import changes no more, a rollback is not turned
  into a publication, and a publication is not just dropped.

### Runs

| run | instance | shows |
|---|---|---|
| `journal` | two imports, two foreign contents, a source that may restart, three faults | all of the above |
| `journal_blocked` | the same with two faults | `WritesBlocked` fails, see below |

A second import inherits what the first one left (the demand for a login, the
settings it published); a third meets nothing new. Three faults make a crash
during the recovery from a failure that followed an intervention possible. One
foreign content is the empty data file that a store without tasks saves, the
other anything else.

`WritesBlocked` states docs/migration-transaction.md:11 (no commits while the
journal is not finished). `persist_all`, behind the button "save now", writes
the store in memory without asking: after a start with an unfinished import
nothing was loaded, so an empty store goes over the published file.

### Proofs

`JournalProofs` proves `Spec => []Consistent` for any contents, any number of
imports and faults, from `BoundsAssumption` and `ContentsAssumption` (None,
foreign contents and import numbers are different). `NoTrace` needs to know at
which step of a rollback which file is undone (`UndoneOK`) and that the number
of an import is found nowhere before it began (`FreshOK`); `CommittedIsWhole`
needs the same of a publication (`WholeOK`); `RecoveryConverges` follows from
`CalmOK`, by which every check passes as long as nobody interfered;
`MemoryIsAuthority` and `SessionIsNew` from what holds while an operation runs
(`MemoryOK`, `SessionOK`); `LaterWorkKept` from `RaceOK`; and all of them rest
on the phase that each step finds on disk (`PhaseOK`). The facts lemmas say
once what each action does to the records of the state, and one lemma per
conjunct goes through the actions. All properties of the run `journal` are
proved.

Not modelled: the bytes of the staged files and their conversion
(`parse_legacy`), a journal that cannot be read (start-up then stops with every
write blocked), and the order of the steps of a login, which `Credentials`
has.

## Routes and Reminder

### Correspondence

`Routes` is `notification-routes.json`. `Routes::reserve`, `activate`,
`pending` and `acknowledge` each hold the lock of the file from the read to the
atomic save, so each is one operation. An id is a random UUID in the code and
the next number here; the file lists routes in the order of their creation,
which is that of the numbers. `Limit` is `MAX_ROUTES`.

`job` is the pass of `refresh_with` that holds `reminder_lock`; `job.at` is
the point between two of its steps, where it holds no other lock:

| `job.at` | next step | code |
|---|---|---|
| `idle` | `Refresh` | the list of due tasks, `reminder.rs:207-248` |
| `next` | `Pick`, `EndPass` | the first `still_eligible`, 251 |
| `reserve` | `Reserve`, `ReserveFails` | `reserve_id`, 254 |
| `recheck` | `Recheck` | the second `still_eligible`, 261 |
| `submit` | `Submit`, `SubmitFails` | the call of the system, 266 |
| `record` | `Record`, `Outdated` | `eligible` under the locks and the commit, 286-295 |

A due date is a member of `Dues` if it has passed and None if there is none or
it is still to come. The pass takes the tasks of its list in any order.
`SubmitFails(late)` is a refusal, or a timeout after which the notification is
shown all the same.

The undo history is the one of `doing-core/store.rs`: an entry is the tasks
with the marks (`notified_due_ids`) of its moment. `Commit` is `mutate_core`,
which asks for a session; a failed save takes the edit back and is left out.
`AddTask` may use an id again that no mark knows, which the code's random ids
never do. `Replace` is `replace_all` with any tasks, since the cloud may
send any; the ways that lead there are modelled by `Sync`. A login is one step with one
generation, as `Credentials` has its halves. While an import is unfinished
(`ImportStarts`, `ImportEnds`) nothing is committed; at its end the history is
forgotten, the session may still be there (a cancelled one), and what it
publishes is left out: it replaces the tasks like `Replace`.

`accepted`, `edits` and `faults` are auxiliary: which task and due date the
system accepted a notification of, and two counters for bounds.

### Properties

- `TypeOK`: types, and a pass has what its step works on.
- `MarkMeansReminded`: a marked task was accepted by the system for its present
  due date.
- `OneRoutePerTarget`: one target, one live route.
- `RoutesAreKept`: no live route is lost and no saved click is taken back.
- `ServedStaysServed`: a served route is not opened again.
- `DueIsReminded` (liveness): a due task that stays as it is gets its
  notification, as long as the file has room.

### Runs

| run | instance | shows |
|---|---|---|
| `reminder` | one task, two dates, two routes in the file, three created, four edits, one fault, fairness | the safety properties; due tasks are reminded |

Tasks meet only in the list of a pass, in the file and in the history, so one
task with two dates makes all the targets that `reserve` has to tell apart;
the third route needs room in a file for two. Four edits are an edit, an undo
or a cloud copy on each side of a submission; a history of one entry
overflows.

Fairness is `WF_vars(Pass)`: `start_ticker` calls `refresh` again and again
and a pass waits for nobody but the system, whose answer has a timeout.

### Proofs

`ReminderProofs` proves `Spec => []Consistent` for all tasks, dates, sizes of
the file and of the history, from `RoutesAssumption`, `BoundsAssumption` and
`NoneAssumption`. `MarkMeansReminded` alone is not inductive: undo and redo
bring back older marks (`HistoryIsReminded`) and a pass records what it
submitted earlier (`SentIsAccepted`). The argument sorts every step by what it
does to the store (`StoreStep`): marks stay where dates stay (`MarksStay`),
tasks and marks return together from one entry (`MarksReturn`), or the pass
sets one mark (`MarkIsSet`); and every step by what it does to the file:
nothing, `Add` or `Move` (`EveryRoutesStep`). `OneRoutePerTarget` needs that
ids are own (`IdsAreOwn`) and that `Add` is taken only without a live route.
`RoutesAreKept` and `ServedStaysServed` follow from the same sorting. All
safety properties of the run `reminder` are proved.

Two theorems say what no run checks. `UnsentAlwaysDue` is the safety half of
`DueIsReminded`: whatever edits, undos and cloud copies came before, a due
task without an accepted notification is on the list of the next pass,
because a mark that would hide it was never earned. That the pass then gets to
it is liveness and stays with TLC. `RoutesAlwaysReadable` is about the check
in `read()` (`routes.rs:99-112`), which refuses a file with more than
`MAX_ROUTES` routes or with one id twice and with it every later reminder and
click: `reserve` makes room before it adds, and no phase change adds a route,
so the program never saves such a file. The size in bytes is not modelled.

## Navigation

### Correspondence

Routes are reserved and shown from the start. `ui` is the part of the replica
that the hook `useNotificationNavigation` reads, and the hook itself: `target`
is its state, `read` the request with the newest sequence number (`sent`, `done`
with its `answer`), `stray` an older request that the process has not run yet,
whose answer will be ignored, `acks` the acknowledgements on the way, `tried`
whether the workspace scrolled to this very target (its key has the
revision of the read). `Current` is what the hook returns to the workspace.

`next_notification` and `acknowledge_notification` run under the engine, auth
and core locks and are one step each; `next_notification` consumes the clicks
on deleted tasks that it passes, and fails between two of them if the file
does. The effects of the view that follow an event are one step with it.
`news` are events that a task of the process is about to emit, with the state
of that later moment; `auths` and `snaps` are the payloads on the way, in the
order of their revisions. They arrive in any order and a replica ignores the
older of two, so the arrival of one empties the channel up to it.

The data change their owner in two ways. `AdoptCloud` (`choose_cloud`, a restored
baseline) brings the account's cloud copy and emits a snapshot. `ChooseLocal`
(`choose_local`) keeps the tasks and only claims them; it and the upload that
follows emit the state of the synchronisation, which the hook does not listen to,
so here it tells the view nothing. An import blocks commits while it is
unfinished, emits at both ends, and may end with or without a session (`Logout`
is the step that ends it); what it publishes is left out.

`located`, `settled` and `who` are auxiliary: the targets the view scrolled to
and those it knows to be acknowledged, with their session generation, and the
account of each generation. `missed` is auxiliary too: whether, since the last
event that makes the view read again, something happened after which a click can
wait although nothing calls for it. It is set by a read that fails, by an
acknowledgement of the present session that is refused or not saved, and by a
local choice; an event (`Tell`), a new session or a restart clears it, and an
event only if the view knows that its last acknowledgement failed (`Refused`),
since before that it would not send it again.

### Properties

- `TypeOK`: types, and only a view that is logged in waits for a read.
- `TargetIsRight`: the view selects only tasks of the account it shows
  (`TargetIsPrivate`), and an acknowledged target does not return
  (`NoFlashback`).
- `ConsumedIsLocated`: a click is consumed only if its task is gone or was
  shown in the session that asks.
- `RestIsServed`: when no event is to come, no request is out and the view has
  no target left to scroll to (`AtRest`), no click of the account over its own
  data waits, unless one was `missed`.
- `ClickIsServed` (liveness): it comes to that: a pending click of the account
  logged in over its own data is served, unless `missed`.

### Runs

| run | instance | shows |
|---|---|---|
| `navigation` | two accounts, the owner of the data logged in or not at the start, one task, one route, two changes of session, one deletion, cloud copy, local choice or import, one failure, one crash, three of all these together, fairness | all of the above |

Two changes of session are a logout and a login of the other account, so that
an answer of the first session arrives in the other's. With one route the
questions are which account, session and life of the process an answer or an
acknowledgement belongs to; several routes, the order in which they are served,
and that an acknowledgement asks for the next one, are in the proofs only.
`MaxTroubles` = 3 leaves room for the longest story told below, a logout, a
login and a local choice, and for a failure or a crash in the place of any of
them. `AliceSpec` starts with the data of one account, since the other start
is the same with the names exchanged. Fairness is weak fairness of what the
process and the view do with requests and events that are on the way; the user
is not assumed to click or to log in.

`RestIsServed` and `ClickIsServed` except what is `missed`: after a failed read, a
refused or failed acknowledgement or a local choice the hook waits for the next
event (a window shown, a snapshot, another session) before it asks. The run has
these steps, and the properties bind again as soon as an event follows. Without
the exception TLC finds the local choice of "Further differences" below.

### Proofs

`NavigationProofs` proves `Spec => []Consistent` for all accounts, tasks, routes
and bounds, from `RoutesAssumption`, `BoundsAssumption`, `NoneAssumption` and
`NoTargetAssumption`. Two facts carry it. Routes only go on (`Evolves`): every
step leaves each route its id and target and takes it from reserved to pending
to consumed or leaves it where it is. And what the view has in its hands
(`InHand`) was pending when it got it, in a session whose account is known:
`GoodTarget` for the target and the answer of a read, `GoodAck` for an
acknowledgement (its target was scrolled to, and if it is saved its route is
consumed), and what is known as acknowledged is consumed. `GoodStays` says that
these survive any step, so that only the steps that put something new into the
view's hands need an argument: a read finds a pending route, which is none that
was acknowledged; an acknowledgement that is saved consumes what is pending.
`TargetIsPrivate`, `NoFlashback` and `ConsumedIsLocated` follow.

`RestIsServed` is the part of `ClickIsServed` that needs no fairness, and its
proof needs a second invariant, `Tracked`, because the view asks for clicks only
when something happens: whoever waits must be able to count on such a thing.
`Channels` says that the view knows the session and the tasks or will hear of
them: a current event is about to be emitted or is the last on its way.
`Held` says that a target, answer or acknowledgement of the present session was
given out over that account's own data, so that only an unfinished import refuses
the acknowledgement, and that one which failed is recorded as `missed` until the
view knows. `Caused` says that while a click waits, and none
was `missed`, there is a `Cause`: the view is not in the session yet, an
event is to come, a read is out, its answer or target is still to be scrolled
to, or an acknowledgement that was not refused is on its way. Each step keeps
one: what ends a cause starts a read, and a read that finds nothing to show has
consumed all there was (`FirstExists`, by the well-foundedness of the order of
the routes). In a state at rest only the last cause is left, and the target it
speaks of is among the view's tasks, which are those of the process. That a
state at rest is reached is left to TLC.

## Tasks, Store and Storage

### Correspondence

`Tasks` gives for each operation of `doing-core/store.rs` the set of its results
over all arguments; an operation the store refuses has none. A store is a
list (`order`, and for each id what is known of it), its focus and marks, the two
stacks of the history, and a revision; a step of the history is the list before
it, and `HISTORY_LIMIT` bounds both stacks. Texts, time stamps and the titles of
undo and redo are left out.

`Storage` is the way of a change to the disk, each point where it can fail or
die a step of its own:

| step | code |
|---|---|
| `Begin` | `commit_core`/`persist_all` take a copy; `JsonRepo::save` reads and checks the file |
| `Backup` | the contents read become the backup (`stage_and_publish`) |
| `Publish` | the new contents get the name of the file |
| `Return` | the directory is flushed; the copy becomes the store |

A file is what is read now and the set of contents a power failure may leave:
publication adds to that set, a flush leaves one. What is staged was synced
before it gets its name (`Written`). A flush that fails is ignored by the code,
so a save fails only before its publication. `Foreign` are contents that other
programs, or the user, put there at any moment, also between the check and the
publication (`raced`). `blind`, `touched` and the two counters are auxiliary.

`Store` is the promise: tasks and file change together in one step, a death
loses nothing, and a power failure leaves the present contents or earlier ones
that have not settled. `Storage` implements it with the store refined to what
others may see of it: from publication on, the copy (`Current`).

### Properties

- `CommitsAreAtomic`: `Storage` implements `Store`.
- `MemoryIsSaved`: what the process shows is what a restart would read, unless
  others changed the file or it could not be read, and then the view says so.
- `BackupIsGood`: the backup can be read at every moment.
- `UnreadableIsKept`: a file that is not understood is not replaced, except in
  a race between the check and the publication.
- `FocusIsActive`: the focus is on an unfinished task, also in what undo and redo
  bring back.
- `UndoIsInverse`: undo brings back the list of before, redo that of after, for
  every operation and at the limit of the history. `HistoryIsSound` is both.

### Runs

| run | instance | shows |
|---|---|---|
| `storage` | three tasks, one date, a history of two, two changes, one failure, foreign change or power failure | all of the above |

Three tasks are a task that is moved, one it passes and one it does not; the
file of the start has a date, a mark, a completed task and a focus. Two
changes fill the history and make an undo and its redo; with the marks and
the focus they change, every pair of operations occurs. One mishap at any step
is enough since a second one meets a state of the first. No fairness: the
properties are safety.

### Proofs

`StorageProofs` proves the refinement (`Refinement`) and the other properties for
any tasks, dates, cloud copies, foreign contents, limits and bounds, from
`TasksAssumption` and `StorageAssumption`. The invariant says of each step of a
save what the files hold: the copy is one an edit may make, from publication on
the file holds it, and unless others interfered the file of the start of the save
is the one still there. `FocusIsActive` and `UndoIsInverse` are lemmas about the
operations of `Tasks`, one per operation, and one about the history at its limit.
Ids in a file are assumed to be distinct.

What came up and no run shows: temporary files of a crash between staging and
publication are never collected; the check of the file and its replacement are
two calls of the system, hence `raced`; and docs/manual.md:95 (a damaged file is
not taken for an empty list and rebuilt) does not extend to a file that could
not be read for a moment at the start (an I/O error): the list is empty then, and
once the file can be read again the next save replaces it. The view shows
`saveFailed` until then, and the old contents are in the backup.

## Preferences and Replica

### Correspondence

`Preferences` is settings.json by its revision (0 is the old format, which has
none), its backup, and the preferences in force with the error they show.
`CommitPreferences` is `commit` with the step of the save that fails as a
parameter; `PreferencesRepo::save` replaces only an earlier revision. `base` is
auxiliary: what the preferences in force were read from or written to.

`Replica` joins it with the state that the window sees: the session and whether
it is logged in, the revision of the task store, whether the engine is in
conflict and with which candidate. The engine is not repeated: `Progress` and
`Begins` let its view change to anything `Sync` could show. A task of the
process that has changed something owes events (`owed`); `Emit` takes the copy
under the locks together with the next event revision, and `flight` is what was
sent and has not arrived, in no order. Event revisions are counted per part of
the state, since the window never compares those of different parts, except
for the candidate and the state of the engine, which share a count. `turn`
counts the changes of the engine's view and is auxiliary, as are `last` and
`upsets`.

`phase`, `call`, `answer`, `replica` and `settings` are those of `DoingProvider`
(useDoing.tsx): subscribe, `init_state`, merge the answer, merge events
(`mergeReplica`, `mergeSnapshot`), ask again when the account of a session is
missing, and the error that the user may retry from.

Delivery without any order is more than Tauri allows and makes the result
stronger. Notices, the clock, the theme, `deferConflict` and the events of an
import are left out; the settings window runs the same handshake for its own
view.

### Properties

- `NeverBack`: neither the replica nor the settings go back to an earlier state
  of the process, in whatever order answers and events arrive.
- `PanelIsCurrent`: the conflict panel never offers a candidate older than the
  state shown beside it, unless that state is about this candidate.
- `SettingsAreKept`: preferences that could not be read are not overwritten by
  defaults.
- `RestIsCurrent`: when nothing is owed or on the way and the window listens, it
  shows the session, the tasks, the state of the engine, its candidate and the
  preferences of the process, whatever was lost before it listened and in
  whatever order the rest came.
- `ViewConverges` (liveness): once the process rests the window shows its state,
  or shows that it could not start. What it adds to `RestIsCurrent` is that rest
  is reached.

### Runs

| run | instance | shows |
|---|---|---|
| `replica` | two changes of the process, or a change and a call that fails, a file of revision 1 that can be read or not, fairness | all of the above |

Two changes put up to eight events side by side in the air, beside the
answer; two events of the same part are enough to arrive in the wrong order, and a change
of session with one of the engine is enough for events of two sessions.
Fairness is weak fairness of the tasks of the process, of delivery and of the
window's effects as one action, which is less than what the runtimes give.

### Proofs

`ReplicaProofs` proves `NeverBack`, `PanelIsCurrent` and `SettingsAreKept` for any
number of changes, sessions, losses and orders of arrival, from
`PreferencesAssumption` and `ReplicaAssumption`. Because revisions are given out
under the lock there is a time line: a function from event revisions to the
turn of the engine's view that never decreases, and another to the
preferences. `EngineKnown` and `SettingsKnown` say that every copy on the way, in
the answer and in the window lies on it; a step that sends extends the line
(`LineGrows`), any other leaves it. One lemma per kind of event shows that
merging keeps the replica on the line (`Sound`) and takes it forward
(`Follows`); `mark` is either the revision of the state shown or the one of the
candidate, which is what `PanelIsCurrent` needs.

`RestIsCurrent` needs a second invariant (`Reported`), beside the first. Its core
is `Coming`: from the moment the window hears the process, or has an answer, each
part of the present state is still owed, on the way, in the answer or shown. A
change keeps it since the part that changed is owed in the same critical
section, a merge since it drops a copy only in favour of one that is as good:
of two copies of the tasks the later one is of later tasks (`TasksKnown`), of
two views the one of the present turn is the present one (`ViewsKnown`), and
what is of the present session agrees on the account (`SessionsOK`). The
conflict panel is the hard part, for a view and its candidate travel apart and
share one mark: `PanelComing` says of each what there is of the other, on the way
or in the replica, for views that arrive before, after or instead of their
candidate (`PanelOfView`, `PanelOfCandidate`). An answer makes up for what was
lost before the window listened because what it has to hear of later has later
revisions (`Since`, `PanelCaughtUp`); if another session has begun meanwhile,
all of that session is later than the answer (`LaterSession`). `ReplicaAssumption`
says besides that `None` is none of the values it is compared with.
`ViewConverges` is only model-checked.

## Further differences from the documents

Some more places where the code and a text disagree came up while modelling.
No run shows them.

- docs/manual.md:64: a click is located once login and the ownership of the data
  are confirmed. Suppose alice clicks a notification while the data on the device
  are claimed by bob. She logs in, the view asks and gets nothing, since the owner
  differs; then she chooses the local copy. `choose_local` claims the data
  (engine.rs:926) but emits only the state of the synchronisation (engine.rs:945),
  and the upload that follows adds nothing else, while the hook reads again for a
  read, a window or a snapshot only (useNotificationNavigation.ts:41). The click
  waits until the next such event, which a shown window or any edit brings.
- docs/manual.md:77 keeps conflicts for copies that cannot be ordered
  automatically. A reminder that is recorded during a GET moves the store
  revision (`mark_notified`, store.rs:523), which `decide` (engine.rs:438)
  takes for an edit: a clean copy of the version found becomes a conflict.
- docs/migration-transaction.md:21: only a new successful login lifts the
  demand for one. `authenticate` clears it in the journal (auth.rs:132) before
  it saves the credentials (auth.rs:135), so a keychain that refuses them leaves
  the demand lifted with nobody logged in.
- docs/manual.md:124: "save now" is what to do after a failed save. It writes the
  file but schedules nothing (`save_now`, engine.rs:173), and a flow that met the
  failure is gone without a retry (engine.rs:527), so edits that were waiting then
  stay until the next edit, retry or switch; this is why `EditsAreScheduled` speaks
  of a disk that works.
- docs/manual.md:71: what was confirmed is not reminded again. `undo`
  (store.rs:424) brings back the marks of its entry, without a reminder that
  was recorded after it.
- routes.rs:140: deal with the existing notifications and try again. A route
  becomes consumed only by a click: those of dismissed or never shown
  notifications stay reserved, and when the file is full of them nothing the
  user does with notifications makes room.
- store.rs:571 (a test's comment) has unfinished tasks first. `toggle_done`
  puts a task that is completed where it was, so the order does not keep them
  apart.

## Mutants

Definitions whose name ends in `Bug` are plausible mistakes in the definition
that follows them, and are used by nothing. Each property of a passing run has
one that breaks it; putting it in that definition's place shows that the
property does depend on the code it is about.

## Not modelled

Windows, tray and placement, native notification adapters, the React views and
the conversions of commands and events have no protocol state of their own.
All operations take the locks in the order engine, auth, core, so there is no
model of the locks alone; the one that starts with auth (`menu_state_blocking`,
desktop.rs:260) runs while the tray is built, before anything else. Each section
above names what its module leaves out.
