------------------------------- MODULE Journal -------------------------------
(***************************************************************************)
(* The import of the old application's data: the transaction journal, the  *)
(* coordinator that publishes or takes back the two files of an import,    *)
(* and what the running program makes of the result.                       *)
(*                                                                         *)
(* `journal` is migration-state.json, `art` the directory of its           *)
(* transaction, `disk` the two files that an import publishes.  Every      *)
(* checkpoint of the coordinator where it can die with a different disk is *)
(* a value of run.pc.  It holds the engine, auth and core locks until it   *)
(* is done, so only a crash and other programs come in between; a check of *)
(* a file and the write after it are two steps where the write replaces or *)
(* removes what it finds.  A failed save leaves the old file (see Repo's   *)
(* stage_and_publish), so it is a step that fails.                         *)
(*                                                                         *)
(* A file's content is None, the number of the import that staged it, or   *)
(* one of Contents for what anybody else wrote.  A session is the number   *)
(* of the newest import at its login.                                      *)
(*                                                                         *)
(* A definition whose name ends in Bug is a plausible mistake in the       *)
(* definition that follows it and is used by nothing.                      *)
(***************************************************************************)
EXTENDS Naturals

CONSTANTS
  Contents,    \* contents of a file that no import staged
  Empty,       \* the data file of a store without tasks
  None,        \* no file, no session
  MaxImports,  \* bound: imports begun
  MaxSources,  \* bound: versions of the old application's files
  MaxFaults    \* bound: failures, crashes and interventions of other programs

Files == {"data", "settings"}

Imports == 1 .. MaxImports

Disks == [Files -> Contents \cup Imports \cup {None}]

Phases == {"none", "preparing", "ready", "publishing", "rollingBack",
           "committed", "cancelled", "rejected", "keptCurrent"}

Journals == [id : 0 .. MaxImports, phase : Phases, prefs : BOOLEAN, login : BOOLEAN]

Steps == {"stage", "ready", "check", "revoke", "publishing", "data", "settings",
          "settingsWrite", "marker", "commit", "rollback", "undoSettings",
          "undoSettingsWrite", "undoData", "undoDataWrite", "cancel"}

Artifacts == [source : 0 .. MaxSources, before : Contents \cup Imports \cup {None},
              whole : BOOLEAN]

Memories == [blocked : BOOLEAN, login : BOOLEAN, disk : Disks]

Operations == [op : {"none", "begin", "resume", "cancel", "keep", "recover"},
               pc : Steps \cup {"idle", "finish"}, from : 0 .. MaxImports,
               phase : Phases, auth : BOOLEAN, failed : BOOLEAN]

ASSUME BoundsAssumption ==
  MaxImports \in Nat /\ MaxSources \in Nat /\ MaxFaults \in Nat

ASSUME ContentsAssumption ==
  /\ Empty \in Contents
  /\ None \notin Contents /\ None \notin Nat
  /\ Contents \cap Nat = {}

VARIABLES
  journal,  \* migration-state.json
  art,      \* staged files: the source they were read from, the settings before,
            \* and whether they are complete and intact
  disk,     \* data.json and settings.json
  stored,   \* session in the credential store
  source,   \* version of the old application's files; 0 while it still runs
  up,       \* "down", "starting" or "up"
  mem,      \* CoreInner: what it loaded, and its copy of the journal's state
  session,  \* session in use
  run       \* the coordinator's operation, its next step, what it began with

\* Auxiliary variables: history that the properties talk about.
VARIABLES
  touched,  \* what somebody else changed since the import began
  apart,    \* files another program wrote since they were loaded
  raced,    \* another program wrote between a check and its write
  fenced,   \* newest import that recorded the need for a new login
  faults

stores == <<journal, art, disk, stored>>
local  == <<up, mem, session, run>>
aux    == <<touched, apart, raced, fenced, faults>>
vars   == <<stores, source, local, aux>>

-----------------------------------------------------------------------------
(* Helpers *)

Spend(bad) == /\ bad => faults < MaxFaults
              /\ faults' = IF bad THEN faults + 1 ELSE faults

\* Phase::active
Active(j) == j.phase \in {"preparing", "ready", "publishing", "rollingBack"}

\* The files this import publishes.
Targets == IF journal.prefs THEN Files ELSE {"data"}

\* What a target held before the import, which begins without data.json.
Before(f) == IF f = "data" THEN None ELSE art.before

\* target_state: a target may only hold what the import found or what it staged.
OwnedAnyBug(f) == TRUE

OwnedOnceBug(f) == disk[f] = Before(f)

Owned(f) == disk[f] \in {Before(f), journal.id}

Save(phase) == journal' = [journal EXCEPT !.phase = phase]

Goto(pc) == run' = [run EXCEPT !.pc = pc]

Idle == [op |-> "none", pc |-> "idle", from |-> 0, phase |-> "none",
         auth |-> FALSE, failed |-> FALSE]

Nothing == [blocked |-> TRUE, login |-> TRUE, disk |-> [f \in Files |-> None]]

Started(op, pc) == [Idle EXCEPT !.op = op, !.pc = pc,
                                !.from = journal.id, !.phase = journal.phase]

Ready == up = "up" /\ run.pc = "idle"

\* What a step checks before it goes on (validated, unchanged_sources, target_state).
Passes(pc) ==
  /\ pc \in {"check", "rollback"} => art.whole /\ \A f \in Targets : Owned(f)
  /\ pc \in {"check", "data", "settings", "marker"} => source = art.source
  /\ pc \in {"data", "undoData"} => Owned("data")
  /\ pc \in {"settings", "undoSettings"} => Owned("settings")
  /\ pc = "settingsWrite" /\ art.before = None => disk["settings"] = None
  /\ pc = "undoSettingsWrite" /\ art.before = None => disk["settings"] # None
  /\ pc = "undoDataWrite" => disk["data"] # None
  /\ pc = "marker" => \A f \in Targets : disk[f] = journal.id

At(pc) == run.pc = pc /\ Passes(pc)

-----------------------------------------------------------------------------
(* Begin: stage the import *)

\* A new transaction inherits the demand for a login.
NewJournalBug(prefs) == [id |-> journal.id + 1, phase |-> "preparing",
                         prefs |-> prefs, login |-> FALSE]

NewJournal(prefs) == [id |-> journal.id + 1, phase |-> "preparing",
                      prefs |-> prefs, login |-> journal.login]

\* Refused unless nothing is there yet, in memory or on disk, and the old
\* application has stopped.
Begin(prefs) ==
  /\ Ready /\ ~Active(journal) /\ journal.id < MaxImports
  /\ mem.disk["data"] \in {None, Empty} /\ disk["data"] = None
  /\ source # 0
  /\ journal' = NewJournal(prefs)
  /\ art' = [source |-> source, before |-> disk["settings"], whole |-> FALSE]
  /\ run' = Started("begin", "stage")
  /\ touched' = {}
  /\ UNCHANGED <<disk, stored, source, up, mem, session, apart, raced, fenced, faults>>

Stage ==
  /\ At("stage")
  /\ art' = [art EXCEPT !.whole = TRUE]
  /\ Goto("ready")
  /\ UNCHANGED <<journal, disk, stored, source, up, mem, session, aux>>

RecordReady ==
  /\ At("ready")
  /\ Save("ready")
  /\ Goto("check")
  /\ UNCHANGED <<art, disk, stored, source, up, mem, session, aux>>

-----------------------------------------------------------------------------
(* Publish *)

RequireLogin ==
  /\ At("check")
  /\ journal' = [journal EXCEPT !.login = TRUE]
  /\ fenced' = journal.id
  /\ Goto("revoke")
  /\ UNCHANGED <<art, disk, stored, source, up, mem, session, touched, apart, raced, faults>>

\* reset_for_migration ends the session even if the credential store fails (~ok).
Reset(ok) ==
  /\ session' = None
  /\ \/ stored' = None
     \/ ~ok /\ UNCHANGED stored
  /\ Spend(~ok)

Authorize(ok) ==
  /\ At("revoke")
  /\ Reset(ok)
  /\ run' = [run EXCEPT !.auth = TRUE, !.failed = ~ok,
                        !.pc = IF ok THEN "publishing" ELSE "finish"]
  /\ UNCHANGED <<journal, art, disk, source, up, mem, touched, apart, raced, fenced>>

RecordPublishing ==
  /\ At("publishing")
  /\ Save("publishing")
  /\ Goto("data")
  /\ UNCHANGED <<art, disk, stored, source, up, mem, session, aux>>

PublishDataBug ==
  /\ At("data")
  /\ disk' = [disk EXCEPT !["data"] = journal.id]
  /\ Goto(IF journal.prefs /\ disk["data"] = None THEN "settings" ELSE "commit")
  /\ UNCHANGED <<journal, art, stored, source, up, mem, session, aux>>

PublishData ==
  /\ At("data")
  /\ disk' = [disk EXCEPT !["data"] = journal.id]
  /\ Goto(IF journal.prefs THEN "settings" ELSE "marker")
  /\ UNCHANGED <<journal, art, stored, source, up, mem, session, aux>>

CheckSettings ==
  /\ At("settings")
  /\ Goto(IF disk["settings"] = journal.id THEN "marker" ELSE "settingsWrite")
  /\ raced' = FALSE
  /\ UNCHANGED <<stores, source, up, mem, session, touched, apart, fenced, faults>>

PublishSettings ==
  /\ At("settingsWrite")
  /\ disk' = [disk EXCEPT !["settings"] = journal.id]
  /\ Goto("marker")
  /\ UNCHANGED <<journal, art, stored, source, up, mem, session, aux>>

CheckMarker ==
  /\ At("marker")
  /\ Goto("commit")
  /\ UNCHANGED <<stores, source, up, mem, session, aux>>

Commit ==
  /\ At("commit")
  /\ Save("committed")
  /\ Goto("finish")
  /\ UNCHANGED <<art, disk, stored, source, up, mem, session, aux>>

-----------------------------------------------------------------------------
(* Roll back: settings first, then data *)

RecordRollback ==
  /\ At("rollback")
  /\ Save("rollingBack")
  /\ Goto(IF journal.prefs THEN "undoSettings" ELSE "undoData")
  /\ UNCHANGED <<art, disk, stored, source, up, mem, session, aux>>

\* restore_before, its check: nothing to do if the old content is back already.
CheckUndo(f, write, next) ==
  /\ Goto(IF disk[f] = Before(f) THEN next ELSE write)
  /\ raced' = FALSE
  /\ UNCHANGED <<stores, source, up, mem, session, touched, apart, fenced, faults>>

CheckUndoSettings == At("undoSettings") /\ CheckUndo("settings", "undoSettingsWrite", "undoData")

CheckUndoData == At("undoData") /\ CheckUndo("data", "undoDataWrite", "cancel")

Undo(f, next) ==
  /\ disk' = [disk EXCEPT ![f] = Before(f)]
  /\ Goto(next)
  /\ UNCHANGED <<journal, art, stored, source, up, mem, session, aux>>

UndoSettingsBug == At("undoSettingsWrite") /\ Undo("settings", "cancel")

UndoSettings == At("undoSettingsWrite") /\ Undo("settings", "undoData")

UndoData == At("undoDataWrite") /\ Undo("data", "cancel")

RecordCancelled ==
  /\ At("cancel")
  /\ Save("cancelled")
  /\ Goto("finish")
  /\ UNCHANGED <<art, disk, stored, source, up, mem, session, aux>>

-----------------------------------------------------------------------------
(* Failures of a step *)

\* record_error goes by the phase on disk: an import that never staged everything
\* is over (if that can be saved), any other waits for a decision.
StepFails(io, saved) ==
  /\ run.pc \in Steps \ {"revoke"}
  /\ io \/ ~Passes(run.pc)
  /\ Spend(io)
  /\ run' = [run EXCEPT !.pc = "finish", !.failed = io]
  /\ IF journal.phase = "preparing" /\ saved THEN Save("rejected") ELSE UNCHANGED journal
  /\ UNCHANGED <<art, disk, stored, source, up, mem, session, touched, apart, raced, fenced>>

-----------------------------------------------------------------------------
(* Resume, cancel, keep the current files *)

\* Where resume goes on, and the phase it saves first.
ResumeStepBug == IF journal.phase \in {"ready", "publishing", "rollingBack"}
                 THEN "check" ELSE "finish"

ResumeStep == CASE journal.phase \in {"ready", "publishing"} -> "check"
                [] journal.phase = "rollingBack"             -> "rollback"
                [] OTHER                                     -> "finish"

ResumeAs(op, saved) ==
  /\ run' = [Started(op, ResumeStep) EXCEPT !.failed = ~saved]
  /\ IF journal.phase = "preparing"
     THEN (IF saved THEN Save("rejected") ELSE UNCHANGED journal)
     ELSE saved /\ UNCHANGED journal
  /\ Spend(~saved)

Resume(saved) ==
  /\ Ready /\ mem.blocked
  /\ ResumeAs("resume", saved)
  /\ UNCHANGED <<art, disk, stored, source, up, mem, session, touched, apart, raced, fenced>>

\* An import that published nothing is dropped at once, another is rolled back.
Dropped == journal.phase \in {"preparing", "ready"}

Cancel ==
  /\ Ready /\ Active(journal)
  /\ run' = Started("cancel", IF Dropped THEN "finish" ELSE "rollback")
  /\ IF Dropped THEN Save("cancelled") ELSE UNCHANGED journal
  /\ UNCHANGED <<art, disk, stored, source, up, mem, session, aux>>

KeepCurrent ==
  /\ Ready /\ Active(journal)
  /\ run' = Started("keep", "finish")
  /\ journal' = [journal EXCEPT !.phase = "keptCurrent", !.login = TRUE]
  /\ fenced' = journal.id
  /\ UNCHANGED <<art, disk, stored, source, up, mem, session, touched, apart, raced, faults>>

-----------------------------------------------------------------------------
(* The end of an operation in the running program *)

\* The phase on disk decides, whatever the operation returned.
ReloadsBug == ~Active(journal) /\ mem.blocked

Reloads ==
  /\ ~Active(journal)
  /\ \/ mem.blocked
     \/ /\ journal.phase \in {"committed", "cancelled", "keptCurrent"}
        /\ <<journal.id, journal.phase>> # <<run.from, run.phase>>

Finish(ok) ==
  /\ up = "up" /\ run.pc = "finish"
  /\ run' = Idle
  /\ mem' = [blocked |-> Active(journal), login |-> journal.login,
             disk |-> IF Reloads THEN disk ELSE mem.disk]
  /\ apart' = IF Reloads THEN {} ELSE apart
  /\ IF Reloads /\ journal.login /\ ~run.auth
     THEN Reset(ok)
     ELSE ok /\ UNCHANGED <<session, stored, faults>>
  /\ UNCHANGED <<journal, art, disk, source, up, touched, raced, fenced>>

-----------------------------------------------------------------------------
(* Start and crash *)

Start(saved) ==
  /\ up = "down"
  /\ up' = "starting"
  /\ ResumeAs("recover", saved)
  /\ UNCHANGED <<art, disk, stored, source, mem, session, touched, apart, raced, fenced>>

\* Nothing is loaded or restored while an import is not finished.
Load ==
  /\ up = "starting" /\ run.pc = "finish"
  /\ up' = "up" /\ run' = Idle
  /\ mem' = [blocked |-> Active(journal), login |-> journal.login,
             disk |-> IF Active(journal) THEN mem.disk ELSE disk]
  /\ apart' = {}
  /\ session' = IF Active(journal) \/ journal.login THEN None ELSE stored
  /\ UNCHANGED <<stores, source, touched, raced, fenced, faults>>

Crash ==
  /\ up # "down"
  /\ up' = "down" /\ run' = Idle /\ mem' = Nothing /\ session' = None
  /\ Spend(TRUE)
  /\ UNCHANGED <<stores, source, touched, apart, raced, fenced>>

-----------------------------------------------------------------------------
(* The user's ordinary work *)

Wrote(f, c) ==
  /\ disk' = [disk EXCEPT ![f] = c]
  /\ mem' = [mem EXCEPT !.disk[f] = c]
  /\ touched' = touched \cup {f}
  /\ apart' = apart \ {f}

\* commit_core and preferences::commit
Edit(f, c) ==
  /\ Ready /\ ~mem.blocked
  /\ c \in Contents
  /\ Wrote(f, c)
  /\ UNCHANGED <<journal, art, stored, source, up, session, run, raced, fenced, faults>>

\* persist_all writes what is in memory, without a look at the journal.
SaveNow ==
  /\ Ready
  /\ Wrote("data", IF mem.disk["data"] = None THEN Empty ELSE mem.disk["data"])
  /\ UNCHANGED <<journal, art, stored, source, up, session, run, raced, fenced, faults>>

\* A login clears the journal's demand for it (acknowledge_new_login).
Login ==
  /\ Ready /\ session = None /\ ~mem.blocked
  /\ journal' = [journal EXCEPT !.login = FALSE]
  /\ mem' = [mem EXCEPT !.login = FALSE]
  /\ session' = journal.id /\ stored' = journal.id
  /\ UNCHANGED <<art, disk, source, up, run, aux>>

Logout(ok) ==
  /\ Ready /\ session # None
  /\ Reset(ok)
  /\ UNCHANGED <<journal, art, disk, source, up, mem, run, touched, apart, raced, fenced>>

-----------------------------------------------------------------------------
(* Other programs *)

OthersWrite(f, c) ==
  /\ c \in Contents \cup {None} /\ c # disk[f]
  /\ Spend(TRUE)
  /\ disk' = [disk EXCEPT ![f] = c]
  /\ touched' = touched \cup {f}
  /\ apart' = apart \cup {f}
  /\ raced' = TRUE
  /\ UNCHANGED <<journal, art, stored, source, local, fenced>>

SourceChanges(v) ==
  /\ v \in (0 .. MaxSources) \ {source}
  /\ Spend(TRUE)
  /\ source' = v
  /\ touched' = touched \cup {"source"}
  /\ UNCHANGED <<stores, local, apart, raced, fenced>>

\* A staged file or a backup is lost.
Damage ==
  /\ art.whole
  /\ Spend(TRUE)
  /\ art' = [art EXCEPT !.whole = FALSE]
  /\ touched' = touched \cup {"staged"}
  /\ UNCHANGED <<journal, disk, stored, source, local, apart, raced, fenced>>

-----------------------------------------------------------------------------
(* Specification *)

\* A first start: there may be settings already, but no tasks and no import.
Init ==
  /\ journal = [id |-> 0, phase |-> "none", prefs |-> FALSE, login |-> FALSE]
  /\ disk \in [Files -> Contents \cup {None}] /\ disk["data"] = None
  /\ art = [source |-> 0, before |-> None, whole |-> FALSE]
  /\ stored \in {None, 0}
  /\ source = MaxSources
  /\ up = "down" /\ mem = Nothing /\ session = None /\ run = Idle
  /\ touched = {} /\ apart = {} /\ raced = FALSE /\ fenced = 0 /\ faults = 0

Coordinator ==
  \/ Stage \/ RecordReady
  \/ RequireLogin
  \/ \E ok \in BOOLEAN : Authorize(ok) \/ Finish(ok)
  \/ RecordPublishing
  \/ PublishData \/ CheckSettings \/ PublishSettings \/ CheckMarker \/ Commit
  \/ RecordRollback
  \/ CheckUndoSettings \/ UndoSettings \/ CheckUndoData \/ UndoData \/ RecordCancelled
  \/ \E io, saved \in BOOLEAN : StepFails(io, saved)
  \/ Load

User ==
  \/ \E prefs \in BOOLEAN : Begin(prefs)
  \/ Cancel \/ KeepCurrent
  \/ \E f \in Files, c \in Contents : Edit(f, c)
  \/ SaveNow
  \/ Login
  \/ \E ok \in BOOLEAN : Resume(ok) \/ Logout(ok) \/ Start(ok)

Others ==
  \/ \E f \in Files, c \in Contents \cup {None} : OthersWrite(f, c)
  \/ \E v \in 0 .. MaxSources : SourceChanges(v)
  \/ Damage
  \/ Crash

Next == Coordinator \/ User \/ Others

Spec == Init /\ [][Next]_vars

-----------------------------------------------------------------------------
(* Properties *)

StoresType ==
  /\ journal \in Journals
  /\ art \in Artifacts
  /\ disk \in Disks
  /\ stored \in 0 .. MaxImports \cup {None}
  /\ source \in 0 .. MaxSources

LocalType ==
  /\ up \in {"down", "starting", "up"}
  /\ mem \in Memories
  /\ session \in 0 .. MaxImports \cup {None}
  /\ run \in Operations
  /\ up # "up" => session = None /\ mem = Nothing
  /\ up = "down" => run = Idle

AuxType ==
  /\ touched \subseteq Files \cup {"source", "staged"}
  /\ apart \subseteq Files
  /\ raced \in BOOLEAN
  /\ fenced \in 0 .. MaxImports
  /\ faults \in 0 .. MaxFaults

\* Every variable keeps its type, and nothing in memory survives the process.
TypeOK == StoresType /\ LocalType /\ AuxType

\* An import that is not published, or was taken back, has left none of its files
\* behind (begin, cancel, rollback), wherever the process died.
NoTrace ==
  journal.phase \in {"preparing", "ready", "rejected", "cancelled"} =>
    \A f \in Files : disk[f] # journal.id

\* A completed import has published both of its files: each one is the import's or
\* somebody else's later work, never what was there before (publish).
CommittedIsWhole ==
  journal.phase = "committed" =>
    \A f \in Targets \ touched : disk[f] = journal.id

\* The editable state is the pair of files on disk, never half an import or what
\* was loaded before it (run_action, load_after_migration).
MemoryIsAuthority ==
  Ready /\ ~mem.blocked =>
    /\ ~Active(journal)
    /\ \A f \in Files \ apart : mem.disk[f] = disk[f]

\* No session from before an import that demanded a new login is in use once the
\* operation is over, or comes back later (requires_login, restore_credentials).
SessionIsNew == Ready /\ session # None => session >= fenced

\* An import that nothing but crashes disturbed ends with the next start or retry,
\* wherever the process died (resume).
RecoveryConverges ==
  run.op \in {"resume", "recover"} /\ run.pc = "finish" /\ Active(journal) =>
    touched # {} \/ run.failed

\* The coordinator replaces or removes only what the import found or staged, unless
\* another program writes between the check and the write (publish_target,
\* restore_before).
LaterWorkKept ==
  [][\A f \in Files :
       disk'[f] # disk[f] /\ run.pc \in Steps /\ faults' = faults =>
         disk[f] \in {Before(f), journal.id} \/ raced]_vars

\* A decision stands: a finished import changes no more, one that is rolled back is
\* never published, one that may have published is not simply dropped.
DecisionStands ==
  [][journal'.id = journal.id /\ journal'.phase # journal.phase =>
       /\ Active(journal)
       /\ journal.phase = "rollingBack" => journal'.phase \in {"cancelled", "keptCurrent"}
       /\ journal.phase = "publishing" =>
            journal'.phase \in {"committed", "rollingBack", "keptCurrent"}]_vars

-----------------------------------------------------------------------------
(* The inductive invariant behind the safety properties (JournalProofs) *)

Restoring == {"undoSettings", "undoSettingsWrite", "undoData", "undoDataWrite", "cancel"}

Publishing == {"data", "settings", "settingsWrite", "marker", "commit"}

\* The phase on disk at every step of an operation.
PhaseOK ==
  /\ run.pc \in {"stage", "ready"} => journal.phase = "preparing"
  /\ run.pc \in {"check", "revoke", "publishing"} => journal.phase \in {"ready", "publishing"}
  /\ run.pc \in Publishing => journal.phase = "publishing"
  /\ run.pc = "rollback" => journal.phase \in {"publishing", "rollingBack"}
  /\ run.pc \in Restoring => journal.phase = "rollingBack"
  /\ run.pc \in {"settings", "settingsWrite", "undoSettings", "undoSettingsWrite"} =>
       journal.prefs
  /\ run.op = "begin" => run.pc \notin Restoring \cup {"rollback"}

\* An import's number appears nowhere before it began, and its files only where it
\* put them.
FreshOK ==
  /\ \A f \in Files : \A n \in Imports :
       n > journal.id => disk[f] # n /\ mem.disk[f] # n
  /\ art.before # journal.id
  /\ \A n \in Imports : n > journal.id => art.before # n
  /\ ~journal.prefs => disk["settings"] # journal.id
  /\ journal.phase = "none" <=> journal.id = 0
  /\ journal.phase \notin {"committed", "keptCurrent"} =>
       \A f \in Files : mem.disk[f] # journal.id

\* What a rollback has done so far.
UndoneOK ==
  /\ run.pc \in {"undoData", "undoDataWrite", "cancel"} => disk["settings"] # journal.id
  /\ run.pc = "cancel" => disk["data"] # journal.id

\* What publication has done before it is recorded.
WholeOK == run.pc = "commit" => \A f \in Targets \ touched : disk[f] = journal.id

\* As long as nobody interferes, every check passes.
CalmOK ==
  /\ touched = {} /\ Active(journal) =>
       /\ source = art.source
       /\ journal.phase # "preparing" \/ run.pc = "ready" => art.whole
       /\ \A f \in Targets : disk[f] \in {Before(f), journal.id}
       /\ run.pc \in {"settings", "settingsWrite", "marker", "commit"} =>
            disk["data"] = journal.id
       /\ run.pc = "settingsWrite" => disk["settings"] = art.before
       /\ run.pc = "undoSettingsWrite" => disk["settings"] = journal.id
       /\ run.pc = "undoDataWrite" => disk["data"] = journal.id
       /\ run.pc \in {"marker", "commit"} /\ journal.prefs => disk["settings"] = journal.id
  /\ run.op \in {"resume", "recover"} => run.pc \notin {"stage", "ready"}

\* What the program has in memory while an operation runs.
MemoryOK ==
  /\ up = "up" /\ ~mem.blocked /\ run.pc \in {"idle", "stage", "ready"} =>
       \A f \in Files \ apart : mem.disk[f] = disk[f]
  /\ up = "up" /\ ~mem.blocked =>
       /\ run.pc = "idle" => ~Active(journal)
       /\ run.pc # "idle" => run.op = "begin" /\ run.from < journal.id
       /\ run.pc = "finish" => \/ Active(journal) \/ journal.phase = "committed"
                               \/ /\ journal.phase = "rejected"
                                  /\ \A f \in Files \ apart : mem.disk[f] = disk[f]
  /\ up = "starting" => run.op = "recover"
  /\ up = "up" /\ run.op = "recover" => FALSE

\* An old session is about to be ended, and cannot be restored.
SessionOK ==
  /\ fenced <= journal.id
  /\ stored # None /\ stored < fenced => journal.login
  /\ session # None /\ session < fenced =>
       \/ run.pc = "revoke"
       \/ run.pc = "finish" /\ mem.blocked /\ journal.phase = "keptCurrent"
          /\ journal.login /\ ~run.auth
  /\ run.pc = "revoke" => journal.login

\* A file about to be replaced is the import's, unless there was a race.
RaceOK ==
  /\ run.pc \in {"settingsWrite", "undoSettingsWrite"} => Owned("settings") \/ raced
  /\ run.pc = "undoDataWrite" => Owned("data") \/ raced

Consistent ==
  /\ TypeOK /\ PhaseOK /\ FreshOK /\ UndoneOK /\ WholeOK /\ CalmOK /\ MemoryOK
  /\ SessionOK /\ RaceOK /\ NoTrace /\ CommittedIsWhole /\ RecoveryConverges

-----------------------------------------------------------------------------
(* What the documents say and the code does not keep *)

\* "As long as the journal is not finished, commits of tasks and preferences are
\* blocked" (docs/migration-transaction.md:11): only the coordinator and other
\* programs write.
WritesBlocked ==
  [][Ready /\ Active(journal) /\ faults' = faults => disk' = disk]_vars

=============================================================================
