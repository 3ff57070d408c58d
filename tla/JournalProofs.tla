---------------------------- MODULE JournalProofs ----------------------------
EXTENDS Journal, TLAPS

-----------------------------------------------------------------------------
(* What the steps do to the records and functions of the state *)

\* What the types say of numbers, contents and files.
LEMMA Numbers ==
  ASSUME TypeOK
  PROVE  /\ journal.id \in Nat /\ fenced \in Nat /\ art.before \notin Nat \ Imports
         /\ \A n \in Imports : n \in Nat /\ n > 0
         /\ None \notin Nat /\ Empty \in Contents
         /\ \A c \in Contents : c \notin Nat
         /\ session \in Nat \cup {None} /\ stored \in Nat \cup {None}
         /\ journal.phase \in Phases /\ \A f \in Files : disk[f] # 0
         /\ journal.id < MaxImports => journal.id + 1 \in Imports
         /\ up # "up" => session = None
         /\ "data" \in Files /\ "settings" \in Files
         /\ \A f \in Files : f = "data" \/ f = "settings"
BY BoundsAssumption, ContentsAssumption DEF TypeOK, StoresType, LocalType, AuxType,
    Artifacts, Memories, Operations, Imports, Files, Journals, Disks

\* A file gets new content, the other one keeps its own.
LEMMA DiskFacts ==
  ASSUME NEW d, d \in [Files -> Contents \cup Imports \cup {None}],
         NEW f \in Files, NEW c
  PROVE  \A g \in Files : [d EXCEPT ![f] = c][g] = IF g = f THEN c ELSE d[g]
OBVIOUS

\* Save and Goto change one field each.
LEMMA SaveFacts1 ==
  ASSUME TypeOK, NEW p, Save(p)
  PROVE  /\ journal'.phase = p /\ journal'.id = journal.id
         /\ journal'.prefs = journal.prefs /\ journal'.login = journal.login
BY DEF TypeOK, StoresType, LocalType, AuxType, Artifacts, Memories, Save

\* A step that fails changes nothing but the phase of an import that staged nothing.
LEMMA FailFacts ==
  ASSUME TypeOK, \E io, saved \in BOOLEAN : StepFails(io, saved)
  PROVE  /\ run'.pc = "finish" /\ run'.op = run.op /\ run'.from = run.from
         /\ run'.auth = run.auth /\ run'.phase = run.phase
         /\ run.pc \in Steps \ {"revoke"} /\ (run'.failed \/ ~Passes(run.pc))
         /\ journal'.id = journal.id /\ journal'.prefs = journal.prefs
         /\ journal'.login = journal.login
         /\ \/ journal.phase = "preparing" /\ journal'.phase = "rejected"
            \/ journal'.phase = journal.phase
         /\ UNCHANGED <<art, disk, stored, source, up, mem, session, touched, apart, raced, fenced>>
<1>0. PICK io, saved \in BOOLEAN : StepFails(io, saved)
  OBVIOUS
<1>1. /\ run'.pc = "finish" /\ run'.op = run.op /\ run'.from = run.from
      /\ run'.auth = run.auth /\ run'.failed = io /\ run'.phase = run.phase
  BY <1>0 DEF StepFails, TypeOK, StoresType, LocalType, AuxType, Operations
<1>2. CASE Save("rejected") /\ journal.phase = "preparing"
  BY <1>0, SaveFacts1 DEF StepFails
<1>3. CASE UNCHANGED journal
  BY <1>3 DEF StepFails
<1>4. QED BY <1>2 DEF StepFails

\* A new import starts from a quiet program and an empty data file.
LEMMA BeginFacts ==
  ASSUME TypeOK, \E prefs \in BOOLEAN : Begin(prefs)
  PROVE  /\ Ready /\ ~Active(journal) /\ journal.id < MaxImports
         /\ disk["data"] = None /\ mem.disk["data"] \in {None, Empty}
         /\ journal'.id = journal.id + 1 /\ journal'.phase = "preparing"
         /\ journal'.login = journal.login
         /\ art'.source = source /\ art'.before = disk["settings"] /\ art'.whole = FALSE
         /\ run'.op = "begin" /\ run'.pc = "stage" /\ run'.from = journal.id
         /\ run'.phase = journal.phase /\ run'.auth = FALSE /\ run'.failed = FALSE
         /\ touched' = {}
         /\ UNCHANGED <<disk, stored, source, up, mem, session, apart, raced, fenced, faults>>
BY DEF Begin, NewJournal, Started, Idle

\* What resume does, by the user or at a start.
Resumed(op) ==
  /\ run'.op = op /\ run'.auth = FALSE /\ run'.from = journal.id
  /\ journal'.id = journal.id /\ journal'.prefs = journal.prefs
  /\ journal'.login = journal.login
  /\ \/ /\ journal.phase \in {"ready", "publishing"} /\ run'.pc = "check"
        /\ journal'.phase = journal.phase
     \/ /\ journal.phase = "rollingBack" /\ run'.pc = "rollback"
        /\ journal'.phase = journal.phase
     \/ /\ journal.phase = "preparing" /\ run'.pc = "finish" /\ ~run'.failed
        /\ journal'.phase = "rejected"
     \/ /\ journal.phase = "preparing" /\ run'.pc = "finish" /\ run'.failed
        /\ journal'.phase = journal.phase
     \/ /\ ~Active(journal) /\ run'.pc = "finish"
        /\ journal'.phase = journal.phase

\* Where resume goes on depends on the phase it finds.
LEMMA ResumeAsFacts ==
  ASSUME TypeOK, NEW op, NEW ok \in BOOLEAN, ResumeAs(op, ok)
  PROVE  Resumed(op)
<1>1. /\ run'.op = op /\ run'.failed = ~ok /\ run'.auth = FALSE
      /\ run'.from = journal.id /\ run'.pc = ResumeStep
  BY DEF ResumeAs, Started, Idle
<1>2. \/ journal.phase \in {"ready", "publishing"} /\ ResumeStep = "check"
      \/ journal.phase = "rollingBack" /\ ResumeStep = "rollback"
      \/ (journal.phase = "preparing" \/ ~Active(journal)) /\ ResumeStep = "finish"
  BY DEF ResumeStep, Active
<1>3. CASE journal.phase = "preparing" /\ ok
  BY <1>1, <1>2, <1>3, SaveFacts1 DEF ResumeAs, Resumed
<1>4. CASE ~(journal.phase = "preparing" /\ ok)
  BY <1>1, <1>2, <1>4 DEF ResumeAs, Resumed
<1>5. QED BY <1>3, <1>4

\* The user's retry resumes a blocked import.
LEMMA ResumeFacts ==
  ASSUME TypeOK, \E ok \in BOOLEAN : Resume(ok)
  PROVE  /\ Ready /\ mem.blocked
         /\ Resumed("resume")
         /\ UNCHANGED <<art, disk, stored, source, up, mem, session, touched, apart, raced, fenced>>
BY ResumeAsFacts DEF Resume

\* A start resumes whatever the last process left.
LEMMA StartFacts ==
  ASSUME TypeOK, \E ok \in BOOLEAN : Start(ok)
  PROVE  /\ up = "down" /\ up' = "starting"
         /\ Resumed("recover")
         /\ UNCHANGED <<art, disk, stored, source, mem, session, touched, apart, raced, fenced>>
BY ResumeAsFacts DEF Start

\* A cancel drops an import that published nothing and rolls back any other.
LEMMA CancelFacts ==
  ASSUME TypeOK, Cancel
  PROVE  /\ Ready /\ Active(journal)
         /\ run'.op = "cancel" /\ run'.auth = FALSE /\ run'.failed = FALSE
         /\ run'.from = journal.id
         /\ journal'.id = journal.id /\ journal'.prefs = journal.prefs
         /\ journal'.login = journal.login
         /\ \/ journal.phase \in {"preparing", "ready"} /\ run'.pc = "finish"
               /\ journal'.phase = "cancelled"
            \/ journal.phase \in {"publishing", "rollingBack"} /\ run'.pc = "rollback"
               /\ journal'.phase = journal.phase
         /\ UNCHANGED <<art, disk, stored, source, up, mem, session, aux>>
<1>1. /\ run'.op = "cancel" /\ run'.auth = FALSE /\ run'.failed = FALSE
      /\ run'.from = journal.id /\ run'.pc = IF Dropped THEN "finish" ELSE "rollback"
  BY DEF Cancel, Started, Idle
<1>2. CASE Dropped
  BY <1>1, <1>2, SaveFacts1 DEF Cancel, Dropped
<1>3. CASE ~Dropped
  BY <1>1, <1>3 DEF Cancel, Dropped, Active
<1>4. QED BY <1>2, <1>3

\* Keeping the current files ends the import and demands a login.
LEMMA KeepFacts ==
  ASSUME TypeOK, KeepCurrent
  PROVE  /\ Ready /\ Active(journal)
         /\ run'.op = "keep" /\ run'.pc = "finish" /\ run'.auth = FALSE
         /\ run'.failed = FALSE /\ run'.from = journal.id
         /\ journal'.id = journal.id /\ journal'.prefs = journal.prefs
         /\ journal'.login = TRUE /\ journal'.phase = "keptCurrent"
         /\ fenced' = journal.id
         /\ UNCHANGED <<art, disk, stored, source, up, mem, session, touched, apart, raced, faults>>
BY DEF KeepCurrent, Started, Idle, TypeOK

\* The demand for a login is recorded before any session is ended.
LEMMA RequireLoginFacts ==
  ASSUME TypeOK, RequireLogin
  PROVE  /\ run.pc = "check" /\ Passes("check") /\ fenced' = journal.id
         /\ journal'.id = journal.id /\ journal'.prefs = journal.prefs
         /\ journal'.login = TRUE /\ journal'.phase = journal.phase
         /\ run'.pc = "revoke" /\ run'.op = run.op /\ run'.auth = run.auth
         /\ run'.failed = run.failed /\ run'.from = run.from /\ run'.phase = run.phase
         /\ UNCHANGED <<art, disk, stored, source, up, mem, session, touched, apart, raced, faults>>
BY DEF RequireLogin, At, Goto, TypeOK

\* The session ends even if the credential store fails.
LEMMA AuthorizeFacts ==
  ASSUME TypeOK, \E ok \in BOOLEAN : Authorize(ok)
  PROVE  /\ run.pc = "revoke" /\ session' = None /\ (stored' = None \/ stored' = stored)
         /\ run'.auth = TRUE /\ run'.op = run.op
         /\ run'.from = run.from /\ run'.phase = run.phase
         /\ \/ run'.pc = "publishing" /\ ~run'.failed
            \/ run'.pc = "finish" /\ run'.failed
         /\ UNCHANGED <<journal, art, disk, source, up, mem, touched, apart, raced, fenced>>
BY DEF Authorize, At, Reset, TypeOK, StoresType, LocalType, AuxType, Artifacts,
    Memories, Operations

\* A login clears the demand, and gets the number of the newest import.
LEMMA LoginFacts ==
  ASSUME TypeOK, Login
  PROVE  /\ Ready /\ session = None /\ ~mem.blocked
         /\ journal'.id = journal.id /\ journal'.prefs = journal.prefs
         /\ journal'.login = FALSE /\ journal'.phase = journal.phase
         /\ mem'.disk = mem.disk /\ mem'.blocked = mem.blocked /\ mem'.login = FALSE
         /\ session' = journal.id /\ stored' = journal.id
         /\ UNCHANGED <<art, disk, source, up, run, aux>>
BY DEF Login, TypeOK

\* The user's work changes one file, on disk and in memory alike.
LEMMA WroteFacts ==
  ASSUME TypeOK, NEW f \in Files, NEW c, Wrote(f, c)
  PROVE  /\ \A g \in Files : disk'[g] = IF g = f THEN c ELSE disk[g]
         /\ \A g \in Files : mem'.disk[g] = IF g = f THEN c ELSE mem.disk[g]
         /\ mem'.blocked = mem.blocked /\ mem'.login = mem.login
         /\ touched' = touched \cup {f} /\ apart' = apart \ {f}
<1>1. \A g \in Files : disk'[g] = IF g = f THEN c ELSE disk[g]
  BY DiskFacts DEF Wrote, TypeOK, StoresType, LocalType, AuxType, Artifacts, Disks
<1>2. /\ mem'.disk = [mem.disk EXCEPT ![f] = c]
      /\ mem'.blocked = mem.blocked /\ mem'.login = mem.login
  BY DEF Wrote, TypeOK
<1>3. \A g \in Files : mem'.disk[g] = IF g = f THEN c ELSE mem.disk[g]
  BY <1>2, DiskFacts DEF TypeOK, StoresType, LocalType, AuxType, Artifacts, Memories,
      Disks
<1>4. QED BY <1>1, <1>3 DEF Wrote

\* An edit needs a program that is not blocked.
LEMMA EditFacts ==
  ASSUME TypeOK, \E f \in Files, c \in Contents : Edit(f, c)
  PROVE  /\ Ready /\ ~mem.blocked
         /\ \E f \in Files, c \in Contents :
              /\ \A g \in Files : disk'[g] = IF g = f THEN c ELSE disk[g]
              /\ \A g \in Files : mem'.disk[g] = IF g = f THEN c ELSE mem.disk[g]
              /\ touched' = touched \cup {f} /\ apart' = apart \ {f}
         /\ mem'.blocked = mem.blocked /\ mem'.login = mem.login
         /\ UNCHANGED <<journal, art, stored, source, up, session, run, raced, fenced, faults>>
<1>1. PICK f \in Files, c \in Contents : Edit(f, c)
  OBVIOUS
<1>2. /\ \A g \in Files : disk'[g] = IF g = f THEN c ELSE disk[g]
      /\ \A g \in Files : mem'.disk[g] = IF g = f THEN c ELSE mem.disk[g]
      /\ mem'.blocked = mem.blocked /\ mem'.login = mem.login
      /\ touched' = touched \cup {f} /\ apart' = apart \ {f}
  BY <1>1, WroteFacts DEF Edit
<1>3. QED BY <1>2 DEF Edit

\* What "save now" writes: the import's file only after it was loaded.
LEMMA SaveFacts ==
  ASSUME TypeOK, SaveNow
  PROVE  /\ Ready
         /\ disk'["settings"] = disk["settings"]
         /\ disk'["data"] = mem'.disk["data"]
         /\ mem'.disk["settings"] = mem.disk["settings"]
         /\ disk'["data"] \in {Empty, mem.disk["data"]}
         /\ mem'.blocked = mem.blocked /\ mem'.login = mem.login
         /\ touched' = touched \cup {"data"} /\ apart' = apart \ {"data"}
         /\ UNCHANGED <<journal, art, stored, source, up, session, run, raced, fenced, faults>>
<1>1. /\ "data" \in Files /\ "settings" \in Files
  BY DEF Files
<1>2. PICK c \in {Empty, mem.disk["data"]} : Wrote("data", c)
  BY DEF SaveNow
<1>3. QED BY <1>1, WroteFacts DEF SaveNow

\* Another program writes one file and leaves the rest of the state alone.
LEMMA OthersFacts ==
  ASSUME TypeOK, \E f \in Files, c \in Contents \cup {None} : OthersWrite(f, c)
  PROVE  /\ \E f \in Files, c \in Contents \cup {None} :
              /\ \A g \in Files : disk'[g] = IF g = f THEN c ELSE disk[g]
              /\ touched' = touched \cup {f} /\ apart' = apart \cup {f}
         /\ raced' = TRUE
         /\ UNCHANGED <<journal, art, stored, source, up, mem, session, run, fenced>>
<1>1. PICK f \in Files, c \in Contents \cup {None} : OthersWrite(f, c)
  OBVIOUS
<1>2. \A g \in Files : disk'[g] = IF g = f THEN c ELSE disk[g]
  BY <1>1, DiskFacts DEF OthersWrite, TypeOK, StoresType, LocalType, AuxType, Artifacts,
      Disks
<1>3. QED BY <1>1, <1>2 DEF OthersWrite, local

\* The end of an operation reloads the files or keeps what was loaded.
LEMMA FinishFacts ==
  ASSUME TypeOK, \E ok \in BOOLEAN : Finish(ok)
  PROVE  /\ up = "up" /\ run.pc = "finish" /\ run'.pc = "idle" /\ run'.op = "none"
         /\ mem'.blocked = Active(journal) /\ mem'.login = journal.login
         /\ \/ Reloads /\ mem'.disk = disk /\ apart' = {}
            \/ ~Reloads /\ mem'.disk = mem.disk /\ apart' = apart
         /\ \/ Reloads /\ journal.login /\ ~run.auth /\ session' = None
               /\ (stored' = None \/ stored' = stored)
            \/ ~(Reloads /\ journal.login /\ ~run.auth) /\ session' = session
               /\ stored' = stored
         /\ UNCHANGED <<journal, art, disk, source, up, touched, raced, fenced>>
BY DEF Finish, Idle, Reset

\* A start loads the files unless an import is unfinished.
LEMMA LoadFacts ==
  ASSUME TypeOK, Load
  PROVE  /\ up = "starting" /\ up' = "up" /\ run.pc = "finish"
         /\ run'.pc = "idle" /\ run'.op = "none"
         /\ mem'.blocked = Active(journal) /\ mem'.login = journal.login
         /\ mem'.disk = IF Active(journal) THEN mem.disk ELSE disk
         /\ apart' = {}
         /\ session' = IF Active(journal) \/ journal.login THEN None ELSE stored
         /\ UNCHANGED <<stores, source, touched, raced, fenced, faults>>
BY DEF Load, Idle

\* A crash keeps the files and nothing else.
LEMMA CrashFacts ==
  ASSUME Crash
  PROVE  /\ up' = "down" /\ run'.pc = "idle" /\ run'.op = "none" /\ mem' = Nothing
         /\ \A f \in Files : mem'.disk[f] = None
         /\ session' = None
         /\ UNCHANGED <<stores, source, touched, apart, raced, fenced>>
BY DEF Crash, Idle, Nothing

\* The coordinator's own writes.
LEMMA PublishDataFacts ==
  ASSUME TypeOK, PublishData
  PROVE  /\ run.pc = "data" /\ Passes("data")
         /\ disk'["data"] = journal.id /\ disk'["settings"] = disk["settings"]
         /\ run'.pc = IF journal.prefs THEN "settings" ELSE "marker"
         /\ run'.op = run.op /\ run'.auth = run.auth /\ run'.from = run.from
         /\ run'.failed = run.failed /\ run'.phase = run.phase
         /\ UNCHANGED <<journal, art, stored, source, up, mem, session, aux>>
BY DiskFacts DEF PublishData, At, Goto, TypeOK, StoresType, LocalType, AuxType,
    Artifacts, Memories, Operations, Disks, Files

\* Publication of the settings replaces what the check accepted.
LEMMA PublishSettingsFacts ==
  ASSUME TypeOK, PublishSettings
  PROVE  /\ run.pc = "settingsWrite" /\ Passes("settingsWrite")
         /\ disk'["settings"] = journal.id /\ disk'["data"] = disk["data"]
         /\ run'.pc = "marker"
         /\ run'.op = run.op /\ run'.auth = run.auth /\ run'.from = run.from
         /\ run'.failed = run.failed /\ run'.phase = run.phase
         /\ UNCHANGED <<journal, art, stored, source, up, mem, session, aux>>
BY DiskFacts DEF PublishSettings, At, Goto, TypeOK, StoresType, LocalType, AuxType,
    Artifacts, Memories, Operations, Disks, Files

\* A rollback puts back the settings from before the import.
LEMMA UndoSettingsFacts ==
  ASSUME TypeOK, UndoSettings
  PROVE  /\ run.pc = "undoSettingsWrite"
         /\ disk'["settings"] = art.before /\ disk'["data"] = disk["data"]
         /\ run'.pc = "undoData"
         /\ run'.op = run.op /\ run'.auth = run.auth /\ run'.from = run.from
         /\ run'.failed = run.failed /\ run'.phase = run.phase
         /\ UNCHANGED <<journal, art, stored, source, up, mem, session, aux>>
BY DiskFacts DEF UndoSettings, Undo, Before, At, Goto, TypeOK, StoresType, LocalType,
    AuxType, Artifacts, Memories, Operations, Disks, Files

\* A rollback has nothing to do for a data file that is gone.
LEMMA CheckUndoDataFacts ==
  ASSUME TypeOK, CheckUndoData
  PROVE  /\ run.pc = "undoData" /\ disk["data"] \in {None, journal.id} /\ raced' = FALSE
         /\ \/ run'.pc = "cancel" /\ disk["data"] = None
            \/ run'.pc = "undoDataWrite" /\ disk["data"] = journal.id
         /\ run'.op = run.op /\ run'.auth = run.auth /\ run'.from = run.from
         /\ run'.failed = run.failed /\ run'.phase = run.phase
         /\ UNCHANGED <<stores, source, up, mem, session, touched, apart, fenced, faults>>
BY DEF CheckUndoData, CheckUndo, Before, Owned, Passes, At, Goto, TypeOK

\* A rollback removes the data file.
LEMMA UndoDataFacts ==
  ASSUME TypeOK, UndoData
  PROVE  /\ run.pc = "undoDataWrite"
         /\ disk'["data"] = None /\ disk'["settings"] = disk["settings"]
         /\ run'.pc = "cancel"
         /\ run'.op = run.op /\ run'.auth = run.auth /\ run'.from = run.from
         /\ run'.failed = run.failed /\ run'.phase = run.phase
         /\ UNCHANGED <<journal, art, stored, source, up, mem, session, aux>>
BY DiskFacts DEF UndoData, Undo, Before, At, Goto, TypeOK, StoresType, LocalType,
    AuxType, Artifacts, Memories, Operations, Disks, Files

\* The number of a new import is new.
LEMMA NewNumber ==
  ASSUME TypeOK, FreshOK, SessionOK, \E prefs \in BOOLEAN : Begin(prefs)
  PROVE  /\ journal'.id \in Imports /\ run'.from < journal'.id /\ fenced <= journal'.id
         /\ \A n \in Imports : n > journal'.id => n > journal.id
         /\ \A f \in Files : disk[f] # journal'.id /\ mem.disk[f] # journal'.id
<1>1. /\ journal.id \in Nat /\ journal.id < MaxImports /\ MaxImports \in Nat
      /\ journal'.id = journal.id + 1 /\ run'.from = journal.id /\ fenced \in Nat
  BY BeginFacts, Numbers, BoundsAssumption
<1>2. /\ journal'.id \in Imports /\ journal'.id > journal.id /\ run'.from < journal'.id
  BY <1>1 DEF Imports
<1>3. fenced <= journal'.id
  BY <1>1 DEF SessionOK
<1>4. \A n \in Imports : n > journal'.id => n > journal.id
  BY <1>1 DEF Imports
<1>5. QED BY <1>2, <1>3, <1>4 DEF FreshOK

-----------------------------------------------------------------------------
(* The invariant's parts, step by step *)


\* Every step keeps the types.
LEMMA TypeStep == ASSUME Consistent, [Next]_vars PROVE TypeOK'
<1>0. TypeOK /\ PhaseOK /\ FreshOK BY DEF Consistent
<1>1. CASE Stage
  <2>1. StoresType'
    BY <1>0, <1>1, BoundsAssumption DEF TypeOK, StoresType, LocalType, Journals,
        Artifacts, Disks, Phases, Imports, Files, stores, local, aux, Stage
  <2>2. LocalType'
    BY <1>0, <1>1, BoundsAssumption DEF TypeOK, LocalType, StoresType, Operations,
        Memories, Journals, Disks, Phases, Steps, Files, Idle, Nothing, Ready, local,
        Stage, At, Goto
  <2>3. AuxType'
    BY <1>0, <1>1, BoundsAssumption DEF TypeOK, AuxType, StoresType, Spend, Files,
        Journals, aux, Stage
  <2>4. QED BY <2>1, <2>2, <2>3 DEF TypeOK
<1>2. CASE RecordReady
  <2>1. StoresType'
    BY <1>0, <1>2, BoundsAssumption DEF TypeOK, StoresType, LocalType, Journals,
        Artifacts, Disks, Phases, Imports, Files, stores, local, aux, RecordReady, At,
        Save
  <2>2. LocalType'
    BY <1>0, <1>2, BoundsAssumption DEF TypeOK, LocalType, StoresType, Operations,
        Memories, Journals, Disks, Phases, Steps, Files, Idle, Nothing, Ready, local,
        RecordReady, At, Goto
  <2>3. AuxType'
    BY <1>0, <1>2, BoundsAssumption DEF TypeOK, AuxType, StoresType, Spend, Files,
        Journals, aux, RecordReady
  <2>4. QED BY <2>1, <2>2, <2>3 DEF TypeOK
<1>3. CASE RequireLogin
  <2>1. StoresType'
    BY <1>0, <1>3, BoundsAssumption DEF TypeOK, StoresType, LocalType, Journals,
        Artifacts, Disks, Phases, Imports, Files, stores, local, aux, RequireLogin
  <2>2. LocalType'
    BY <1>0, <1>3, BoundsAssumption DEF TypeOK, LocalType, StoresType, Operations,
        Memories, Journals, Disks, Phases, Steps, Files, Idle, Nothing, Ready, local,
        RequireLogin, At, Goto
  <2>3. AuxType'
    BY <1>0, <1>3, BoundsAssumption DEF TypeOK, AuxType, StoresType, Spend, Files,
        Journals, aux, RequireLogin
  <2>4. QED BY <2>1, <2>2, <2>3 DEF TypeOK
<1>4. ASSUME NEW ok \in BOOLEAN, Authorize(ok) PROVE TypeOK'
  <2>1. StoresType'
    BY <1>0, <1>4, BoundsAssumption DEF TypeOK, StoresType, LocalType, Journals,
        Artifacts, Disks, Phases, Imports, Files, stores, local, aux, Authorize, Reset
  <2>2. LocalType'
    <3>1. run.pc = "revoke" /\ session' = None /\ UNCHANGED <<up, mem>>
      BY <1>4 DEF Authorize, At, Reset
    <3>2. up # "down"
      BY <1>0, <3>1 DEF TypeOK, LocalType, Idle
    <3>3. run' \in Operations
      <4>1. (~ok) \in BOOLEAN /\ (IF ok THEN "publishing" ELSE "finish") \in Steps \cup {"finish"}
        BY DEF Steps
      <4>2. QED BY <1>0, <1>4, <4>1 DEF Authorize, TypeOK, LocalType, Operations
    <3>4. QED
      BY <1>0, <3>1, <3>2, <3>3 DEF TypeOK, LocalType
  <2>3. AuxType'
    BY <1>0, <1>4, BoundsAssumption DEF TypeOK, AuxType, StoresType, Spend, Files,
        Journals, aux, Authorize, Reset
  <2>4. QED BY <2>1, <2>2, <2>3 DEF TypeOK
<1>5. ASSUME NEW ok \in BOOLEAN, Finish(ok) PROVE TypeOK'
  <2>1. StoresType'
    BY <1>0, <1>5, BoundsAssumption DEF TypeOK, StoresType, LocalType, Journals,
        Artifacts, Disks, Phases, Imports, Files, stores, local, aux, Finish, Reset
  <2>2. LocalType'
    <3>1. run' \in Operations
      BY <1>0, <1>5, BoundsAssumption DEF Finish, Idle, Operations, Phases
    <3>2. mem' \in Memories
      <4>1. Active(journal) \in BOOLEAN /\ journal.login \in BOOLEAN
        BY <1>0 DEF Active, TypeOK, StoresType, Journals
      <4>2. (IF Reloads THEN disk ELSE mem.disk) \in Disks
        BY <1>0 DEF TypeOK, StoresType, LocalType, Memories
      <4>3. QED BY <1>5, <4>1, <4>2 DEF Finish, Memories
    <3>3. session' \in {None, session} /\ up' = "up"
      BY <1>5 DEF Finish, Reset
    <3>4. QED BY <1>0, <3>1, <3>2, <3>3 DEF TypeOK, LocalType
  <2>3. AuxType'
    <3>1. faults' \in 0 .. MaxFaults
      <4>1. CASE Reset(ok)
        BY <1>0, <4>1, BoundsAssumption DEF Reset, Spend, TypeOK, AuxType
      <4>2. CASE UNCHANGED faults
        BY <1>0, <4>2 DEF TypeOK, AuxType
      <4>3. QED BY <1>5, <4>1, <4>2 DEF Finish
    <3>2. apart' \in {{}, apart} /\ UNCHANGED <<touched, raced, fenced>>
      BY <1>5 DEF Finish
    <3>3. QED BY <1>0, <3>1, <3>2 DEF TypeOK, AuxType
  <2>4. QED BY <2>1, <2>2, <2>3 DEF TypeOK
<1>6. CASE RecordPublishing
  <2>1. StoresType'
    BY <1>0, <1>6, BoundsAssumption DEF TypeOK, StoresType, LocalType, Journals,
        Artifacts, Disks, Phases, Imports, Files, stores, local, aux, RecordPublishing,
        At, Save
  <2>2. LocalType'
    BY <1>0, <1>6, BoundsAssumption DEF TypeOK, LocalType, StoresType, Operations,
        Memories, Journals, Disks, Phases, Steps, Files, Idle, Nothing, Ready, local,
        RecordPublishing, At, Goto
  <2>3. AuxType'
    BY <1>0, <1>6, BoundsAssumption DEF TypeOK, AuxType, StoresType, Spend, Files,
        Journals, aux, RecordPublishing
  <2>4. QED BY <2>1, <2>2, <2>3 DEF TypeOK
<1>7. CASE PublishData
  <2>1. StoresType'
    <3>1. journal.id \in Imports
      BY <1>0, <1>7 DEF PublishData, At, PhaseOK, FreshOK, Publishing, TypeOK,
          StoresType, Journals, Imports
    <3>2. disk' \in Disks
      BY <1>0, <1>7, <3>1 DEF PublishData, TypeOK, StoresType, Disks
    <3>3. QED
      BY <1>0, <1>7, <3>2 DEF PublishData, TypeOK, StoresType
  <2>2. LocalType'
    BY <1>0, <1>7, BoundsAssumption DEF TypeOK, LocalType, StoresType, Operations,
        Memories, Journals, Disks, Phases, Steps, Files, Idle, Nothing, Ready, local,
        PublishData, At, Goto
  <2>3. AuxType'
    BY <1>0, <1>7, BoundsAssumption DEF TypeOK, AuxType, StoresType, Spend, Files,
        Journals, aux, PublishData
  <2>4. QED BY <2>1, <2>2, <2>3 DEF TypeOK
<1>8. CASE CheckSettings
  <2>1. StoresType'
    BY <1>0, <1>8, BoundsAssumption DEF TypeOK, StoresType, LocalType, Journals,
        Artifacts, Disks, Phases, Imports, Files, stores, local, aux, CheckSettings
  <2>2. LocalType'
    BY <1>0, <1>8, BoundsAssumption DEF TypeOK, LocalType, StoresType, Operations,
        Memories, Journals, Disks, Phases, Steps, Files, Idle, Nothing, Ready, local,
        CheckSettings, At, Goto
  <2>3. AuxType'
    BY <1>0, <1>8, BoundsAssumption DEF TypeOK, AuxType, StoresType, Spend, Files,
        Journals, aux, CheckSettings
  <2>4. QED BY <2>1, <2>2, <2>3 DEF TypeOK
<1>9. CASE PublishSettings
  <2>1. StoresType'
    <3>1. journal.id \in Imports
      BY <1>0, <1>9 DEF PublishSettings, At, PhaseOK, FreshOK, Publishing, TypeOK,
          StoresType, Journals, Imports
    <3>2. disk' \in Disks
      BY <1>0, <1>9, <3>1 DEF PublishSettings, TypeOK, StoresType, Disks
    <3>3. QED
      BY <1>0, <1>9, <3>2 DEF PublishSettings, TypeOK, StoresType
  <2>2. LocalType'
    BY <1>0, <1>9, BoundsAssumption DEF TypeOK, LocalType, StoresType, Operations,
        Memories, Journals, Disks, Phases, Steps, Files, Idle, Nothing, Ready, local,
        PublishSettings, At, Goto
  <2>3. AuxType'
    BY <1>0, <1>9, BoundsAssumption DEF TypeOK, AuxType, StoresType, Spend, Files,
        Journals, aux, PublishSettings
  <2>4. QED BY <2>1, <2>2, <2>3 DEF TypeOK
<1>10. CASE CheckMarker
  <2>1. StoresType'
    BY <1>0, <1>10, BoundsAssumption DEF TypeOK, StoresType, LocalType, Journals,
        Artifacts, Disks, Phases, Imports, Files, stores, local, aux, CheckMarker
  <2>2. LocalType'
    BY <1>0, <1>10, BoundsAssumption DEF TypeOK, LocalType, StoresType, Operations,
        Memories, Journals, Disks, Phases, Steps, Files, Idle, Nothing, Ready, local,
        CheckMarker, At, Goto
  <2>3. AuxType'
    BY <1>0, <1>10, BoundsAssumption DEF TypeOK, AuxType, StoresType, Spend, Files,
        Journals, aux, CheckMarker
  <2>4. QED BY <2>1, <2>2, <2>3 DEF TypeOK
<1>11. CASE Commit
  <2>1. StoresType'
    BY <1>0, <1>11, BoundsAssumption DEF TypeOK, StoresType, LocalType, Journals,
        Artifacts, Disks, Phases, Imports, Files, stores, local, aux, Commit, At, Save
  <2>2. LocalType'
    BY <1>0, <1>11, BoundsAssumption DEF TypeOK, LocalType, StoresType, Operations,
        Memories, Journals, Disks, Phases, Steps, Files, Idle, Nothing, Ready, local,
        Commit, At, Goto
  <2>3. AuxType'
    BY <1>0, <1>11, BoundsAssumption DEF TypeOK, AuxType, StoresType, Spend, Files,
        Journals, aux, Commit
  <2>4. QED BY <2>1, <2>2, <2>3 DEF TypeOK
<1>12. CASE RecordRollback
  <2>1. StoresType'
    BY <1>0, <1>12, BoundsAssumption DEF TypeOK, StoresType, LocalType, Journals,
        Artifacts, Disks, Phases, Imports, Files, stores, local, aux, RecordRollback,
        At, Passes, Save
  <2>2. LocalType'
    BY <1>0, <1>12, BoundsAssumption DEF TypeOK, LocalType, StoresType, Operations,
        Memories, Journals, Disks, Phases, Steps, Files, Idle, Nothing, Ready, local,
        RecordRollback, At, Passes, Goto
  <2>3. AuxType'
    BY <1>0, <1>12, BoundsAssumption DEF TypeOK, AuxType, StoresType, Spend, Files,
        Journals, aux, RecordRollback
  <2>4. QED BY <2>1, <2>2, <2>3 DEF TypeOK
<1>13. CASE CheckUndoSettings
  <2>1. StoresType'
    BY <1>0, <1>13, BoundsAssumption DEF TypeOK, StoresType, LocalType, Journals,
        Artifacts, Disks, Phases, Imports, Files, stores, local, aux, CheckUndoSettings,
        CheckUndo
  <2>2. LocalType'
    BY <1>0, <1>13, BoundsAssumption DEF TypeOK, LocalType, StoresType, Operations,
        Memories, Journals, Disks, Phases, Steps, Files, Idle, Nothing, Ready, local,
        CheckUndoSettings, CheckUndo, At, Goto
  <2>3. AuxType'
    BY <1>0, <1>13, BoundsAssumption DEF TypeOK, AuxType, StoresType, Spend, Files,
        Journals, aux, CheckUndoSettings, CheckUndo
  <2>4. QED BY <2>1, <2>2, <2>3 DEF TypeOK
<1>14. CASE UndoSettings
  <2>1. StoresType'
    <3>2. disk' \in Disks
      BY <1>0, <1>14 DEF UndoSettings, Undo, Before, TypeOK, StoresType, Disks,
          Artifacts
    <3>3. QED
      BY <1>0, <1>14, <3>2 DEF UndoSettings, Undo, TypeOK, StoresType
  <2>2. LocalType'
    BY <1>0, <1>14, BoundsAssumption DEF TypeOK, LocalType, StoresType, Operations,
        Memories, Journals, Disks, Phases, Steps, Files, Idle, Nothing, Ready, local,
        UndoSettings, Undo, At, Goto
  <2>3. AuxType'
    BY <1>0, <1>14, BoundsAssumption DEF TypeOK, AuxType, StoresType, Spend, Files,
        Journals, aux, UndoSettings, Undo
  <2>4. QED BY <2>1, <2>2, <2>3 DEF TypeOK
<1>15. CASE CheckUndoData
  <2>1. StoresType'
    BY <1>0, <1>15, BoundsAssumption DEF TypeOK, StoresType, LocalType, Journals,
        Artifacts, Disks, Phases, Imports, Files, stores, local, aux, CheckUndoData,
        CheckUndo
  <2>2. LocalType'
    BY <1>0, <1>15, BoundsAssumption DEF TypeOK, LocalType, StoresType, Operations,
        Memories, Journals, Disks, Phases, Steps, Files, Idle, Nothing, Ready, local,
        CheckUndoData, CheckUndo, At, Goto
  <2>3. AuxType'
    BY <1>0, <1>15, BoundsAssumption DEF TypeOK, AuxType, StoresType, Spend, Files,
        Journals, aux, CheckUndoData, CheckUndo
  <2>4. QED BY <2>1, <2>2, <2>3 DEF TypeOK
<1>16. CASE UndoData
  <2>1. StoresType'
    <3>2. disk' \in Disks
      BY <1>0, <1>16 DEF UndoData, Undo, Before, TypeOK, StoresType, Disks
    <3>3. QED
      BY <1>0, <1>16, <3>2 DEF UndoData, Undo, TypeOK, StoresType
  <2>2. LocalType'
    BY <1>0, <1>16, BoundsAssumption DEF TypeOK, LocalType, StoresType, Operations,
        Memories, Journals, Disks, Phases, Steps, Files, Idle, Nothing, Ready, local,
        UndoData, Undo, At, Goto
  <2>3. AuxType'
    BY <1>0, <1>16, BoundsAssumption DEF TypeOK, AuxType, StoresType, Spend, Files,
        Journals, aux, UndoData, Undo
  <2>4. QED BY <2>1, <2>2, <2>3 DEF TypeOK
<1>17. CASE RecordCancelled
  <2>1. StoresType'
    BY <1>0, <1>17, BoundsAssumption DEF TypeOK, StoresType, LocalType, Journals,
        Artifacts, Disks, Phases, Imports, Files, stores, local, aux, RecordCancelled,
        At, Save
  <2>2. LocalType'
    BY <1>0, <1>17, BoundsAssumption DEF TypeOK, LocalType, StoresType, Operations,
        Memories, Journals, Disks, Phases, Steps, Files, Idle, Nothing, Ready, local,
        RecordCancelled, At, Goto
  <2>3. AuxType'
    BY <1>0, <1>17, BoundsAssumption DEF TypeOK, AuxType, StoresType, Spend, Files,
        Journals, aux, RecordCancelled
  <2>4. QED BY <2>1, <2>2, <2>3 DEF TypeOK
<1>18. ASSUME NEW io \in BOOLEAN, NEW saved \in BOOLEAN, StepFails(io, saved) PROVE TypeOK'
  <2>1. StoresType'
    BY <1>0, <1>18, BoundsAssumption DEF TypeOK, StoresType, LocalType, Journals,
        Artifacts, Disks, Phases, Imports, Files, stores, local, aux, StepFails, Save
  <2>2. LocalType'
    <3>1. run.pc \in Steps /\ UNCHANGED <<up, mem, session>>
      BY <1>18 DEF StepFails
    <3>2. up # "down"
      BY <1>0, <3>1 DEF TypeOK, LocalType, Idle, Steps
    <3>3. run' \in Operations
      BY <1>0, <1>18 DEF StepFails, TypeOK, LocalType, Operations
    <3>4. QED
      BY <1>0, <3>1, <3>2, <3>3 DEF TypeOK, LocalType
  <2>3. AuxType'
    BY <1>0, <1>18, BoundsAssumption DEF TypeOK, AuxType, StoresType, Spend, Files,
        Journals, aux, StepFails
  <2>4. QED BY <2>1, <2>2, <2>3 DEF TypeOK
<1>19. CASE Load
  <2>1. StoresType'
    BY <1>0, <1>19, BoundsAssumption DEF TypeOK, StoresType, LocalType, Journals,
        Artifacts, Disks, Phases, Imports, Files, stores, local, aux, Load
  <2>2. LocalType'
    <3>1. run' \in Operations
      BY <1>0, <1>19, BoundsAssumption DEF Load, Idle, Operations, Phases
    <3>2. mem' \in Memories
      <4>1. Active(journal) \in BOOLEAN /\ journal.login \in BOOLEAN
        BY <1>0 DEF Active, TypeOK, StoresType, Journals
      <4>2. (IF Active(journal) THEN mem.disk ELSE disk) \in Disks
        BY <1>0 DEF TypeOK, StoresType, LocalType, Memories
      <4>3. QED BY <1>19, <4>1, <4>2 DEF Load, Memories
    <3>3. session' \in {None, stored} /\ up' = "up"
      BY <1>19 DEF Load
    <3>4. QED BY <1>0, <3>1, <3>2, <3>3 DEF TypeOK, LocalType, StoresType
  <2>3. AuxType'
    BY <1>0, <1>19, BoundsAssumption DEF TypeOK, AuxType, StoresType, Spend, Files,
        Journals, aux, Load
  <2>4. QED BY <2>1, <2>2, <2>3 DEF TypeOK
<1>20. ASSUME NEW prefs \in BOOLEAN, Begin(prefs) PROVE TypeOK'
  <2>1. StoresType'
    BY <1>0, <1>20, BoundsAssumption DEF TypeOK, StoresType, LocalType, Journals,
        Artifacts, Disks, Phases, Imports, Files, stores, local, aux, Begin, NewJournal
  <2>2. LocalType'
    BY <1>0, <1>20, BoundsAssumption DEF TypeOK, LocalType, StoresType, Operations,
        Memories, Journals, Disks, Phases, Steps, Files, Idle, Nothing, Ready, local,
        Begin, Started
  <2>3. AuxType'
    BY <1>0, <1>20, BoundsAssumption DEF TypeOK, AuxType, StoresType, Spend, Files,
        Journals, aux, Begin
  <2>4. QED BY <2>1, <2>2, <2>3 DEF TypeOK
<1>21. CASE Cancel
  <2>1. StoresType'
    BY <1>0, <1>21, BoundsAssumption DEF TypeOK, StoresType, LocalType, Journals,
        Artifacts, Disks, Phases, Imports, Files, stores, local, aux, Cancel, Dropped,
        Started, Idle, Save
  <2>2. LocalType'
    BY ZenonT(60), <1>0, <1>21, BoundsAssumption DEF TypeOK, LocalType, StoresType, Operations,
        Memories, Journals, Disks, Phases, Steps, Files, Idle, Nothing, Ready, local,
        Cancel, Dropped, Started, Save
  <2>3. AuxType'
    BY <1>0, <1>21, BoundsAssumption DEF TypeOK, AuxType, StoresType, Spend, Files,
        Journals, aux, Cancel
  <2>4. QED BY <2>1, <2>2, <2>3 DEF TypeOK
<1>22. CASE KeepCurrent
  <2>1. StoresType'
    BY <1>0, <1>22, BoundsAssumption DEF TypeOK, StoresType, LocalType, Journals,
        Artifacts, Disks, Phases, Imports, Files, stores, local, aux, KeepCurrent
  <2>2. LocalType'
    BY <1>0, <1>22, BoundsAssumption DEF TypeOK, LocalType, StoresType, Operations,
        Memories, Journals, Disks, Phases, Steps, Files, Idle, Nothing, Ready, local,
        KeepCurrent, Started
  <2>3. AuxType'
    BY <1>0, <1>22, BoundsAssumption DEF TypeOK, AuxType, StoresType, Spend, Files,
        Journals, aux, KeepCurrent
  <2>4. QED BY <2>1, <2>2, <2>3 DEF TypeOK
<1>23. ASSUME NEW f \in Files, NEW c \in Contents, Edit(f, c) PROVE TypeOK'
  <2>1. StoresType'
    BY <1>0, <1>23, BoundsAssumption DEF TypeOK, StoresType, LocalType, Journals,
        Artifacts, Disks, Phases, Imports, Files, stores, local, aux, Edit, Wrote
  <2>2. LocalType'
    BY <1>0, <1>23, BoundsAssumption DEF TypeOK, LocalType, StoresType, Operations,
        Memories, Journals, Disks, Phases, Steps, Files, Idle, Nothing, Ready, local,
        Edit, Wrote
  <2>3. AuxType'
    BY <1>0, <1>23, BoundsAssumption DEF TypeOK, AuxType, StoresType, Spend, Files,
        Journals, aux, Edit, Wrote
  <2>4. QED BY <2>1, <2>2, <2>3 DEF TypeOK
<1>24. CASE SaveNow
  <2>1. StoresType'
    <3>1. mem.disk["data"] \in Contents \cup Imports \cup {None} /\ Empty \in Contents
      BY <1>0, ContentsAssumption DEF TypeOK, LocalType, Memories, Disks, Files
    <3>2. disk' \in Disks
      BY <1>0, <1>24, <3>1 DEF SaveNow, Wrote, TypeOK, StoresType, Disks
    <3>3. QED
      BY <1>0, <1>24, <3>2 DEF SaveNow, TypeOK, StoresType
  <2>2. LocalType'
    <3>1. mem.disk["data"] \in Contents \cup Imports \cup {None} /\ Empty \in Contents
      BY <1>0, ContentsAssumption DEF TypeOK, LocalType, Memories, Disks, Files
    <3>2. PICK c \in Contents \cup Imports \cup {None} : mem' = [mem EXCEPT !.disk["data"] = c]
      BY <1>24, <3>1 DEF SaveNow, Wrote
    <3>3. mem' \in Memories
      BY <1>0, <3>2 DEF TypeOK, LocalType, Memories, Disks
    <3>4. QED
      BY <1>0, <1>24, <3>3 DEF SaveNow, Ready, TypeOK, LocalType
  <2>3. AuxType'
    BY <1>0, <1>24, BoundsAssumption DEF TypeOK, AuxType, StoresType, Spend, Files,
        Journals, aux, SaveNow, Wrote
  <2>4. QED BY <2>1, <2>2, <2>3 DEF TypeOK
<1>25. CASE Login
  <2>1. StoresType'
    BY <1>0, <1>25, BoundsAssumption DEF TypeOK, StoresType, LocalType, Journals,
        Artifacts, Disks, Phases, Imports, Files, stores, local, aux, Login
  <2>2. LocalType'
    BY <1>0, <1>25, BoundsAssumption DEF TypeOK, LocalType, StoresType, Operations,
        Memories, Journals, Disks, Phases, Steps, Files, Idle, Nothing, Ready, Login
  <2>3. AuxType'
    BY <1>0, <1>25, BoundsAssumption DEF TypeOK, AuxType, StoresType, Spend, Files,
        Journals, aux, Login
  <2>4. QED BY <2>1, <2>2, <2>3 DEF TypeOK
<1>26. ASSUME NEW ok \in BOOLEAN, Resume(ok) PROVE TypeOK'
  <2>1. StoresType'
    BY <1>0, <1>26, BoundsAssumption DEF TypeOK, StoresType, LocalType, Journals,
        Artifacts, Disks, Phases, Imports, Files, stores, local, aux, Resume, ResumeAs,
        ResumeStep, Started, Idle, Save
  <2>2. LocalType'
    BY ZenonT(60), <1>0, <1>26, BoundsAssumption DEF TypeOK, LocalType, StoresType, Operations,
        Memories, Journals, Disks, Phases, Steps, Files, Idle, Nothing, Ready, local,
        Resume, ResumeAs, ResumeStep, Started, Save
  <2>3. AuxType'
    BY <1>0, <1>26, BoundsAssumption DEF TypeOK, AuxType, StoresType, Spend, Files,
        Journals, aux, Resume, ResumeAs
  <2>4. QED BY <2>1, <2>2, <2>3 DEF TypeOK
<1>27. ASSUME NEW ok \in BOOLEAN, Logout(ok) PROVE TypeOK'
  <2>1. StoresType'
    BY <1>0, <1>27, BoundsAssumption DEF TypeOK, StoresType, LocalType, Journals,
        Artifacts, Disks, Phases, Imports, Files, stores, local, aux, Logout, Reset
  <2>2. LocalType'
    BY <1>0, <1>27, BoundsAssumption DEF TypeOK, LocalType, StoresType, Operations,
        Memories, Journals, Disks, Phases, Steps, Files, Idle, Nothing, Ready, local,
        Logout, Reset
  <2>3. AuxType'
    BY <1>0, <1>27, BoundsAssumption DEF TypeOK, AuxType, StoresType, Spend, Files,
        Journals, aux, Logout, Reset
  <2>4. QED BY <2>1, <2>2, <2>3 DEF TypeOK
<1>28. ASSUME NEW ok \in BOOLEAN, Start(ok) PROVE TypeOK'
  <2>1. StoresType'
    BY <1>0, <1>28, BoundsAssumption DEF TypeOK, StoresType, LocalType, Journals,
        Artifacts, Disks, Phases, Imports, Files, stores, local, aux, Start, ResumeAs,
        ResumeStep, Started, Save
  <2>2. LocalType'
    <3>1. ResumeStep \in Steps \cup {"finish"} /\ journal.phase \in Phases
      BY <1>0 DEF ResumeStep, Steps, TypeOK, StoresType, Journals
    <3>2. run' = [op |-> "recover", pc |-> ResumeStep, from |-> journal.id,
                  phase |-> journal.phase, auth |-> FALSE, failed |-> ~ok]
      BY <1>28 DEF Start, ResumeAs, Started, Idle
    <3>3. run' \in Operations
      BY <1>0, <3>1, <3>2 DEF Operations, TypeOK, StoresType, Journals
    <3>4. QED
      BY <1>0, <1>28, <3>3 DEF Start, TypeOK, LocalType
  <2>3. AuxType'
    BY <1>0, <1>28, BoundsAssumption DEF TypeOK, AuxType, StoresType, Spend, Files,
        Journals, aux, Start, ResumeAs
  <2>4. QED BY <2>1, <2>2, <2>3 DEF TypeOK
<1>29. ASSUME NEW f \in Files, NEW c \in Contents \cup {None}, OthersWrite(f, c) PROVE TypeOK'
  <2>1. StoresType'
    BY <1>0, <1>29, BoundsAssumption DEF TypeOK, StoresType, LocalType, Journals,
        Artifacts, Disks, Phases, Imports, Files, stores, local, OthersWrite
  <2>2. LocalType'
    BY <1>0, <1>29, BoundsAssumption DEF TypeOK, LocalType, StoresType, Operations,
        Memories, Journals, Disks, Phases, Steps, Files, Idle, Nothing, Ready, local,
        OthersWrite
  <2>3. AuxType'
    BY <1>0, <1>29, BoundsAssumption DEF TypeOK, AuxType, StoresType, Spend, Files,
        OthersWrite
  <2>4. QED BY <2>1, <2>2, <2>3 DEF TypeOK
<1>30. ASSUME NEW v \in 0 .. MaxSources, SourceChanges(v) PROVE TypeOK'
  <2>1. StoresType'
    BY <1>0, <1>30, BoundsAssumption DEF TypeOK, StoresType, LocalType, Journals,
        Artifacts, Disks, Phases, Imports, Files, stores, local, SourceChanges
  <2>2. LocalType'
    BY <1>0, <1>30, BoundsAssumption DEF TypeOK, LocalType, StoresType, Operations,
        Memories, Journals, Disks, Phases, Steps, Files, Idle, Nothing, Ready, local,
        SourceChanges
  <2>3. AuxType'
    BY <1>0, <1>30, BoundsAssumption DEF TypeOK, AuxType, StoresType, Spend, Files,
        SourceChanges
  <2>4. QED BY <2>1, <2>2, <2>3 DEF TypeOK
<1>31. CASE Damage
  <2>1. StoresType'
    BY <1>0, <1>31, BoundsAssumption DEF TypeOK, StoresType, LocalType, Journals,
        Artifacts, Disks, Phases, Imports, Files, stores, local, Damage
  <2>2. LocalType'
    BY <1>0, <1>31, BoundsAssumption DEF TypeOK, LocalType, StoresType, Operations,
        Memories, Journals, Disks, Phases, Steps, Files, Idle, Nothing, Ready, local,
        Damage
  <2>3. AuxType'
    BY <1>0, <1>31, BoundsAssumption DEF TypeOK, AuxType, StoresType, Spend, Files,
        Damage
  <2>4. QED BY <2>1, <2>2, <2>3 DEF TypeOK
<1>32. CASE Crash
  <2>1. StoresType'
    BY <1>0, <1>32, BoundsAssumption DEF TypeOK, StoresType, LocalType, Journals,
        Artifacts, Disks, Phases, Imports, Files, stores, local, aux, Crash
  <2>2. LocalType'
    BY <1>0, <1>32, BoundsAssumption DEF TypeOK, LocalType, StoresType, Operations,
        Memories, Journals, Disks, Phases, Steps, Files, Idle, Nothing, Ready, Crash
  <2>3. AuxType'
    BY <1>0, <1>32, BoundsAssumption DEF TypeOK, AuxType, StoresType, Spend, Files,
        Journals, aux, Crash
  <2>4. QED BY <2>1, <2>2, <2>3 DEF TypeOK
<1>33. CASE UNCHANGED vars
  BY <1>0, <1>33 DEF TypeOK, StoresType, LocalType, AuxType, vars, stores, local, aux
<1>34. QED BY <1>1, <1>2, <1>3, <1>4, <1>5, <1>6, <1>7, <1>8, <1>9, <1>10, <1>11, <1>12,
    <1>13, <1>14, <1>15, <1>16, <1>17, <1>18, <1>19, <1>20, <1>21, <1>22, <1>23, <1>24,
    <1>25, <1>26, <1>27, <1>28, <1>29, <1>30, <1>31, <1>32, <1>33 DEF Next, Coordinator,
    User, Others

\* Every step leaves the phase on disk that the next step expects.
LEMMA PhaseOKStep == ASSUME Consistent, [Next]_vars PROVE PhaseOK'
<1>0. PhaseOK /\ TypeOK BY DEF Consistent
<1>1. CASE Stage
  BY <1>0, <1>1 DEF PhaseOK, TypeOK, Steps, Publishing, Restoring, Active, local,
      stores, Stage, At, Goto
<1>2. CASE RecordReady
  BY <1>0, <1>2 DEF PhaseOK, TypeOK, Steps, Publishing, Restoring, Active, local,
      stores, RecordReady, At, Goto, Save
<1>3. CASE RequireLogin
  BY <1>0, <1>3, RequireLoginFacts, Numbers DEF PhaseOK, Publishing, Restoring
<1>4. CASE \E ok \in BOOLEAN : Authorize(ok)
  BY <1>0, <1>4, AuthorizeFacts, Numbers DEF PhaseOK, Publishing, Restoring
<1>5. CASE \E ok \in BOOLEAN : Finish(ok)
  BY <1>0, <1>5, FinishFacts, Numbers DEF PhaseOK, Publishing, Restoring
<1>6. CASE RecordPublishing
  BY <1>0, <1>6 DEF PhaseOK, TypeOK, Steps, Publishing, Restoring, Active, local,
      stores, RecordPublishing, At, Goto, Save
<1>7. CASE PublishData
  BY <1>0, <1>7, PublishDataFacts, Numbers DEF PhaseOK, Publishing, Restoring
<1>8. CASE CheckSettings
  BY <1>0, <1>8 DEF PhaseOK, TypeOK, Steps, Publishing, Restoring, Active, local,
      stores, CheckSettings, At, Passes, Goto
<1>9. CASE PublishSettings
  BY <1>0, <1>9, PublishSettingsFacts, Numbers DEF PhaseOK, Publishing, Restoring
<1>10. CASE CheckMarker
  BY <1>0, <1>10 DEF PhaseOK, TypeOK, Steps, Publishing, Restoring, Active, local,
      stores, CheckMarker, At, Passes, Goto
<1>11. CASE Commit
  BY <1>0, <1>11 DEF PhaseOK, TypeOK, Steps, Publishing, Restoring, Active, local,
      stores, Commit, At, Goto
<1>12. CASE RecordRollback
  BY <1>0, <1>12 DEF PhaseOK, TypeOK, Steps, Publishing, Restoring, Active, local,
      stores, RecordRollback, At, Passes, Goto, Save
<1>13. CASE CheckUndoSettings
  BY <1>0, <1>13 DEF PhaseOK, TypeOK, Steps, Publishing, Restoring, Active, local,
      stores, CheckUndoSettings, CheckUndo, At, Passes, Goto
<1>14. CASE UndoSettings
  BY <1>0, <1>14, UndoSettingsFacts, Numbers DEF PhaseOK, Publishing, Restoring
<1>15. CASE CheckUndoData
  BY <1>0, <1>15, CheckUndoDataFacts, Numbers DEF PhaseOK, Publishing, Restoring, stores
<1>16. CASE UndoData
  BY <1>0, <1>16, UndoDataFacts, Numbers DEF PhaseOK, Publishing, Restoring
<1>17. CASE RecordCancelled
  BY <1>0, <1>17 DEF PhaseOK, TypeOK, Steps, Publishing, Restoring, Active, local,
      stores, RecordCancelled, At, Goto
<1>18. CASE \E io, saved \in BOOLEAN : StepFails(io, saved)
  BY <1>0, <1>18, FailFacts, Numbers DEF PhaseOK, Publishing, Restoring
<1>19. CASE Load
  BY <1>0, <1>19, LoadFacts, Numbers DEF PhaseOK, Publishing, Restoring
<1>20. CASE \E prefs \in BOOLEAN : Begin(prefs)
  BY <1>0, <1>20, BeginFacts, Numbers DEF PhaseOK, Publishing, Restoring
<1>21. CASE Cancel
  BY <1>0, <1>21, CancelFacts, Numbers DEF PhaseOK, Publishing, Restoring
<1>22. CASE KeepCurrent
  BY <1>0, <1>22, KeepFacts, Numbers DEF PhaseOK, Publishing, Restoring
<1>23. CASE \E f \in Files, c \in Contents : Edit(f, c)
  BY <1>0, <1>23, EditFacts, Numbers DEF PhaseOK
<1>24. CASE SaveNow
  BY <1>0, <1>24, SaveFacts, Numbers DEF PhaseOK
<1>25. CASE Login
  BY <1>0, <1>25, LoginFacts, Numbers DEF PhaseOK
<1>26. CASE \E ok \in BOOLEAN : Resume(ok)
  BY <1>0, <1>26, ResumeFacts, Numbers DEF PhaseOK, Publishing, Restoring, Resumed
<1>27. ASSUME NEW ok \in BOOLEAN, Logout(ok) PROVE PhaseOK'
  BY <1>0, <1>27 DEF PhaseOK, TypeOK, Steps, Publishing, Restoring, Active, local,
      stores, Logout, Reset
<1>28. CASE \E ok \in BOOLEAN : Start(ok)
  BY <1>0, <1>28, StartFacts, Numbers DEF PhaseOK, Publishing, Restoring, Resumed
<1>29. CASE \E f \in Files, c \in Contents \cup {None} : OthersWrite(f, c)
  BY <1>0, <1>29, OthersFacts, Numbers DEF PhaseOK
<1>30. ASSUME NEW v \in 0 .. MaxSources, SourceChanges(v) PROVE PhaseOK'
  BY <1>0, <1>30 DEF PhaseOK, TypeOK, Steps, Publishing, Restoring, Active, local,
      stores, SourceChanges
<1>31. CASE Damage
  BY <1>0, <1>31 DEF PhaseOK, TypeOK, Steps, Publishing, Restoring, Active, local,
      stores, Damage
<1>32. CASE Crash
  BY <1>0, <1>32, CrashFacts, Numbers DEF PhaseOK, Publishing, Restoring
<1>33. CASE UNCHANGED vars
  BY <1>0, <1>33 DEF PhaseOK, Steps, Publishing, Restoring, Active, local, stores, vars
<1>34. QED BY <1>1, <1>2, <1>3, <1>4, <1>5, <1>6, <1>7, <1>8, <1>9, <1>10, <1>11, <1>12,
    <1>13, <1>14, <1>15, <1>16, <1>17, <1>18, <1>19, <1>20, <1>21, <1>22, <1>23, <1>24,
    <1>25, <1>26, <1>27, <1>28, <1>29, <1>30, <1>31, <1>32, <1>33 DEF Next, Coordinator,
    User, Others

\* No step uses the number of an import that has not begun, or puts its files elsewhere.
LEMMA FreshOKStep == ASSUME Consistent, [Next]_vars PROVE FreshOK'
<1>0. FreshOK /\ TypeOK /\ PhaseOK /\ SessionOK /\ NoTrace BY DEF Consistent
<1>1. CASE Stage
  BY <1>0, <1>1, BoundsAssumption, ContentsAssumption DEF FreshOK, TypeOK, PhaseOK,
      Files, Imports, Active, Before, Publishing, Restoring, local, aux, stores, Stage
<1>2. CASE RecordReady
  BY <1>0, <1>2, BoundsAssumption, ContentsAssumption DEF FreshOK, TypeOK, PhaseOK,
      Files, Imports, Active, Before, Publishing, Restoring, local, aux, stores,
      RecordReady, At, Goto, Save
<1>3. CASE RequireLogin
  BY <1>0, <1>3, RequireLoginFacts, Numbers DEF FreshOK, PhaseOK
<1>4. CASE \E ok \in BOOLEAN : Authorize(ok)
  BY <1>0, <1>4, AuthorizeFacts, Numbers DEF FreshOK, PhaseOK, Files, Active, Before,
      Publishing
<1>5. CASE \E ok \in BOOLEAN : Finish(ok)
  BY <1>0, <1>5, FinishFacts, Numbers DEF FreshOK, PhaseOK, NoTrace, Files, Active,
      Before, Publishing, Restoring, aux, Reloads, Phases
<1>6. CASE RecordPublishing
  BY <1>0, <1>6, BoundsAssumption, ContentsAssumption DEF FreshOK, TypeOK, PhaseOK,
      Files, Imports, Active, Before, Publishing, Restoring, local, aux, stores,
      RecordPublishing, At, Goto, Save
<1>7. CASE PublishData
  BY <1>0, <1>7, PublishDataFacts, Numbers DEF FreshOK
<1>8. CASE CheckSettings
  BY <1>0, <1>8, BoundsAssumption, ContentsAssumption DEF FreshOK, TypeOK, PhaseOK,
      Files, Imports, Active, Before, Publishing, Restoring, local, aux, stores,
      CheckSettings, At
<1>9. CASE PublishSettings
  BY <1>0, <1>9, PublishSettingsFacts, Numbers DEF FreshOK, PhaseOK, Files
<1>10. CASE CheckMarker
  BY <1>0, <1>10, BoundsAssumption, ContentsAssumption DEF FreshOK, TypeOK, PhaseOK,
      Files, Imports, Active, Before, Publishing, Restoring, local, aux, stores,
      CheckMarker, At
<1>11. CASE Commit
  BY <1>0, <1>11, BoundsAssumption, ContentsAssumption DEF FreshOK, TypeOK, PhaseOK,
      Files, Imports, Active, Before, Publishing, Restoring, local, aux, stores, Commit,
      At, Goto, Save
<1>12. CASE RecordRollback
  BY <1>0, <1>12, BoundsAssumption, ContentsAssumption DEF FreshOK, TypeOK, PhaseOK,
      Files, Imports, Active, Before, Publishing, Restoring, local, aux, stores,
      RecordRollback, At, Passes, Goto, Save
<1>13. CASE CheckUndoSettings
  BY <1>0, <1>13, BoundsAssumption, ContentsAssumption DEF FreshOK, TypeOK, PhaseOK,
      Files, Imports, Active, Before, Publishing, Restoring, local, aux, stores,
      CheckUndoSettings, CheckUndo
<1>14. CASE UndoSettings
  BY <1>0, <1>14, UndoSettingsFacts, Numbers DEF FreshOK, PhaseOK
<1>15. CASE CheckUndoData
  BY <1>0, <1>15, CheckUndoDataFacts, Numbers DEF FreshOK, PhaseOK, Files, Active,
      Before, Publishing, Restoring, stores
<1>16. CASE UndoData
  BY <1>0, <1>16, UndoDataFacts, Numbers DEF FreshOK, PhaseOK
<1>17. CASE RecordCancelled
  BY <1>0, <1>17, BoundsAssumption, ContentsAssumption DEF FreshOK, TypeOK, PhaseOK,
      Files, Imports, Active, Before, Publishing, Restoring, local, aux, stores,
      RecordCancelled, At, Goto, Save
<1>18. CASE \E io, saved \in BOOLEAN : StepFails(io, saved)
  BY <1>0, <1>18, FailFacts, Numbers DEF FreshOK
<1>19. CASE Load
  BY <1>0, <1>19, LoadFacts, Numbers DEF FreshOK, PhaseOK, NoTrace, Files, Active,
      Before, Publishing, Restoring, aux, Phases, stores
<1>20. CASE \E prefs \in BOOLEAN : Begin(prefs)
  <2>1. /\ journal'.id \in Imports /\ "settings" \in Files
        /\ \A n \in Imports : n > journal'.id => n > journal.id
        /\ \A f \in Files : disk[f] # journal'.id /\ mem.disk[f] # journal'.id
    BY <1>0, <1>20, NewNumber, Numbers
  <2>2. journal'.id # 0
    BY <2>1 DEF Imports
  <2>3. /\ journal'.phase = "preparing" /\ art'.before = disk["settings"]
        /\ UNCHANGED <<disk, mem>>
    BY <1>0, <1>20, BeginFacts
  <2>4. QED BY <1>0, <2>1, <2>2, <2>3 DEF FreshOK
<1>21. CASE Cancel
  BY <1>0, <1>21, CancelFacts, Numbers DEF FreshOK
<1>22. CASE KeepCurrent
  BY <1>0, <1>22, KeepFacts, Numbers DEF FreshOK, PhaseOK, Files, Active
<1>23. CASE \E f \in Files, c \in Contents : Edit(f, c)
  BY <1>0, <1>23, EditFacts, Numbers DEF FreshOK
<1>24. CASE SaveNow
  BY <1>0, <1>24, SaveFacts, Numbers DEF FreshOK
<1>25. CASE Login
  BY <1>0, <1>25, LoginFacts, Numbers DEF FreshOK
<1>26. CASE \E ok \in BOOLEAN : Resume(ok)
  <2>1. /\ journal'.id = journal.id /\ journal'.prefs = journal.prefs
        /\ journal'.phase = "none" <=> journal.phase = "none"
        /\ journal'.phase \notin {"committed", "keptCurrent"} =>
             journal.phase \notin {"committed", "keptCurrent"}
        /\ UNCHANGED <<art, disk>>
        /\ UNCHANGED mem
    BY <1>0, <1>26, ResumeFacts DEF Resumed
  <2>2. QED BY <1>0, <2>1 DEF FreshOK
<1>27. ASSUME NEW ok \in BOOLEAN, Logout(ok) PROVE FreshOK'
  BY <1>0, <1>27, BoundsAssumption, ContentsAssumption DEF FreshOK, TypeOK, PhaseOK,
      Files, Imports, Active, Before, Publishing, Restoring, local, aux, stores, Logout
<1>28. CASE \E ok \in BOOLEAN : Start(ok)
  <2>1. /\ journal'.id = journal.id /\ journal'.prefs = journal.prefs
        /\ journal'.phase = "none" <=> journal.phase = "none"
        /\ journal'.phase \notin {"committed", "keptCurrent"} =>
             journal.phase \notin {"committed", "keptCurrent"}
        /\ UNCHANGED <<art, disk>>
        /\ UNCHANGED mem
    BY <1>0, <1>28, StartFacts DEF Resumed
  <2>2. QED BY <1>0, <2>1 DEF FreshOK
<1>29. CASE \E f \in Files, c \in Contents \cup {None} : OthersWrite(f, c)
  BY ZenonT(60), <1>0, <1>29, OthersFacts, Numbers DEF FreshOK, PhaseOK, Files, Active, Before,
      Publishing, Restoring, aux
<1>30. ASSUME NEW v \in 0 .. MaxSources, SourceChanges(v) PROVE FreshOK'
  BY <1>0, <1>30, BoundsAssumption, ContentsAssumption DEF FreshOK, TypeOK, PhaseOK,
      Files, Imports, Active, Before, Publishing, Restoring, local, aux, stores,
      SourceChanges
<1>31. CASE Damage
  BY <1>0, <1>31, BoundsAssumption, ContentsAssumption DEF FreshOK, TypeOK, PhaseOK,
      Files, Imports, Active, Before, Publishing, Restoring, local, aux, stores, Damage
<1>32. CASE Crash
  BY <1>0, <1>32, CrashFacts, Numbers DEF FreshOK, PhaseOK, Files, Active, Before,
      Publishing, Restoring, stores
<1>33. CASE UNCHANGED vars
  BY <1>0, <1>33 DEF FreshOK, Files, Imports, Active, Before, Publishing, Restoring,
      local, aux, stores, vars
<1>34. QED BY <1>1, <1>2, <1>3, <1>4, <1>5, <1>6, <1>7, <1>8, <1>9, <1>10, <1>11, <1>12,
    <1>13, <1>14, <1>15, <1>16, <1>17, <1>18, <1>19, <1>20, <1>21, <1>22, <1>23, <1>24,
    <1>25, <1>26, <1>27, <1>28, <1>29, <1>30, <1>31, <1>32, <1>33 DEF Next, Coordinator,
    User, Others

\* A rollback goes on only after what it has undone stays undone.
LEMMA UndoneOKStep == ASSUME Consistent, [Next]_vars PROVE UndoneOK'
<1>0. UndoneOK /\ TypeOK /\ PhaseOK /\ FreshOK BY DEF Consistent
<1>1. CASE Stage
  BY <1>0, <1>1, BoundsAssumption, ContentsAssumption DEF UndoneOK, TypeOK, PhaseOK,
      FreshOK, Files, Imports, Before, Restoring, local, stores, Active, Stage, At, Goto
<1>2. CASE RecordReady
  BY <1>0, <1>2, BoundsAssumption, ContentsAssumption DEF UndoneOK, TypeOK, PhaseOK,
      FreshOK, Files, Imports, Before, Restoring, local, stores, Active, RecordReady,
      At, Goto, Save
<1>3. CASE RequireLogin
  BY <1>0, <1>3, RequireLoginFacts, Numbers DEF UndoneOK
<1>4. CASE \E ok \in BOOLEAN : Authorize(ok)
  BY <1>0, <1>4, AuthorizeFacts, Numbers DEF UndoneOK
<1>5. CASE \E ok \in BOOLEAN : Finish(ok)
  BY <1>0, <1>5, FinishFacts, Numbers DEF UndoneOK
<1>6. CASE RecordPublishing
  BY <1>0, <1>6, BoundsAssumption, ContentsAssumption DEF UndoneOK, TypeOK, PhaseOK,
      FreshOK, Files, Imports, Before, Restoring, local, stores, Active,
      RecordPublishing, At, Goto, Save
<1>7. CASE PublishData
  BY <1>0, <1>7, PublishDataFacts, Numbers DEF UndoneOK
<1>8. CASE CheckSettings
  BY <1>0, <1>8, BoundsAssumption, ContentsAssumption DEF UndoneOK, TypeOK, PhaseOK,
      FreshOK, Files, Imports, Before, Restoring, local, stores, Active, CheckSettings,
      At, Passes, Goto
<1>9. CASE PublishSettings
  BY <1>0, <1>9, PublishSettingsFacts, Numbers DEF UndoneOK
<1>10. CASE CheckMarker
  BY <1>0, <1>10, BoundsAssumption, ContentsAssumption DEF UndoneOK, TypeOK, PhaseOK,
      FreshOK, Files, Imports, Before, Restoring, local, stores, Active, CheckMarker,
      At, Passes, Goto
<1>11. CASE Commit
  BY <1>0, <1>11, BoundsAssumption, ContentsAssumption DEF UndoneOK, TypeOK, PhaseOK,
      FreshOK, Files, Imports, Before, Restoring, local, stores, Active, Commit, At,
      Goto, Save
<1>12. CASE RecordRollback
  BY <1>0, <1>12, BoundsAssumption, ContentsAssumption DEF UndoneOK, TypeOK, PhaseOK,
      FreshOK, Files, Imports, Before, Restoring, local, stores, Active, RecordRollback,
      At, Passes, Goto, Save
<1>13. CASE CheckUndoSettings
  BY <1>0, <1>13, BoundsAssumption, ContentsAssumption DEF UndoneOK, TypeOK, PhaseOK,
      FreshOK, Files, Imports, Before, Restoring, local, stores, Active,
      CheckUndoSettings, CheckUndo, At, Passes, Goto
<1>14. CASE UndoSettings
  BY <1>0, <1>14, UndoSettingsFacts, Numbers DEF UndoneOK, PhaseOK, FreshOK
<1>15. CASE CheckUndoData
  BY <1>0, <1>15, CheckUndoDataFacts, Numbers DEF UndoneOK, PhaseOK, FreshOK, Files,
      Before, Restoring, stores
<1>16. CASE UndoData
  BY <1>0, <1>16, UndoDataFacts, Numbers DEF UndoneOK, PhaseOK
<1>17. CASE RecordCancelled
  BY <1>0, <1>17, BoundsAssumption, ContentsAssumption DEF UndoneOK, TypeOK, PhaseOK,
      FreshOK, Files, Imports, Before, Restoring, local, stores, Active,
      RecordCancelled, At, Goto, Save
<1>18. CASE \E io, saved \in BOOLEAN : StepFails(io, saved)
  BY <1>0, <1>18, FailFacts, Numbers DEF UndoneOK, PhaseOK
<1>19. CASE Load
  BY <1>0, <1>19, LoadFacts, Numbers DEF UndoneOK
<1>20. CASE \E prefs \in BOOLEAN : Begin(prefs)
  BY <1>0, <1>20, BeginFacts, Numbers DEF UndoneOK, PhaseOK
<1>21. CASE Cancel
  BY <1>0, <1>21, CancelFacts, Numbers DEF UndoneOK
<1>22. CASE KeepCurrent
  BY <1>0, <1>22, KeepFacts, Numbers DEF UndoneOK, PhaseOK
<1>23. CASE \E f \in Files, c \in Contents : Edit(f, c)
  BY <1>0, <1>23, EditFacts, Numbers DEF UndoneOK, PhaseOK
<1>24. CASE SaveNow
  BY <1>0, <1>24, SaveFacts, Numbers DEF UndoneOK, PhaseOK, FreshOK, Files, Before,
      Restoring
<1>25. CASE Login
  BY <1>0, <1>25, LoginFacts, Numbers DEF UndoneOK
<1>26. CASE \E ok \in BOOLEAN : Resume(ok)
  BY <1>0, <1>26, ResumeFacts, Numbers DEF UndoneOK, PhaseOK, FreshOK, Files, Before,
      Restoring, Active, Resumed
<1>27. ASSUME NEW ok \in BOOLEAN, Logout(ok) PROVE UndoneOK'
  BY <1>0, <1>27, BoundsAssumption, ContentsAssumption DEF UndoneOK, TypeOK, PhaseOK,
      FreshOK, Files, Imports, Before, Restoring, local, stores, Active, Logout
<1>28. CASE \E ok \in BOOLEAN : Start(ok)
  BY <1>0, <1>28, StartFacts, Numbers DEF UndoneOK, PhaseOK, FreshOK, Files, Before,
      Restoring, Resumed
<1>29. CASE \E f \in Files, c \in Contents \cup {None} : OthersWrite(f, c)
  BY <1>0, <1>29, OthersFacts, Numbers DEF UndoneOK, PhaseOK, Files
<1>30. ASSUME NEW v \in 0 .. MaxSources, SourceChanges(v) PROVE UndoneOK'
  BY <1>0, <1>30, BoundsAssumption, ContentsAssumption DEF UndoneOK, TypeOK, PhaseOK,
      FreshOK, Files, Imports, Before, Restoring, local, stores, Active, SourceChanges
<1>31. CASE Damage
  BY <1>0, <1>31, BoundsAssumption, ContentsAssumption DEF UndoneOK, TypeOK, PhaseOK,
      FreshOK, Files, Imports, Before, Restoring, local, stores, Active, Damage
<1>32. CASE Crash
  BY <1>0, <1>32, CrashFacts, Numbers DEF UndoneOK, PhaseOK
<1>33. CASE UNCHANGED vars
  BY <1>0, <1>33 DEF UndoneOK, Files, Imports, Before, Restoring, local, stores, Active,
      vars
<1>34. QED BY <1>1, <1>2, <1>3, <1>4, <1>5, <1>6, <1>7, <1>8, <1>9, <1>10, <1>11, <1>12,
    <1>13, <1>14, <1>15, <1>16, <1>17, <1>18, <1>19, <1>20, <1>21, <1>22, <1>23, <1>24,
    <1>25, <1>26, <1>27, <1>28, <1>29, <1>30, <1>31, <1>32, <1>33 DEF Next, Coordinator,
    User, Others

\* An import is not about to be committed before both files are published.
LEMMA WholeOKStep == ASSUME Consistent, [Next]_vars PROVE WholeOK'
<1>0. WholeOK /\ TypeOK /\ PhaseOK BY DEF Consistent
<1>1. CASE Stage
  BY <1>0, <1>1, BoundsAssumption, ContentsAssumption DEF WholeOK, TypeOK, PhaseOK,
      Files, Targets, Publishing, Restoring, local, stores, aux, Active, Stage, At, Goto
<1>2. CASE RecordReady
  BY <1>0, <1>2, BoundsAssumption, ContentsAssumption DEF WholeOK, TypeOK, PhaseOK,
      Files, Targets, Publishing, Restoring, local, stores, aux, Active, RecordReady,
      At, Goto, Save
<1>3. CASE RequireLogin
  BY <1>0, <1>3, RequireLoginFacts, Numbers DEF WholeOK, PhaseOK
<1>4. CASE \E ok \in BOOLEAN : Authorize(ok)
  BY <1>0, <1>4, AuthorizeFacts, Numbers DEF WholeOK, PhaseOK
<1>5. CASE \E ok \in BOOLEAN : Finish(ok)
  BY <1>0, <1>5, FinishFacts, Numbers DEF WholeOK, PhaseOK
<1>6. CASE RecordPublishing
  BY <1>0, <1>6, BoundsAssumption, ContentsAssumption DEF WholeOK, TypeOK, PhaseOK,
      Files, Targets, Publishing, Restoring, local, stores, aux, Active,
      RecordPublishing, At, Goto, Save
<1>7. CASE PublishData
  BY <1>0, <1>7, PublishDataFacts, Numbers DEF WholeOK
<1>8. CASE CheckSettings
  BY <1>0, <1>8, BoundsAssumption, ContentsAssumption DEF WholeOK, TypeOK, PhaseOK,
      Files, Targets, Publishing, Restoring, local, stores, aux, Active, CheckSettings,
      At, Passes, Goto
<1>9. CASE PublishSettings
  BY <1>0, <1>9, PublishSettingsFacts, Numbers DEF WholeOK
<1>10. CASE CheckMarker
  BY <1>0, <1>10, BoundsAssumption, ContentsAssumption DEF WholeOK, TypeOK, PhaseOK,
      Files, Targets, Publishing, Restoring, local, stores, aux, Active, CheckMarker,
      At, Passes, Goto
<1>11. CASE Commit
  BY <1>0, <1>11, BoundsAssumption, ContentsAssumption DEF WholeOK, TypeOK, PhaseOK,
      Files, Targets, Publishing, Restoring, local, stores, aux, Active, Commit, At,
      Goto, Save
<1>12. CASE RecordRollback
  BY <1>0, <1>12, BoundsAssumption, ContentsAssumption DEF WholeOK, TypeOK, PhaseOK,
      Files, Targets, Publishing, Restoring, local, stores, aux, Active, RecordRollback,
      At, Passes, Goto, Save
<1>13. CASE CheckUndoSettings
  BY <1>0, <1>13, BoundsAssumption, ContentsAssumption DEF WholeOK, TypeOK, PhaseOK,
      Files, Targets, Publishing, Restoring, local, stores, aux, Active,
      CheckUndoSettings, CheckUndo, At, Passes, Goto
<1>14. CASE UndoSettings
  BY <1>0, <1>14, UndoSettingsFacts, Numbers DEF WholeOK, PhaseOK
<1>15. CASE CheckUndoData
  BY <1>0, <1>15, CheckUndoDataFacts, Numbers DEF WholeOK
<1>16. CASE UndoData
  BY <1>0, <1>16, UndoDataFacts, Numbers DEF WholeOK, PhaseOK
<1>17. CASE RecordCancelled
  BY <1>0, <1>17, BoundsAssumption, ContentsAssumption DEF WholeOK, TypeOK, PhaseOK,
      Files, Targets, Publishing, Restoring, local, stores, aux, Active,
      RecordCancelled, At, Goto, Save
<1>18. CASE \E io, saved \in BOOLEAN : StepFails(io, saved)
  BY <1>0, <1>18, FailFacts, Numbers DEF WholeOK
<1>19. CASE Load
  BY <1>0, <1>19, LoadFacts, Numbers DEF WholeOK, PhaseOK
<1>20. CASE \E prefs \in BOOLEAN : Begin(prefs)
  BY <1>0, <1>20, BeginFacts, Numbers DEF WholeOK, PhaseOK
<1>21. CASE Cancel
  BY <1>0, <1>21, CancelFacts, Numbers DEF WholeOK
<1>22. CASE KeepCurrent
  BY <1>0, <1>22, KeepFacts, Numbers DEF WholeOK
<1>23. CASE \E f \in Files, c \in Contents : Edit(f, c)
  BY <1>0, <1>23, EditFacts, Numbers DEF WholeOK, PhaseOK, Files, Targets
<1>24. CASE SaveNow
  BY <1>0, <1>24, SaveFacts, Numbers DEF WholeOK, PhaseOK, Files, Targets
<1>25. CASE Login
  BY <1>0, <1>25, LoginFacts, Numbers DEF WholeOK, PhaseOK, Files, Targets, Publishing,
      Restoring, aux
<1>26. CASE \E ok \in BOOLEAN : Resume(ok)
  BY <1>0, <1>26, ResumeFacts, Numbers DEF WholeOK, PhaseOK, Files, Targets, Publishing,
      Restoring, aux, Active, Resumed
<1>27. ASSUME NEW ok \in BOOLEAN, Logout(ok) PROVE WholeOK'
  BY <1>0, <1>27, BoundsAssumption, ContentsAssumption DEF WholeOK, TypeOK, PhaseOK,
      Files, Targets, Publishing, Restoring, local, stores, aux, Active, Logout
<1>28. CASE \E ok \in BOOLEAN : Start(ok)
  BY <1>0, <1>28, StartFacts, Numbers DEF WholeOK, PhaseOK, Files, Targets, Publishing,
      Restoring, aux, Resumed
<1>29. CASE \E f \in Files, c \in Contents \cup {None} : OthersWrite(f, c)
  BY <1>0, <1>29, OthersFacts, Numbers DEF WholeOK, PhaseOK, Files, Targets, Publishing
<1>30. ASSUME NEW v \in 0 .. MaxSources, SourceChanges(v) PROVE WholeOK'
  BY <1>0, <1>30, BoundsAssumption, ContentsAssumption DEF WholeOK, TypeOK, PhaseOK,
      Files, Targets, Publishing, Restoring, local, stores, aux, Active, SourceChanges
<1>31. CASE Damage
  BY <1>0, <1>31, BoundsAssumption, ContentsAssumption DEF WholeOK, TypeOK, PhaseOK,
      Files, Targets, Publishing, Restoring, local, stores, aux, Active, Damage
<1>32. CASE Crash
  BY <1>0, <1>32, CrashFacts, Numbers DEF WholeOK
<1>33. CASE UNCHANGED vars
  BY <1>0, <1>33 DEF WholeOK, Files, Targets, Publishing, Restoring, local, stores, aux,
      Active, vars
<1>34. QED BY <1>1, <1>2, <1>3, <1>4, <1>5, <1>6, <1>7, <1>8, <1>9, <1>10, <1>11, <1>12,
    <1>13, <1>14, <1>15, <1>16, <1>17, <1>18, <1>19, <1>20, <1>21, <1>22, <1>23, <1>24,
    <1>25, <1>26, <1>27, <1>28, <1>29, <1>30, <1>31, <1>32, <1>33 DEF Next, Coordinator,
    User, Others

\* Without interference from outside, every check stays satisfied.
LEMMA CalmOKStep == ASSUME Consistent, [Next]_vars PROVE CalmOK'
<1>0. CalmOK /\ TypeOK /\ PhaseOK BY DEF Consistent
<1>1. CASE Stage
  BY <1>0, <1>1, BoundsAssumption, ContentsAssumption DEF CalmOK, TypeOK, PhaseOK,
      Files, Targets, Before, Owned, Active, Publishing, Restoring, Steps, local, aux,
      stores, Stage, At, Goto
<1>2. CASE RecordReady
  BY <1>0, <1>2, BoundsAssumption, ContentsAssumption DEF CalmOK, TypeOK, PhaseOK,
      Files, Targets, Before, Owned, Active, Publishing, Restoring, Steps, local, aux,
      stores, RecordReady, At, Goto, Save
<1>3. CASE RequireLogin
  BY <1>0, <1>3, RequireLoginFacts, Numbers DEF CalmOK, PhaseOK, Files, Targets, Before,
      Owned, Active
<1>4. CASE \E ok \in BOOLEAN : Authorize(ok)
  BY <1>0, <1>4, AuthorizeFacts, Numbers DEF CalmOK, PhaseOK, Files, Targets, Before
<1>5. CASE \E ok \in BOOLEAN : Finish(ok)
  BY <1>0, <1>5, FinishFacts, Numbers DEF CalmOK, PhaseOK, Files, Targets, Before
<1>6. CASE RecordPublishing
  BY <1>0, <1>6, BoundsAssumption, ContentsAssumption DEF CalmOK, TypeOK, PhaseOK,
      Files, Targets, Before, Owned, Active, Publishing, Restoring, Steps, local, aux,
      stores, RecordPublishing, At, Goto, Save
<1>7. CASE PublishData
  BY <1>0, <1>7, PublishDataFacts, Numbers DEF CalmOK, PhaseOK, Files, Targets, Before,
      Owned, Active, Publishing, Restoring, aux
<1>8. CASE CheckSettings
  BY <1>0, <1>8, BoundsAssumption, ContentsAssumption DEF CalmOK, TypeOK, PhaseOK,
      Files, Targets, Before, Owned, Active, Publishing, Restoring, Steps, local, aux,
      stores, CheckSettings, At, Passes, Goto
<1>9. CASE PublishSettings
  BY <1>0, <1>9, PublishSettingsFacts, Numbers DEF CalmOK, PhaseOK, Files, Targets,
      Before, Owned, Active, Publishing, Restoring, aux
<1>10. CASE CheckMarker
  BY <1>0, <1>10, BoundsAssumption, ContentsAssumption DEF CalmOK, TypeOK, PhaseOK,
      Files, Targets, Before, Owned, Active, Publishing, Restoring, Steps, local, aux,
      stores, CheckMarker, At, Passes, Goto
<1>11. CASE Commit
  BY <1>0, <1>11, BoundsAssumption, ContentsAssumption DEF CalmOK, TypeOK, PhaseOK,
      Files, Targets, Before, Owned, Active, Publishing, Restoring, Steps, local, aux,
      stores, Commit, At, Goto, Save
<1>12. CASE RecordRollback
  BY <1>0, <1>12, BoundsAssumption, ContentsAssumption DEF CalmOK, TypeOK, PhaseOK,
      Files, Targets, Before, Owned, Active, Publishing, Restoring, Steps, local, aux,
      stores, RecordRollback, At, Passes, Goto, Save
<1>13. CASE CheckUndoSettings
  BY <1>0, <1>13, BoundsAssumption, ContentsAssumption DEF CalmOK, TypeOK, PhaseOK,
      Files, Targets, Before, Owned, Active, Publishing, Restoring, Steps, local, aux,
      stores, CheckUndoSettings, CheckUndo, At, Passes, Goto
<1>14. CASE UndoSettings
  BY <1>0, <1>14, UndoSettingsFacts, Numbers DEF CalmOK, PhaseOK, Files, Targets,
      Before, Owned, Active, Publishing, aux
<1>15. CASE CheckUndoData
  BY <1>0, <1>15, CheckUndoDataFacts, Numbers DEF CalmOK, PhaseOK, Files, Targets,
      Before, Owned, Active, Publishing, Restoring, stores
<1>16. CASE UndoData
  BY <1>0, <1>16, UndoDataFacts, Numbers DEF CalmOK, PhaseOK, Files, Targets, Before,
      Owned, Active, Publishing, aux
<1>17. CASE RecordCancelled
  BY <1>0, <1>17, BoundsAssumption, ContentsAssumption DEF CalmOK, TypeOK, PhaseOK,
      Files, Targets, Before, Owned, Active, Publishing, Restoring, Steps, local, aux,
      stores, RecordCancelled, At, Goto, Save
<1>18. CASE \E io, saved \in BOOLEAN : StepFails(io, saved)
  BY <1>0, <1>18, FailFacts, Numbers DEF CalmOK, PhaseOK, Files, Targets, Before, Owned,
      Active
<1>19. CASE Load
  BY <1>0, <1>19, LoadFacts, Numbers DEF CalmOK, PhaseOK, Files, Targets, Before, Owned,
      Active, Publishing, Restoring, aux, stores
<1>20. CASE \E prefs \in BOOLEAN : Begin(prefs)
  BY <1>0, <1>20, BeginFacts, Numbers DEF CalmOK, PhaseOK, Files, Targets, Before
<1>21. CASE Cancel
  BY <1>0, <1>21, CancelFacts, Numbers DEF CalmOK, PhaseOK, Files, Targets, Before,
      Owned, Active, Publishing, Restoring, aux
<1>22. CASE KeepCurrent
  BY <1>0, <1>22, KeepFacts, Numbers DEF CalmOK, PhaseOK, Files, Targets, Before, Owned,
      Active
<1>23. CASE \E f \in Files, c \in Contents : Edit(f, c)
  BY <1>0, <1>23, EditFacts, Numbers DEF CalmOK
<1>24. CASE SaveNow
  BY <1>0, <1>24, SaveFacts, Numbers DEF CalmOK
<1>25. CASE Login
  BY <1>0, <1>25, LoginFacts, Numbers DEF CalmOK, PhaseOK, Files, Targets, Before,
      Owned, Active, Publishing, Restoring, aux
<1>26. CASE \E ok \in BOOLEAN : Resume(ok)
  BY <1>0, <1>26, ResumeFacts, Numbers DEF CalmOK, PhaseOK, Files, Targets, Before,
      Owned, Active, Publishing, Restoring, aux, Resumed
<1>27. ASSUME NEW ok \in BOOLEAN, Logout(ok) PROVE CalmOK'
  BY <1>0, <1>27, BoundsAssumption, ContentsAssumption DEF CalmOK, TypeOK, PhaseOK,
      Files, Targets, Before, Owned, Active, Publishing, Restoring, Steps, local, aux,
      stores, Logout
<1>28. CASE \E ok \in BOOLEAN : Start(ok)
  BY <1>0, <1>28, StartFacts, Numbers DEF CalmOK, PhaseOK, Files, Targets, Before,
      Owned, Active, Publishing, Restoring, Resumed
<1>29. CASE \E f \in Files, c \in Contents \cup {None} : OthersWrite(f, c)
  BY <1>0, <1>29, OthersFacts, Numbers DEF CalmOK, PhaseOK
<1>30. ASSUME NEW v \in 0 .. MaxSources, SourceChanges(v) PROVE CalmOK'
  BY <1>0, <1>30, BoundsAssumption, ContentsAssumption DEF CalmOK, TypeOK, PhaseOK,
      Files, Targets, Before, Owned, Active, Publishing, Restoring, Steps, local, aux,
      stores, SourceChanges
<1>31. CASE Damage
  BY <1>0, <1>31, BoundsAssumption, ContentsAssumption DEF CalmOK, TypeOK, PhaseOK,
      Files, Targets, Before, Owned, Active, Publishing, Restoring, Steps, local, aux,
      stores, Damage
<1>32. CASE Crash
  BY <1>0, <1>32, CrashFacts, Numbers DEF CalmOK, PhaseOK, Files, Targets, Before,
      Owned, Active, Publishing, Restoring, stores
<1>33. CASE UNCHANGED vars
  BY <1>0, <1>33 DEF CalmOK, Files, Targets, Before, Owned, Active, Publishing,
      Restoring, Steps, local, aux, stores, vars
<1>34. QED BY <1>1, <1>2, <1>3, <1>4, <1>5, <1>6, <1>7, <1>8, <1>9, <1>10, <1>11, <1>12,
    <1>13, <1>14, <1>15, <1>16, <1>17, <1>18, <1>19, <1>20, <1>21, <1>22, <1>23, <1>24,
    <1>25, <1>26, <1>27, <1>28, <1>29, <1>30, <1>31, <1>32, <1>33 DEF Next, Coordinator,
    User, Others

\* Memory and disk part only while an operation runs, or by another program.
LEMMA MemoryOKStep == ASSUME Consistent, [Next]_vars PROVE MemoryOK'
<1>0. MemoryOK /\ TypeOK /\ PhaseOK /\ FreshOK /\ SessionOK BY DEF Consistent
<1>1. CASE Stage
  BY <1>0, <1>1, BoundsAssumption DEF MemoryOK, TypeOK, PhaseOK, Files, Active,
      Publishing, Restoring, Steps, Nothing, Ready, local, aux, stores, Stage, At, Goto
<1>2. CASE RecordReady
  BY <1>0, <1>2, BoundsAssumption DEF MemoryOK, TypeOK, PhaseOK, Files, Active,
      Publishing, Restoring, Steps, Nothing, Ready, local, aux, stores, RecordReady, At,
      Goto, Save
<1>3. CASE RequireLogin
  BY <1>0, <1>3, RequireLoginFacts, Numbers DEF MemoryOK
<1>4. CASE \E ok \in BOOLEAN : Authorize(ok)
  BY <1>0, <1>4, AuthorizeFacts, Numbers DEF MemoryOK, PhaseOK, Files, Active
<1>5. CASE \E ok \in BOOLEAN : Finish(ok)
  <2>1. run'.pc = "idle" /\ run.pc = "finish" /\ up = "up" /\ up' = "up" /\ run'.op = "none"
    BY <1>0, <1>5, FinishFacts
  <2>2. mem'.blocked = Active(journal) /\ journal' = journal /\ disk' = disk
    BY <1>0, <1>5, FinishFacts
  <2>3. CASE Reloads
    <3>1. mem'.disk = disk
      BY <1>0, <1>5, <2>3, FinishFacts
    <3>2. QED BY <2>1, <2>2, <3>1 DEF MemoryOK
  <2>4. CASE ~Reloads /\ ~Active(journal)
    <3>1. mem'.disk = mem.disk /\ apart' = apart
      BY <1>0, <1>5, <2>4, FinishFacts
    <3>2. ~mem.blocked
      BY <2>4 DEF Reloads
    <3>3. run.from # journal.id
      BY <1>0, <2>1, <3>2, Numbers DEF MemoryOK
    <3>4. journal.phase = "rejected"
      BY <1>0, <2>1, <2>4, <3>2, <3>3 DEF MemoryOK, Reloads
    <3>5. QED BY <1>0, <2>1, <2>2, <3>1, <3>2, <3>4 DEF MemoryOK
  <2>5. CASE Active(journal)
    BY <2>1, <2>2, <2>5 DEF MemoryOK
  <2>6. QED BY <2>3, <2>4, <2>5
<1>6. CASE RecordPublishing
  BY <1>0, <1>6, BoundsAssumption DEF MemoryOK, TypeOK, PhaseOK, Files, Active,
      Publishing, Restoring, Steps, Nothing, Ready, local, aux, stores,
      RecordPublishing, At, Goto, Save
<1>7. CASE PublishData
  BY <1>0, <1>7, PublishDataFacts, Numbers DEF MemoryOK, PhaseOK
<1>8. CASE CheckSettings
  BY <1>0, <1>8, BoundsAssumption DEF MemoryOK, TypeOK, PhaseOK, Files, Active,
      Publishing, Restoring, Steps, Nothing, Ready, local, aux, stores, CheckSettings,
      At, Passes, Goto
<1>9. CASE PublishSettings
  BY <1>0, <1>9, PublishSettingsFacts, Numbers DEF MemoryOK, PhaseOK
<1>10. CASE CheckMarker
  BY <1>0, <1>10, BoundsAssumption DEF MemoryOK, TypeOK, PhaseOK, Files, Active,
      Publishing, Restoring, Steps, Nothing, Ready, local, aux, stores, CheckMarker, At,
      Passes, Goto
<1>11. CASE Commit
  BY <1>0, <1>11, BoundsAssumption DEF MemoryOK, TypeOK, PhaseOK, Files, Active,
      Publishing, Restoring, Steps, Nothing, Ready, local, aux, stores, Commit, At,
      Goto, Save
<1>12. CASE RecordRollback
  BY <1>0, <1>12, BoundsAssumption DEF MemoryOK, TypeOK, PhaseOK, Files, Active,
      Publishing, Restoring, Steps, Nothing, Ready, local, aux, stores, RecordRollback,
      At, Passes, Goto, Save
<1>13. CASE CheckUndoSettings
  BY <1>0, <1>13, BoundsAssumption DEF MemoryOK, TypeOK, PhaseOK, Files, Active,
      Publishing, Restoring, Steps, Nothing, Ready, local, aux, stores,
      CheckUndoSettings, CheckUndo, At, Passes, Goto
<1>14. CASE UndoSettings
  BY <1>0, <1>14, UndoSettingsFacts, Numbers DEF MemoryOK
<1>15. CASE CheckUndoData
  BY <1>0, <1>15, CheckUndoDataFacts, Numbers DEF MemoryOK, PhaseOK, Files, Active,
      Publishing, Restoring
<1>16. CASE UndoData
  BY <1>0, <1>16, UndoDataFacts, Numbers DEF MemoryOK
<1>17. CASE RecordCancelled
  BY <1>0, <1>17, BoundsAssumption DEF MemoryOK, TypeOK, PhaseOK, Files, Active,
      Publishing, Restoring, Steps, Nothing, Ready, local, aux, stores, RecordCancelled,
      At, Goto, Save
<1>18. CASE \E io, saved \in BOOLEAN : StepFails(io, saved)
  BY <1>0, <1>18, FailFacts, Numbers DEF MemoryOK, PhaseOK, Files, Active, Publishing,
      Restoring, Nothing, Ready, Steps
<1>19. CASE Load
  BY <1>0, <1>19, LoadFacts, Numbers DEF MemoryOK, PhaseOK, Files, Active, Publishing,
      Restoring, Nothing, Ready, aux, stores
<1>20. CASE \E prefs \in BOOLEAN : Begin(prefs)
  <2>1. /\ Ready /\ UNCHANGED <<disk, mem, up, apart>>
        /\ run'.op = "begin" /\ run'.pc = "stage"
    BY <1>0, <1>20, BeginFacts
  <2>2. run'.from < journal'.id
    BY <1>0, <1>20, NewNumber
  <2>3. QED BY <1>0, <2>1, <2>2 DEF MemoryOK, Ready
<1>21. CASE Cancel
  BY <1>0, <1>21, CancelFacts, Numbers DEF MemoryOK, PhaseOK, Files, Active, Publishing,
      Restoring, Nothing, Ready
<1>22. CASE KeepCurrent
  BY <1>0, <1>22, KeepFacts, Numbers DEF MemoryOK, PhaseOK, Files, Active, Publishing,
      Restoring, Nothing, Ready
<1>23. CASE \E f \in Files, c \in Contents : Edit(f, c)
  BY <1>0, <1>23, EditFacts, Numbers DEF MemoryOK
<1>24. CASE SaveNow
  BY <1>0, <1>24, SaveFacts, Numbers DEF MemoryOK
<1>25. CASE Login
  BY <1>0, <1>25, LoginFacts, Numbers DEF MemoryOK, PhaseOK, Files, Active, Publishing,
      Restoring, Nothing, aux
<1>26. CASE \E ok \in BOOLEAN : Resume(ok)
  BY <1>0, <1>26, ResumeFacts, Numbers DEF MemoryOK, PhaseOK, Files, Active, Publishing,
      Restoring, Nothing, Ready, Resumed
<1>27. ASSUME NEW ok \in BOOLEAN, Logout(ok) PROVE MemoryOK'
  BY <1>0, <1>27, BoundsAssumption DEF MemoryOK, TypeOK, PhaseOK, Files, Active,
      Publishing, Restoring, Steps, Nothing, Ready, local, aux, stores, Logout, Reset
<1>28. CASE \E ok \in BOOLEAN : Start(ok)
  BY <1>0, <1>28, StartFacts, Numbers DEF MemoryOK, PhaseOK, Files, Active, Publishing,
      Restoring, Nothing, Ready, Resumed
<1>29. CASE \E f \in Files, c \in Contents \cup {None} : OthersWrite(f, c)
  BY <1>0, <1>29, OthersFacts, Numbers DEF MemoryOK
<1>30. ASSUME NEW v \in 0 .. MaxSources, SourceChanges(v) PROVE MemoryOK'
  BY <1>0, <1>30, BoundsAssumption DEF MemoryOK, TypeOK, PhaseOK, Files, Active,
      Publishing, Restoring, Steps, Nothing, Ready, local, aux, stores, SourceChanges
<1>31. CASE Damage
  BY <1>0, <1>31, BoundsAssumption DEF MemoryOK, TypeOK, PhaseOK, Files, Active,
      Publishing, Restoring, Steps, Nothing, Ready, local, aux, stores, Damage
<1>32. CASE Crash
  BY <1>0, <1>32, CrashFacts, Numbers DEF MemoryOK, PhaseOK
<1>33. CASE UNCHANGED vars
  BY <1>0, <1>33 DEF MemoryOK, Files, Active, Publishing, Restoring, Steps, Nothing,
      Ready, local, aux, stores, vars
<1>34. QED BY <1>1, <1>2, <1>3, <1>4, <1>5, <1>6, <1>7, <1>8, <1>9, <1>10, <1>11, <1>12,
    <1>13, <1>14, <1>15, <1>16, <1>17, <1>18, <1>19, <1>20, <1>21, <1>22, <1>23, <1>24,
    <1>25, <1>26, <1>27, <1>28, <1>29, <1>30, <1>31, <1>32, <1>33 DEF Next, Coordinator,
    User, Others

\* An old session can neither outlive its end nor be restored.
LEMMA SessionOKStep == ASSUME Consistent, [Next]_vars PROVE SessionOK'
<1>0. SessionOK /\ TypeOK /\ PhaseOK /\ FreshOK /\ MemoryOK BY DEF Consistent
<1>1. CASE Stage
  BY <1>0, <1>1, BoundsAssumption, ContentsAssumption DEF SessionOK, TypeOK, PhaseOK,
      Active, Publishing, Restoring, Steps, local, aux, stores, Stage, At, Goto
<1>2. CASE RecordReady
  BY <1>0, <1>2, BoundsAssumption, ContentsAssumption DEF SessionOK, TypeOK, PhaseOK,
      Active, Publishing, Restoring, Steps, local, aux, stores, RecordReady, At, Goto,
      Save
<1>3. CASE RequireLogin
  <2>1. journal'.id = journal.id /\ fenced' = journal.id /\ journal'.login /\ run'.pc = "revoke"
    BY <1>0, <1>3, RequireLoginFacts
  <2>2. journal.id <= journal.id
    BY <1>0, Numbers
  <2>3. QED BY <2>1, <2>2 DEF SessionOK
<1>4. CASE \E ok \in BOOLEAN : Authorize(ok)
  BY <1>0, <1>4, AuthorizeFacts, Numbers DEF SessionOK
<1>5. CASE \E ok \in BOOLEAN : Finish(ok)
  BY <1>0, <1>5, FinishFacts, Numbers DEF SessionOK, PhaseOK, MemoryOK, Active,
      Publishing, Restoring, aux, Reloads
<1>6. CASE RecordPublishing
  BY <1>0, <1>6, BoundsAssumption, ContentsAssumption DEF SessionOK, TypeOK, PhaseOK,
      Active, Publishing, Restoring, Steps, local, aux, stores, RecordPublishing, At,
      Goto, Save
<1>7. CASE PublishData
  BY <1>0, <1>7, PublishDataFacts, Numbers DEF SessionOK, PhaseOK, Active, Publishing,
      aux
<1>8. CASE CheckSettings
  BY <1>0, <1>8, BoundsAssumption, ContentsAssumption DEF SessionOK, TypeOK, PhaseOK,
      Active, Publishing, Restoring, Steps, local, aux, stores, CheckSettings, At,
      Passes, Goto
<1>9. CASE PublishSettings
  BY <1>0, <1>9, PublishSettingsFacts, Numbers DEF SessionOK, PhaseOK, Active,
      Publishing, aux
<1>10. CASE CheckMarker
  BY <1>0, <1>10, BoundsAssumption, ContentsAssumption DEF SessionOK, TypeOK, PhaseOK,
      Active, Publishing, Restoring, Steps, local, aux, stores, CheckMarker, At, Passes,
      Goto
<1>11. CASE Commit
  BY <1>0, <1>11, BoundsAssumption, ContentsAssumption DEF SessionOK, TypeOK, PhaseOK,
      Active, Publishing, Restoring, Steps, local, aux, stores, Commit, At, Goto, Save
<1>12. CASE RecordRollback
  BY <1>0, <1>12, BoundsAssumption, ContentsAssumption DEF SessionOK, TypeOK, PhaseOK,
      Active, Publishing, Restoring, Steps, local, aux, stores, RecordRollback, At,
      Passes, Goto, Save
<1>13. CASE CheckUndoSettings
  BY <1>0, <1>13, BoundsAssumption, ContentsAssumption DEF SessionOK, TypeOK, PhaseOK,
      Active, Publishing, Restoring, Steps, local, aux, stores, CheckUndoSettings,
      CheckUndo, At, Passes, Goto
<1>14. CASE UndoSettings
  BY <1>0, <1>14, UndoSettingsFacts, Numbers DEF SessionOK, PhaseOK, Active, aux
<1>15. CASE CheckUndoData
  BY <1>0, <1>15, CheckUndoDataFacts, Numbers DEF SessionOK, PhaseOK, Active,
      Publishing, stores
<1>16. CASE UndoData
  BY <1>0, <1>16, UndoDataFacts, Numbers DEF SessionOK, PhaseOK, Active, aux
<1>17. CASE RecordCancelled
  BY <1>0, <1>17, BoundsAssumption, ContentsAssumption DEF SessionOK, TypeOK, PhaseOK,
      Active, Publishing, Restoring, Steps, local, aux, stores, RecordCancelled, At,
      Goto, Save
<1>18. CASE \E io, saved \in BOOLEAN : StepFails(io, saved)
  BY <1>0, <1>18, FailFacts, Numbers DEF SessionOK
<1>19. CASE Load
  BY <1>0, <1>19, LoadFacts, Numbers DEF SessionOK, PhaseOK, Active, Publishing,
      Restoring, aux, stores
<1>20. CASE \E prefs \in BOOLEAN : Begin(prefs)
  BY <1>0, <1>20, BeginFacts, Numbers, NewNumber DEF SessionOK, PhaseOK, Active,
      Publishing, Restoring, aux, Ready
<1>21. CASE Cancel
  BY <1>0, <1>21, CancelFacts, Numbers DEF SessionOK, PhaseOK, Active, Publishing, aux,
      Ready
<1>22. CASE KeepCurrent
  <2>1. /\ journal'.id = journal.id /\ fenced' = journal.id /\ journal'.login
        /\ journal'.phase = "keptCurrent" /\ run'.pc = "finish" /\ ~run'.auth
    BY <1>0, <1>22, KeepFacts
  <2>2. journal.id <= journal.id
    BY <1>0, Numbers
  <2>3. mem'.blocked
    BY <1>0, <1>22, KeepFacts DEF MemoryOK, Ready
  <2>4. QED BY <2>1, <2>2, <2>3 DEF SessionOK
<1>23. CASE \E f \in Files, c \in Contents : Edit(f, c)
  BY <1>0, <1>23, EditFacts, Numbers DEF SessionOK
<1>24. CASE SaveNow
  BY <1>0, <1>24, SaveFacts, Numbers DEF SessionOK
<1>25. CASE Login
  BY <1>0, <1>25, LoginFacts, Numbers DEF SessionOK, PhaseOK, Active, Publishing, aux,
      Ready
<1>26. CASE \E ok \in BOOLEAN : Resume(ok)
  BY <1>0, <1>26, ResumeFacts, Numbers DEF SessionOK, PhaseOK, Active, Publishing,
      Restoring, aux, Resumed, Ready
<1>27. ASSUME NEW ok \in BOOLEAN, Logout(ok) PROVE SessionOK'
  BY <1>0, <1>27, BoundsAssumption, ContentsAssumption DEF SessionOK, TypeOK, PhaseOK,
      Active, Publishing, Restoring, Steps, local, aux, stores, Logout, Reset
<1>28. CASE \E ok \in BOOLEAN : Start(ok)
  BY <1>0, <1>28, StartFacts, Numbers DEF SessionOK, PhaseOK, Active, Publishing,
      Resumed
<1>29. CASE \E f \in Files, c \in Contents \cup {None} : OthersWrite(f, c)
  BY <1>0, <1>29, OthersFacts, Numbers DEF SessionOK
<1>30. ASSUME NEW v \in 0 .. MaxSources, SourceChanges(v) PROVE SessionOK'
  BY <1>0, <1>30, BoundsAssumption, ContentsAssumption DEF SessionOK, TypeOK, PhaseOK,
      Active, Publishing, Restoring, Steps, local, aux, stores, SourceChanges
<1>31. CASE Damage
  BY <1>0, <1>31, BoundsAssumption, ContentsAssumption DEF SessionOK, TypeOK, PhaseOK,
      Active, Publishing, Restoring, Steps, local, aux, stores, Damage
<1>32. CASE Crash
  BY <1>0, <1>32, CrashFacts, Numbers DEF SessionOK, PhaseOK, Active, Publishing, stores
<1>33. CASE UNCHANGED vars
  BY <1>0, <1>33 DEF SessionOK, Active, Publishing, Restoring, Steps, local, aux,
      stores, vars
<1>34. QED BY <1>1, <1>2, <1>3, <1>4, <1>5, <1>6, <1>7, <1>8, <1>9, <1>10, <1>11, <1>12,
    <1>13, <1>14, <1>15, <1>16, <1>17, <1>18, <1>19, <1>20, <1>21, <1>22, <1>23, <1>24,
    <1>25, <1>26, <1>27, <1>28, <1>29, <1>30, <1>31, <1>32, <1>33 DEF Next, Coordinator,
    User, Others

\* The content that a check accepted is replaced only if nobody else wrote.
LEMMA RaceOKStep == ASSUME Consistent, [Next]_vars PROVE RaceOK'
<1>0. RaceOK /\ TypeOK /\ PhaseOK BY DEF Consistent
<1>1. CASE Stage
  BY <1>0, <1>1 DEF RaceOK, TypeOK, PhaseOK, Files, Owned, Before, Publishing,
      Restoring, Steps, local, aux, stores, Stage, At, Goto
<1>2. CASE RecordReady
  BY <1>0, <1>2 DEF RaceOK, TypeOK, PhaseOK, Files, Owned, Before, Publishing,
      Restoring, Steps, local, aux, stores, RecordReady, At, Goto, Save
<1>3. CASE RequireLogin
  BY <1>0, <1>3, RequireLoginFacts, Numbers DEF RaceOK, PhaseOK
<1>4. CASE \E ok \in BOOLEAN : Authorize(ok)
  BY <1>0, <1>4, AuthorizeFacts, Numbers DEF RaceOK, PhaseOK
<1>5. CASE \E ok \in BOOLEAN : Finish(ok)
  BY <1>0, <1>5, FinishFacts, Numbers DEF RaceOK, PhaseOK
<1>6. CASE RecordPublishing
  BY <1>0, <1>6 DEF RaceOK, TypeOK, PhaseOK, Files, Owned, Before, Publishing,
      Restoring, Steps, local, aux, stores, RecordPublishing, At, Goto, Save
<1>7. CASE PublishData
  BY <1>0, <1>7, PublishDataFacts, Numbers DEF RaceOK
<1>8. CASE CheckSettings
  BY <1>0, <1>8 DEF RaceOK, TypeOK, PhaseOK, Files, Owned, Before, Publishing,
      Restoring, Steps, local, aux, stores, CheckSettings, At, Passes, Goto
<1>9. CASE PublishSettings
  BY <1>0, <1>9, PublishSettingsFacts, Numbers DEF RaceOK
<1>10. CASE CheckMarker
  BY <1>0, <1>10 DEF RaceOK, TypeOK, PhaseOK, Files, Owned, Before, Publishing,
      Restoring, Steps, local, aux, stores, CheckMarker, At, Passes, Goto
<1>11. CASE Commit
  BY <1>0, <1>11 DEF RaceOK, TypeOK, PhaseOK, Files, Owned, Before, Publishing,
      Restoring, Steps, local, aux, stores, Commit, At, Goto, Save
<1>12. CASE RecordRollback
  BY <1>0, <1>12 DEF RaceOK, TypeOK, PhaseOK, Files, Owned, Before, Publishing,
      Restoring, Steps, local, aux, stores, RecordRollback, At, Passes, Goto, Save
<1>13. CASE CheckUndoSettings
  BY <1>0, <1>13 DEF RaceOK, TypeOK, PhaseOK, Files, Owned, Before, Publishing,
      Restoring, Steps, local, aux, stores, CheckUndoSettings, CheckUndo, At, Passes,
      Goto
<1>14. CASE UndoSettings
  BY <1>0, <1>14, UndoSettingsFacts, Numbers DEF RaceOK, PhaseOK
<1>15. CASE CheckUndoData
  BY <1>0, <1>15, CheckUndoDataFacts, Numbers DEF RaceOK, PhaseOK, Files, Owned, Before,
      Publishing, Restoring, stores
<1>16. CASE UndoData
  BY <1>0, <1>16, UndoDataFacts, Numbers DEF RaceOK, PhaseOK
<1>17. CASE RecordCancelled
  BY <1>0, <1>17 DEF RaceOK, TypeOK, PhaseOK, Files, Owned, Before, Publishing,
      Restoring, Steps, local, aux, stores, RecordCancelled, At, Goto, Save
<1>18. CASE \E io, saved \in BOOLEAN : StepFails(io, saved)
  BY <1>0, <1>18, FailFacts, Numbers DEF RaceOK
<1>19. CASE Load
  BY <1>0, <1>19, LoadFacts, Numbers DEF RaceOK, PhaseOK
<1>20. CASE \E prefs \in BOOLEAN : Begin(prefs)
  BY <1>0, <1>20, BeginFacts, Numbers DEF RaceOK, PhaseOK
<1>21. CASE Cancel
  BY <1>0, <1>21, CancelFacts, Numbers DEF RaceOK
<1>22. CASE KeepCurrent
  BY <1>0, <1>22, KeepFacts, Numbers DEF RaceOK
<1>23. CASE \E f \in Files, c \in Contents : Edit(f, c)
  BY <1>0, <1>23, EditFacts, Numbers DEF RaceOK, PhaseOK, Files, Owned, Before,
      Publishing, Restoring, Ready
<1>24. CASE SaveNow
  BY <1>0, <1>24, SaveFacts, Numbers DEF RaceOK, PhaseOK, Files, Owned, Before,
      Publishing, Restoring, Ready
<1>25. CASE Login
  BY <1>0, <1>25, LoginFacts, Numbers DEF RaceOK, PhaseOK, Files, Owned, Before,
      Publishing, Restoring, aux
<1>26. CASE \E ok \in BOOLEAN : Resume(ok)
  BY <1>0, <1>26, ResumeFacts, Numbers DEF RaceOK, PhaseOK, Files, Owned, Before,
      Publishing, Restoring, aux, Resumed
<1>27. ASSUME NEW ok \in BOOLEAN, Logout(ok) PROVE RaceOK'
  BY <1>0, <1>27 DEF RaceOK, TypeOK, PhaseOK, Files, Owned, Before, Publishing,
      Restoring, Steps, local, aux, stores, Logout
<1>28. CASE \E ok \in BOOLEAN : Start(ok)
  BY <1>0, <1>28, StartFacts, Numbers DEF RaceOK, PhaseOK, Files, Owned, Before,
      Publishing, Restoring, Resumed
<1>29. CASE \E f \in Files, c \in Contents \cup {None} : OthersWrite(f, c)
  BY <1>0, <1>29, OthersFacts, Numbers DEF RaceOK, PhaseOK
<1>30. ASSUME NEW v \in 0 .. MaxSources, SourceChanges(v) PROVE RaceOK'
  BY <1>0, <1>30 DEF RaceOK, TypeOK, PhaseOK, Files, Owned, Before, Publishing,
      Restoring, Steps, local, aux, stores, SourceChanges
<1>31. CASE Damage
  BY <1>0, <1>31 DEF RaceOK, TypeOK, PhaseOK, Files, Owned, Before, Publishing,
      Restoring, Steps, local, aux, stores, Damage
<1>32. CASE Crash
  BY <1>0, <1>32, CrashFacts, Numbers DEF RaceOK
<1>33. CASE UNCHANGED vars
  BY <1>0, <1>33 DEF RaceOK, Files, Owned, Before, Publishing, Restoring, Steps, local,
      aux, stores, vars
<1>34. QED BY <1>1, <1>2, <1>3, <1>4, <1>5, <1>6, <1>7, <1>8, <1>9, <1>10, <1>11, <1>12,
    <1>13, <1>14, <1>15, <1>16, <1>17, <1>18, <1>19, <1>20, <1>21, <1>22, <1>23, <1>24,
    <1>25, <1>26, <1>27, <1>28, <1>29, <1>30, <1>31, <1>32, <1>33 DEF Next, Coordinator,
    User, Others

\* No step leaves files of an import that was not published.
LEMMA NoTraceStep == ASSUME Consistent, [Next]_vars PROVE NoTrace'
<1>0. NoTrace /\ TypeOK /\ PhaseOK /\ FreshOK /\ UndoneOK /\ MemoryOK /\ SessionOK BY
    DEF Consistent
<1>1. CASE Stage
  BY <1>0, <1>1, BoundsAssumption, ContentsAssumption DEF NoTrace, TypeOK, PhaseOK,
      FreshOK, UndoneOK, MemoryOK, Files, Imports, Before, Active, Publishing,
      Restoring, Steps, local, aux, stores, Stage
<1>2. CASE RecordReady
  BY <1>0, <1>2, BoundsAssumption, ContentsAssumption DEF NoTrace, TypeOK, PhaseOK,
      FreshOK, UndoneOK, MemoryOK, Files, Imports, Before, Active, Publishing,
      Restoring, Steps, local, aux, stores, RecordReady, At, Goto, Save, StoresType
<1>3. CASE RequireLogin
  BY <1>0, <1>3, RequireLoginFacts, Numbers DEF NoTrace
<1>4. CASE \E ok \in BOOLEAN : Authorize(ok)
  BY <1>0, <1>4, AuthorizeFacts, Numbers DEF NoTrace
<1>5. CASE \E ok \in BOOLEAN : Finish(ok)
  BY <1>0, <1>5, FinishFacts, Numbers DEF NoTrace
<1>6. CASE RecordPublishing
  BY <1>0, <1>6, BoundsAssumption, ContentsAssumption DEF NoTrace, TypeOK, PhaseOK,
      FreshOK, UndoneOK, MemoryOK, Files, Imports, Before, Active, Publishing,
      Restoring, Steps, local, aux, stores, RecordPublishing, At, Goto, Save, StoresType
<1>7. CASE PublishData
  BY <1>0, <1>7, PublishDataFacts, Numbers DEF NoTrace, PhaseOK, FreshOK, UndoneOK,
      MemoryOK, Files, Before, Active, Publishing
<1>8. CASE CheckSettings
  BY <1>0, <1>8, BoundsAssumption, ContentsAssumption DEF NoTrace, TypeOK, PhaseOK,
      FreshOK, UndoneOK, MemoryOK, Files, Imports, Before, Active, Publishing,
      Restoring, Steps, local, aux, stores, CheckSettings, At, Passes
<1>9. CASE PublishSettings
  BY <1>0, <1>9, PublishSettingsFacts, Numbers DEF NoTrace, PhaseOK, FreshOK, UndoneOK,
      MemoryOK, Files, Before, Active, Publishing
<1>10. CASE CheckMarker
  BY <1>0, <1>10, BoundsAssumption, ContentsAssumption DEF NoTrace, TypeOK, PhaseOK,
      FreshOK, UndoneOK, MemoryOK, Files, Imports, Before, Active, Publishing,
      Restoring, Steps, local, aux, stores, CheckMarker, At, Passes
<1>11. CASE Commit
  BY <1>0, <1>11, BoundsAssumption, ContentsAssumption DEF NoTrace, TypeOK, PhaseOK,
      FreshOK, UndoneOK, MemoryOK, Files, Imports, Before, Active, Publishing,
      Restoring, Steps, local, aux, stores, Commit, At, Goto, Save, StoresType
<1>12. CASE RecordRollback
  BY <1>0, <1>12, BoundsAssumption, ContentsAssumption DEF NoTrace, TypeOK, PhaseOK,
      FreshOK, UndoneOK, MemoryOK, Files, Imports, Before, Active, Publishing,
      Restoring, Steps, local, aux, stores, RecordRollback, At, Passes, Goto, Save,
      StoresType
<1>13. CASE CheckUndoSettings
  BY <1>0, <1>13, BoundsAssumption, ContentsAssumption DEF NoTrace, TypeOK, PhaseOK,
      FreshOK, UndoneOK, MemoryOK, Files, Imports, Before, Active, Publishing,
      Restoring, Steps, local, aux, stores, CheckUndoSettings, CheckUndo, At, Passes
<1>14. CASE UndoSettings
  BY <1>0, <1>14, UndoSettingsFacts, Numbers DEF NoTrace, PhaseOK, FreshOK, UndoneOK
<1>15. CASE CheckUndoData
  BY <1>0, <1>15, CheckUndoDataFacts, Numbers DEF NoTrace, PhaseOK, FreshOK, UndoneOK,
      MemoryOK, Files, Before, Active, Publishing, Restoring, stores
<1>16. CASE UndoData
  BY <1>0, <1>16, UndoDataFacts, Numbers DEF NoTrace
<1>17. CASE RecordCancelled
  BY <1>0, <1>17, BoundsAssumption, ContentsAssumption DEF NoTrace, TypeOK, PhaseOK,
      FreshOK, UndoneOK, MemoryOK, Files, Imports, Before, Active, Publishing,
      Restoring, Steps, local, aux, stores, RecordCancelled, At, Goto, Save, StoresType
<1>18. CASE \E io, saved \in BOOLEAN : StepFails(io, saved)
  BY <1>0, <1>18, FailFacts, Numbers DEF NoTrace, PhaseOK
<1>19. CASE Load
  BY <1>0, <1>19, LoadFacts, Numbers DEF NoTrace, PhaseOK, FreshOK, UndoneOK, MemoryOK,
      Files, Before, Active, Publishing, Restoring, aux, stores
<1>20. CASE \E prefs \in BOOLEAN : Begin(prefs)
  BY <1>0, <1>20, BeginFacts, Numbers, NewNumber DEF NoTrace, PhaseOK, UndoneOK,
      MemoryOK, Files
<1>21. CASE Cancel
  BY <1>0, <1>21, CancelFacts, Numbers DEF NoTrace, PhaseOK
<1>22. CASE KeepCurrent
  BY <1>0, <1>22, KeepFacts, Numbers DEF NoTrace, PhaseOK
<1>23. CASE \E f \in Files, c \in Contents : Edit(f, c)
  BY <1>0, <1>23, EditFacts, Numbers DEF NoTrace, PhaseOK
<1>24. CASE SaveNow
  BY <1>0, <1>24, SaveFacts, Numbers DEF NoTrace, PhaseOK, FreshOK
<1>25. CASE Login
  BY <1>0, <1>25, LoginFacts, Numbers DEF NoTrace, PhaseOK
<1>26. CASE \E ok \in BOOLEAN : Resume(ok)
  BY <1>0, <1>26, ResumeFacts, Numbers DEF NoTrace, PhaseOK, FreshOK, UndoneOK,
      MemoryOK, Files, Before, Active, Publishing, Restoring, aux, Resumed
<1>27. ASSUME NEW ok \in BOOLEAN, Logout(ok) PROVE NoTrace'
  BY <1>0, <1>27, BoundsAssumption, ContentsAssumption DEF NoTrace, TypeOK, PhaseOK,
      FreshOK, UndoneOK, MemoryOK, Files, Imports, Before, Active, Publishing,
      Restoring, Steps, local, aux, stores, Logout
<1>28. CASE \E ok \in BOOLEAN : Start(ok)
  BY <1>0, <1>28, StartFacts, Numbers DEF NoTrace, PhaseOK, FreshOK, UndoneOK, MemoryOK,
      Files, Before, Active, Publishing, Restoring, Resumed
<1>29. CASE \E f \in Files, c \in Contents \cup {None} : OthersWrite(f, c)
  BY <1>0, <1>29, OthersFacts, Numbers DEF NoTrace
<1>30. ASSUME NEW v \in 0 .. MaxSources, SourceChanges(v) PROVE NoTrace'
  BY <1>0, <1>30, BoundsAssumption, ContentsAssumption DEF NoTrace, TypeOK, PhaseOK,
      FreshOK, UndoneOK, MemoryOK, Files, Imports, Before, Active, Publishing,
      Restoring, Steps, local, aux, stores, SourceChanges
<1>31. CASE Damage
  BY <1>0, <1>31, BoundsAssumption, ContentsAssumption DEF NoTrace, TypeOK, PhaseOK,
      FreshOK, UndoneOK, MemoryOK, Files, Imports, Before, Active, Publishing,
      Restoring, Steps, local, aux, stores, Damage
<1>32. CASE Crash
  BY <1>0, <1>32, CrashFacts, Numbers DEF NoTrace, PhaseOK, FreshOK, UndoneOK, MemoryOK,
      Files, Before, Active, Publishing, Restoring, stores
<1>33. CASE UNCHANGED vars
  BY <1>0, <1>33 DEF NoTrace, Files, Imports, Before, Active, Publishing, Restoring,
      Steps, local, aux, stores, vars
<1>34. QED BY <1>1, <1>2, <1>3, <1>4, <1>5, <1>6, <1>7, <1>8, <1>9, <1>10, <1>11, <1>12,
    <1>13, <1>14, <1>15, <1>16, <1>17, <1>18, <1>19, <1>20, <1>21, <1>22, <1>23, <1>24,
    <1>25, <1>26, <1>27, <1>28, <1>29, <1>30, <1>31, <1>32, <1>33 DEF Next, Coordinator,
    User, Others

\* No step takes a file of a completed import away unnoticed.
LEMMA CommittedIsWholeStep == ASSUME Consistent, [Next]_vars PROVE CommittedIsWhole'
<1>0. CommittedIsWhole /\ TypeOK /\ PhaseOK /\ WholeOK BY DEF Consistent
<1>1. CASE Stage
  BY <1>0, <1>1, BoundsAssumption, ContentsAssumption DEF CommittedIsWhole, TypeOK,
      PhaseOK, WholeOK, Files, Targets, Before, Active, Publishing, Restoring, Steps,
      local, aux, stores, Stage
<1>2. CASE RecordReady
  BY <1>0, <1>2, BoundsAssumption, ContentsAssumption DEF CommittedIsWhole, TypeOK,
      PhaseOK, WholeOK, Files, Targets, Before, Active, Publishing, Restoring, Steps,
      local, aux, stores, RecordReady, At, Goto, Save
<1>3. CASE RequireLogin
  BY <1>0, <1>3, RequireLoginFacts, Numbers DEF CommittedIsWhole, PhaseOK
<1>4. CASE \E ok \in BOOLEAN : Authorize(ok)
  BY <1>0, <1>4, AuthorizeFacts, Numbers DEF CommittedIsWhole, PhaseOK
<1>5. CASE \E ok \in BOOLEAN : Finish(ok)
  BY <1>0, <1>5, FinishFacts, Numbers DEF CommittedIsWhole, PhaseOK, WholeOK, Files,
      Targets
<1>6. CASE RecordPublishing
  BY <1>0, <1>6, BoundsAssumption, ContentsAssumption DEF CommittedIsWhole, TypeOK,
      PhaseOK, WholeOK, Files, Targets, Before, Active, Publishing, Restoring, Steps,
      local, aux, stores, RecordPublishing, At, Goto, Save
<1>7. CASE PublishData
  BY <1>0, <1>7, PublishDataFacts, Numbers DEF CommittedIsWhole, PhaseOK, WholeOK,
      Files, Targets, Before, Active, Publishing
<1>8. CASE CheckSettings
  BY <1>0, <1>8, BoundsAssumption, ContentsAssumption DEF CommittedIsWhole, TypeOK,
      PhaseOK, WholeOK, Files, Targets, Before, Active, Publishing, Restoring, Steps,
      local, aux, stores, CheckSettings
<1>9. CASE PublishSettings
  BY <1>0, <1>9, PublishSettingsFacts, Numbers DEF CommittedIsWhole, PhaseOK, WholeOK,
      Files, Targets, Before, Active, Publishing
<1>10. CASE CheckMarker
  BY <1>0, <1>10, BoundsAssumption, ContentsAssumption DEF CommittedIsWhole, TypeOK,
      PhaseOK, WholeOK, Files, Targets, Before, Active, Publishing, Restoring, Steps,
      local, aux, stores, CheckMarker
<1>11. CASE Commit
  BY <1>0, <1>11, BoundsAssumption, ContentsAssumption DEF CommittedIsWhole, TypeOK,
      PhaseOK, WholeOK, Files, Targets, Before, Active, Publishing, Restoring, Steps,
      local, aux, stores, Commit, At, Goto, Save
<1>12. CASE RecordRollback
  BY <1>0, <1>12, BoundsAssumption, ContentsAssumption DEF CommittedIsWhole, TypeOK,
      PhaseOK, WholeOK, Files, Targets, Before, Active, Publishing, Restoring, Steps,
      local, aux, stores, RecordRollback, At, Passes, Goto, Save
<1>13. CASE CheckUndoSettings
  BY <1>0, <1>13, BoundsAssumption, ContentsAssumption DEF CommittedIsWhole, TypeOK,
      PhaseOK, WholeOK, Files, Targets, Before, Active, Publishing, Restoring, Steps,
      local, aux, stores, CheckUndoSettings, CheckUndo
<1>14. CASE UndoSettings
  BY <1>0, <1>14, UndoSettingsFacts, Numbers DEF CommittedIsWhole, PhaseOK, WholeOK,
      Files, Targets, Before, Active, Publishing, Restoring
<1>15. CASE CheckUndoData
  BY <1>0, <1>15, CheckUndoDataFacts, Numbers DEF CommittedIsWhole, PhaseOK, WholeOK,
      Files, Targets, Before, Active, Publishing, Restoring, stores
<1>16. CASE UndoData
  BY <1>0, <1>16, UndoDataFacts, Numbers DEF CommittedIsWhole, PhaseOK, WholeOK, Files,
      Targets, Before, Active, Publishing, Restoring
<1>17. CASE RecordCancelled
  BY <1>0, <1>17, BoundsAssumption, ContentsAssumption DEF CommittedIsWhole, TypeOK,
      PhaseOK, WholeOK, Files, Targets, Before, Active, Publishing, Restoring, Steps,
      local, aux, stores, RecordCancelled, At, Goto, Save
<1>18. CASE \E io, saved \in BOOLEAN : StepFails(io, saved)
  BY <1>0, <1>18, FailFacts, Numbers DEF CommittedIsWhole, PhaseOK, WholeOK, Files,
      Targets
<1>19. CASE Load
  BY <1>0, <1>19, LoadFacts, Numbers DEF CommittedIsWhole, PhaseOK, WholeOK, Files,
      Targets, Before, Active, Publishing, Restoring, aux, stores
<1>20. CASE \E prefs \in BOOLEAN : Begin(prefs)
  BY <1>0, <1>20, BeginFacts, Numbers DEF CommittedIsWhole, PhaseOK
<1>21. CASE Cancel
  BY <1>0, <1>21, CancelFacts, Numbers DEF CommittedIsWhole
<1>22. CASE KeepCurrent
  BY <1>0, <1>22, KeepFacts, Numbers DEF CommittedIsWhole
<1>23. CASE \E f \in Files, c \in Contents : Edit(f, c)
  BY <1>0, <1>23, EditFacts, Numbers DEF CommittedIsWhole, PhaseOK, WholeOK, Files,
      Targets
<1>24. CASE SaveNow
  BY <1>0, <1>24, SaveFacts, Numbers DEF CommittedIsWhole, PhaseOK, WholeOK, Files,
      Targets
<1>25. CASE Login
  BY <1>0, <1>25, LoginFacts, Numbers DEF CommittedIsWhole, PhaseOK, WholeOK, Files,
      Targets, Before, Active, Publishing, Restoring, aux
<1>26. CASE \E ok \in BOOLEAN : Resume(ok)
  BY ZenonT(60), <1>0, <1>26, ResumeFacts, Numbers DEF CommittedIsWhole, PhaseOK, WholeOK, Files,
      Targets, Before, Active, Publishing, Restoring, aux, Resumed, Ready
<1>27. ASSUME NEW ok \in BOOLEAN, Logout(ok) PROVE CommittedIsWhole'
  BY <1>0, <1>27, BoundsAssumption, ContentsAssumption DEF CommittedIsWhole, TypeOK,
      PhaseOK, WholeOK, Files, Targets, Before, Active, Publishing, Restoring, Steps,
      local, aux, stores, Logout
<1>28. CASE \E ok \in BOOLEAN : Start(ok)
  BY <1>0, <1>28, StartFacts, Numbers DEF CommittedIsWhole, PhaseOK, WholeOK, Files,
      Targets, Before, Active, Publishing, Restoring, aux, Resumed
<1>29. CASE \E f \in Files, c \in Contents \cup {None} : OthersWrite(f, c)
  BY <1>0, <1>29, OthersFacts, Numbers DEF CommittedIsWhole, PhaseOK, WholeOK, Files,
      Targets
<1>30. ASSUME NEW v \in 0 .. MaxSources, SourceChanges(v) PROVE CommittedIsWhole'
  BY <1>0, <1>30, BoundsAssumption, ContentsAssumption DEF CommittedIsWhole, TypeOK,
      PhaseOK, WholeOK, Files, Targets, Before, Active, Publishing, Restoring, Steps,
      local, aux, stores, SourceChanges
<1>31. CASE Damage
  BY <1>0, <1>31, BoundsAssumption, ContentsAssumption DEF CommittedIsWhole, TypeOK,
      PhaseOK, WholeOK, Files, Targets, Before, Active, Publishing, Restoring, Steps,
      local, aux, stores, Damage
<1>32. CASE Crash
  BY <1>0, <1>32, CrashFacts, Numbers DEF CommittedIsWhole, PhaseOK, WholeOK, Files,
      Targets, Before, Active, Publishing, Restoring, stores
<1>33. CASE UNCHANGED vars
  BY <1>0, <1>33 DEF CommittedIsWhole, Files, Targets, Before, Active, Publishing,
      Restoring, Steps, local, aux, stores, vars
<1>34. QED BY <1>1, <1>2, <1>3, <1>4, <1>5, <1>6, <1>7, <1>8, <1>9, <1>10, <1>11, <1>12,
    <1>13, <1>14, <1>15, <1>16, <1>17, <1>18, <1>19, <1>20, <1>21, <1>22, <1>23, <1>24,
    <1>25, <1>26, <1>27, <1>28, <1>29, <1>30, <1>31, <1>32, <1>33 DEF Next, Coordinator,
    User, Others

\* A resumed import reaches its end unless somebody interfered or a step failed.
LEMMA RecoveryConvergesStep == ASSUME Consistent, [Next]_vars PROVE RecoveryConverges'
<1>0. RecoveryConverges /\ TypeOK /\ PhaseOK /\ CalmOK BY DEF Consistent
<1>1. CASE Stage
  BY <1>0, <1>1, ContentsAssumption DEF RecoveryConverges, TypeOK, PhaseOK, CalmOK,
      Files, Targets, Before, Owned, Active, Passes, Publishing, Restoring, Steps,
      local, aux, stores, Stage, At, Goto
<1>2. CASE RecordReady
  BY <1>0, <1>2, ContentsAssumption DEF RecoveryConverges, TypeOK, PhaseOK, CalmOK,
      Files, Targets, Before, Owned, Active, Passes, Publishing, Restoring, Steps,
      local, aux, stores, RecordReady, At, Goto, Save
<1>3. CASE RequireLogin
  BY <1>0, <1>3, RequireLoginFacts, Numbers DEF RecoveryConverges, PhaseOK
<1>4. CASE \E ok \in BOOLEAN : Authorize(ok)
  BY <1>0, <1>4, AuthorizeFacts, Numbers DEF RecoveryConverges, PhaseOK
<1>5. CASE \E ok \in BOOLEAN : Finish(ok)
  BY <1>0, <1>5, FinishFacts, Numbers DEF RecoveryConverges, PhaseOK
<1>6. CASE RecordPublishing
  BY <1>0, <1>6, ContentsAssumption DEF RecoveryConverges, TypeOK, PhaseOK, CalmOK,
      Files, Targets, Before, Owned, Active, Passes, Publishing, Restoring, Steps,
      local, aux, stores, RecordPublishing, At, Goto, Save
<1>7. CASE PublishData
  BY <1>0, <1>7, PublishDataFacts, Numbers DEF RecoveryConverges, PhaseOK
<1>8. CASE CheckSettings
  BY <1>0, <1>8, ContentsAssumption DEF RecoveryConverges, TypeOK, PhaseOK, CalmOK,
      Files, Targets, Before, Owned, Active, Passes, Publishing, Restoring, Steps,
      local, aux, stores, CheckSettings, At, Goto
<1>9. CASE PublishSettings
  BY <1>0, <1>9, PublishSettingsFacts, Numbers DEF RecoveryConverges, PhaseOK
<1>10. CASE CheckMarker
  BY <1>0, <1>10, ContentsAssumption DEF RecoveryConverges, TypeOK, PhaseOK, CalmOK,
      Files, Targets, Before, Owned, Active, Passes, Publishing, Restoring, Steps,
      local, aux, stores, CheckMarker, At, Goto
<1>11. CASE Commit
  BY <1>0, <1>11, ContentsAssumption DEF RecoveryConverges, TypeOK, PhaseOK, CalmOK,
      Files, Targets, Before, Owned, Active, Passes, Publishing, Restoring, Steps,
      local, aux, stores, Commit, At, Goto, Save
<1>12. CASE RecordRollback
  BY <1>0, <1>12, ContentsAssumption DEF RecoveryConverges, TypeOK, PhaseOK, CalmOK,
      Files, Targets, Before, Owned, Active, Passes, Publishing, Restoring, Steps,
      local, aux, stores, RecordRollback, At, Goto, Save
<1>13. CASE CheckUndoSettings
  BY <1>0, <1>13, ContentsAssumption DEF RecoveryConverges, TypeOK, PhaseOK, CalmOK,
      Files, Targets, Before, Owned, Active, Passes, Publishing, Restoring, Steps,
      local, aux, stores, CheckUndoSettings, CheckUndo, At, Goto
<1>14. CASE UndoSettings
  BY <1>0, <1>14, UndoSettingsFacts, Numbers DEF RecoveryConverges, PhaseOK
<1>15. CASE CheckUndoData
  BY <1>0, <1>15, CheckUndoDataFacts, Numbers DEF RecoveryConverges
<1>16. CASE UndoData
  BY <1>0, <1>16, UndoDataFacts, Numbers DEF RecoveryConverges, PhaseOK
<1>17. CASE RecordCancelled
  BY <1>0, <1>17, ContentsAssumption DEF RecoveryConverges, TypeOK, PhaseOK, CalmOK,
      Files, Targets, Before, Owned, Active, Passes, Publishing, Restoring, Steps,
      local, aux, stores, RecordCancelled, At, Goto, Save
<1>18. CASE \E io, saved \in BOOLEAN : StepFails(io, saved)
  BY <1>0, <1>18, FailFacts, Numbers DEF RecoveryConverges, PhaseOK, CalmOK, Files,
      Targets, Before, Owned, Active, Passes
<1>19. CASE Load
  BY <1>0, <1>19, LoadFacts, Numbers DEF RecoveryConverges, PhaseOK
<1>20. CASE \E prefs \in BOOLEAN : Begin(prefs)
  BY <1>0, <1>20, BeginFacts, Numbers DEF RecoveryConverges, PhaseOK
<1>21. CASE Cancel
  BY <1>0, <1>21, CancelFacts, Numbers DEF RecoveryConverges
<1>22. CASE KeepCurrent
  BY <1>0, <1>22, KeepFacts, Numbers DEF RecoveryConverges
<1>23. CASE \E f \in Files, c \in Contents : Edit(f, c)
  BY <1>0, <1>23, EditFacts, Numbers DEF RecoveryConverges
<1>24. CASE SaveNow
  BY <1>0, <1>24, SaveFacts, Numbers DEF RecoveryConverges
<1>25. CASE Login
  BY <1>0, <1>25, LoginFacts, Numbers DEF RecoveryConverges, PhaseOK, CalmOK, Files,
      Targets, Before, Owned, Active, Passes, Publishing, Restoring, aux
<1>26. CASE \E ok \in BOOLEAN : Resume(ok)
  BY <1>0, <1>26, ResumeFacts, Numbers DEF RecoveryConverges, PhaseOK, CalmOK, Files,
      Targets, Before, Owned, Active, Passes, Publishing, Restoring, aux, Resumed
<1>27. ASSUME NEW ok \in BOOLEAN, Logout(ok) PROVE RecoveryConverges'
  BY <1>0, <1>27, ContentsAssumption DEF RecoveryConverges, TypeOK, PhaseOK, CalmOK,
      Files, Targets, Before, Owned, Active, Passes, Publishing, Restoring, Steps,
      local, aux, stores, Logout
<1>28. CASE \E ok \in BOOLEAN : Start(ok)
  BY <1>0, <1>28, StartFacts, Numbers DEF RecoveryConverges, PhaseOK, CalmOK, Files,
      Targets, Before, Owned, Active, Passes, Publishing, Restoring, Resumed
<1>29. CASE \E f \in Files, c \in Contents \cup {None} : OthersWrite(f, c)
  BY <1>0, <1>29, OthersFacts, Numbers DEF RecoveryConverges, PhaseOK
<1>30. ASSUME NEW v \in 0 .. MaxSources, SourceChanges(v) PROVE RecoveryConverges'
  BY <1>0, <1>30, ContentsAssumption DEF RecoveryConverges, TypeOK, PhaseOK, CalmOK,
      Files, Targets, Before, Owned, Active, Passes, Publishing, Restoring, Steps,
      local, aux, stores, SourceChanges
<1>31. CASE Damage
  BY <1>0, <1>31, ContentsAssumption DEF RecoveryConverges, TypeOK, PhaseOK, CalmOK,
      Files, Targets, Before, Owned, Active, Passes, Publishing, Restoring, Steps,
      local, aux, stores, Damage
<1>32. CASE Crash
  BY <1>0, <1>32, CrashFacts, Numbers DEF RecoveryConverges
<1>33. CASE UNCHANGED vars
  BY <1>0, <1>33 DEF RecoveryConverges, Files, Targets, Before, Owned, Active, Passes,
      Publishing, Restoring, Steps, local, aux, stores, vars
<1>34. QED BY <1>1, <1>2, <1>3, <1>4, <1>5, <1>6, <1>7, <1>8, <1>9, <1>10, <1>11, <1>12,
    <1>13, <1>14, <1>15, <1>16, <1>17, <1>18, <1>19, <1>20, <1>21, <1>22, <1>23, <1>24,
    <1>25, <1>26, <1>27, <1>28, <1>29, <1>30, <1>31, <1>32, <1>33 DEF Next, Coordinator,
    User, Others

\* A first start satisfies the invariant.
LEMMA InitConsistent == Init => Consistent
<1>1. SUFFICES ASSUME Init PROVE Consistent
  OBVIOUS
<1>2. 0 \in 0 .. MaxImports /\ 0 \in 0 .. MaxSources /\ 0 \in 0 .. MaxFaults
      /\ MaxSources \in 0 .. MaxSources
  BY BoundsAssumption
<1>3. TypeOK
  <2>1. StoresType
    BY <1>1, <1>2 DEF Init, StoresType, Journals, Phases, Artifacts, Disks
  <2>2. LocalType
    BY <1>1, <1>2 DEF Init, LocalType, Nothing, Memories, Disks, Idle, Operations,
        Phases
  <2>3. QED
    BY <1>1, <1>2, <2>1, <2>2 DEF Init, TypeOK, AuxType
<1>4. /\ journal.id = 0 /\ journal.phase = "none" /\ run.pc = "idle" /\ run.op = "none"
      /\ art.before = None /\ up = "down" /\ session = None /\ fenced = 0
      /\ stored \in {None, 0}
      /\ \A f \in Files : mem.disk[f] = None /\ disk[f] \in Contents \cup {None}
  BY <1>1 DEF Init, Idle, Nothing
<1>5. FreshOK
  BY <1>3, <1>4, Numbers DEF FreshOK
<1>6. SessionOK
  BY <1>4 DEF SessionOK
<1>7. PhaseOK /\ UndoneOK /\ WholeOK /\ RaceOK
  BY <1>4 DEF PhaseOK, UndoneOK, WholeOK, RaceOK, Publishing, Restoring
<1>8. CalmOK /\ MemoryOK /\ NoTrace /\ CommittedIsWhole /\ RecoveryConverges
  BY <1>4 DEF CalmOK, MemoryOK, NoTrace, CommittedIsWhole, RecoveryConverges, Active
<1>9. QED
  BY <1>3, <1>5, <1>6, <1>7, <1>8 DEF Consistent

\* The strengthened invariant holds in every reachable state.
THEOREM Invariance == Spec => []Consistent
<1>1. Consistent /\ [Next]_vars => Consistent'
  BY TypeStep, PhaseOKStep, FreshOKStep, UndoneOKStep, WholeOKStep, CalmOKStep,
      MemoryOKStep, SessionOKStep, RaceOKStep, NoTraceStep, CommittedIsWholeStep,
      RecoveryConvergesStep DEF Consistent
<1>2. QED
  BY <1>1, InitConsistent, PTL DEF Spec

-----------------------------------------------------------------------------
(* The theorems *)

\* Every variable keeps its type, and nothing in memory survives the process.
THEOREM TypeCorrect == Spec => []TypeOK
<1>1. Consistent => TypeOK
  BY DEF Consistent
<1>2. QED
  BY <1>1, Invariance, PTL

\* An import that was not published, or was taken back, has left no file behind,
\* however often the program died on the way.
THEOREM RollbackIsComplete == Spec => []NoTrace
<1>1. Consistent => NoTrace
  BY DEF Consistent
<1>2. QED
  BY <1>1, Invariance, PTL

\* A completed import has published both of its files.
THEOREM CommitIsComplete == Spec => []CommittedIsWhole
<1>1. Consistent => CommittedIsWhole
  BY DEF Consistent
<1>2. QED
  BY <1>1, Invariance, PTL

\* What the program lets the user edit is the pair of files on disk.
THEOREM EditsTheAuthority == Spec => []MemoryIsAuthority
<1>1. Consistent => MemoryIsAuthority
  BY DEF Consistent, MemoryOK, MemoryIsAuthority, Ready
<1>2. QED
  BY <1>1, Invariance, PTL

\* No session from before an import that demanded a new login is in use after it.
THEOREM OldSessionsEnd == Spec => []SessionIsNew
<1>1. Consistent => SessionIsNew
  <2>1. SUFFICES ASSUME Consistent, Ready, session # None PROVE session >= fenced
    BY DEF SessionIsNew
  <2>2. ~(session < fenced)
    BY <2>1 DEF Consistent, SessionOK, Ready
  <2>3. session \in Nat /\ fenced \in Nat
    BY <2>1, Numbers DEF Consistent
  <2>4. QED
    BY <2>2, <2>3
<1>2. QED
  BY <1>1, Invariance, PTL

\* An import that nothing but crashes disturbed ends with the next start or retry.
THEOREM RecoveryEnds == Spec => []RecoveryConverges
<1>1. Consistent => RecoveryConverges
  BY DEF Consistent
<1>2. QED
  BY <1>1, Invariance, PTL

\* The coordinator destroys nobody's later work, except in a race it cannot see.
THEOREM KeepsLaterWork == Spec => LaterWorkKept
<1> DEFINE Kept == \A f \in Files :
                     disk'[f] # disk[f] /\ run.pc \in Steps /\ faults' = faults =>
                       disk[f] \in {Before(f), journal.id} \/ raced
<1>1. ASSUME Consistent, [Next]_vars PROVE [Kept]_vars
  <2>0. TypeOK /\ RaceOK
    BY <1>1 DEF Consistent
  <2>1. SUFFICES ASSUME Next, NEW f \in Files, disk'[f] # disk[f], run.pc \in Steps,
                        faults' = faults
                 PROVE  Owned(f) \/ raced
    BY <1>1 DEF Owned
  <2>2. CASE PublishData
    BY <2>0, <2>1, <2>2, PublishDataFacts DEF Passes, Files
  <2>3. CASE PublishSettings
    BY <2>0, <2>1, <2>3, PublishSettingsFacts DEF RaceOK, Files
  <2>4. CASE UndoSettings
    BY <2>0, <2>1, <2>4, UndoSettingsFacts DEF RaceOK, Files
  <2>5. CASE UndoData
    BY <2>0, <2>1, <2>5, UndoDataFacts DEF RaceOK, Files
  <2>6. CASE \E g \in Files, c \in Contents \cup {None} : OthersWrite(g, c)
    BY <2>0, <2>1, <2>6, BoundsAssumption DEF OthersWrite, Spend
  <2>7. CASE Ready
    BY <2>1, <2>7 DEF Ready, Steps
  <2>8. CASE ~Ready /\ UNCHANGED disk
    BY <2>1, <2>8
  <2>9. ~Ready => \/ UNCHANGED disk
                  \/ PublishData \/ PublishSettings \/ UndoSettings \/ UndoData
                  \/ \E g \in Files, c \in Contents \cup {None} : OthersWrite(g, c)
    BY <2>1 DEF Next, Coordinator, User, Others, Stage, RecordReady, RequireLogin,
        Authorize, Finish, RecordPublishing, CheckSettings, CheckMarker, Commit,
        RecordRollback, CheckUndoSettings, CheckUndoData, CheckUndo, RecordCancelled,
        StepFails, Load, Begin, Cancel, KeepCurrent, Edit, SaveNow, Login, Resume,
        Logout, Start, SourceChanges, Damage, Crash, stores
  <2>10. QED
    BY <2>2, <2>3, <2>4, <2>5, <2>6, <2>7, <2>8, <2>9
<1>2. QED
  BY <1>1, Invariance, PTL DEF Spec, LaterWorkKept

\* A decision about an import stands.
THEOREM DecisionsStand == Spec => DecisionStands
<1> DEFINE Stands ==
      journal'.id = journal.id /\ journal'.phase # journal.phase =>
        /\ Active(journal)
        /\ journal.phase = "rollingBack" => journal'.phase \in {"cancelled", "keptCurrent"}
        /\ journal.phase = "publishing" =>
             journal'.phase \in {"committed", "rollingBack", "keptCurrent"}
<1>1. ASSUME Consistent, [Next]_vars PROVE [Stands]_vars
  <2>0. TypeOK /\ PhaseOK
    BY <1>1 DEF Consistent
  <2>1. SUFFICES ASSUME Next, journal' # journal PROVE Stands
    BY <1>1
  <2>2. CASE \/ RecordReady \/ RecordPublishing \/ Commit \/ RecordRollback
             \/ RecordCancelled
    <3>1. PICK p \in {"ready", "publishing", "committed", "rollingBack", "cancelled"} :
            /\ Save(p)
            /\ p = "ready" => run.pc = "ready"
            /\ p = "publishing" => run.pc = "publishing"
            /\ p = "committed" => run.pc = "commit"
            /\ p = "rollingBack" => run.pc = "rollback"
            /\ p = "cancelled" => run.pc = "cancel"
      BY <2>2 DEF RecordReady, RecordPublishing, Commit, RecordRollback,
          RecordCancelled, At
    <3>2. journal'.phase = p
      BY <2>0, <3>1, SaveFacts1
    <3>3. QED
      BY <2>0, <3>1, <3>2 DEF PhaseOK, Publishing, Restoring, Active
  <2>3. CASE \E io, saved \in BOOLEAN : StepFails(io, saved)
    BY <2>0, <2>3, FailFacts DEF Active
  <2>4. CASE \E prefs \in BOOLEAN : Begin(prefs)
    <3>1. journal'.id = journal.id + 1
      BY <2>0, <2>4, BeginFacts
    <3>2. journal.id \in Nat
      BY <2>0, Numbers
    <3>3. QED
      BY <3>1, <3>2
  <2>5. CASE RequireLogin
    BY <2>0, <2>5, RequireLoginFacts
  <2>6. CASE Login
    BY <2>0, <2>6, LoginFacts
  <2>7. CASE Cancel
    BY <2>0, <2>7, CancelFacts
  <2>8. CASE KeepCurrent
    BY <2>0, <2>8, KeepFacts
  <2>9. CASE \E ok \in BOOLEAN : Resume(ok)
    BY <2>0, <2>9, ResumeFacts DEF Resumed, Active
  <2>10. CASE \E ok \in BOOLEAN : Start(ok)
    BY <2>0, <2>10, StartFacts DEF Resumed, Active
  <2>11. QED
    BY <2>1, <2>2, <2>3, <2>4, <2>5, <2>6, <2>7, <2>8, <2>9, <2>10 DEF Next,
        Coordinator, User, Others, Stage, Authorize, Finish, PublishData, CheckSettings,
        PublishSettings, CheckMarker, CheckUndoSettings, UndoSettings, CheckUndoData,
        UndoData, CheckUndo, Undo, Load, Edit, SaveNow, Logout, OthersWrite,
        SourceChanges, Damage, Crash, stores
<1>2. QED
  BY <1>1, Invariance, PTL DEF Spec, DecisionStands

==============================================================================
