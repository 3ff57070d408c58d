----------------------------- MODULE Preferences -----------------------------
(***************************************************************************)
(* settings.json and what the program makes of it.  The file is told by    *)
(* its revision: 0 stands for the old format, which has none.  A change is *)
(* written before it is in force, and only over an earlier revision.       *)
(*                                                                         *)
(* A definition whose name ends in Bug is a plausible mistake in the       *)
(* definition that follows it and is used by nothing.                      *)
(***************************************************************************)
EXTENDS Naturals

CONSTANTS
  Absent,      \* there is no file
  Unreadable,  \* what the parser refuses
  Found        \* contents the program may find at its start

PreferencesFiles == Nat \cup {Absent, Unreadable}

ASSUME PreferencesAssumption ==
  /\ Found \subseteq PreferencesFiles
  /\ Absent \notin Nat /\ Unreadable \notin Nat /\ Absent # Unreadable

VARIABLES
  prefs,    \* preferences in force: revision, and whether an error is shown
  file,     \* settings.json
  backup    \* its backup

\* Auxiliary: what the preferences in force were read from or written to.
VARIABLE base

preferences == <<prefs, file, backup, base>>

\* parse: damaged contents and those of a later format are refused.
Understood(c) == c # Unreadable

\* PreferencesRepo::load, with the revision of what it makes of the file.
Revision == IF file \in {Absent, Unreadable} THEN 0 ELSE file

\* load_persisted: without a readable file the defaults are in force, with an error.
Load(ok) ==
  LET good == ok /\ Understood(file)
  IN  /\ prefs = [revision |-> IF good THEN Revision ELSE 0, error |-> ~good]
      /\ base = IF good THEN file ELSE Unreadable

\* PreferencesRepo::save: only a later revision replaces what is there.
SupersedesBug(next, old) == next >= old

Supersedes(next, old) == next > old

Replaceable(next) ==
  \/ file = Absent
  \/ Understood(file) /\ Supersedes(next, file)

\* The step of a save that fails, if any: the file is read, kept as the backup, replaced.
Failures == {"none", "read", "keep", "replace"}

\* commit, of a change of the preferences or of the window's place.
CommitPreferences(failing) ==
  LET next == prefs.revision + 1
      kept == failing \notin {"read", "keep"} /\ Replaceable(next)
      done == kept /\ failing # "replace"
  IN  /\ backup' = IF kept /\ file # Absent THEN file ELSE backup
      /\ file' = IF done THEN next ELSE file
      /\ base' = IF done THEN next ELSE base
      /\ prefs' = IF done THEN [revision |-> next, error |-> FALSE] ELSE [prefs EXCEPT !.error = TRUE]

=============================================================================
