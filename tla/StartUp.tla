------------------------------ MODULE StartUp ------------------------------
(***************************************************************************)
(* The start of the window: App::new of crates/mountmate-app/src/main.rs   *)
(* with the recovery of settings.json of crates/mountmate-core/src/        *)
(* storage.rs.  Settings that cannot be read are moved away and defaults   *)
(* written; the storage of the credentials is inferred; the old switch     *)
(* "start all" becomes a mark on each connection; and the login item of    *)
(* the platform is made to agree with the files, now and after every save. *)
(*                                                                         *)
(* Reads and writes fail, the application ends between any two of them.    *)
(***************************************************************************)
EXTENDS Naturals, Sequences

CONSTANTS
  Servers,       \* connections
  Interactive,   \* those with a shared login, which nothing starts at login
  VaultRefs,     \* servers.json refers to the credential store of the system
  Gone,          \* no such file
  Damaged,       \* a file that is not JSON
  MaxFaults,     \* bound: calls that fail
  MaxCrashes,    \* bound: ends of the application
  MaxSaves       \* bound: saves of the user

Settings == [all : BOOLEAN, vault : BOOLEAN, mine : BOOLEAN]
Defaults == [all |-> FALSE, vault |-> FALSE, mine |-> FALSE]

Assumption ==
  /\ Interactive \subseteq Servers
  /\ VaultRefs \in BOOLEAN
  /\ Gone \notin Settings \cup {Damaged}
  /\ Damaged \notin Settings
  /\ {MaxFaults, MaxCrashes, MaxSaves} \subseteq Nat

VARIABLES
  file,      \* settings.json
  backups,   \* the files settings.json.invalid.*.bak, the latest last
  marks,     \* servers.json: connections with auto_mount_at_login
  item,      \* the login item is registered
  at,        \* how far the application is
  mem,       \* the settings in memory
  report,    \* what the recovery dialog says of the original
  tasks,     \* tasks that reconcile the login item, per state
  seen,      \* what the task that holds the lock of the integration has read
  old,       \* the marks before the migration of "start all"
  left,      \* faults, ends and saves that are left
  wanted,    \* ghost: the connections the user wants started at login
  missed,    \* ghost: the platform refused, or the files could not be read
  originals  \* ghost: files that could not be read and that no user has replaced

vars == <<file, backups, marks, item, at, mem, report, tasks, seen, old, left, wanted, missed, originals>>
disk == <<file, backups, marks>>
login == <<item, tasks, seen, missed>>

\* load_settings: a file that does not exist stands for the defaults.
Value(f) == IF f = Gone THEN Defaults ELSE f

\* startup_servers
Selected(settings, marked) ==
  (IF settings.all THEN Servers ELSE marked) \ Interactive

Init ==
  /\ file \in [all : BOOLEAN, vault : {FALSE}, mine : {TRUE}] \cup {Gone, Damaged}
  /\ backups = <<>>
  /\ marks \in SUBSET (Servers \ Interactive)
  /\ item \in BOOLEAN
  /\ at = "off"
  /\ mem = Defaults
  /\ report = "none"
  /\ tasks = 0
  /\ seen = "free"
  /\ old = {}
  /\ left = [faults |-> MaxFaults, crashes |-> MaxCrashes, saves |-> MaxSaves]
  /\ wanted = IF file = Damaged THEN marks ELSE Selected(Value(file), marks)
  /\ missed = FALSE
  /\ originals = {}

Goto(step) == at' = step
Fails == left.faults > 0 /\ left' = [left EXCEPT !.faults = @ - 1]
Works == UNCHANGED left

-----------------------------------------------------------------------------
(* load_settings_recovering                                                *)

Accept == mem' = Value(file) /\ originals' = originals \ {file}
Refuse == mem' = Defaults /\ originals' = originals \cup {file} /\ Goto("lock")

Load ==
  /\ at = "off"
  /\ \/ file # Damaged /\ Works /\ Accept /\ Goto("infer")
     \/ file = Damaged /\ Works /\ Refuse
     \/ file # Gone /\ Fails /\ Refuse
  /\ report' = "none"
  /\ UNCHANGED <<disk, login, old, wanted>>

\* The lock of settings.json, and a second look at the file.
Again ==
  /\ at = "lock"
  /\ \/ Fails /\ report' = "unchanged" /\ Goto("infer") /\ UNCHANGED <<mem, originals>>
     \/ file # Damaged /\ Works /\ Accept /\ Goto("infer") /\ UNCHANGED report
     \/ file = Damaged /\ Works /\ Goto("backup") /\ UNCHANGED <<mem, originals, report>>
     \/ file # Damaged /\ Fails /\ Goto("backup") /\ UNCHANGED <<mem, originals, report>>
  /\ UNCHANGED <<disk, login, old, wanted>>

BackUp ==
  /\ at = "backup"
  /\ \/ Works /\ backups' = Append(backups, file) /\ file' = Gone /\ Goto("defaults") /\ UNCHANGED report
     \/ Fails /\ report' = "unchanged" /\ Goto("infer") /\ UNCHANGED <<file, backups>>
  /\ UNCHANGED <<marks, login, mem, old, wanted, originals>>

\* atomic_write may fail before its rename, and after it.
WriteDefaults ==
  /\ at = "defaults"
  /\ \/ Works /\ file' = Defaults /\ report' = "backup" /\ Goto("infer")
     \/ Fails /\ file' \in {file, Defaults} /\ Goto("remove") /\ UNCHANGED report
  /\ UNCHANGED <<backups, marks, login, mem, old, wanted, originals>>

\* What has been written is removed if it can be; the original comes back over it.
RemoveDefaults ==
  /\ at = "remove"
  /\ \/ Works /\ file' = Gone
     \/ file # Gone /\ Fails /\ UNCHANGED file
  /\ Goto("restore")
  /\ UNCHANGED <<backups, marks, login, mem, report, old, wanted, originals>>

Latest == backups[Len(backups)]
Earlier == SubSeq(backups, 1, Len(backups) - 1)

\* Mutant: the backup is removed with the file that could not be written.
ForgetBackup ==
  /\ at = "restore"
  /\ \/ Works /\ file' = Latest /\ report' = "restored"
     \/ Fails /\ report' = "backup failed" /\ UNCHANGED file
  /\ backups' = Earlier
  /\ Goto("infer")
  /\ UNCHANGED <<marks, login, mem, old, wanted, originals>>

PutBack ==
  /\ at = "restore"
  /\ \/ Works /\ file' = Latest /\ backups' = Earlier /\ report' = "restored"
     \/ Fails /\ report' = "backup failed" /\ UNCHANGED <<file, backups>>
  /\ Goto("infer")
  /\ UNCHANGED <<marks, login, mem, old, wanted, originals>>

-----------------------------------------------------------------------------
(* App::new: inference of the credential storage, migration of startup_all *)

\* Mutant: nothing is remembered of a recovery that did not end.
Forgotten == FALSE

\* settings_recovery_incomplete
Incomplete == report \in {"unchanged", "restored", "backup failed"}

NeedsInference == ~mem.vault /\ VaultRefs

Infer ==
  /\ at = "infer"
  /\ IF NeedsInference
     THEN /\ mem' = [mem EXCEPT !.vault = TRUE]
          /\ \/ Incomplete /\ Works /\ UNCHANGED file
             \/ ~Incomplete /\ Works /\ file' = mem'
             \/ ~Incomplete /\ Fails /\ UNCHANGED file
     ELSE Works /\ UNCHANGED <<mem, file>>
  /\ Goto(IF mem.all THEN "mark" ELSE "open")
  /\ UNCHANGED <<backups, marks, login, report, old, wanted, originals>>

\* Mutant: the switch is reset before the marks are written.
UnsetFirst ==
  /\ at = "mark"
  /\ \/ Works /\ mem' = [mem EXCEPT !.all = FALSE] /\ file' = mem' /\ Goto("unset")
     \/ Fails /\ Goto("open") /\ UNCHANGED <<mem, file>>
  /\ UNCHANGED <<backups, marks, login, report, old, wanted, originals>>

\* migrate_legacy_startup_preferences: first the marks ...
Mark ==
  /\ at = "mark"
  /\ \/ Works /\ old' = marks /\ marks' = Servers \ Interactive /\ Goto("unset")
     \/ Fails /\ Goto("open") /\ UNCHANGED <<old, marks>>
  /\ UNCHANGED <<file, backups, login, mem, report, wanted, originals>>

\* ... then the switch; if that fails, the marks as they were.
Unset ==
  /\ at = "unset"
  /\ \/ Works /\ mem' = [mem EXCEPT !.all = FALSE] /\ file' = mem' /\ Goto("open")
     \/ Fails /\ Goto("unmark") /\ UNCHANGED <<mem, file>>
  /\ UNCHANGED <<backups, marks, login, report, old, wanted, originals>>

Unmark ==
  /\ at = "unmark"
  /\ \/ Works /\ marks' = old
     \/ Fails /\ UNCHANGED marks
  /\ Goto("open")
  /\ UNCHANGED <<file, backups, login, mem, report, old, wanted, originals>>

\* The window opens, and the first task that reconciles the login item begins.
Open ==
  /\ at = "open"
  /\ Goto("run")
  /\ tasks' = 1
  /\ missed' = FALSE
  /\ UNCHANGED <<disk, item, seen, mem, report, old, left, wanted, originals>>

-----------------------------------------------------------------------------
(* The user saves; reconcile_login_startup                                 *)

\* update_server_preferences_batch, then the task reconciles.
SaveMarks(S) ==
  /\ at = "run" /\ left.saves > 0
  /\ left' = [left EXCEPT !.saves = @ - 1]
  /\ marks' = S
  /\ wanted' = Selected(Value(IF file = Damaged THEN mem ELSE file), S)
  /\ tasks' = tasks + 1
  /\ UNCHANGED <<file, backups, item, at, mem, report, seen, old, missed, originals>>

\* Save in Settings writes what the page shows, over whatever the file is.
SaveSettings ==
  /\ at = "run" /\ left.saves > 0
  /\ left' = [left EXCEPT !.saves = @ - 1]
  /\ mem' = [mem EXCEPT !.mine = TRUE]
  /\ file' = mem'
  /\ report' = "none"
  /\ originals' = originals \ {file}
  /\ wanted' = Selected(mem', marks)
  /\ tasks' = tasks + 1
  /\ UNCHANGED <<backups, marks, item, at, seen, old, missed>>

Reading == Selected(Value(file), marks) # {}

\* Under the lock of the integration the files are read ...
Look ==
  /\ at = "run" /\ seen = "free" /\ tasks > 0
  /\ \/ file # Damaged /\ Works /\ seen' = (IF Reading THEN "on" ELSE "off") /\ UNCHANGED <<tasks, missed>>
     \/ file = Damaged /\ Works /\ tasks' = tasks - 1 /\ missed' = TRUE /\ UNCHANGED seen
     \/ file # Damaged /\ Fails /\ tasks' = tasks - 1 /\ missed' = TRUE /\ UNCHANGED seen
  /\ UNCHANGED <<disk, item, at, mem, report, old, wanted, originals>>

\* Mutant: the next task goes by what the last one has read.
SetAlike ==
  /\ at = "run" /\ seen # "free"
  /\ \/ Works /\ item' = (seen = "on") /\ missed' = FALSE
     \/ Fails /\ missed' = TRUE /\ UNCHANGED item
  /\ seen' = IF tasks > 1 THEN seen ELSE "free"
  /\ tasks' = tasks - 1
  /\ UNCHANGED <<disk, at, mem, report, old, wanted, originals>>

\* ... and the item is set.
SetItem ==
  /\ at = "run" /\ seen # "free"
  /\ \/ Works /\ item' = (seen = "on") /\ missed' = FALSE
     \/ Fails /\ missed' = TRUE /\ UNCHANGED item
  /\ seen' = "free"
  /\ tasks' = tasks - 1
  /\ UNCHANGED <<disk, at, mem, report, old, wanted, originals>>

\* The application ends, at any moment; what is in memory is lost.
End ==
  /\ at # "off" /\ left.crashes > 0
  /\ left' = [left EXCEPT !.crashes = @ - 1]
  /\ Goto("off")
  /\ tasks' = 0
  /\ seen' = "free"
  /\ report' = "none"
  /\ old' = {}
  /\ UNCHANGED <<disk, item, mem, wanted, missed, originals>>

Next ==
  \/ Load \/ Again \/ BackUp \/ WriteDefaults \/ RemoveDefaults \/ PutBack
  \/ Infer \/ Mark \/ Unset \/ Unmark \/ Open
  \/ \E S \in SUBSET (Servers \ Interactive) : SaveMarks(S)
  \/ SaveSettings \/ Look \/ SetItem \/ End

Spec == Init /\ [][Next]_vars

-----------------------------------------------------------------------------
Steps == {"off", "lock", "backup", "defaults", "remove", "restore", "infer", "mark", "unset",
          "unmark", "open", "run"}
Reports == {"none", "unchanged", "backup", "restored", "backup failed"}

\* Every variable holds what its declaration says.
TypeOK ==
  /\ file \in Settings \cup {Gone, Damaged}
  /\ backups \in Seq(Settings \cup {Damaged})
  /\ marks \subseteq Servers
  /\ item \in BOOLEAN
  /\ at \in Steps
  /\ mem \in Settings
  /\ report \in Reports
  /\ tasks \in 0 .. MaxSaves + 1
  /\ seen \in {"free", "on", "off"}
  /\ wanted \subseteq Servers
  /\ originals \subseteq Settings \cup {Damaged}

\* Settings that could not be read are somewhere on disk, in place or as a backup,
\* until the user saves over them: neither the recovery, with any of its calls failing,
\* nor what App::new writes by itself afterwards, nor an end in between loses them.
OriginalKept ==
  \A o \in originals : o = file \/ \E i \in DOMAIN backups : backups[i] = o

\* While no settings have been moved away, the files select for the next login what the
\* user has selected, although the migration of "start all" takes two writes of two
\* files, each of which may fail, and whose undo may fail as well.
SelectionKept ==
  backups = <<>> /\ file # Damaged => Selected(Value(file), marks) = wanted

\* What the recovery dialog says about the original is true: where it is, and where not.
ReportTrue ==
  at \in {"infer", "mark", "unset", "unmark", "open", "run"} =>
    /\ report \in {"unchanged", "restored"} => file \in originals
    /\ report \in {"backup", "backup failed"} => backups # <<>> /\ Latest \in originals

\* When all tasks have ended, and the platform took what the last one asked, the login
\* item says what the files say, in whatever order the tasks of several saves ran.
ItemFollows ==
  at = "run" /\ tasks = 0 /\ ~missed => file # Damaged /\ item = Reading
=============================================================================
