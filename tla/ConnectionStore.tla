-------------------------- MODULE ConnectionStore --------------------------
(***************************************************************************)
(* The saved connections and their secrets: servers.json, the credential   *)
(* store of the system, and the list in the memory of the GUI              *)
(* (crates/mountmate-core/src/{storage,credential}.rs and                  *)
(* crates/mountmate-app/src/{configuration,main}.rs).  A handler of the    *)
(* GUI looks at its flags, takes a snapshot and starts a task on another   *)
(* thread; the task does its writes one by one and leaves a message that   *)
(* ends it.  Messages of tasks that overlap may come in any order.         *)
(***************************************************************************)
EXTENDS Naturals, FiniteSets

CONSTANTS
  Ids,            \* connections
  Existing,       \* the ones that are saved at the beginning
  Absent,         \* there is no such connection
  None,           \* no secret, no connection in the editor
  Kept,           \* a credential that was not changed
  MaxSaves,       \* bounds: connections saved,
  MaxRemovals,    \*   removals,
  MaxSettings,    \*   settings saved,
  MaxTasks,       \*   tasks at a time,
  MaxFaults,      \*   failing calls,
  MaxRestarts,    \*   ends of the application
  Unreadable      \* servers.json may not be readable after a restart

ASSUME ConnectionStoreAssumption ==
  /\ Existing \subseteq Ids
  /\ None \notin Ids /\ None # Kept /\ {None, Kept} \cap Nat = {}
  /\ Absent \notin [obscured : Nat \cup {None}, ref : BOOLEAN]
  /\ Unreadable \in BOOLEAN
  /\ MaxTasks \in Nat \ {0} /\ MaxSaves \in Nat

VARIABLES
  file,        \* servers.json
  readable,    \* load_servers succeeds
  setting,     \* settings.json: the credential storage
  vault,       \* the credential store of the system
  gui,         \* App.servers
  storage,     \* App.settings.credential_storage
  screen,      \* where the user is
  draft,       \* what the open editor or settings page has loaded
  editorSaving, listSaving,
  task,        \* the tasks that run, or whose message was not handled
  saves, removals, changes, faults, restarts,
  want,        \* ghost: the secrets a connection may answer with
  kept,        \* ghost: connections that were saved and not removed
  removed      \* ghost: connections whose removal was written

disk == <<file, readable, setting, vault>>
window == <<gui, storage, screen, draft, editorSaving, listSaving>>
bounds == <<saves, removals, changes, restarts>>
ghosts == <<want, kept, removed>>
vars == <<disk, window, task, bounds, faults, ghosts>>

Slots == 1 .. MaxTasks
Secrets == 0 .. MaxSaves
Record == [obscured : Secrets \cup {None}, ref : BOOLEAN]
Lists == [Ids -> Record \cup {Absent}]
Present(list) == {id \in Ids : list[id] # Absent}
Nobody == [id \in Ids |-> Absent]
Unchanged == [id \in Ids |-> Kept]

NoTask == [kind |-> "none", pc |-> "done", ids |-> {}, secret |-> None,
           old |-> Nobody, new |-> Nobody, undo |-> Unchanged, shown |-> {},
           from |-> "obscure", target |-> "obscure", ok |-> FALSE]

Init ==
  /\ readable = TRUE
  /\ setting \in {"obscure", "system"}
  /\ vault = [id \in Ids |-> IF id \in Existing /\ setting = "system" THEN 0 ELSE None]
  \* Records of the system store from older releases have no obscured copy.
  /\ \E legacy \in BOOLEAN :
       file = [id \in Ids |->
         IF id \notin Existing THEN Absent
         ELSE [obscured |-> IF setting = "system" /\ legacy THEN None ELSE 0,
               ref |-> setting = "system"]]
  /\ gui = file
  /\ storage = setting
  /\ screen = "list"
  /\ draft = [id |-> None, record |-> Absent, shown |-> {}]
  /\ editorSaving = FALSE /\ listSaving = FALSE
  /\ task = [t \in Slots |-> NoTask]
  /\ saves = 0 /\ removals = 0 /\ changes = 0 /\ faults = 0 /\ restarts = 0
  /\ want = [id \in Ids |-> {0}]
  /\ kept = Existing
  /\ removed = {}

-----------------------------------------------------------------------------
(* Handlers of the GUI                                                     *)

\* Mutant: the flags are not looked at.
NotLocked == TRUE
Idle == ~editorSaving /\ ~listSaving
Busy == UNION {task[t].ids : t \in {u \in Slots : task[u].kind \in {"remove", "batch"}}}

Spawn(job) ==
  LET free == {t \in Slots : task[t].kind = "none"} IN
  /\ free # {}
  /\ task' = [task EXCEPT ![CHOOSE t \in free : \A u \in free : t <= u] = job]

\* Edit and AddConnection.
OpenEditor(id) ==
  /\ screen \in {"list", "batch"}
  /\ Idle
  /\ gui[id] # Absent \/ id \notin kept \cup removed
  /\ screen' = "editor"
  /\ draft' = [id |-> id, record |-> gui[id], shown |-> {}]
  /\ UNCHANGED <<disk, gui, storage, editorSaving, listSaving, task, bounds, faults,
                 ghosts>>

OpenSettings ==
  /\ screen \in {"list", "batch"}
  /\ Idle
  /\ screen' = "settings"
  /\ draft' = [id |-> None, record |-> Absent, shown |-> Present(gui)]
  /\ UNCHANGED <<disk, gui, storage, editorSaving, listSaving, task, bounds, faults,
                 ghosts>>

\* CancelEditor, ConnectionListModeChanged and OpenBatchManagement.
Navigate ==
  /\ \/ screen \in {"editor", "settings"} /\ ~editorSaving /\ screen' = "list"
     \/ screen = "settings" /\ ~editorSaving /\ screen' = "batch"
     \/ screen = "list" /\ Idle /\ screen' = "batch"
     \/ screen = "batch" /\ Idle /\ screen' = "list"
  /\ UNCHANGED <<disk, gui, storage, draft, editorSaving, listSaving, task, bounds,
                 faults, ghosts>>

\* A blank secret means the one there is, so a new connection needs one.
SaveConnection ==
  /\ screen = "editor"
  /\ Idle
  /\ draft.id \notin Busy
  /\ saves < MaxSaves
  /\ \E secret \in {saves + 1} \cup (IF draft.record = Absent THEN {} ELSE {None}) :
       /\ Spawn([NoTask EXCEPT
                   !.kind = "save", !.pc = "secret", !.ids = {draft.id}, !.secret = secret,
                   !.old = gui, !.new = [Nobody EXCEPT ![draft.id] = draft.record],
                   !.target = storage])
       /\ want' = IF secret = None THEN want
                  ELSE [want EXCEPT ![draft.id] = @ \cup {secret}]
  /\ editorSaving' = TRUE
  /\ saves' = saves + 1
  /\ UNCHANGED <<disk, gui, storage, screen, draft, listSaving, removals, changes,
                 restarts, faults, kept, removed>>

SaveSettings ==
  /\ screen = "settings"
  /\ ~editorSaving
  /\ changes < MaxSettings
  /\ \E target \in {"obscure", "system"} :
       Spawn([NoTask EXCEPT
                !.kind = "settings",
                !.pc = IF target = storage THEN "preferences" ELSE "prepare",
                !.ids = Present(gui), !.old = gui, !.new = gui, !.shown = draft.shown,
                !.from = storage, !.target = target])
  /\ editorSaving' = TRUE
  /\ changes' = changes + 1
  /\ UNCHANGED <<disk, gui, storage, screen, draft, listSaving, saves, removals,
                 restarts, faults, ghosts>>

\* Remove and ConfirmRemove.  Neither looks at the flags.
ConfirmRemove(id) ==
  /\ screen = "list"
  /\ gui[id] # Absent
  /\ id \notin Busy
  /\ removals < MaxRemovals
  /\ Spawn([NoTask EXCEPT !.kind = "remove", !.pc = "drop", !.ids = {id}, !.old = gui])
  /\ editorSaving' = TRUE
  /\ removals' = removals + 1
  /\ UNCHANGED <<disk, gui, storage, screen, draft, listSaving, saves, changes,
                 restarts, faults, ghosts>>

\* BatchDeleteSelected, with the answer to its question: the snapshot is taken
\* when that arrives, and until then the list is locked.
BatchDelete(ids) ==
  /\ screen = "batch"
  /\ Idle
  /\ ids # {} /\ ids \subseteq Present(gui) \ Busy
  /\ removals < MaxRemovals
  /\ Spawn([NoTask EXCEPT !.kind = "batch", !.pc = "drop", !.ids = ids, !.old = gui])
  /\ listSaving' = TRUE
  /\ removals' = removals + 1
  /\ UNCHANGED <<disk, gui, storage, screen, draft, editorSaving, saves, changes,
                 restarts, faults, ghosts>>

\* Tags, login start-up and the order of the list.
SavePreferences(ids) ==
  /\ screen = "batch"
  /\ Idle
  /\ ids # {} /\ ids \subseteq Present(gui)
  /\ Spawn([NoTask EXCEPT !.kind = "preferences", !.pc = "preferences", !.ids = ids])
  /\ listSaving' = TRUE
  /\ UNCHANGED <<disk, gui, storage, screen, draft, editorSaving, bounds, faults, ghosts>>

\* Message::ConnectionSaved, SettingsSaved, RemoveFinished, BatchRemoved and
\* BatchTagsSaved.  Mutants: the screen stays locked after an error; the list
\* that a save returns is not taken over.
UnlocksOnSuccess(ended) == ended.kind \in {"save", "settings", "remove"} /\ ended.ok
Unlocks(ended) == ended.kind \in {"save", "settings", "remove"}
NotTaken(ended) == IF ended.ok /\ ended.kind # "save" THEN ended.new ELSE gui
Taken(ended) == IF ended.ok THEN ended.new ELSE gui
Deliver(t) ==
  LET ended == task[t] IN
  /\ ended.kind # "none"
  /\ ended.pc = "done"
  /\ task' = [task EXCEPT ![t] = NoTask]
  /\ editorSaving' = (editorSaving /\ ~Unlocks(ended))
  /\ listSaving' = (listSaving /\ ended.kind \notin {"batch", "preferences"})
  /\ gui' = Taken(ended)
  /\ storage' = IF ended.ok /\ ended.kind = "settings" THEN ended.target ELSE storage
  /\ screen' = IF ended.ok /\ ended.kind \in {"save", "settings"} THEN "list" ELSE screen
  /\ UNCHANGED <<disk, draft, bounds, faults, ghosts>>

-----------------------------------------------------------------------------
(* Steps of a task                                                         *)

\* A call that fails.
Fault == faults < MaxFaults /\ faults' = faults + 1
Goto(t, pc) == task' = [task EXCEPT ![t].pc = pc]
Returns(t, pc, list) == task' = [task EXCEPT ![t].pc = pc, ![t].new = list]
Ends(t, ok) == task' = [task EXCEPT ![t].pc = "done", ![t].ok = ok]
At(t, kinds, pc) == task[t].kind \in kinds /\ task[t].pc = pc
The(t) == CHOOSE id \in task[t].ids : TRUE
Edited(t) == task[t].new[The(t)]

\* The record that save_connection writes: ValidatedConnection::apply_secrets
\* and PreparedSecret::apply.
Written(t) ==
  IF task[t].secret = None THEN Edited(t)
  ELSE [obscured |-> task[t].secret, ref |-> task[t].target = "system"]

\* prepare_secret_action, with replace_verified: what it could not write and
\* read back it restores, unless that fails as well.
PrepareSecret(t) ==
  LET id == The(t) IN
  /\ At(t, {"save"}, "secret")
  /\ IF task[t].secret # None /\ task[t].target = "system"
     THEN \/ /\ vault' = [vault EXCEPT ![id] = task[t].secret]
             /\ task' = [task EXCEPT ![t].pc = "upsert",
                                     ![t].undo = [Unchanged EXCEPT ![id] = vault[id]]]
             /\ UNCHANGED <<faults, want>>
          \/ /\ Fault
             /\ Ends(t, FALSE)
             /\ want' = [want EXCEPT ![id] = @ \ {task[t].secret}]
             /\ UNCHANGED vault
          \/ /\ faults + 2 <= MaxFaults
             /\ faults' = faults + 2
             /\ vault' = [vault EXCEPT ![id] = task[t].secret]
             /\ Ends(t, FALSE)
             /\ UNCHANGED want
     ELSE Goto(t, "upsert") /\ UNCHANGED <<vault, faults, want>>
  /\ UNCHANGED <<file, readable, setting, window, bounds, kept, removed>>

\* upsert_server, and its error.
Upsert(t) ==
  LET id == The(t)
      list == [file EXCEPT ![id] = Written(t)]
  IN
  /\ At(t, {"save"}, "upsert")
  /\ \/ /\ readable
        /\ file' = list
        /\ Returns(t, "retire", list)
        /\ want' = IF task[t].secret = None THEN want
                   ELSE [want EXCEPT ![id] = {task[t].secret}]
        /\ kept' = kept \cup {id}
        /\ UNCHANGED faults
     \/ /\ IF readable THEN Fault ELSE UNCHANGED faults
        /\ Goto(t, "undo")
        /\ UNCHANGED <<file, want, kept>>
  /\ UNCHANGED <<readable, setting, vault, window, bounds, removed>>

\* rollback_prepared_secrets.  Mutant: what was not changed is written as well.
RestoredAll(t) == task[t].undo
Restored(t) ==
  [id \in Ids |-> IF task[t].undo[id] = Kept THEN vault[id] ELSE task[t].undo[id]]
UndoSecret(t) ==
  /\ At(t, {"save"}, "undo")
  /\ \/ /\ vault' = Restored(t)
        /\ want' = [want EXCEPT ![The(t)] = @ \ {task[t].secret}]
        /\ UNCHANGED faults
     \/ Fault /\ UNCHANGED <<vault, want>>
  /\ Ends(t, FALSE)
  /\ UNCHANGED <<file, readable, setting, window, bounds, kept, removed>>

\* delete_retired_connection_credentials.
Retire(t) ==
  LET id == The(t)
      retired == /\ task[t].old[id] # Absent
                 /\ task[t].old[id].ref /\ ~task[t].new[id].ref
  IN
  /\ At(t, {"save"}, "retire")
  /\ \/ vault' = (IF retired THEN [vault EXCEPT ![id] = None] ELSE vault) /\ UNCHANGED faults
     \/ retired /\ Fault /\ UNCHANGED vault
  /\ Ends(t, TRUE)
  /\ UNCHANGED <<file, readable, setting, window, bounds, ghosts>>

\* remove_server, remove_servers.
Drop(t) ==
  LET list == [id \in Ids |-> IF id \in task[t].ids THEN Absent ELSE file[id]] IN
  /\ At(t, {"remove", "batch"}, "drop")
  /\ \/ /\ readable
        /\ task[t].kind = "batch" => task[t].ids \subseteq Present(file)
        /\ file' = list
        /\ Returns(t, "forget", list)
        /\ kept' = kept \ task[t].ids
        /\ removed' = removed \cup task[t].ids
        /\ UNCHANGED faults
     \/ /\ IF readable /\ task[t].ids \subseteq Present(file) THEN Fault
           ELSE UNCHANGED faults
        /\ Ends(t, FALSE)
        /\ UNCHANGED <<file, kept, removed>>
  /\ UNCHANGED <<readable, setting, vault, window, bounds, want>>

\* delete_server_credentials, of the record that the GUI had; an error is a
\* warning.  Mutant: it is the result.
FailsToForget(t) == Ends(t, FALSE)
WarnsOnly(t) == Ends(t, TRUE)
Forget(t) ==
  /\ At(t, {"remove", "batch"}, "forget")
  /\ \/ /\ vault' = [id \in Ids |->
             IF id \in task[t].ids /\ task[t].old[id] # Absent /\ task[t].old[id].ref
             THEN None ELSE vault[id]]
        /\ Ends(t, TRUE)
        /\ UNCHANGED faults
     \/ Fault /\ WarnsOnly(t) /\ UNCHANGED vault
  /\ UNCHANGED <<file, readable, setting, window, bounds, ghosts>>

\* update_server_preferences_batch.  It keeps every field modelled here.
\* Its error, and that of save_settings: rollback_credential_storage_change.
\* Mutant: the records are left as the migration made them.
LeaveMigrated(t) == Ends(t, FALSE)
Migrating(t) == task[t].target # task[t].from
Abandon(t) ==
  IF task[t].kind = "settings" /\ Migrating(t) THEN Goto(t, "restore") ELSE Ends(t, FALSE)
WritePreferences(t) ==
  LET ids == IF task[t].kind = "settings" THEN task[t].shown ELSE task[t].ids IN
  /\ At(t, {"preferences", "settings"}, "preferences")
  /\ \/ /\ readable
        /\ ids \subseteq Present(file)
        /\ IF task[t].kind = "settings" THEN Returns(t, "settings", file)
           ELSE task' = [task EXCEPT ![t].pc = "done", ![t].ok = TRUE, ![t].new = file]
        /\ UNCHANGED faults
     \/ /\ IF readable /\ ids \subseteq Present(file) THEN Fault ELSE UNCHANGED faults
        /\ Abandon(t)
  /\ UNCHANGED <<disk, window, bounds, ghosts>>

-----------------------------------------------------------------------------
(* configuration::save_settings when the credential storage changes        *)

Unprepared(t) == {id \in task[t].ids : task[t].undo[id] = Kept}

\* prepare_server_to_system and prepare_server_to_obscure, one server.  An
\* untouched credential is noted as such, so that it counts as prepared.  A write that
\* fails is undone by replace_verified itself; that may fail as well.
Prepare(t) ==
  /\ At(t, {"settings"}, "prepare")
  /\ \E id \in Unprepared(t) :
       LET record == task[t].old[id]
           reads == record.ref
           writes == task[t].target = "system" /\ ~record.ref /\ record.obscured # None
           done == [task[t].undo EXCEPT ![id] = vault[id]]
       IN
       \/ /\ reads => vault[id] # None
          /\ vault' = IF writes THEN [vault EXCEPT ![id] = record.obscured] ELSE vault
          /\ task' = [task EXCEPT
               ![t].undo = done,
               ![t].new = [@ EXCEPT ![id] =
                 [obscured |-> IF task[t].target = "obscure" /\ reads THEN vault[id]
                               ELSE record.obscured,
                  ref |-> reads \/ writes]]]
          /\ UNCHANGED faults
       \/ /\ IF reads /\ vault[id] = None THEN UNCHANGED faults ELSE Fault
          /\ Goto(t, "unprepare")
          /\ UNCHANGED vault
       \/ /\ writes
          /\ faults + 2 <= MaxFaults
          /\ faults' = faults + 2
          /\ vault' = [vault EXCEPT ![id] = record.obscured]
          /\ Goto(t, "unprepare")
  /\ UNCHANGED <<file, readable, setting, window, bounds, ghosts>>

Prepared(t) ==
  /\ At(t, {"settings"}, "prepare")
  /\ Unprepared(t) = {}
  /\ Goto(t, "save")
  /\ UNCHANGED <<disk, window, bounds, faults, ghosts>>

\* persist_and_reload_servers: save_servers does not read what it replaces.
SaveAll(t, pc, next) ==
  /\ At(t, {"settings"}, pc)
  /\ \/ file' = task[t].new /\ readable' = TRUE /\ Goto(t, next) /\ UNCHANGED faults
     \/ Fault /\ Goto(t, "restore") /\ UNCHANGED <<file, readable>>
  /\ UNCHANGED <<setting, vault, window, bounds, ghosts>>
SaveCandidates(t) == SaveAll(t, "save", "reload")
SaveFinal(t) == SaveAll(t, "save_final", "reload_final")

\* finalize_to_system keeps both copies, finalize_to_obscure drops the
\* references.
Final(t) ==
  [id \in Ids |-> IF task[t].new[id] = Absent THEN Absent
    ELSE [task[t].new[id] EXCEPT !.ref = @ /\ task[t].target = "system"]]
Reload(t) ==
  /\ At(t, {"settings"}, "reload")
  /\ \/ file = task[t].new /\ Returns(t, "save_final", Final(t))
        /\ UNCHANGED faults
     \/ /\ IF file = task[t].new THEN Fault ELSE UNCHANGED faults
        /\ Goto(t, "restore")
  /\ UNCHANGED <<disk, window, bounds, ghosts>>
ReloadFinal(t) ==
  /\ At(t, {"settings"}, "reload_final")
  /\ \/ file = task[t].new /\ Goto(t, "preferences") /\ UNCHANGED faults
     \/ /\ IF file = task[t].new THEN Fault ELSE UNCHANGED faults
        /\ Goto(t, "restore")
  /\ UNCHANGED <<disk, window, bounds, ghosts>>

\* clear_rclone_remote_secrets, then save_settings.
WriteSettings(t) ==
  /\ At(t, {"settings"}, "settings")
  /\ \/ setting' = task[t].target /\ Goto(t, "retire") /\ UNCHANGED faults
     \/ /\ Fault
        /\ Abandon(t)
        /\ UNCHANGED setting
  /\ UNCHANGED <<file, readable, vault, window, bounds, ghosts>>

\* retire_system_references.
RetireAll(t) ==
  LET retired == {id \in task[t].ids :
        Migrating(t) /\ task[t].target = "obscure" /\ task[t].old[id].ref} IN
  /\ At(t, {"settings"}, "retire")
  /\ \/ vault' = [id \in Ids |-> IF id \in retired THEN None ELSE vault[id]]
        /\ UNCHANGED faults
     \/ retired # {} /\ Fault /\ UNCHANGED vault
  /\ Ends(t, TRUE)
  /\ UNCHANGED <<file, readable, setting, window, bounds, ghosts>>

\* rollback_migrations_after_persistence: the credentials are kept when the
\* records cannot be put back.  Mutant: they are restored all the same.
UndoAnyway(t) == Goto(t, "unprepare")
GiveUp(t) == Ends(t, FALSE)
Restore(t) ==
  /\ At(t, {"settings"}, "restore")
  /\ \/ file' = task[t].old /\ readable' = TRUE /\ Goto(t, "unprepare") /\ UNCHANGED faults
     \/ Fault /\ GiveUp(t) /\ UNCHANGED <<file, readable>>
  /\ UNCHANGED <<setting, vault, window, bounds, ghosts>>

\* CredentialMigration::rollback, one credential that may fail.
Unprepare(t) ==
  /\ At(t, {"settings"}, "unprepare")
  /\ \/ vault' = Restored(t) /\ UNCHANGED faults
     \/ Fault /\ \E id \in Ids : vault' = [Restored(t) EXCEPT ![id] = vault[id]]
  /\ Ends(t, FALSE)
  /\ UNCHANGED <<file, readable, setting, window, bounds, ghosts>>

-----------------------------------------------------------------------------
\* The application ends, in the middle of whatever its tasks do, and is
\* started again: App::new.
Restart ==
  /\ restarts < MaxRestarts
  /\ restarts' = restarts + 1
  /\ task' = [t \in Slots |-> NoTask]
  /\ readable' \in (IF Unreadable THEN {FALSE, readable} ELSE {readable})
  /\ gui' = IF readable' THEN file ELSE Nobody
  /\ setting' = IF \E id \in Present(gui') : gui'[id].ref /\ gui'[id].obscured = None
                THEN "system" ELSE setting
  /\ storage' = setting'
  /\ screen' = "list"
  /\ editorSaving' = FALSE /\ listSaving' = FALSE
  /\ UNCHANGED <<file, vault, draft, saves, removals, changes, faults, ghosts>>

Work(t) ==
  \/ PrepareSecret(t) \/ Upsert(t) \/ UndoSecret(t) \/ Retire(t)
  \/ Drop(t) \/ Forget(t) \/ WritePreferences(t)
  \/ Prepare(t) \/ Prepared(t) \/ SaveCandidates(t) \/ Reload(t) \/ SaveFinal(t)
  \/ ReloadFinal(t) \/ WriteSettings(t) \/ RetireAll(t) \/ Restore(t) \/ Unprepare(t)

User ==
  \/ OpenSettings \/ Navigate \/ SaveConnection \/ SaveSettings
  \/ \E id \in Ids : OpenEditor(id) \/ ConfirmRemove(id)
  \/ \E ids \in SUBSET Ids : BatchDelete(ids) \/ SavePreferences(ids)

Next == User \/ Restart \/ \E t \in Slots : Work(t) \/ Deliver(t)

Spec == Init /\ [][Next]_vars

-----------------------------------------------------------------------------
TypeOK ==
  /\ file \in Lists /\ gui \in Lists
  /\ readable \in BOOLEAN
  /\ {setting, storage} \subseteq {"obscure", "system"}
  /\ vault \in [Ids -> Secrets \cup {None}]
  /\ screen \in {"list", "batch", "editor", "settings"}
  /\ draft.id \in Ids \cup {None} /\ draft.record \in Record \cup {Absent}
  /\ draft.shown \subseteq Ids
  /\ editorSaving \in BOOLEAN /\ listSaving \in BOOLEAN
  /\ \A t \in Slots :
       /\ task[t].old \in Lists /\ task[t].new \in Lists
       /\ task[t].undo \in [Ids -> Secrets \cup {None, Kept}]
       /\ task[t].ids \subseteq Ids
  /\ want \in [Ids -> SUBSET Secrets]
  /\ kept \subseteq Ids /\ removed \subseteq Ids

\* What hydrate_server_from_system finds for a record.
Secret(id) == IF file[id].ref THEN vault[id] ELSE file[id].obscured

\* Whatever fails or ends half way, a saved connection answers with the secret
\* that was saved last, or with the one a save that was cut off had brought: as long
\* as a write that fails leaves its file as it was.
SecretKept == \A id \in Present(file) \ removed : Secret(id) \in want[id]

\* A connection that was saved and not removed is in the file.
ConnectionsKept == kept \subseteq Present(file)

\* A connection whose removal was written does not come back.
RemovedStaysRemoved == removed \cap Present(file) = {}

\* When no task is on its way the GUI lists the connections that are saved.  A
\* change of the storage that fails and cannot be undone leaves other records.
Quiet == \A t \in Slots : task[t].kind = "none"
GuiCurrent == Quiet => Present(gui) = Present(file)

\* A change of the credential storage that is reported as failed has left the
\* connections and the setting as they were, unless undoing it failed as well.
FailedChangeUndone ==
  \A t \in Slots :
    At(t, {"settings"}, "done") /\ ~task[t].ok /\ faults <= 1 =>
      file = task[t].old /\ setting = storage

\* The window is not locked for ever: a flag that is set has a task on its way
\* whose message clears it.
LockedByTask ==
  /\ editorSaving => \E t \in Slots : task[t].kind \in {"save", "settings", "remove"}
  /\ listSaving => \E t \in Slots : task[t].kind \in {"batch", "preferences"}

\* Saved connections stay until they are removed, and removed ones do not come back.
SavedOrRemoved == ConnectionsKept /\ RemovedStaysRemoved

\* The window unlocks, and shows, what it may.
GuiCurrentAndLocked == GuiCurrent /\ LockedByTask
=============================================================================
