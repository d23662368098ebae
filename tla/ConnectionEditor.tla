-------------------------- MODULE ConnectionEditor --------------------------
(***************************************************************************)
(* The mountpoints in the editor of a connection: the probe that runs      *)
(* while the user types (crates/mountmate-app/src/connection_editor.rs and *)
(* main.rs) and the save, which is one of the whole connection while none  *)
(* of its directories is mounted and one of the paths alone otherwise      *)
(* (storage.rs, update_mount_paths).                                       *)
(*                                                                         *)
(* A connection has two directories, the primary one and another.  They    *)
(* are mounted and unmounted by other processes too, which the window      *)
(* notices later; folders become usable and unusable at any moment.        *)
(***************************************************************************)
EXTENDS Naturals, FiniteSets

CONSTANTS
  Folders,   \* paths that the user may type
  MaxEdits,  \* bound: changes of the text, of the choice and drafts that are opened
  MaxWorld   \* bound: mounts, unmounts and changes of the folders

Rows == {"primary", "other"}
Auto == "auto"
Preset == "X:"         \* a text that is a preset while it is typed
Pending == "pending"   \* CUSTOM_MOUNTPOINT_PENDING
Unset == "none"

VARIABLES
  saved,      \* the mountpoint of each row in the file
  draft,      \* the mountpoint of each row in the editor; Unset when it is closed
  buffer,     \* the text in the box for a custom folder
  preflight,  \* what the editor knows about the primary mountpoint
  queue,      \* generation, probe that runs, probe that waits
  timers,     \* generations whose 300 ms have not passed
  probe,      \* the probe that runs
  saving,     \* the save that runs
  record,     \* rows that have a record
  seen,       \* rows that the window takes to be mounted
  usable,     \* folders that a probe would accept
  verdict,    \* ghost: folders found usable by a probe that began after their last change
  left        \* edits and changes of the world that are left

vars == <<saved, draft, buffer, preflight, queue, timers, probe, saving, record, seen, usable,
          verdict, left>>
editing == <<draft, buffer, preflight, queue, timers, probe, verdict>>
world == <<record, seen, usable>>

NoWait == [generation |-> 0, value |-> Unset, ready |-> FALSE]
NoProbe == [generation |-> 0, value |-> Unset, ok |-> FALSE, fresh |-> FALSE]
NoSave == [kind |-> Unset, next |-> [r \in Rows |-> Auto]]
Closed == [r \in Rows |-> Unset]

Init ==
  /\ saved \in [Rows -> {Auto} \cup Folders] /\ saved["other"] = Auto
  /\ draft = Closed /\ buffer = Unset
  /\ preflight = [state |-> "not required", value |-> Unset]
  /\ queue = [generation |-> 0, flight |-> 0, waits |-> NoWait]
  /\ timers = {} /\ probe = NoProbe /\ saving = NoSave
  /\ record \in SUBSET Rows /\ seen = record
  /\ usable = Folders /\ verdict = {}
  /\ left = [edits |-> MaxEdits, world |-> MaxWorld]

Spend(what) == left[what] > 0 /\ left' = [left EXCEPT ![what] = @ - 1]

\* mountpoint_choice, custom_mountpoint_draft_value
IsCustom(value) == value \notin {Auto, Preset}
DraftValue(text) == IF text = Unset \/ ~IsCustom(text) THEN Pending ELSE text

\* What a probe looks at: the text of the box while the draft has none.
Current(row, text) == IF row = Pending THEN text ELSE row

\* MountpointPreflightQueue::replace
Replace(value, timer) ==
  LET g == queue.generation + 1 IN
  /\ queue' = [queue EXCEPT !.generation = g,
                            !.waits = IF value = Unset THEN NoWait
                                      ELSE [generation |-> g, value |-> value, ready |-> FALSE]]
  /\ timers' = IF timer THEN timers \cup {g} ELSE timers
  /\ probe' = [probe EXCEPT !.fresh = FALSE]
  /\ verdict' = {}

Invalidate ==
  Replace(Unset, FALSE) /\ preflight' = [state |-> "not required", value |-> Unset]

\* start_mountpoint_preflight
Start(row, text) ==
  LET value == Current(row, text) IN
  IF ~IsCustom(row) THEN Invalidate
  ELSE IF value = Unset
  THEN Replace(Unset, FALSE) /\ preflight' = [state |-> "invalid", value |-> Unset]
  ELSE Replace(value, TRUE) /\ preflight' = [state |-> "checking", value |-> value]

IsOpen == draft # Closed
Idle == saving = NoSave
CanModify == seen = {}

\* Edit
Open ==
  /\ ~IsOpen /\ Idle /\ Spend("edits")
  /\ draft' = saved
  /\ LET text == IF IsCustom(saved["primary"]) THEN saved["primary"] ELSE Unset IN
     /\ buffer' = text
     /\ IF "primary" \notin seen THEN Start(saved["primary"], text) ELSE Invalidate
  /\ UNCHANGED <<saved, saving, world>>

\* CancelEditor
Cancel ==
  /\ IsOpen /\ Idle
  /\ draft' = Closed
  /\ Invalidate
  /\ UNCHANGED <<saved, buffer, saving, world, left>>

\* CustomMountpointChanged and MountpointPicked; ignored while the row is mounted.
Type(text) ==
  /\ IsOpen /\ Idle /\ "primary" \notin seen /\ text # buffer /\ Spend("edits")
  /\ buffer' = text
  /\ draft' = [draft EXCEPT !["primary"] = DraftValue(text)]
  /\ Start(DraftValue(text), text)
  /\ UNCHANGED <<saved, saving, world>>

\* MountpointChoiceChanged
Choose(custom) ==
  /\ IsOpen /\ Idle /\ "primary" \notin seen /\ Spend("edits")
  /\ LET text == IF IsCustom(draft["primary"]) /\ draft["primary"] # Pending
                 THEN draft["primary"] ELSE buffer
         row == IF custom THEN DraftValue(text) ELSE Auto
     IN /\ buffer' = text
        /\ draft' = [draft EXCEPT !["primary"] = row]
        /\ Start(row, text)
  /\ UNCHANGED <<saved, saving, world>>

\* MappingLocalChanged: the other row has no probe.
TypeOther(text) ==
  /\ IsOpen /\ Idle /\ "other" \notin seen /\ draft["other"] # text /\ Spend("edits")
  /\ draft' = [draft EXCEPT !["other"] = text]
  /\ UNCHANGED <<saved, buffer, preflight, queue, timers, probe, saving, world, verdict>>

\* take_ready, of a queue: one probe at a time.
RunReady(q) ==
  IF q.flight = 0 /\ q.waits.ready
  THEN /\ queue' = [q EXCEPT !.flight = q.waits.generation, !.waits = NoWait]
       /\ probe' = [generation |-> q.waits.generation, value |-> q.waits.value, ok |-> FALSE,
                    fresh |-> TRUE]
  ELSE queue' = q /\ probe' = IF q.flight = 0 THEN NoProbe ELSE probe

\* MountpointPreflightReady
Ready(g) ==
  /\ g \in timers /\ timers' = timers \ {g}
  /\ RunReady(IF queue.waits.generation = g THEN [queue EXCEPT !.waits.ready = TRUE] ELSE queue)
  /\ UNCHANGED <<saved, draft, buffer, preflight, saving, world, verdict, left>>

\* preflight_custom_mountpoint looks at the folder.
Probe ==
  /\ probe # NoProbe /\ probe.value \in usable /\ ~probe.ok
  /\ probe' = [probe EXCEPT !.ok = TRUE]
  /\ UNCHANGED <<saved, draft, buffer, preflight, queue, timers, saving, world, verdict, left>>

\* Mutant: a result is of use whenever the text is the same.
SameText(result) == result.value = Current(draft["primary"], buffer)

\* mountpoint_preflight_result_is_current
IsCurrent(result) ==
  /\ result.generation = queue.generation
  /\ result.value = Current(draft["primary"], buffer)

\* MountpointPreflightFinished
Finished ==
  /\ probe # NoProbe
  /\ preflight' = IF IsOpen /\ IsCurrent(probe)
                  THEN [state |-> IF probe.ok THEN "valid" ELSE "invalid", value |-> probe.value]
                  ELSE preflight
  /\ verdict' = IF probe.fresh /\ probe.ok THEN {probe.value} ELSE verdict
  /\ RunReady([queue EXCEPT !.flight = IF @ = probe.generation THEN 0 ELSE @])
  /\ UNCHANGED <<saved, draft, buffer, timers, saving, world, left>>

\* allows_save
AllowsSave == preflight.state \in {"not required", "valid"}

\* validate_mount_mappings: the rows of a connection are at different places, and the text
\* is a path.
ValidRows(rows) ==
  /\ rows["primary"] # Pending
  /\ rows["primary"] = Auto \/ rows["primary"] # rows["other"]

\* save_connection
BeginSave ==
  /\ IsOpen /\ Idle /\ ValidRows(draft)
  /\ ~CanModify \/ ~IsCustom(draft["primary"]) \/ AllowsSave
  /\ saving' = [kind |-> IF CanModify THEN "all" ELSE "check", next |-> draft]
  /\ UNCHANGED <<saved, editing, world, left>>

\* ConnectionSaved, of a save that failed: the draft stays open.
Fail == saving' = NoSave /\ UNCHANGED <<saved, draft, preflight, queue, timers, probe, verdict>>

\* ConnectionSaved
Done ==
  /\ saved' = saving.next /\ saving' = NoSave /\ draft' = Closed
  /\ Invalidate

\* upsert_server: the file has the connection as it was edited.
SaveAll ==
  /\ saving.kind = "all" /\ Done
  /\ UNCHANGED <<buffer, world, left>>

\* preflight_changed_mappings: a folder that another row or an older connection did not have.
CheckPaths ==
  /\ saving.kind = "check"
  /\ LET changed == {saving.next[r] : r \in {x \in Rows : saving.next[x] # saved[x]
                                                            /\ IsCustom(saving.next[x])}}
     IN IF changed \subseteq usable
        THEN /\ saving' = [saving EXCEPT !.kind = "paths"]
             /\ verdict' = verdict \cup changed
             /\ UNCHANGED <<saved, draft, preflight, queue, timers, probe>>
        ELSE Fail
  /\ UNCHANGED <<buffer, world, left>>

\* Mutant: only what the window knows counts.
SeenMounted(rows) == \A r \in seen : rows[r] = saved[r]

\* No row with a record changes.
MountedKept(rows) == \A r \in record : rows[r] = saved[r]

\* update_mount_paths, under the locks of the list and of the rows
SavePaths ==
  /\ saving.kind = "paths"
  /\ IF MountedKept(saving.next) THEN Done ELSE Fail
  /\ UNCHANGED <<buffer, world, left>>

\* A row is mounted or unmounted, by any process; the window notices.
Mount(r) ==
  /\ Spend("world")
  /\ record' = IF r \in record THEN record \ {r} ELSE record \cup {r}
  /\ UNCHANGED <<saved, editing, saving, seen, usable>>
Look ==
  /\ seen # record /\ seen' = record
  /\ UNCHANGED <<saved, editing, saving, record, usable, left>>

\* A folder is taken, or given up.
Take(f) ==
  /\ Spend("world")
  /\ usable' = IF f \in usable THEN usable \ {f} ELSE usable \cup {f}
  /\ UNCHANGED <<saved, editing, saving, record, seen>>

Next ==
  \/ Open \/ Cancel \/ Probe \/ Finished \/ BeginSave \/ SaveAll \/ CheckPaths \/ SavePaths \/ Look
  \/ \E text \in Folders \cup {Preset, Unset} : Type(text)
  \/ \E custom \in BOOLEAN : Choose(custom)
  \/ \E text \in Folders \cup {Auto} : TypeOther(text)
  \/ \E g \in timers : Ready(g)
  \/ \E r \in Rows : Mount(r)
  \/ \E f \in Folders : Take(f)

Spec == Init /\ [][Next]_vars

-----------------------------------------------------------------------------
\* Every variable holds what its declaration says.
TypeOK ==
  /\ saved \in [Rows -> {Auto, Preset} \cup Folders]
  /\ draft \in [Rows -> {Auto, Preset, Pending, Unset} \cup Folders]
  /\ buffer \in {Auto, Preset, Unset} \cup Folders
  /\ preflight.state \in {"not required", "checking", "valid", "invalid"}
  /\ timers \subseteq 1 .. queue.generation /\ queue.flight = probe.generation
  /\ saving.kind \in {Unset, "all", "check", "paths"}
  /\ record \subseteq Rows /\ seen \subseteq Rows /\ usable \subseteq Folders

\* A folder is saved for the primary mount only after a probe that began when it was typed
\* last found it usable, or when the connection had it already: the late answer for an older
\* text, or for another draft, does not count. (Every step.)
SavedChecked ==
  saved'["primary"] \in Folders /\ saved'["primary"] # saved["primary"] =>
    saved'["primary"] \in verdict

\* "Mounted mappings are immutable": while another directory of the connection is mounted,
\* a save changes no row that has a record, also when the window has not noticed it.
\* (Every step.)
MountedRowsKept ==
  saving.kind = "paths" => \A r \in record : saved'[r] = saved[r]
=============================================================================
