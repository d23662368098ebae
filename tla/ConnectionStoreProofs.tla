----------------------- MODULE ConnectionStoreProofs ------------------------
(***************************************************************************)
(* Proofs about ConnectionStore, for any connections, any number of saves, *)
(* removals and changes of the settings, failures of every call and ends   *)
(* of the application between any two writes.  The types and the flags are *)
(* proved whatever overlaps, what is in the file for removals that wait    *)
(* for one another: it does not hold otherwise.                            *)
(***************************************************************************)
EXTENDS ConnectionStore, WellFoundedInduction, TLAPS

-----------------------------------------------------------------------------
(* Types                                                                   *)

\* The secrets that a save has brought so far.
Known == 0 .. saves
Records == [obscured : Known \cup {None}, ref : BOOLEAN]
Listings == [Ids -> Records \cup {Absent}]
Storages == {"obscure", "system"}
Kinds == {"none", "save", "settings", "remove", "batch", "preferences"}
Pcs == {"secret", "upsert", "undo", "retire", "drop", "forget", "preferences", "prepare",
        "save", "reload", "save_final", "reload_final", "settings", "restore",
        "unprepare", "done"}
Jobs ==
  [kind : Kinds, pc : Pcs, ids : SUBSET Ids, secret : Known \cup {None},
   old : Listings, new : Listings, undo : [Ids -> Known \cup {None, Kept}],
   shown : SUBSET Ids, from : Storages, target : Storages, ok : BOOLEAN]

\* A save is about one connection, a change of the settings about those of its snapshot.
Fits(job) ==
  /\ job.kind = "save" => \E id \in Ids : job.ids = {id}
  /\ job.kind = "settings" => job.ids \subseteq Present(job.old)
Subjects == \A t \in Slots : Fits(task[t])

\* Every value is of a save that was made; the draft of an open page is filled.
Types ==
  /\ file \in Listings /\ gui \in Listings
  /\ readable \in BOOLEAN
  /\ setting \in Storages /\ storage \in Storages
  /\ vault \in [Ids -> Known \cup {None}]
  /\ screen \in {"list", "batch", "editor", "settings"}
  /\ draft.id \in Ids \cup {None} /\ draft.record \in Records \cup {Absent}
  /\ draft.shown \subseteq Ids
  /\ screen = "editor" => draft.id \in Ids
  /\ editorSaving \in BOOLEAN /\ listSaving \in BOOLEAN
  /\ task \in [Slots -> Jobs] /\ Subjects
  /\ saves \in 0 .. MaxSaves /\ faults \in Nat
  /\ want \in [Ids -> SUBSET Known]
  /\ kept \subseteq Ids /\ removed \subseteq Ids

\* The assumptions on the constants, as the proofs use them.
LEMMA Constants ==
  /\ Existing \subseteq Ids /\ 1 \in Slots
  /\ None \notin Ids /\ None # Kept /\ None \notin Nat /\ Kept \notin Nat
  /\ Absent \notin [obscured : Nat \cup {None}, ref : BOOLEAN]
BY ConnectionStoreAssumption DEF Slots

\* A step that saves nothing new changes no type.
LEMMA SameSaves ==
  ASSUME UNCHANGED saves
  PROVE  Known' = Known /\ Records' = Records /\ Listings' = Listings /\ Jobs' = Jobs
BY DEF Known, Records, Listings, Jobs

\* A secret that is known stays known.
LEMMA MoreSaves ==
  ASSUME Types, saves' = saves + 1
  PROVE  /\ Known \subseteq Known' /\ saves + 1 \in Known' /\ saves + 1 \in Nat \ Known
         /\ Records \subseteq Records' /\ Listings \subseteq Listings' /\ Jobs \subseteq Jobs'
<1>1. saves \in Nat
  BY ConnectionStoreAssumption DEF Types
<1>2. Known \subseteq Known' /\ saves + 1 \in Known' /\ saves + 1 \in Nat \ Known
  BY <1>1 DEF Known
<1>3. Records \subseteq Records'
  BY <1>2 DEF Records
<1>4. Listings \subseteq Listings'
  BY <1>3 DEF Listings
<1>5. Jobs \subseteq Jobs'
  BY <1>2, <1>4 DEF Jobs
<1> QED  BY <1>2, <1>3, <1>4, <1>5

\* An empty task, and what it is made of, has its type.
LEMMA Nothing ==
  /\ NoTask \in Jobs /\ Nobody \in Listings
  /\ Unchanged \in [Ids -> Known \cup {None, Kept}]
<1>1. Nobody \in Listings
  BY DEF Nobody, Listings
<1>2. Unchanged \in [Ids -> Known \cup {None, Kept}]
  BY DEF Unchanged
<1> QED  BY <1>1, <1>2 DEF NoTask, Jobs, Kinds, Pcs, Storages

\* What the operators that change a task do to it.
LEMMA GotoTypes ==
  ASSUME Types, NEW t \in Slots, NEW pc \in Pcs, Goto(t, pc)
  PROVE  task' \in [Slots -> Jobs] /\ Subjects'
<1>1. task \in [Slots -> Jobs] /\ task[t] \in Jobs
  BY DEF Types
<1>2. [task[t] EXCEPT !.pc = pc] \in Jobs
  BY <1>1 DEF Jobs
<1>3. task' = [task EXCEPT ![t] = [task[t] EXCEPT !.pc = pc]]
  BY DEF Goto
<1>4. \A u \in Slots : task'[u].kind = task[u].kind /\ task'[u].ids = task[u].ids
                       /\ task'[u].old = task[u].old
  BY <1>1, <1>3 DEF Jobs
<1> QED  BY <1>1, <1>2, <1>3, <1>4 DEF Types, Subjects, Fits

\* So does a step that takes a list along.
LEMMA ReturnsTypes ==
  ASSUME Types, NEW t \in Slots, NEW pc \in Pcs, NEW list \in Listings, Returns(t, pc, list)
  PROVE  task' \in [Slots -> Jobs] /\ Subjects'
<1>1. task \in [Slots -> Jobs] /\ task[t] \in Jobs
  BY DEF Types
<1>2. [task[t] EXCEPT !.pc = pc, !.new = list] \in Jobs
  BY <1>1 DEF Jobs
<1>3. task' = [task EXCEPT ![t] = [task[t] EXCEPT !.pc = pc, !.new = list]]
  BY <1>1 DEF Returns
<1>4. \A u \in Slots : task'[u].kind = task[u].kind /\ task'[u].ids = task[u].ids
                       /\ task'[u].old = task[u].old
  BY <1>1, <1>3 DEF Jobs
<1> QED  BY <1>1, <1>2, <1>3, <1>4 DEF Types, Subjects, Fits

\* And the step that ends a task.
LEMMA EndsTypes ==
  ASSUME Types, NEW t \in Slots, NEW ok \in BOOLEAN, Ends(t, ok)
  PROVE  task' \in [Slots -> Jobs] /\ Subjects'
<1>1. task \in [Slots -> Jobs] /\ task[t] \in Jobs
  BY DEF Types
<1>2. [task[t] EXCEPT !.pc = "done", !.ok = ok] \in Jobs
  BY <1>1 DEF Jobs, Pcs
<1>3. task' = [task EXCEPT ![t] = [task[t] EXCEPT !.pc = "done", !.ok = ok]]
  BY <1>1 DEF Ends
<1>4. \A u \in Slots : task'[u].kind = task[u].kind /\ task'[u].ids = task[u].ids
                       /\ task'[u].old = task[u].old
  BY <1>1, <1>3 DEF Jobs
<1> QED  BY <1>1, <1>2, <1>3, <1>4 DEF Types, Subjects, Fits

\* Among slots there is a first one.
LEMMA FirstOf ==
  ASSUME NEW S, S \subseteq Nat, S # {},
         NEW R, IsWellFoundedOn(R, Nat), \A x, y \in Nat : x < y => <<x, y>> \in R
  PROVE  \E x \in S : \A y \in S : x <= y
<1>1. PICK x \in S : \A y \in S : ~(<<y, x>> \in R)
  <2> DEFINE HasFirst(Rel, T) == \E x \in T : \A y \in T : ~(<<y, x>> \in Rel)
  <2>1. ASSUME NEW Rel, NEW D, IsWellFoundedOn(Rel, D), NEW T, T \subseteq D, T # {}
        PROVE  HasFirst(Rel, T)
    BY <2>1, WFMin
  <2> HIDE DEF HasFirst
  <2>2. HasFirst(R, S)
    BY <2>1
  <2> QED  BY <2>2 DEF HasFirst
<1>2. ASSUME NEW y \in S  PROVE x <= y
  <2>1. ~(<<y, x>> \in R) /\ x \in Nat /\ y \in Nat
    BY <1>1
  <2>2. ~(y < x)
    BY <2>1
  <2> QED  BY <2>1, <2>2
<1> QED  BY <1>2

\* The natural numbers are well founded, so the slots are.
LEMMA First == \A S : S \subseteq Nat /\ S # {} => \E x \in S : \A y \in S : x <= y
<1>1. \A x, y \in Nat : x < y => <<x, y>> \in OpToRel(<, Nat)
  BY Zenon DEF OpToRel
<1> QED  BY <1>1, NatLessThanWellFounded, FirstOf, Zenon

\* The slot that a new task takes was free.
Slot(t) == t \in Slots /\ task[t].kind = "none"
\* A new task takes the first slot that is free.
LEMMA SpawnSlot ==
  ASSUME NEW job, Spawn(job)
  PROVE  \E t : Slot(t) /\ (\A u \in Slots : task[u].kind = "none" => t <= u)
                /\ task' = [task EXCEPT ![t] = job]
<1> DEFINE free == {t \in Slots : task[t].kind = "none"}
           Least(t) == \A u \in free : t <= u
           first == CHOOSE u \in free : Least(u)
<1>1. free \subseteq Nat /\ free # {}
  BY DEF Spawn, Slots
<1>2. \E t \in free : Least(t)
  BY <1>1, First
<1>3. first \in free /\ Least(first)
  BY <1>2
<1>4. task' = [task EXCEPT ![first] = job]
  BY DEF Spawn
<1> QED  BY <1>3, <1>4 DEF Slot

\* A new task of the right type leaves all tasks so.
LEMMA SpawnTypes ==
  ASSUME Types, NEW job \in Jobs, Spawn(job),
         Fits(job)
  PROVE  task' \in [Slots -> Jobs] /\ Subjects'
<1>1. PICK t : Slot(t) /\ task' = [task EXCEPT ![t] = job]
  BY SpawnSlot
<1>2. \A u \in Slots : task'[u] = IF u = t THEN job ELSE task[u]
  BY <1>1 DEF Types
<1> QED  BY <1>1, <1>2 DEF Types, Slot, Subjects

\* The types hold at the beginning.
THEOREM InitTypes == Init => Types
<1> SUFFICES ASSUME Init  PROVE Types
  OBVIOUS
<1>1. saves = 0 /\ Known = {0} /\ 0 \in 0 .. MaxSaves
  BY ConnectionStoreAssumption DEF Init, Known
<1>2. file \in Listings
  <2>1. PICK legacy \in BOOLEAN :
          file = [id \in Ids |->
            IF id \notin Existing THEN Absent
            ELSE [obscured |-> IF setting = "system" /\ legacy THEN None ELSE 0,
                  ref |-> setting = "system"]]
    BY DEF Init
  <2>2. \A id \in Ids : file[id] \in Records \cup {Absent}
    <3> SUFFICES ASSUME NEW id \in Ids  PROVE file[id] \in Records \cup {Absent}
      OBVIOUS
    <3>1. (IF setting = "system" /\ legacy THEN None ELSE 0) \in Known \cup {None}
      BY <1>1
    <3>2. (setting = "system") \in BOOLEAN
      OBVIOUS
    <3> QED  BY <2>1, <3>1, <3>2 DEF Records
  <2> QED  BY <2>1, <2>2 DEF Listings
<1>3. task \in [Slots -> Jobs] /\ Subjects
  BY Nothing DEF Init, NoTask, Subjects, Fits
<1>4. vault \in [Ids -> Known \cup {None}] /\ want \in [Ids -> SUBSET Known]
  BY <1>1 DEF Init
<1> QED  BY <1>1, <1>2, <1>3, <1>4, Constants DEF Init, Types, Storages

\* The handlers of the window.
LEMMA WindowTypes ==
  ASSUME Types, OpenSettings \/ Navigate \/ \E id \in Ids : OpenEditor(id)
  PROVE  Types'
<1>1. UNCHANGED <<disk, gui, storage, editorSaving, listSaving, task, bounds, faults, ghosts>>
  BY DEF OpenSettings, Navigate, OpenEditor
<1>2. Known' = Known /\ Records' = Records /\ Listings' = Listings /\ Jobs' = Jobs
  BY <1>1, SameSaves DEF bounds
<1>3. CASE OpenSettings
  BY <1>1, <1>2, <1>3 DEF OpenSettings, Types, Subjects, Fits, Present, disk, bounds, ghosts
<1>4. CASE Navigate
  BY <1>1, <1>2, <1>4 DEF Navigate, Types, Subjects, Fits, Present, disk, bounds, ghosts
<1>5. ASSUME NEW id \in Ids, OpenEditor(id)  PROVE Types'
  <2>1. gui[id] \in Records \cup {Absent}
    BY DEF Types, Listings
  <2> QED  BY <1>1, <1>2, <1>5, <2>1
       DEF OpenEditor, Types, Subjects, Fits, Present, disk, bounds, ghosts
<1> QED  BY <1>3, <1>4, <1>5

\* A save brings a secret that nothing has yet.
LEMMA SaveConnectionTypes ==
  ASSUME Types, SaveConnection
  PROVE  Types'
<1>1. saves' = saves + 1 /\ saves < MaxSaves /\ draft.id \in Ids
  BY DEF SaveConnection, Types
<1>2. PICK secret \in {saves + 1} \cup {None} :
        /\ Spawn([NoTask EXCEPT
                   !.kind = "save", !.pc = "secret", !.ids = {draft.id}, !.secret = secret,
                   !.old = gui, !.new = [Nobody EXCEPT ![draft.id] = draft.record],
                   !.target = storage])
        /\ want' = IF secret = None THEN want
                   ELSE [want EXCEPT ![draft.id] = @ \cup {secret}]
  BY DEF SaveConnection
<1> DEFINE job == [NoTask EXCEPT
                   !.kind = "save", !.pc = "secret", !.ids = {draft.id}, !.secret = secret,
                   !.old = gui, !.new = [Nobody EXCEPT ![draft.id] = draft.record],
                   !.target = storage]
<1>3. job \in Jobs'
  <2>1. NoTask \in Jobs' /\ Nobody \in Listings'
    BY <1>1, MoreSaves, Nothing
  <2>2. gui \in Listings' /\ draft.record \in Records' \cup {Absent}
        /\ secret \in Known' \cup {None} /\ storage \in Storages
    BY <1>1, <1>2, MoreSaves DEF Types
  <2>3. [Nobody EXCEPT ![draft.id] = draft.record] \in Listings'
    BY <1>1, <2>1, <2>2 DEF Listings
  <2> HIDE DEF NoTask
  <2> QED  BY <1>1, <2>1, <2>2, <2>3 DEF Jobs, Kinds, Pcs
<1>4. task' \in [Slots -> Jobs'] /\ Subjects'
  <2> HIDE DEF job
  <2>1. PICK t : Slot(t) /\ task' = [task EXCEPT ![t] = job]
    BY <1>2, SpawnSlot DEF job
  <2>2. task \in [Slots -> Jobs']
    BY <1>1, MoreSaves DEF Types
  <2>3. \A u \in Slots : task'[u] = IF u = t THEN job ELSE task[u]
    BY <2>1, <2>2
  <2>4. job.ids = {draft.id}
    BY DEF job, NoTask
  <2> QED  BY <1>1, <1>3, <2>1, <2>2, <2>3, <2>4 DEF Slot, Types, Subjects, Fits, NoTask, job
<1>5. want' \in [Ids -> SUBSET Known']
  BY <1>1, <1>2, MoreSaves, Constants DEF Types
<1>6. saves' \in 0 .. MaxSaves
  BY <1>1, ConnectionStoreAssumption DEF Types
<1>7. UNCHANGED <<disk, gui, storage, screen, draft, listSaving, faults, kept, removed>>
      /\ editorSaving' = TRUE
  BY DEF SaveConnection
<1> QED  BY <1>1, <1>4, <1>5, <1>6, <1>7, MoreSaves DEF Types, disk

\* A change of the settings takes what the page has loaded.
LEMMA SaveSettingsTypes ==
  ASSUME Types, SaveSettings
  PROVE  Types'
<1>1. UNCHANGED <<disk, gui, storage, screen, draft, listSaving, saves, faults, ghosts>>
      /\ editorSaving' = TRUE
  BY DEF SaveSettings
<1>2. Known' = Known /\ Records' = Records /\ Listings' = Listings /\ Jobs' = Jobs
  BY <1>1, SameSaves
<1>3. PICK target \in Storages :
       Spawn([NoTask EXCEPT
                !.kind = "settings",
                !.pc = IF target = storage THEN "preferences" ELSE "prepare",
                !.ids = Present(gui), !.old = gui, !.new = gui, !.shown = draft.shown,
                !.from = storage, !.target = target])
  BY DEF SaveSettings, Storages
<1> DEFINE job == [NoTask EXCEPT
                !.kind = "settings",
                !.pc = IF target = storage THEN "preferences" ELSE "prepare",
                !.ids = Present(gui), !.old = gui, !.new = gui, !.shown = draft.shown,
                !.from = storage, !.target = target]
<1>4. job \in Jobs
  <2>1. Present(gui) \subseteq Ids
    BY DEF Present
  <2> HIDE DEF NoTask
  <2> QED  BY <2>1, Nothing DEF Types, Jobs, Kinds, Pcs
<1>5. task' \in [Slots -> Jobs] /\ Subjects'
  <2>1. Fits(job)
    BY DEF NoTask, Fits
  <2> HIDE DEF job
  <2> QED  BY <1>3, <1>4, <2>1, SpawnTypes DEF job
<1> QED  BY <1>1, <1>2, <1>5 DEF Types, disk, ghosts

\* Removals take a snapshot of the list.
LEMMA RemovalTypes ==
  ASSUME Types, (\E id \in Ids : ConfirmRemove(id)) \/ \E ids \in SUBSET Ids : BatchDelete(ids)
  PROVE  Types'
<1>1. UNCHANGED <<disk, gui, storage, screen, draft, saves, faults, ghosts>>
      /\ editorSaving' \in BOOLEAN /\ listSaving' \in BOOLEAN
  BY DEF ConfirmRemove, BatchDelete, Types
<1>2. Known' = Known /\ Records' = Records /\ Listings' = Listings /\ Jobs' = Jobs
  BY <1>1, SameSaves
<1>3. PICK kind \in {"remove", "batch"}, ids \in SUBSET Ids :
        Spawn([NoTask EXCEPT !.kind = kind, !.pc = "drop", !.ids = ids, !.old = gui])
  BY DEF ConfirmRemove, BatchDelete
<1>4. [NoTask EXCEPT !.kind = kind, !.pc = "drop", !.ids = ids, !.old = gui] \in Jobs
  BY Nothing DEF Types, Jobs, Kinds, Pcs
<1>5. task' \in [Slots -> Jobs] /\ Subjects'
  BY <1>3, <1>4, SpawnTypes DEF NoTask, Fits
<1> QED  BY <1>1, <1>2, <1>5 DEF Types, disk, ghosts

\* Preferences take the connections only.
LEMMA SavePreferencesTypes ==
  ASSUME Types, NEW ids \in SUBSET Ids, SavePreferences(ids)
  PROVE  Types'
<1>1. UNCHANGED <<disk, gui, storage, screen, draft, editorSaving, saves, faults, ghosts>>
      /\ listSaving' = TRUE
  BY DEF SavePreferences, bounds
<1>2. Known' = Known /\ Records' = Records /\ Listings' = Listings /\ Jobs' = Jobs
  BY <1>1, SameSaves
<1>3. [NoTask EXCEPT !.kind = "preferences", !.pc = "preferences", !.ids = ids] \in Jobs
  BY Nothing DEF Jobs, Kinds, Pcs
<1>4. task' \in [Slots -> Jobs] /\ Subjects'
  BY <1>3, SpawnTypes DEF SavePreferences, NoTask, Fits
<1> QED  BY <1>1, <1>2, <1>4 DEF Types, disk, ghosts

\* A message hands over the list of its task.
LEMMA DeliverTypes ==
  ASSUME Types, NEW t \in Slots, Deliver(t)
  PROVE  Types'
<1>1. UNCHANGED <<disk, draft, saves, faults, ghosts>>
  BY DEF Deliver, bounds
<1>2. Known' = Known /\ Records' = Records /\ Listings' = Listings /\ Jobs' = Jobs
  BY <1>1, SameSaves
<1>3. task[t] \in Jobs
  BY DEF Types
<1>4. task' \in [Slots -> Jobs] /\ Subjects'
  BY Nothing DEF Types, Deliver, Subjects, Fits, NoTask
<1>5. gui' \in Listings /\ storage' \in Storages
  BY <1>3 DEF Types, Deliver, Taken, Jobs
<1>6. screen' \in {"list", "batch", "editor", "settings"} /\ (screen' = "editor" => screen = "editor")
  BY DEF Types, Deliver
<1>7. editorSaving' \in BOOLEAN /\ listSaving' \in BOOLEAN
  BY DEF Types, Deliver
<1> QED  BY <1>1, <1>2, <1>4, <1>5, <1>6, <1>7 DEF Types, disk, ghosts

\* The steps of a task.
LEMMA Subject ==
  ASSUME Types, NEW t \in Slots, task[t].kind = "save"
  PROVE  The(t) \in Ids /\ task[t].ids = {The(t)}
BY DEF Types, Subjects, Fits, The

\* The steps of the save of one connection.
LEMMA SaveTypes ==
  ASSUME Types, NEW t \in Slots,
         PrepareSecret(t) \/ Upsert(t) \/ UndoSecret(t) \/ Retire(t)
  PROVE  Types'
<1>1. UNCHANGED <<readable, setting, window, saves, removed>>
  BY DEF PrepareSecret, Upsert, UndoSecret, Retire, bounds, ghosts
<1>2. Known' = Known /\ Records' = Records /\ Listings' = Listings /\ Jobs' = Jobs
  BY <1>1, SameSaves
<1>3. task[t] \in Jobs /\ The(t) \in Ids
  BY Subject DEF Types, PrepareSecret, Upsert, UndoSecret, Retire, At
<1>4. CASE PrepareSecret(t)
  <2>1. vault' \in [Ids -> Known \cup {None}] /\ want' \in [Ids -> SUBSET Known]
    <3>1. UNCHANGED vault \/ vault' = [vault EXCEPT ![The(t)] = task[t].secret]
      BY <1>4 DEF PrepareSecret
    <3>2. UNCHANGED want \/ want' = [want EXCEPT ![The(t)] = @ \ {task[t].secret}]
      BY <1>4 DEF PrepareSecret
    <3> QED  BY <1>3, <3>1, <3>2 DEF Types, Jobs
  <2>2. faults' \in Nat
    <3>1. faults' \in {faults, faults + 1, faults + 2}
      BY <1>4 DEF PrepareSecret, Fault
    <3> QED  BY <3>1 DEF Types
  <2>3. task' \in [Slots -> Jobs] /\ Subjects'
    <3>1. CASE Goto(t, "upsert")
      BY <3>1, GotoTypes DEF Pcs
    <3>2. CASE Ends(t, FALSE)
      BY <3>2, EndsTypes
    <3>3. CASE task' = [task EXCEPT ![t].pc = "upsert",
                                    ![t].undo = [Unchanged EXCEPT ![The(t)] = vault[The(t)]]]
      <4> DEFINE undo == [Unchanged EXCEPT ![The(t)] = vault[The(t)]]
      <4>1. undo \in [Ids -> Known \cup {None, Kept}]
        BY <1>3, Nothing DEF Types
      <4> HIDE DEF undo
      <4>2. [task[t] EXCEPT !.pc = "upsert", !.undo = undo] \in Jobs
        BY <1>3, <4>1 DEF Jobs, Pcs
      <4>3. task' = [task EXCEPT ![t] = [task[t] EXCEPT !.pc = "upsert", !.undo = undo]]
        BY <1>3, <3>3 DEF Types, undo
      <4>4. \A u \in Slots : task'[u].kind = task[u].kind /\ task'[u].ids = task[u].ids
                               /\ task'[u].old = task[u].old
        BY <1>3, <4>3 DEF Types, Jobs
      <4> QED  BY <4>2, <4>3, <4>4 DEF Types, Subjects, Fits
    <3> QED  BY <1>4, <3>1, <3>2, <3>3 DEF PrepareSecret
  <2>4. UNCHANGED <<file, kept>>
    BY <1>4 DEF PrepareSecret
  <2> QED  BY <1>1, <1>2, <2>1, <2>2, <2>3, <2>4 DEF Types, window
<1>5. CASE Upsert(t)
  <2> DEFINE list == [file EXCEPT ![The(t)] = Written(t)]
  <2>1. Written(t) \in Records \cup {Absent}
    BY <1>3 DEF Written, Edited, Jobs, Listings, Records
  <2>2. list \in Listings
    BY <2>1 DEF Types, Listings
  <2>3. task' \in [Slots -> Jobs] /\ Subjects'
    <3> HIDE DEF list
    <3>1. CASE Returns(t, "retire", list)
      BY <2>2, <3>1, ReturnsTypes DEF Pcs
    <3>2. CASE Goto(t, "undo")
      BY <3>2, GotoTypes DEF Pcs
    <3> QED  BY <1>5, <3>1, <3>2 DEF Upsert, list
  <2>4. file' \in Listings /\ kept' \subseteq Ids /\ faults' \in Nat
    BY <1>3, <1>5, <2>2 DEF Upsert, Types, Fault
  <2>5. want' \in [Ids -> SUBSET Known] /\ UNCHANGED vault
    BY <1>3, <1>5 DEF Upsert, Types, Jobs
  <2> QED  BY <1>1, <1>2, <2>3, <2>4, <2>5 DEF Types, window
<1>6. CASE UndoSecret(t) \/ Retire(t)
  <2>1. task' \in [Slots -> Jobs] /\ Subjects'
    BY <1>6, EndsTypes DEF UndoSecret, Retire
  <2>2. Restored(t) \in [Ids -> Known \cup {None}]
    BY <1>3 DEF Restored, Types, Jobs
  <2>3. vault' \in [Ids -> Known \cup {None}]
    BY <1>3, <1>6, <2>2 DEF UndoSecret, Retire, Types
  <2>4. want' \in [Ids -> SUBSET Known] /\ faults' \in Nat
    <3>1. UNCHANGED want \/ want' = [want EXCEPT ![The(t)] = @ \ {task[t].secret}]
      BY <1>6 DEF UndoSecret, Retire, ghosts
    <3>2. faults' \in {faults, faults + 1}
      BY <1>6 DEF UndoSecret, Retire, Fault
    <3> QED  BY <1>3, <3>1, <3>2 DEF Types, Jobs
  <2>5. UNCHANGED <<file, kept>>
    BY <1>6 DEF UndoSecret, Retire, ghosts
  <2> QED  BY <1>1, <1>2, <2>1, <2>3, <2>4, <2>5 DEF Types, window
<1> QED  BY <1>4, <1>5, <1>6

\* The steps of a removal, and of preferences.
LEMMA RemoveTypes ==
  ASSUME Types, NEW t \in Slots, Drop(t) \/ Forget(t) \/ WritePreferences(t)
  PROVE  Types'
<1>1. UNCHANGED <<readable, setting, window, saves, want>>
  BY DEF Drop, Forget, WritePreferences, bounds, ghosts, disk
<1>2. Known' = Known /\ Records' = Records /\ Listings' = Listings /\ Jobs' = Jobs
  BY <1>1, SameSaves
<1>3. task[t] \in Jobs
  BY DEF Types
<1>4. faults' \in Nat
  <2>1. faults' \in {faults, faults + 1}
    BY DEF Drop, Forget, WritePreferences, Fault
  <2> QED  BY <2>1 DEF Types
<1>5. CASE Drop(t)
  <2> DEFINE list == [id \in Ids |-> IF id \in task[t].ids THEN Absent ELSE file[id]]
  <2>1. list \in Listings
    BY DEF Types, Listings
  <2>2. task' \in [Slots -> Jobs] /\ Subjects'
    <3> HIDE DEF list
    <3>1. CASE Returns(t, "forget", list)
      BY <2>1, <3>1, ReturnsTypes DEF Pcs
    <3>2. CASE Ends(t, FALSE)
      BY <3>2, EndsTypes
    <3> QED  BY <1>5, <3>1, <3>2 DEF Drop, list
  <2>3. file' \in Listings /\ kept' \subseteq Ids /\ removed' \subseteq Ids
    BY <1>3, <1>5, <2>1 DEF Drop, Types, Jobs
  <2> QED  BY <1>1, <1>2, <1>4, <1>5, <2>2, <2>3 DEF Drop, Types, window
<1>6. CASE Forget(t)
  <2>1. task' \in [Slots -> Jobs] /\ Subjects'
    BY <1>6, EndsTypes DEF Forget, WarnsOnly
  <2>2. vault' \in [Ids -> Known \cup {None}]
    BY <1>6 DEF Forget, Types
  <2> QED  BY <1>1, <1>2, <1>4, <1>6, <2>1, <2>2 DEF Forget, Types, window, ghosts
<1>7. CASE WritePreferences(t)
  <2>1. task' \in [Slots -> Jobs] /\ Subjects'
    <3>1. CASE Returns(t, "settings", file)
      BY <3>1, ReturnsTypes DEF Types, Pcs
    <3>2. CASE Ends(t, FALSE)
      BY <3>2, EndsTypes
    <3>3. CASE Goto(t, "restore")
      BY <3>3, GotoTypes DEF Pcs
    <3>4. CASE task' = [task EXCEPT ![t].pc = "done", ![t].ok = TRUE, ![t].new = file]
      <4>1. [task[t] EXCEPT !.pc = "done", !.ok = TRUE, !.new = file] \in Jobs
        BY <1>3 DEF Types, Jobs, Pcs
      <4>2. task' = [task EXCEPT ![t] = [task[t] EXCEPT !.pc = "done", !.ok = TRUE, !.new = file]]
        BY <3>4 DEF Types
      <4>3. \A u \in Slots : task'[u].kind = task[u].kind /\ task'[u].ids = task[u].ids
                               /\ task'[u].old = task[u].old
        BY <1>3, <4>2 DEF Types, Jobs
      <4> QED  BY <4>1, <4>2, <4>3 DEF Types, Subjects, Fits
    <3> QED  BY <1>7, <3>1, <3>2, <3>3, <3>4 DEF WritePreferences, Abandon
  <2> QED  BY <1>1, <1>2, <1>4, <1>7, <2>1 DEF WritePreferences, Types, window, ghosts, disk
<1> QED  BY <1>5, <1>6, <1>7

\* One credential is prepared: what is written, and the record that is left.
PutsAside(t, id) == LET record == task[t].old[id] IN
  task[t].target = "system" /\ ~record.ref /\ record.obscured # None
PreparedRecord(t, id) == LET record == task[t].old[id] IN
  [obscured |-> IF task[t].target = "obscure" /\ record.ref THEN vault[id]
                ELSE record.obscured,
   ref |-> record.ref \/ PutsAside(t, id)]
PreparesOne(t, id) ==
  /\ task[t].kind = "settings" /\ task[t].pc = "prepare"
  /\ task[t].old[id].ref => vault[id] # None
  /\ vault' = IF PutsAside(t, id) THEN [vault EXCEPT ![id] = task[t].old[id].obscured] ELSE vault
  /\ task' = [task EXCEPT ![t].undo = [task[t].undo EXCEPT ![id] = vault[id]],
                          ![t].new = [@ EXCEPT ![id] = PreparedRecord(t, id)]]
  /\ UNCHANGED faults

\* The credential was written, the write was found to be wrong, and undoing it failed.
LeftBehind(t, id) ==
  /\ task[t].kind = "settings" /\ task[t].pc = "prepare"
  /\ PutsAside(t, id)
  /\ vault' = [vault EXCEPT ![id] = task[t].old[id].obscured]
  /\ Goto(t, "unprepare")
  /\ faults' = faults + 2

\* Preparing a credential works, or fails and is undone, or leaves the credential behind.
LEMMA PrepareCases ==
  ASSUME NEW t \in Slots, Prepare(t)
  PROVE  \/ \E id \in Unprepared(t) : PreparesOne(t, id)
         \/ Goto(t, "unprepare") /\ UNCHANGED vault
            /\ (faults' = faults + 1
                \/ UNCHANGED faults)
         \/ \E id \in Unprepared(t) : LeftBehind(t, id)
BY Zenon DEF Prepare, PreparesOne, PreparedRecord, PutsAside, LeftBehind, At, Fault

\* Either way the types hold.
LEMMA PrepareTypes ==
  ASSUME Types, NEW t \in Slots, Prepare(t)
  PROVE  Types'
<1>1. UNCHANGED <<file, readable, setting, window, saves, ghosts>>
  BY DEF Prepare, bounds
<1>2. Known' = Known /\ Records' = Records /\ Listings' = Listings /\ Jobs' = Jobs
  BY <1>1, SameSaves
<1>3. task[t] \in Jobs
  BY DEF Types
<1>4. faults' \in Nat
  <2>1. faults' \in {faults, faults + 1, faults + 2}
    BY DEF Prepare, Fault
  <2> QED  BY <2>1 DEF Types
<1>5. vault' \in [Ids -> Known \cup {None}] /\ task' \in [Slots -> Jobs] /\ Subjects'
  <2>1. CASE Goto(t, "unprepare") /\ UNCHANGED vault
    BY <2>1, GotoTypes DEF Pcs, Types
  <2>2. ASSUME NEW id \in Unprepared(t), PreparesOne(t, id)
        PROVE  vault' \in [Ids -> Known \cup {None}] /\ task' \in [Slots -> Jobs] /\ Subjects'
    <3> DEFINE record == task[t].old[id]
               undo == [task[t].undo EXCEPT ![id] = vault[id]]
               new == [task[t].new EXCEPT ![id] = PreparedRecord(t, id)]
    <3>1. id \in Ids /\ record \in Records
      BY <1>3, <2>2, Constants
         DEF Unprepared, PreparesOne, Jobs, Types, Subjects, Fits, Present,
         Listings
    <3>2. vault' \in [Ids -> Known \cup {None}]
      BY <2>2, <3>1 DEF PreparesOne, PutsAside, Types, Records
    <3>3. PreparedRecord(t, id) \in Records
      BY <3>1 DEF PreparedRecord, PutsAside, Types, Records
    <3>4. undo \in [Ids -> Known \cup {None, Kept}] /\ new \in Listings
      BY <1>3, <3>1, <3>3 DEF Types, Jobs, Listings
    <3> HIDE DEF undo, new
    <3>5. [task[t] EXCEPT !.undo = undo, !.new = new] \in Jobs
      BY <1>3, <3>4 DEF Jobs
    <3>6. task' = [task EXCEPT ![t] = [task[t] EXCEPT !.undo = undo, !.new = new]]
      BY <1>3, <2>2 DEF PreparesOne, undo, new
    <3>7. \A u \in Slots : task'[u].kind = task[u].kind /\ task'[u].ids = task[u].ids
                           /\ task'[u].old = task[u].old
      BY <1>3, <3>6 DEF Types, Jobs
    <3> QED  BY <3>2, <3>5, <3>6, <3>7 DEF Types, Subjects, Fits
  <2>3. ASSUME NEW id \in Unprepared(t), LeftBehind(t, id)
        PROVE  vault' \in [Ids -> Known \cup {None}] /\ task' \in [Slots -> Jobs] /\ Subjects'
    <3>1. task[t].old[id] \in Records
      BY <1>3, <2>3, Constants
         DEF Unprepared, LeftBehind, Jobs, Types, Subjects, Fits, Present, Listings
    <3>2. vault' \in [Ids -> Known \cup {None}]
      BY <2>3, <3>1 DEF LeftBehind, PutsAside, Types, Records
    <3>3. task' \in [Slots -> Jobs] /\ Subjects'
      BY <2>3, GotoTypes DEF LeftBehind, Pcs, Types
    <3> QED  BY <3>2, <3>3
  <2> QED  BY <2>1, <2>2, <2>3, PrepareCases
<1> QED  BY <1>1, <1>2, <1>4, <1>5 DEF Types, window, ghosts

Writes(t) ==
  \/ Prepared(t) \/ SaveCandidates(t) \/ Reload(t) \/ SaveFinal(t) \/ ReloadFinal(t)
  \/ WriteSettings(t) \/ RetireAll(t) \/ Restore(t) \/ Unprepare(t)

\* The other steps of a change of the storage.
LEMMA WritesTypes ==
  ASSUME Types, NEW t \in Slots, Writes(t)
  PROVE  Types'
<1> USE DEF Writes
<1>1. UNCHANGED <<window, saves, ghosts>>
  BY DEF Prepared, SaveCandidates, SaveFinal, SaveAll, Reload, ReloadFinal, WriteSettings,
         RetireAll, Restore, Unprepare, bounds
<1>2. Known' = Known /\ Records' = Records /\ Listings' = Listings /\ Jobs' = Jobs
  BY <1>1, SameSaves
<1>3. task[t] \in Jobs
  BY DEF Types
<1>4. faults' \in Nat
  <2>1. faults' \in {faults, faults + 1}
    BY DEF Prepared, SaveCandidates, SaveFinal, SaveAll, Reload, ReloadFinal, WriteSettings,
           RetireAll, Restore, Unprepare, Fault
  <2> QED  BY <2>1 DEF Types
<1>5. file' \in Listings
  BY <1>3 DEF Prepared, SaveCandidates, SaveFinal, SaveAll, Reload, ReloadFinal, WriteSettings,
     RetireAll, Restore, Unprepare, disk, Types, Jobs
<1>6. readable' \in BOOLEAN /\ setting' \in Storages
  BY <1>3 DEF Prepared, SaveCandidates, SaveFinal, SaveAll, Reload, ReloadFinal, WriteSettings,
     RetireAll, Restore, Unprepare, disk, Types, Jobs
<1>7. vault' \in [Ids -> Known \cup {None}]
  <2>1. Restored(t) \in [Ids -> Known \cup {None}]
    BY <1>3 DEF Restored, Types, Jobs
  <2>2. CASE RetireAll(t)
    BY <2>2 DEF RetireAll, Types
  <2>3. CASE Unprepare(t)
    BY <2>1, <2>3 DEF Unprepare, Types
  <2>4. CASE UNCHANGED vault
    BY <2>4 DEF Types
  <2> QED
    BY <2>2, <2>3, <2>4 DEF Prepared, SaveCandidates, SaveFinal, SaveAll, Reload, ReloadFinal,
       WriteSettings, Restore, disk
<1>8. task' \in [Slots -> Jobs] /\ Subjects'
  <2>1. Final(t) \in Listings
    <3> SUFFICES ASSUME NEW id \in Ids, task[t].new[id] # Absent
                 PROVE  [task[t].new[id] EXCEPT !.ref = @ /\ task[t].target = "system"] \in Records
      BY DEF Final, Listings
    <3>1. task[t].new[id] \in Records
      BY <1>3 DEF Jobs, Listings
    <3> QED  BY <3>1 DEF Records
  <2>2. CASE Returns(t, "save_final", Final(t))
    BY <2>1, <2>2, ReturnsTypes DEF Pcs
  <2>3. CASE \E pc \in Pcs : Goto(t, pc)
    BY <2>3, GotoTypes
  <2>4. CASE \E ok \in BOOLEAN : Ends(t, ok)
    BY <2>4, EndsTypes
  <2> QED
    BY <2>2, <2>3, <2>4 DEF Prepared, SaveCandidates, SaveFinal, SaveAll, Reload, ReloadFinal,
       WriteSettings, RetireAll, Restore, Unprepare, Abandon, GiveUp, Pcs
<1> QED  BY <1>1, <1>2, <1>4, <1>5, <1>6, <1>7, <1>8 DEF Types, window, ghosts

\* The application starts again without tasks.
LEMMA RestartTypes ==
  ASSUME Types, Restart
  PROVE  Types'
<1>1. UNCHANGED <<file, vault, draft, saves, faults, ghosts>>
  BY DEF Restart
<1>2. Known' = Known /\ Records' = Records /\ Listings' = Listings /\ Jobs' = Jobs
  BY <1>1, SameSaves
<1>3. task' \in [Slots -> Jobs] /\ Subjects'
  BY Nothing DEF Restart, Subjects, Fits, NoTask
<1>4. readable' \in BOOLEAN
  BY ConnectionStoreAssumption DEF Restart, Types
<1>5. gui' \in Listings
  BY Nothing DEF Restart, Types
<1>6. setting' \in Storages /\ storage' \in Storages
  BY DEF Restart, Types, Storages
<1>7. screen' = "list" /\ editorSaving' = FALSE /\ listSaving' = FALSE
  BY DEF Restart
<1> QED  BY <1>1, <1>2, <1>3, <1>4, <1>5, <1>6, <1>7 DEF Types, ghosts

\* No step breaks a type.
THEOREM StepTypes ==
  ASSUME Types, [Next]_vars
  PROVE  Types'
<1>1. CASE User
  BY <1>1, WindowTypes, SaveConnectionTypes, SaveSettingsTypes, RemovalTypes,
     SavePreferencesTypes DEF User
<1>2. CASE Restart
  BY <1>2, RestartTypes
<1>3. ASSUME NEW t \in Slots, Work(t)  PROVE Types'
  BY <1>3, SaveTypes, RemoveTypes, PrepareTypes, WritesTypes DEF Work, Writes
<1>4. ASSUME NEW t \in Slots, Deliver(t)  PROVE Types'
  BY <1>4, DeliverTypes
<1>5. CASE UNCHANGED vars
  <2>1. Known' = Known /\ Records' = Records /\ Listings' = Listings /\ Jobs' = Jobs
    BY <1>5, SameSaves DEF vars, bounds
  <2> QED  BY <1>5, <2>1 DEF vars, disk, window, bounds, ghosts, Types, Subjects, Fits, Present
<1> QED  BY <1>1, <1>2, <1>3, <1>4, <1>5 DEF Next

\* The types hold in every state.
THEOREM AlwaysTypes == Spec => []Types
BY InitTypes, StepTypes, PTL DEF Spec

\* Types is stronger than the type invariant of the model.
LEMMA TypesType ==
  ASSUME Types
  PROVE  TypeOK
<1>1. saves \in 0 .. MaxSaves /\ Known \subseteq Secrets
  BY ConnectionStoreAssumption DEF Types, Known, Secrets
<1>2. Records \subseteq Record
  BY <1>1 DEF Records, Record
<1>3. Listings \subseteq Lists
  BY <1>2 DEF Listings, Lists
<1>4. ASSUME NEW t \in Slots
      PROVE  /\ task[t].old \in Lists /\ task[t].new \in Lists
             /\ task[t].undo \in [Ids -> Secrets \cup {None, Kept}]
             /\ task[t].ids \subseteq Ids
  BY <1>1, <1>3 DEF Types, Jobs
<1>5. vault \in [Ids -> Secrets \cup {None}] /\ want \in [Ids -> SUBSET Secrets]
  BY <1>1 DEF Types
<1> QED  BY <1>2, <1>3, <1>4, <1>5 DEF Types, TypeOK, Storages

\* The variables keep their types, whatever overlaps and fails.
THEOREM TypeCorrect == Spec => []TypeOK
BY AlwaysTypes, TypesType, PTL

-----------------------------------------------------------------------------
(* Steps of tasks                                                          *)

\* A step changes its own task, and keeps what that is about.
Changes(t, job) ==
  /\ task' = [task EXCEPT ![t] = job]
  /\ job.kind = task[t].kind /\ job.ids = task[t].ids /\ job.secret = task[t].secret
  /\ job.old = task[t].old /\ job.shown = task[t].shown
  /\ job.from = task[t].from /\ job.target = task[t].target

\* Every step of a task does no more than that.
LEMMA WorkChanges ==
  ASSUME Types, NEW t \in Slots, Work(t)
  PROVE  \E job : Changes(t, job)
<1>1. task[t] \in Jobs /\ task \in [Slots -> Jobs]
  BY DEF Types
<1>2. ASSUME NEW pc, Goto(t, pc)  PROVE Changes(t, [task[t] EXCEPT !.pc = pc])
  BY <1>1, <1>2 DEF Goto, Changes, Jobs
<1>3. ASSUME NEW pc, NEW list, Returns(t, pc, list)
      PROVE  Changes(t, [task[t] EXCEPT !.pc = pc, !.new = list])
  BY <1>1, <1>3 DEF Returns, Changes, Jobs
<1>4. ASSUME NEW ok, Ends(t, ok)  PROVE Changes(t, [task[t] EXCEPT !.pc = "done", !.ok = ok])
  BY <1>1, <1>4 DEF Ends, Changes, Jobs
<1>5. ASSUME task' = [task EXCEPT ![t].pc = "done", ![t].ok = TRUE, ![t].new = file]
      PROVE  Changes(t, [task[t] EXCEPT !.pc = "done", !.ok = TRUE, !.new = file])
  BY <1>1, <1>5 DEF Changes, Jobs
<1>6. ASSUME NEW undo, task' = [task EXCEPT ![t].pc = "upsert", ![t].undo = undo]
      PROVE  Changes(t, [task[t] EXCEPT !.pc = "upsert", !.undo = undo])
  BY <1>1, <1>6 DEF Changes, Jobs
<1>7. ASSUME NEW id \in Unprepared(t), PreparesOne(t, id)
      PROVE  \E job : Changes(t, job)
  <2> DEFINE undo == [task[t].undo EXCEPT ![id] = vault[id]]
             new == [task[t].new EXCEPT ![id] = PreparedRecord(t, id)]
  <2>1. task' = [task EXCEPT ![t].undo = undo, ![t].new = new]
    BY <1>1, <1>7 DEF PreparesOne
  <2> HIDE DEF undo, new
  <2>2. Changes(t, [task[t] EXCEPT !.undo = undo, !.new = new])
    BY <1>1, <2>1 DEF Changes, Jobs
  <2> QED  BY <2>2
<1>8. CASE Prepare(t)
  BY <1>2, <1>7, <1>8, PrepareCases DEF LeftBehind
<1>9. CASE PrepareSecret(t)
  BY <1>2, <1>4, <1>6, <1>9 DEF PrepareSecret
<1>10. CASE WritePreferences(t)
  BY <1>2, <1>3, <1>4, <1>5, <1>10 DEF WritePreferences, Abandon
<1> QED
  BY <1>2, <1>3, <1>4, <1>8, <1>9, <1>10 DEF Work, Upsert, UndoSecret, Retire, Drop, Forget,
     WarnsOnly, Prepared, SaveCandidates, SaveFinal, SaveAll, Reload, ReloadFinal, WriteSettings,
     RetireAll, Restore, GiveUp, Unprepare, Abandon

-----------------------------------------------------------------------------
(* Locks                                                                   *)

\* A flag that is set has a task whose message clears it, however many tasks overlap.
LEMMA StepLocked ==
  ASSUME Types, LockedByTask, [Next]_vars
  PROVE  LockedByTask'
<1> DEFINE Editor == {"save", "settings", "remove"}
           List == {"batch", "preferences"}
           Same == \A t \in Slots : task'[t].kind = task[t].kind
<1>1. ASSUME UNCHANGED <<editorSaving, listSaving>>, Same  PROVE LockedByTask'
  BY <1>1 DEF LockedByTask
<1>2. ASSUME NEW job, Spawn(job), editorSaving' => job.kind \in Editor \/ editorSaving,
             listSaving' => job.kind \in List \/ listSaving
      PROVE  LockedByTask'
  <2>1. PICK t : Slot(t) /\ task' = [task EXCEPT ![t] = job]
    BY <1>2, SpawnSlot
  <2>2. \A u \in Slots : task'[u] = IF u = t THEN job ELSE task[u]
    BY <2>1 DEF Types
  <2> QED  BY <1>2, <2>1, <2>2 DEF LockedByTask, Slot
<1>3. CASE User
  <2>1. CASE OpenSettings \/ Navigate \/ \E id \in Ids : OpenEditor(id)
    BY <1>1, <2>1 DEF OpenSettings, Navigate, OpenEditor
  <2>2. CASE SaveConnection
    BY <1>2, <2>2 DEF SaveConnection, NoTask
  <2>3. CASE SaveSettings
    BY <1>2, <2>3 DEF SaveSettings, NoTask
  <2>4. ASSUME NEW id \in Ids, ConfirmRemove(id)  PROVE LockedByTask'
    <3> DEFINE job == [NoTask EXCEPT !.kind = "remove", !.pc = "drop", !.ids = {id}, !.old = gui]
    <3>1. job.kind = "remove"
      BY DEF NoTask
    <3>2. Spawn(job) /\ UNCHANGED listSaving
      BY <2>4 DEF ConfirmRemove
    <3> HIDE DEF job
    <3> QED  BY <1>2, <3>1, <3>2
  <2>5. ASSUME NEW ids \in SUBSET Ids, BatchDelete(ids)  PROVE LockedByTask'
    <3> DEFINE job == [NoTask EXCEPT !.kind = "batch", !.pc = "drop", !.ids = ids, !.old = gui]
    <3>1. job.kind = "batch"
      BY DEF NoTask
    <3>2. Spawn(job) /\ UNCHANGED editorSaving
      BY <2>5 DEF BatchDelete
    <3> HIDE DEF job
    <3> QED  BY <1>2, <3>1, <3>2
  <2>6. ASSUME NEW ids \in SUBSET Ids, SavePreferences(ids)  PROVE LockedByTask'
    <3> DEFINE job == [NoTask EXCEPT !.kind = "preferences", !.pc = "preferences", !.ids = ids]
    <3>1. job.kind = "preferences"
      BY DEF NoTask
    <3>2. Spawn(job) /\ UNCHANGED editorSaving
      BY <2>6 DEF SavePreferences
    <3> HIDE DEF job
    <3> QED  BY <1>2, <3>1, <3>2
  <2> QED  BY <1>3, <2>1, <2>2, <2>3, <2>4, <2>5, <2>6 DEF User
<1>4. CASE Restart
  BY <1>4 DEF Restart, LockedByTask
<1>5. ASSUME NEW t \in Slots, Work(t)  PROVE LockedByTask'
  <2>1. UNCHANGED window
    BY <1>5
       DEF Work, PrepareSecret, Upsert, UndoSecret, Retire, Drop, Forget, WritePreferences,
       Prepare, Prepared, SaveCandidates, SaveFinal, SaveAll, Reload, ReloadFinal, WriteSettings,
       RetireAll, Restore, Unprepare
  <2>2. PICK job : Changes(t, job)
    BY <1>5, WorkChanges
  <2> QED  BY <1>1, <2>1, <2>2 DEF window, Changes, Types
<1>6. ASSUME NEW t \in Slots, Deliver(t)  PROVE LockedByTask'
  <2>1. \A u \in Slots : task'[u] = IF u = t THEN NoTask ELSE task[u]
    BY <1>6 DEF Deliver, Types
  <2> QED  BY <1>6, <2>1 DEF Deliver, LockedByTask, Unlocks
<1>7. CASE UNCHANGED vars
  BY <1>1, <1>7 DEF vars, window
<1> QED  BY <1>3, <1>4, <1>5, <1>6, <1>7 DEF Next

\* The window is not locked for ever: a flag that is set has a task whose message clears it,
\* whatever overlaps, fails and ends.
THEOREM Locked == Spec => []LockedByTask
<1>1. Init => LockedByTask
  BY DEF Init, LockedByTask
<1> QED  BY <1>1, StepLocked, AlwaysTypes, PTL DEF Spec
-----------------------------------------------------------------------------
(* What the file holds.  Tasks overlap only where a removal is confirmed   *)
(* while another one is on its way; what follows does not hold for those,  *)
(* nor after a restart that could not read the file.                       *)

\* Their hypothesis: nobody confirms a removal before the removal before it is over.
RemovalsAlone ==
  \A id \in Ids : ConfirmRemove(id) => \A t \in Slots : task[t].kind # "remove"

\* The task that runs.
it == task[1]

Answer(r, id) == IF r.ref THEN vault[id] ELSE r.obscured
Answers(list) == \A id \in Present(list) : Answer(list[id], id) \in want[id]

\* Its list is written, and the message that shows it is to come.
Over ==
  \/ it.pc = "done" /\ it.ok
  \/ it.kind = "save" /\ it.pc = "retire"
  \/ it.pc = "forget"

\* The flags and the screen tell which task runs; what a page has loaded is current.
Flagged ==
  /\ editorSaving <=> it.kind \in {"save", "settings", "remove"}
  /\ listSaving <=> it.kind \in {"batch", "preferences"}
  /\ it.kind = "save" => screen = "editor"
  /\ it.kind = "settings" => screen = "settings"
  /\ it.kind \in {"batch", "preferences"} => screen = "batch"
  /\ screen = "editor" => /\ it.kind \in {"none", "save"}
                          /\ draft.id \in Ids \ removed /\ draft.record = gui[draft.id]
  /\ screen = "settings" => /\ it.kind \in {"none", "settings"}
                            /\ draft.shown \subseteq Present(gui)

\* The records in the file answer, and so do those of the window, unless a list is
\* about to replace them.
Answering ==
  /\ Answers(file)
  /\ IF Over THEN it.new = file ELSE Present(gui) = Present(file) /\ Answers(gui)

\* Less than two failures leave the window with the very records of the file, except
\* while a migration is at work.
Agreeing ==
  /\ ~Over
  /\ it.kind = "settings" =>
       /\ it.pc \in {"prepare", "unprepare", "preferences", "settings", "done"}
       /\ it.pc \in {"preferences", "settings"} => it.target = it.from
Reported ==
  /\ IF it.kind = "settings" /\ (it.pc = "retire" \/ (it.pc = "done" /\ it.ok))
     THEN setting = it.target ELSE setting = storage
  /\ Agreeing /\ faults <= 1 => gui = file
  /\ it.kind = "settings" /\ it.pc = "restore" => faults >= 1

\* A save of i may still be undone: its secret is new, the former one is noted.
SaveOf(i) ==
  /\ it.ids = {i} /\ i \in Ids \ removed
  /\ it.pc \in {"secret", "upsert"} =>
       it.new[i] = gui[i] /\ (it.secret = None => gui[i] # Absent)
  /\ it.pc = "secret" => it.undo = Unchanged
  /\ \A id \in Ids \ {i} : it.undo[id] = Kept
  /\ it.undo[i] # Kept =>
       /\ file[i] # Absent /\ file[i].ref => it.undo[i] \in want[i]
       /\ gui[i] # Absent /\ gui[i].ref => it.undo[i] \in want[i]
  /\ it.secret # None =>
       /\ it.secret \in want[i] /\ it.undo[i] # it.secret
       /\ file[i] # Absent => file[i].obscured # it.secret
       /\ gui[i] # Absent => gui[i].obscured # it.secret
       /\ it.undo[i] = Kept => vault[i] # it.secret
       /\ it.pc = "upsert" /\ it.target = "system" => vault[i] = it.secret
Saving ==
  it.kind = "save" /\ it.pc \in {"secret", "upsert", "undo"} => \E i \in Ids : SaveOf(i)

\* What a removal forgets is not in the file any more.
Removing == it.pc = "forget" => it.ids \cap Present(file) = {}

\* A change of the storage works on the records of the window; the list that it writes
\* answers, before and after it has dropped the references; and it can be undone.
Migration ==
  it.kind = "settings" =>
    /\ it.old = gui /\ it.ids = Present(gui) /\ it.shown \subseteq Present(gui)
    /\ it.pc \in {"prepare", "save", "reload", "save_final", "reload_final"} =>
         it.target # it.from
    /\ Present(it.new) = Present(gui)
    /\ it.pc \in {"reload", "reload_final", "settings", "retire"} => it.new = file
    /\ it.pc \in {"prepare", "save", "reload", "save_final"} => Answers(it.new)
    /\ it.target = "obscure" /\ it.pc \in {"prepare", "save", "reload"} =>
         \A id \in Present(gui) : it.undo[id] # Kept => it.new[id].obscured \in want[id]
    /\ it.pc \in {"save", "reload"} => \A id \in Present(gui) : it.undo[id] # Kept
    /\ it.target = "obscure" /\ it.pc \in {"save_final", "reload_final"} =>
         \A id \in Present(gui) : ~it.new[id].ref
    /\ it.target = "obscure" /\ it.from # it.target
       /\ it.pc \in {"preferences", "settings", "retire"} =>
         \A id \in Present(file) : ~file[id].ref
    /\ \A id \in Present(gui) :
         it.undo[id] # Kept /\ gui[id].ref => it.undo[id] \in want[id]
    /\ it.pc \in {"prepare", "unprepare"} =>
         \A id \in Present(file) : it.undo[id] # Kept /\ file[id].ref => it.undo[id] \in want[id]

\* Then tasks do not overlap, and take the first slot.
Alone == \A t \in Slots : task[t] = NoTask \/ (t = 1 /\ it.kind # "none")

IInv ==
  /\ Alone /\ readable /\ SavedOrRemoved
  /\ Flagged /\ Answering /\ Reported /\ Saving /\ Removing /\ Migration

\* The types of the task that runs.
LEMMA TypeOfIt ==
  ASSUME Types
  PROVE  /\ it \in Jobs /\ it.kind \in Kinds /\ it.ok \in BOOLEAN /\ it.ids \subseteq Ids
         /\ it.old \in Listings /\ it.new \in Listings
         /\ it.undo \in [Ids -> Known \cup {None, Kept}] /\ it.secret \in Known \cup {None}
         /\ it.from \in Storages /\ it.target \in Storages
<1>1. it \in Jobs
  BY Constants DEF Types, it
<1> QED  BY <1>1 DEF Jobs

\* While nothing runs there is no task.
LEMMA Resting ==
  ASSUME IInv, it.kind = "none"
  PROVE  /\ \A t \in Slots : task[t] = NoTask
         /\ it.pc = "done" /\ it.ok = FALSE /\ ~Over
<1>1. \A t \in Slots : task[t] = NoTask
  BY DEF IInv, Alone
<1>2. it = NoTask
  BY <1>1, Constants DEF it
<1> QED  BY <1>1, <1>2 DEF NoTask, Over

\* A window that may start something has nothing running.
LEMMA IdleRests ==
  ASSUME Types, IInv, Idle
  PROVE  it.kind = "none"
BY TypeOfIt DEF Idle, IInv, Flagged, Kinds

\* A new task takes the first slot.
Starts(job) == it' = job /\ \A t \in Slots \ {1} : task'[t] = NoTask
\* Nothing runs, so the new task is the one that runs.
LEMMA SpawnIt ==
  ASSUME Types, IInv, it.kind = "none", NEW job, Spawn(job)
  PROVE  Starts(job)
<1>1. PICK t : Slot(t) /\ (\A u \in Slots : task[u].kind = "none" => t <= u)
               /\ task' = [task EXCEPT ![t] = job]
  BY SpawnSlot
<1>2. \A u \in Slots : task[u] = NoTask
  BY Resting
<1>3. t = 1
  <2>1. task[1].kind = "none" /\ t \in Slots /\ 1 \in Slots
    BY <1>1, <1>2, Constants DEF Slot, NoTask
  <2>2. t <= 1
    BY <1>1, <2>1
  <2> QED  BY <2>1, <2>2, ConnectionStoreAssumption DEF Slots
<1> QED  BY <1>1, <1>2, <1>3, Constants DEF Starts, it, Types

\* It is alone.
LEMMA StartsAlone ==
  ASSUME NEW job, Starts(job), job.kind # "none"
  PROVE  Alone'
BY DEF Starts, Alone

\* What a step of the task leaves as it is.
Steady ==
  /\ it'.kind = it.kind /\ it'.ids = it.ids /\ it'.secret = it.secret /\ it'.old = it.old
  /\ it'.shown = it.shown /\ it'.from = it.from /\ it'.target = it.target
  /\ \A t \in Slots \ {1} : task'[t] = task[t]

\* And it stays alone.
LEMMA SteadyAlone ==
  ASSUME IInv, Steady, it.kind # "none"
  PROVE  Alone'
BY DEF IInv, Alone, Steady

\* What the operators that change a task do to the one that runs: its place,
LEMMA GotoIt ==
  ASSUME Types, NEW pc, Goto(1, pc)
  PROVE  Steady /\ it'.pc = pc /\ it'.new = it.new /\ it'.undo = it.undo /\ it'.ok = it.ok
<1>1. task \in [Slots -> Jobs] /\ it \in Jobs
  BY TypeOfIt DEF Types
<1>2. task' = [task EXCEPT ![1] = [it EXCEPT !.pc = pc]]
  BY DEF Goto, it
<1>3. it' = [it EXCEPT !.pc = pc] /\ \A t \in Slots \ {1} : task'[t] = task[t]
  BY <1>1, <1>2, Constants DEF it
<1> QED  BY <1>1, <1>3 DEF Steady, Jobs

\* its place and its list,
LEMMA ReturnsIt ==
  ASSUME Types, NEW pc, NEW list, Returns(1, pc, list)
  PROVE  Steady /\ it'.pc = pc /\ it'.new = list /\ it'.undo = it.undo /\ it'.ok = it.ok
<1>1. task \in [Slots -> Jobs] /\ it \in Jobs
  BY TypeOfIt DEF Types
<1>2. task' = [task EXCEPT ![1] = [it EXCEPT !.pc = pc, !.new = list]]
  BY <1>1, Constants DEF Returns, it
<1>3. it' = [it EXCEPT !.pc = pc, !.new = list] /\ \A t \in Slots \ {1} : task'[t] = task[t]
  BY <1>1, <1>2, Constants DEF it
<1> QED  BY <1>1, <1>3 DEF Steady, Jobs

\* or its end.
LEMMA EndsIt ==
  ASSUME Types, NEW ok, Ends(1, ok)
  PROVE  Steady /\ it'.pc = "done" /\ it'.ok = ok /\ it'.new = it.new /\ it'.undo = it.undo
<1>1. task \in [Slots -> Jobs] /\ it \in Jobs
  BY TypeOfIt DEF Types
<1>2. task' = [task EXCEPT ![1] = [it EXCEPT !.pc = "done", !.ok = ok]]
  BY <1>1, Constants DEF Ends, it
<1>3. it' = [it EXCEPT !.pc = "done", !.ok = ok] /\ \A t \in Slots \ {1} : task'[t] = task[t]
  BY <1>1, <1>2, Constants DEF it
<1> QED  BY <1>1, <1>3 DEF Steady, Jobs

\* At the beginning the window, the file and the credential store agree.
LEMMA InitInv == Init => IInv
<1> SUFFICES ASSUME Init  PROVE IInv
  OBVIOUS
<1>1. \A t \in Slots : task[t] = NoTask
  BY DEF Init
<1>2. it.kind = "none" /\ it.pc = "done" /\ it.ok = FALSE
  <2>1. it = NoTask
    BY <1>1, Constants DEF it
  <2> QED  BY <2>1 DEF NoTask
<1>3. PICK legacy \in BOOLEAN :
        file = [id \in Ids |->
          IF id \notin Existing THEN Absent
          ELSE [obscured |-> IF setting = "system" /\ legacy THEN None ELSE 0,
                ref |-> setting = "system"]]
  BY DEF Init
<1>4. Answers(file)
  BY <1>3 DEF Init, Answers, Answer, Present
<1>5. SavedOrRemoved
  <2> DEFINE R == [obscured |-> IF setting = "system" /\ legacy THEN None ELSE 0,
                   ref |-> setting = "system"]
  <2>1. R # Absent
    <3>1. R \in [obscured : Nat \cup {None}, ref : BOOLEAN]
      OBVIOUS
    <3> HIDE DEF R
    <3> QED  BY <3>1, Constants
  <2>2. file = [id \in Ids |-> IF id \notin Existing THEN Absent ELSE R]
    BY <1>3
  <2> HIDE DEF R
  <2>3. Present(file) = Existing
    BY <2>1, <2>2, Constants DEF Present
  <2>4. kept = Existing /\ removed = {}
    BY DEF Init
  <2> QED  BY <2>3, <2>4 DEF SavedOrRemoved, ConnectionsKept, RemovedStaysRemoved
<1> QED
  BY <1>1, <1>2, <1>4, <1>5 DEF Init, IInv, Alone, Flagged, Answering, Over, Reported, Saving,
     Removing, Migration

\* The handlers of the window.
LEMMA WindowInv ==
  ASSUME Types, IInv, OpenSettings \/ Navigate \/ \E id \in Ids : OpenEditor(id)
  PROVE  IInv'
<1>1. /\ UNCHANGED <<disk, gui, storage, editorSaving, listSaving, task, faults, ghosts>>
      /\ it' = it
  BY DEF OpenSettings, Navigate, OpenEditor, it, bounds
<1>2. Flagged'
  <2>1. CASE OpenSettings
    BY <1>1, <2>1, IdleRests DEF OpenSettings, Flagged, IInv
  <2>2. CASE Navigate
    BY <1>1, <2>2 DEF Navigate, Idle, Flagged, IInv
  <2>3. ASSUME NEW id \in Ids, OpenEditor(id)  PROVE Flagged'
    <3>1. it.kind = "none" /\ ~Over
      BY <2>3, IdleRests, Resting DEF OpenEditor
    <3>2. id \notin removed
      BY <2>3, <3>1
         DEF OpenEditor, IInv, Answering, SavedOrRemoved, RemovedStaysRemoved, Present
    <3> QED  BY <1>1, <2>3, <3>1, <3>2 DEF OpenEditor, Flagged, IInv, ghosts
  <2> QED  BY <2>1, <2>2, <2>3
<1> QED
  BY <1>1, <1>2
     DEF IInv, Alone, disk, ghosts, SavedOrRemoved, ConnectionsKept, RemovedStaysRemoved,
     Answering, Answers, Answer, Over, Reported, Agreeing, Saving, SaveOf, Removing, Migration

\* A save starts with a secret that no record has.
LEMMA SaveConnectionInv ==
  ASSUME Types, IInv, SaveConnection
  PROVE  IInv'
<1>1. it.kind = "none" /\ ~Over
  BY IdleRests, Resting DEF SaveConnection
<1>2. PICK i \in Ids : /\ saves' = saves + 1
                      /\ draft.id = i /\ i \notin removed /\ draft.record = gui[i]
  BY DEF SaveConnection, IInv, Flagged
<1>3. PICK secret \in {saves + 1} \cup (IF draft.record = Absent THEN {} ELSE {None}) :
        /\ Spawn([NoTask EXCEPT
                   !.kind = "save", !.pc = "secret", !.ids = {draft.id}, !.secret = secret,
                   !.old = gui, !.new = [Nobody EXCEPT ![draft.id] = draft.record],
                   !.target = storage])
        /\ want' = IF secret = None THEN want
                   ELSE [want EXCEPT ![draft.id] = @ \cup {secret}]
  BY DEF SaveConnection
<1> DEFINE job == [NoTask EXCEPT
                   !.kind = "save", !.pc = "secret", !.ids = {draft.id}, !.secret = secret,
                   !.old = gui, !.new = [Nobody EXCEPT ![draft.id] = draft.record],
                   !.target = storage]
<1>4. /\ job.kind = "save" /\ job.pc = "secret" /\ job.ids = {i} /\ job.secret = secret
      /\ job.new[i] = gui[i] /\ job.undo = Unchanged
  BY <1>2, Nothing DEF NoTask, Nobody
<1>5. Spawn(job)
  BY <1>3
<1> HIDE DEF job
<1>6. it' = job /\ Alone'
  BY <1>1, <1>4, <1>5, SpawnIt, StartsAlone DEF Starts
<1>7. /\ UNCHANGED <<disk, gui, storage, screen, draft, listSaving, faults, kept, removed>>
      /\ editorSaving' = TRUE
  BY DEF SaveConnection
<1>8. \A id \in Ids : want[id] \subseteq want'[id]
  BY <1>2, <1>3 DEF Types
<1>9. Answers(file)' /\ Answers(gui)'
  BY <1>1, <1>7, <1>8 DEF IInv, Answering, Answers, Answer, Present, disk
<1>10. SaveOf(i)'
  <2>1. (secret # None => secret = saves + 1 /\ secret \in want'[i])
        /\ (secret = None => gui[i] # Absent)
    <3>1. secret # None => secret = saves + 1 /\ secret \in want'[i]
      BY <1>2, <1>3 DEF Types
    <3>2. saves + 1 # None
      BY <1>2, MoreSaves, Constants
    <3>3. secret = None => gui[i] # Absent
      BY <1>2, <1>3, <3>2
    <3> QED  BY <3>1, <3>3
  <2>2. secret # None => vault[i] # secret
    BY <1>2, <2>1, MoreSaves, Constants DEF Types
  <2>3. secret # None => (file[i] # Absent => file[i].obscured # secret)
                         /\ (gui[i] # Absent => gui[i].obscured # secret)
    BY <1>2, <2>1, MoreSaves, Constants DEF Types, Listings, Records
  <2>4. \A id \in Ids : Unchanged[id] = Kept
    BY DEF Unchanged
  <2>5. secret # None => secret # Kept
    BY <1>2, <2>1, MoreSaves, Constants
  <2> QED  BY <1>2, <1>4, <1>6, <1>7, <2>1, <2>2, <2>3, <2>4, <2>5 DEF SaveOf, disk
<1>11. Flagged'
  BY <1>1, <1>2, <1>4, <1>6, <1>7 DEF SaveConnection, IInv, Flagged
<1>12. Answering'
  BY <1>1, <1>4, <1>6, <1>7, <1>9 DEF IInv, Answering, Over, disk
<1>13. Reported'
  BY <1>1, <1>4, <1>6, <1>7 DEF IInv, Reported, Agreeing, disk
<1>14. (readable /\ SavedOrRemoved)'
  BY <1>7 DEF IInv, SavedOrRemoved, ConnectionsKept, RemovedStaysRemoved, disk
<1> QED
  BY <1>2, <1>4, <1>6, <1>10, <1>11, <1>12, <1>13, <1>14 DEF IInv, Saving, Removing, Migration

\* A change of the settings starts with nothing noted to undo.
LEMMA SaveSettingsInv ==
  ASSUME Types, IInv, SaveSettings
  PROVE  IInv'
<1>1. it.kind = "none" /\ ~Over /\ draft.shown \subseteq Present(gui)
  BY Resting, TypeOfIt DEF SaveSettings, IInv, Flagged, Kinds
<1>2. PICK target \in Storages :
       Spawn([NoTask EXCEPT
                !.kind = "settings",
                !.pc = IF target = storage THEN "preferences" ELSE "prepare",
                !.ids = Present(gui), !.old = gui, !.new = gui, !.shown = draft.shown,
                !.from = storage, !.target = target])
  BY DEF SaveSettings, Storages
<1> DEFINE job == [NoTask EXCEPT
                !.kind = "settings",
                !.pc = IF target = storage THEN "preferences" ELSE "prepare",
                !.ids = Present(gui), !.old = gui, !.new = gui, !.shown = draft.shown,
                !.from = storage, !.target = target]
<1>3. /\ job.kind = "settings" /\ job.pc = (IF target = storage THEN "preferences" ELSE "prepare")
      /\ job.ids = Present(gui) /\ job.old = gui /\ job.new = gui /\ job.shown = draft.shown
      /\ job.from = storage /\ job.target = target /\ job.undo = Unchanged
  BY DEF NoTask
<1>4. Spawn(job)
  BY <1>2
<1> HIDE DEF job
<1>5. it' = job /\ Alone'
  BY <1>1, <1>3, <1>4, SpawnIt, StartsAlone DEF Starts
<1>6. /\ UNCHANGED <<disk, gui, storage, screen, draft, listSaving, saves, faults, ghosts>>
      /\ editorSaving' = TRUE
  BY DEF SaveSettings
<1>7. \A id \in Ids : Unchanged[id] = Kept
  BY DEF Unchanged
<1>8. Answers(gui)' /\ Answers(file)' /\ Present(gui) = Present(file)
  BY <1>1, <1>6 DEF IInv, Answering, Answers, Answer, Present, disk, ghosts
<1>9. Migration'
  <2>1. \A id \in Present(gui) : id \in Ids
    BY DEF Present
  <2>2. \A id \in Present(file) : id \in Ids
    BY DEF Present
  <2> QED  BY <1>1, <1>3, <1>5, <1>6, <1>7, <1>8, <2>1, <2>2
       DEF Migration, Answers, Answer, Present, disk, ghosts
<1>10. Flagged'
  BY <1>1, <1>3, <1>5, <1>6 DEF SaveSettings, IInv, Flagged, ghosts
<1>11. Answering'
  BY <1>1, <1>3, <1>5, <1>6, <1>8 DEF Answering, Over, Present, disk
<1>12. Reported'
  BY <1>1, <1>3, <1>5, <1>6 DEF IInv, Reported, Agreeing, disk
<1>13. (readable /\ SavedOrRemoved)'
  BY <1>6 DEF IInv, SavedOrRemoved, ConnectionsKept, RemovedStaysRemoved, Present, disk, ghosts
<1> QED
  BY <1>3, <1>5, <1>9, <1>10, <1>11, <1>12, <1>13 DEF IInv, Saving, Removing

\* The other handlers start a task that writes into the list that is saved.
LEMMA OtherInv ==
  ASSUME Types, IInv, RemovalsAlone,
         \/ \E id \in Ids : ConfirmRemove(id)
         \/ \E ids \in SUBSET Ids : BatchDelete(ids) \/ SavePreferences(ids)
  PROVE  IInv'
<1>1. it.kind = "none" /\ ~Over
  <2>1. CASE \E id \in Ids : ConfirmRemove(id)
    <3>1. it.kind # "remove"
      BY <2>1, Constants DEF RemovalsAlone, it
    <3>2. it.kind = "none"
      BY <2>1, <3>1, TypeOfIt DEF ConfirmRemove, IInv, Flagged, Kinds
    <3> QED  BY <3>2, Resting
  <2>2. CASE Idle
    BY <2>2, IdleRests, Resting
  <2> QED  BY <2>1, <2>2 DEF BatchDelete, SavePreferences
<1> DEFINE Begins(job) ==
             /\ Spawn(job) /\ screen = IF job.kind = "remove" THEN "list" ELSE "batch"
             /\ job.kind \in {"remove", "batch", "preferences"} /\ job.pc \in {"drop", "preferences"}
             /\ editorSaving' = IF job.kind = "remove" THEN TRUE ELSE editorSaving
             /\ listSaving' = IF job.kind = "remove" THEN listSaving ELSE TRUE
<1>2. PICK job : Begins(job)
  <2>1. ASSUME NEW id \in Ids, ConfirmRemove(id)  PROVE \E job : Begins(job)
    <3> DEFINE job == [NoTask EXCEPT !.kind = "remove", !.pc = "drop", !.ids = {id}, !.old = gui]
    <3>1. job.kind = "remove" /\ job.pc = "drop"
      BY DEF NoTask
    <3>2. Spawn(job)
      BY <2>1 DEF ConfirmRemove
    <3> HIDE DEF job
    <3> QED  BY <2>1, <3>1, <3>2 DEF ConfirmRemove
  <2>2. ASSUME NEW ids \in SUBSET Ids, BatchDelete(ids)  PROVE \E job : Begins(job)
    <3> DEFINE job == [NoTask EXCEPT !.kind = "batch", !.pc = "drop", !.ids = ids, !.old = gui]
    <3>1. job.kind = "batch" /\ job.pc = "drop"
      BY DEF NoTask
    <3>2. Spawn(job)
      BY <2>2 DEF BatchDelete
    <3> HIDE DEF job
    <3> QED  BY <2>2, <3>1, <3>2 DEF BatchDelete
  <2>3. ASSUME NEW ids \in SUBSET Ids, SavePreferences(ids)  PROVE \E job : Begins(job)
    <3> DEFINE job == [NoTask EXCEPT !.kind = "preferences", !.pc = "preferences", !.ids = ids]
    <3>1. job.kind = "preferences" /\ job.pc = "preferences"
      BY DEF NoTask
    <3>2. Spawn(job)
      BY <2>3 DEF SavePreferences
    <3> HIDE DEF job
    <3> QED  BY <2>3, <3>1, <3>2 DEF SavePreferences
  <2> QED  BY <2>1, <2>2, <2>3
<1>6. it' = job /\ Alone'
  <2>1. job.kind # "none"
    BY <1>2
  <2> QED  BY <1>1, <1>2, <2>1, SpawnIt, StartsAlone DEF Starts
<1>7. UNCHANGED <<disk, gui, storage, screen, draft, faults, ghosts>>
  BY DEF ConfirmRemove, BatchDelete, SavePreferences
<1>8. Flagged'
  BY <1>1, <1>2, <1>6, <1>7 DEF IInv, Flagged, ghosts
<1>9. Answering'
  BY <1>1, <1>2, <1>6, <1>7 DEF IInv, Answering, Answers, Answer, Present, Over, disk, ghosts
<1>10. Reported'
  BY <1>1, <1>2, <1>6, <1>7 DEF IInv, Reported, Agreeing, disk
<1>11. (readable /\ SavedOrRemoved)'
  BY <1>7 DEF IInv, SavedOrRemoved, ConnectionsKept, RemovedStaysRemoved, Present, disk, ghosts
<1> QED
  BY <1>2, <1>6, <1>8, <1>9, <1>10, <1>11 DEF IInv, Saving, Removing, Migration

\* The window takes over the list that is in the file, or keeps its own.
LEMMA DeliverInv ==
  ASSUME Types, IInv, Deliver(1)
  PROVE  IInv'
<1>1. it.kind # "none" /\ it.pc = "done"
  BY DEF Deliver, it
<1>2. it' = NoTask /\ \A t \in Slots : task'[t] = NoTask
  BY Constants DEF Deliver, IInv, Alone, it, Types
<1>3. it'.kind = "none" /\ it'.pc = "done" /\ it'.ok = FALSE
  BY <1>2 DEF NoTask
<1>4. /\ UNCHANGED <<disk, draft, faults, ghosts>>
      /\ editorSaving' = (editorSaving /\ ~Unlocks(it))
      /\ listSaving' = (listSaving /\ it.kind \notin {"batch", "preferences"})
      /\ gui' = Taken(it)
      /\ storage' = IF it.ok /\ it.kind = "settings" THEN it.target ELSE storage
      /\ screen' = IF it.ok /\ it.kind \in {"save", "settings"} THEN "list" ELSE screen
  BY DEF Deliver, it
<1>5. Over <=> it.ok
  BY <1>1, TypeOfIt DEF Over
<1>6. gui' = IF it.ok THEN file ELSE gui
  BY <1>4, <1>5 DEF Taken, IInv, Answering
<1>7. Flagged'
  <2>1. ~editorSaving' /\ ~listSaving'
    BY <1>1, <1>4 DEF IInv, Flagged, Unlocks
  <2>2. screen' = "editor" => screen = "editor" /\ gui' = gui
    BY <1>1, <1>4, <1>6 DEF IInv, Flagged
  <2>3. screen' = "settings" => screen = "settings" /\ gui' = gui
    BY <1>1, <1>4, <1>6 DEF IInv, Flagged
  <2> QED  BY <1>3, <1>4, <2>1, <2>2, <2>3 DEF IInv, Flagged, ghosts
<1>8. Answering'
  BY <1>3, <1>4, <1>5, <1>6 DEF IInv, Answering, Answers, Answer, Present, Over, disk, ghosts
<1>9. Reported'
  BY <1>1, <1>3, <1>4, <1>5, <1>6 DEF IInv, Reported, Agreeing, disk
<1>10. (readable /\ SavedOrRemoved)'
  BY <1>4 DEF IInv, SavedOrRemoved, ConnectionsKept, RemovedStaysRemoved, Present, disk, ghosts
<1> QED
  BY <1>2, <1>3, <1>7, <1>8, <1>9, <1>10 DEF IInv, Alone, Saving, Removing, Migration

\* The application starts again with the file as it was left.
LEMMA RestartInv ==
  ASSUME Types, IInv, ~Unreadable, Restart
  PROVE  IInv'
<1>1. it' = NoTask /\ \A t \in Slots : task'[t] = NoTask
  BY Constants DEF Restart, it
<1>2. it'.kind = "none" /\ it'.pc = "done" /\ it'.ok = FALSE
  BY <1>1 DEF NoTask
<1>3. /\ UNCHANGED <<file, readable, vault, faults, ghosts>> /\ readable /\ gui' = file
      /\ storage' = setting' /\ screen' = "list" /\ editorSaving' = FALSE /\ listSaving' = FALSE
  BY DEF Restart, IInv
<1>4. Answering'
  BY <1>2, <1>3 DEF IInv, Answering, Answers, Answer, Present, Over, ghosts
<1>5. (readable /\ SavedOrRemoved)'
  BY <1>3 DEF IInv, SavedOrRemoved, ConnectionsKept, RemovedStaysRemoved, Present, ghosts
<1> QED
  BY <1>1, <1>2, <1>3, <1>4, <1>5
     DEF IInv, Alone, Flagged, Reported, Saving, Removing, Migration

\* A step of the task leaves the flags right, when it removes nothing.
LEMMA SteadyFlagged ==
  ASSUME IInv, Steady, UNCHANGED window, removed' = removed
  PROVE  Flagged'
BY DEF IInv, Flagged, Steady, window, Present

\* The save of one connection, as long as it may be undone.
LEMMA Save ==
  ASSUME Types, IInv, it.kind = "save", it.pc \in {"secret", "upsert", "undo"}
  PROVE  \E i \in Ids : SaveOf(i) /\ The(1) = i
<1>1. PICK i \in Ids : SaveOf(i)
  BY DEF IInv, Saving
<1>2. The(1) = i
  BY <1>1 DEF SaveOf, The, it
<1> QED  BY <1>1, <1>2

\* The former secret is noted before it is overwritten; a failure withdraws the new one.
LEMMA PrepareSecretInv ==
  ASSUME Types, IInv, PrepareSecret(1)
  PROVE  IInv'
<1>1. it.kind = "save" /\ it.pc = "secret" /\ ~Over
  BY DEF PrepareSecret, At, it, Over
<1>2. PICK i \in Ids : SaveOf(i) /\ The(1) = i
  BY <1>1, Save
<1>3. UNCHANGED <<file, readable, setting, window, kept, removed>>
  BY DEF PrepareSecret
<1>4. \A id \in Ids : it.undo[id] = Kept
  BY <1>1, <1>2 DEF SaveOf, Unchanged
<1>5. Answers(file) /\ Answers(gui) /\ Present(gui) = Present(file)
  BY <1>1 DEF IInv, Answering
<1> DEFINE Fails == /\ Steady /\ it'.pc = "done" /\ it'.ok = FALSE
                    /\ it.secret # None /\ faults' \in Nat /\ faults' >= faults
                    /\ \/ UNCHANGED vault /\ want' = [want EXCEPT ![i] = @ \ {it.secret}]
                       \/ UNCHANGED want /\ vault' = [vault EXCEPT ![i] = it.secret]
           Done == /\ Steady /\ it'.pc = "upsert" /\ it'.new = it.new /\ it'.ok = it.ok
                   /\ UNCHANGED <<faults, want>>
                   /\ IF it.secret # None /\ it.target = "system"
                      THEN /\ vault' = [vault EXCEPT ![i] = it.secret]
                           /\ it'.undo = [Unchanged EXCEPT ![i] = vault[i]]
                      ELSE UNCHANGED vault /\ it'.undo = it.undo
<1>6. Fails \/ Done
  <2>1. CASE it.secret # None /\ it.target = "system"
    <3>1. \/ /\ task' = [task EXCEPT ![1].pc = "upsert",
                                     ![1].undo = [Unchanged EXCEPT ![i] = vault[i]]]
             /\ vault' = [vault EXCEPT ![i] = it.secret]
             /\ UNCHANGED <<faults, want>>
          \/ /\ Ends(1, FALSE) /\ faults' \in {faults + 1, faults + 2}
             /\ \/ UNCHANGED vault /\ want' = [want EXCEPT ![i] = @ \ {it.secret}]
                \/ UNCHANGED want /\ vault' = [vault EXCEPT ![i] = it.secret]
      BY <1>2, <2>1 DEF PrepareSecret, Fault, it
    <3>2. CASE /\ Ends(1, FALSE) /\ faults' \in {faults + 1, faults + 2}
               /\ \/ UNCHANGED vault /\ want' = [want EXCEPT ![i] = @ \ {it.secret}]
                  \/ UNCHANGED want /\ vault' = [vault EXCEPT ![i] = it.secret]
      <4>1. Steady /\ it'.pc = "done" /\ it'.ok = FALSE
        BY <3>2, EndsIt
      <4> QED  BY <2>1, <3>2, <4>1 DEF Types
    <3>3. CASE /\ task' = [task EXCEPT ![1].pc = "upsert",
                                       ![1].undo = [Unchanged EXCEPT ![i] = vault[i]]]
               /\ vault' = [vault EXCEPT ![i] = it.secret]
               /\ UNCHANGED <<faults, want>>
      <4> DEFINE undo == [Unchanged EXCEPT ![i] = vault[i]]
      <4>1. task' = [task EXCEPT ![1].pc = "upsert", ![1].undo = undo]
        BY <3>3
      <4> HIDE DEF undo
      <4>2. task \in [Slots -> Jobs] /\ it \in Jobs
        BY TypeOfIt DEF Types
      <4>3. task' = [task EXCEPT ![1] = [it EXCEPT !.pc = "upsert", !.undo = undo]]
        BY <4>1, <4>2, Constants DEF it
      <4>4. it' = [it EXCEPT !.pc = "upsert", !.undo = undo]
            /\ \A t \in Slots \ {1} : task'[t] = task[t]
        BY <4>2, <4>3, Constants DEF it
      <4>5. Steady /\ it'.pc = "upsert" /\ it'.undo = undo /\ it'.new = it.new /\ it'.ok = it.ok
        BY <4>2, <4>4 DEF Steady, Jobs
      <4> QED  BY <2>1, <3>3, <4>5 DEF undo
    <3> QED  BY <3>1, <3>2, <3>3
  <2>2. CASE ~(it.secret # None /\ it.target = "system")
    <3>1. Goto(1, "upsert") /\ UNCHANGED <<vault, faults, want>>
      BY <2>2 DEF PrepareSecret, it
    <3> QED  BY <2>2, <3>1, GotoIt
  <2> QED  BY <2>1, <2>2
<1>7. Alone' /\ Flagged' /\ (readable /\ SavedOrRemoved)'
  BY <1>1, <1>3, <1>6, SteadyAlone, SteadyFlagged DEF IInv, SavedOrRemoved, ConnectionsKept,
     RemovedStaysRemoved, Present, Steady
<1>8. CASE Fails
  <2>1. Answers(file)' /\ Answers(gui)'
    <3>1. vault[i] # it.secret /\ it.secret \in want[i]
          /\ (file[i] # Absent => file[i].obscured # it.secret)
          /\ (gui[i] # Absent => gui[i].obscured # it.secret)
      BY <1>2, <1>4, <1>8 DEF SaveOf
    <3>2. UNCHANGED <<file, gui>>
      BY <1>3 DEF window
    <3> QED  BY <1>5, <1>8, <3>1, <3>2 DEF Answers, Answer, Present, Types
  <2>2. Answering'
    BY <1>1, <1>3, <1>5, <1>8, <2>1 DEF Answering, Over, Steady, window, Present
  <2>3. Reported'
    BY <1>1, <1>3, <1>8 DEF IInv, Reported, Agreeing, Over, Steady, window, Types
  <2> QED
    BY <1>1, <1>7, <1>8, <2>2, <2>3 DEF IInv, Saving, Removing, Migration, Steady
<1>9. CASE Done
  <2>1. UNCHANGED <<file, gui, removed, want, setting, storage>>
    BY <1>3, <1>9 DEF window
  <2>2. Answers(file)' /\ Answers(gui)'
    <3>1. it.secret # None => it.secret \in want[i]
      BY <1>2 DEF SaveOf
    <3> QED  BY <1>5, <1>9, <2>1, <3>1 DEF Answers, Answer, Present, Types
  <2>3. SaveOf(i)'
    <3>1. /\ it'.ids = {i} /\ i \in Ids \ removed
          /\ it'.new[i] = gui[i] /\ (it.secret = None => gui[i] # Absent)
      BY <1>1, <1>2, <1>9 DEF SaveOf, Steady
    <3>2. CASE it.secret # None /\ it.target = "system"
      <4>1. it'.undo = [Unchanged EXCEPT ![i] = vault[i]] /\ vault' = [vault EXCEPT ![i] = it.secret]
        BY <1>9, <3>2
      <4>2. it'.undo[i] = vault[i] /\ vault'[i] = it.secret /\ vault[i] # Kept
            /\ \A id \in Ids \ {i} : it'.undo[id] = Kept
        BY <4>1, Constants DEF Unchanged, Types, Known
      <4>3. (file[i] # Absent /\ file[i].ref => vault[i] \in want[i])
            /\ (gui[i] # Absent /\ gui[i].ref => vault[i] \in want[i])
        BY <1>5 DEF Answers, Answer, Present
      <4>4. it.secret # None => /\ it.secret \in want[i] /\ vault[i] # it.secret
                                /\ file[i] # Absent => file[i].obscured # it.secret
                                /\ gui[i] # Absent => gui[i].obscured # it.secret
        BY <1>2, <1>4 DEF SaveOf
      <4>5. it'.secret = it.secret /\ it'.target = it.target /\ it'.pc = "upsert"
        BY <1>9 DEF Steady
      <4> QED  BY <2>1, <3>1, <4>2, <4>3, <4>4, <4>5 DEF SaveOf
    <3>3. CASE ~(it.secret # None /\ it.target = "system")
      <4>1. UNCHANGED vault /\ it'.undo = it.undo /\ it'.pc = "upsert"
            /\ it'.secret = it.secret /\ it'.target = it.target
        BY <1>9, <3>3 DEF Steady
      <4> QED  BY <1>2, <1>4, <2>1, <3>1, <3>3, <4>1 DEF SaveOf
    <3> QED  BY <3>2, <3>3
  <2>4. Answering'
    BY <1>1, <1>5, <1>9, <2>1, <2>2 DEF Answering, Over, Steady, Present
  <2>5. Reported'
    BY <1>1, <1>9, <2>1 DEF IInv, Reported, Agreeing, Over, Steady
  <2> QED
    BY <1>1, <1>7, <1>9, <2>3, <2>4, <2>5 DEF IInv, Saving, Removing, Migration, Steady
<1> QED  BY <1>6, <1>8, <1>9

\* The record is written: from here the new secret is the one to answer with.
LEMMA UpsertInv ==
  ASSUME Types, IInv, Upsert(1)
  PROVE  IInv'
<1>1. it.kind = "save" /\ it.pc = "upsert" /\ ~Over
  BY DEF Upsert, At, it, Over
<1>2. PICK i \in Ids : SaveOf(i) /\ The(1) = i
  BY <1>1, Save
<1>3. UNCHANGED <<readable, setting, vault, window, removed>> /\ readable
  BY DEF Upsert, IInv
<1>4. Answers(file) /\ Answers(gui) /\ Present(gui) = Present(file)
  BY <1>1 DEF IInv, Answering
<1> DEFINE list == [file EXCEPT ![i] = Written(1)]
           Done == /\ file' = list /\ Returns(1, "retire", list)
                   /\ want' = IF it.secret = None THEN want ELSE [want EXCEPT ![i] = {it.secret}]
                   /\ kept' = kept \cup {i} /\ UNCHANGED faults
           Fails == /\ Fault /\ Goto(1, "undo") /\ UNCHANGED <<file, want, kept>>
<1>5. Done \/ Fails
  BY <1>2, <1>3 DEF Upsert, it
<1>6. CASE Done
  <2>1. Steady /\ it'.pc = "retire" /\ it'.new = file'
    BY <1>6, ReturnsIt
  <2>2. Written(1) = IF it.secret = None THEN gui[i]
                     ELSE [obscured |-> it.secret, ref |-> it.target = "system"]
    BY <1>1, <1>2 DEF Written, Edited, SaveOf, it
  <2>3. Written(1) # Absent
    <3>1. CASE it.secret = None
      BY <1>1, <1>2, <2>2, <3>1 DEF SaveOf
    <3>2. CASE it.secret # None
      <4>1. [obscured |-> it.secret, ref |-> it.target = "system"]
              \in [obscured : Nat \cup {None}, ref : BOOLEAN]
        BY <3>2, TypeOfIt DEF Known
      <4> QED  BY <2>2, <3>2, <4>1, Constants
    <3> QED  BY <3>1, <3>2
  <2>4. file'[i] = Written(1) /\ \A id \in Ids \ {i} : file'[id] = file[id]
    BY <1>6 DEF Types, Listings
  <2>5. Answers(file)'
    <3> SUFFICES ASSUME NEW id \in Ids, file'[id] # Absent
                 PROVE  Answer(file[id], id)' \in want'[id]
      BY DEF Answers, Present
    <3>1. CASE id # i
      <4>1. want'[id] = want[id] /\ file'[id] = file[id]
        BY <1>6, <2>4, <3>1 DEF Types
      <4> QED  BY <1>3, <1>4, <4>1 DEF Answers, Answer, Present
    <3>2. CASE id = i /\ it.secret = None
      BY <1>1, <1>2, <1>3, <1>4, <1>6, <2>2, <2>4, <3>2 DEF Answers, Answer, Present, SaveOf
    <3>3. CASE id = i /\ it.secret # None
      <4>1. want'[i] = {it.secret}
        BY <1>6, <3>3 DEF Types
      <4>2. file'[i] = [obscured |-> it.secret, ref |-> it.target = "system"]
        BY <2>2, <2>4, <3>3
      <4>3. file'[i].obscured = it.secret /\ (file'[i].ref <=> it.target = "system")
        <5> DEFINE record == [obscured |-> it.secret, ref |-> it.target = "system"]
        <5>1. record.obscured = it.secret /\ (record.ref <=> it.target = "system")
          OBVIOUS
        <5> HIDE DEF record
        <5>2. file'[i] = record
          BY <4>2 DEF record
        <5> QED  BY <5>1, <5>2
      <4>4. it.target = "system" => vault[i] = it.secret
        BY <1>1, <1>2, <3>3 DEF SaveOf
      <4> QED  BY <1>3, <3>3, <4>1, <4>3, <4>4 DEF Answer
    <3> QED  BY <3>1, <3>2, <3>3
  <2>6. SavedOrRemoved'
    BY <1>2, <1>3, <1>6, <2>3, <2>4 DEF IInv, SavedOrRemoved, ConnectionsKept,
       RemovedStaysRemoved, Present, SaveOf
  <2>7. Answering'
    BY <1>1, <2>1, <2>5 DEF Answering, Over, Steady
  <2>8. Reported'
    BY <1>1, <1>3, <2>1 DEF IInv, Reported, Agreeing, Over, Steady, window
  <2>9. Alone' /\ Flagged'
    BY <1>1, <1>3, <2>1, SteadyAlone, SteadyFlagged
  <2> QED
    BY <1>1, <1>3, <2>1, <2>6, <2>7, <2>8, <2>9 DEF IInv, Saving, Removing, Migration, Steady
<1>7. CASE Fails
  <2>1. Steady /\ it'.pc = "undo" /\ it'.new = it.new /\ it'.undo = it.undo /\ it'.ok = it.ok
    BY <1>7, GotoIt
  <2>2. Alone' /\ Flagged'
    BY <1>1, <1>3, <2>1, SteadyAlone, SteadyFlagged
  <2>3. Answering'
    BY <1>1, <1>3, <1>4, <1>7, <2>1
       DEF Answering, Answers, Answer, Present, Over, Steady, window
  <2>4. Reported'
    <3>1. faults' = faults + 1 /\ faults \in Nat
      BY <1>7 DEF Fault, Types
    <3> QED  BY <1>1, <1>3, <1>7, <2>1, <3>1 DEF IInv, Reported, Agreeing, Over, Steady, window
  <2>5. SaveOf(i)'
    BY <1>1, <1>2, <1>3, <1>7, <2>1 DEF SaveOf, Steady, window
  <2> QED
    BY <1>1, <1>3, <1>7, <2>1, <2>2, <2>3, <2>4, <2>5
       DEF IInv, Saving, Removing, Migration, Steady,
       SavedOrRemoved, ConnectionsKept, RemovedStaysRemoved, Present
<1> QED  BY <1>5, <1>6, <1>7

\* The former secret is put back, and it is the one the records ask for.
LEMMA UndoSecretInv ==
  ASSUME Types, IInv, UndoSecret(1)
  PROVE  IInv'
<1>1. it.kind = "save" /\ it.pc = "undo" /\ ~Over
  BY DEF UndoSecret, At, it, Over
<1>2. PICK i \in Ids : SaveOf(i) /\ The(1) = i
  BY <1>1, Save
<1>3. UNCHANGED <<file, readable, setting, window, kept, removed>> /\ readable
  BY DEF UndoSecret, IInv
<1>4. Answers(file) /\ Answers(gui) /\ Present(gui) = Present(file)
  BY <1>1 DEF IInv, Answering
<1>5. Steady /\ it'.pc = "done" /\ it'.ok = FALSE
  BY EndsIt DEF UndoSecret
<1>6. \/ /\ vault' = [id \in Ids |-> IF it.undo[id] = Kept THEN vault[id] ELSE it.undo[id]]
         /\ want' = [want EXCEPT ![i] = @ \ {it.secret}]
         /\ UNCHANGED faults
      \/ faults' = faults + 1 /\ UNCHANGED <<vault, want>>
  BY <1>2 DEF UndoSecret, Restored, Fault, it
<1>7. Answers(file)' /\ Answers(gui)'
  <2>1. UNCHANGED <<file, gui>>
    BY <1>3 DEF window
  <2>2. CASE UNCHANGED <<vault, want>>
    BY <1>4, <2>1, <2>2 DEF Answers, Answer, Present
  <2>3. CASE /\ vault' = [id \in Ids |-> IF it.undo[id] = Kept THEN vault[id] ELSE it.undo[id]]
             /\ want' = [want EXCEPT ![i] = @ \ {it.secret}]
    <3>1. \A id \in Ids \ {i} : vault'[id] = vault[id] /\ want'[id] = want[id]
      BY <1>2, <2>3 DEF SaveOf, Types
    <3>2. want'[i] = want[i] \ {it.secret}
      BY <2>3 DEF Types
    <3>3. it.secret = None => want'[i] = want[i]
      <4>1. None \notin want[i]
        BY Constants DEF Types, Known
      <4> QED  BY <3>2, <4>1
    <3>4. vault'[i] = IF it.undo[i] = Kept THEN vault[i] ELSE it.undo[i]
      BY <2>3
    <3>5. ASSUME NEW r, r # Absent, Answer(r, i) \in want[i],
                 it.undo[i] # Kept /\ r.ref => it.undo[i] \in want[i],
                 it.secret # None => r.obscured # it.secret
          PROVE  (IF r.ref THEN vault'[i] ELSE r.obscured) \in want'[i]
      BY <1>2, <3>2, <3>3, <3>4, <3>5 DEF SaveOf, Answer
    <3>6. ASSUME file[i] # Absent
          PROVE  (IF file[i].ref THEN vault'[i] ELSE file[i].obscured) \in want'[i]
      BY <1>2, <1>4, <3>5, <3>6 DEF Answers, Present, SaveOf
    <3>7. ASSUME gui[i] # Absent
          PROVE  (IF gui[i].ref THEN vault'[i] ELSE gui[i].obscured) \in want'[i]
      BY <1>2, <1>4, <3>5, <3>7 DEF Answers, Present, SaveOf
    <3> QED  BY <1>4, <2>1, <3>1, <3>6, <3>7 DEF Answers, Answer, Present
  <2> QED  BY <1>6, <2>2, <2>3
<1>8. Alone' /\ Flagged'
  BY <1>1, <1>3, <1>5, SteadyAlone, SteadyFlagged
<1>9. Answering'
  BY <1>1, <1>3, <1>4, <1>5, <1>7 DEF Answering, Over, Present, Steady, window
<1>10. Reported'
  BY <1>1, <1>3, <1>5, <1>6 DEF IInv, Reported, Agreeing, Over, Steady, window, Types
<1> QED
  BY <1>1, <1>3, <1>5, <1>8, <1>9, <1>10 DEF IInv, Saving, Removing, Migration, Steady,
     SavedOrRemoved, ConnectionsKept, RemovedStaysRemoved, Present

\* A credential is deleted when the record that was written does not refer to it.
LEMMA RetireInv ==
  ASSUME Types, IInv, Retire(1)
  PROVE  IInv'
<1>1. it.kind = "save" /\ it.pc = "retire" /\ Over
  BY DEF Retire, At, it, Over
<1>2. The(1) \in Ids /\ it.new = file
  BY <1>1, Subject, Constants DEF IInv, Answering, it
<1>3. UNCHANGED <<file, readable, setting, window, ghosts>> /\ readable
  BY DEF Retire, IInv
<1>4. Steady /\ it'.pc = "done" /\ it'.ok = TRUE /\ it'.new = it.new
  BY EndsIt DEF Retire
<1>5. UNCHANGED vault \/ (~file[The(1)].ref /\ vault' = [vault EXCEPT ![The(1)] = None])
  BY <1>2 DEF Retire, it
<1>6. Answers(file)'
  BY <1>2, <1>3, <1>5 DEF IInv, Answering, Answers, Answer, Present, Types, ghosts
<1>7. Alone' /\ Flagged'
  BY <1>1, <1>3, <1>4, SteadyAlone, SteadyFlagged DEF ghosts
<1>8. Answering'
  BY <1>2, <1>3, <1>4, <1>6 DEF Answering, Over
<1>9. Reported'
  BY <1>1, <1>3, <1>4 DEF IInv, Reported, Agreeing, Over, Steady, window
<1> QED
  BY <1>1, <1>3, <1>4, <1>7, <1>8, <1>9 DEF IInv, Saving, Removing, Migration, Steady,
     SavedOrRemoved, ConnectionsKept, RemovedStaysRemoved, Present, ghosts

\* A removal is written.
LEMMA DropInv ==
  ASSUME Types, IInv, Drop(1)
  PROVE  IInv'
<1>1. it.kind \in {"remove", "batch"} /\ it.pc = "drop" /\ ~Over /\ it.ids \subseteq Ids
  BY TypeOfIt DEF Drop, At, it, Over
<1>2. UNCHANGED <<readable, setting, vault, window, want>> /\ readable
  BY DEF Drop, IInv
<1>3. Answers(file) /\ Answers(gui) /\ Present(gui) = Present(file)
  BY <1>1 DEF IInv, Answering
<1>4. screen \notin {"editor", "settings"}
  BY <1>1 DEF IInv, Flagged
<1> DEFINE list == [id \in Ids |-> IF id \in it.ids THEN Absent ELSE file[id]]
           Done == /\ file' = list /\ Returns(1, "forget", list)
                   /\ kept' = kept \ it.ids /\ removed' = removed \cup it.ids
                   /\ UNCHANGED faults
           Fails == Ends(1, FALSE) /\ faults' \in {faults, faults + 1}
                    /\ UNCHANGED <<file, kept, removed>>
<1>5. Done \/ Fails
  BY DEF Drop, it, Fault
<1>6. CASE Done
  <2>1. Steady /\ it'.pc = "forget" /\ it'.new = file'
    BY <1>6, ReturnsIt
  <2>2. \A id \in Ids : file'[id] = IF id \in it.ids THEN Absent ELSE file[id]
    BY <1>6
  <2>3. Answering'
    BY <1>1, <1>2, <1>3, <2>1, <2>2 DEF Answering, Answers, Answer, Present, Over
  <2>4. SavedOrRemoved'
    BY <1>6, <2>2 DEF IInv, SavedOrRemoved, ConnectionsKept, RemovedStaysRemoved, Present
  <2>5. Removing'
    BY <2>1, <2>2 DEF Removing, Present, Steady
  <2>6. Flagged'
    BY <1>1, <1>2, <1>4, <2>1 DEF IInv, Flagged, Steady, window
  <2>7. Reported'
    BY <1>1, <1>2, <2>1 DEF IInv, Reported, Agreeing, Over, Steady, window
  <2> QED
    BY <1>1, <1>2, <2>1, <2>3, <2>4, <2>5, <2>6, <2>7, SteadyAlone
       DEF IInv, Saving, Migration, Steady
<1>7. CASE Fails
  <2>1. Steady /\ it'.pc = "done" /\ it'.ok = FALSE
    BY <1>7, EndsIt
  <2>2. Alone' /\ Flagged'
    BY <1>1, <1>2, <1>7, <2>1, SteadyAlone, SteadyFlagged
  <2>3. Answering'
    BY <1>1, <1>2, <1>3, <1>7, <2>1
       DEF Answering, Answers, Answer, Present, Over, Steady, window
  <2>4. Reported'
    BY <1>1, <1>2, <1>7, <2>1 DEF IInv, Reported, Agreeing, Over, Steady, window, Types
  <2> QED
    BY <1>1, <1>2, <1>7, <2>1, <2>2, <2>3, <2>4 DEF IInv, Saving, Removing, Migration, Steady,
       SavedOrRemoved, ConnectionsKept, RemovedStaysRemoved, Present
<1> QED  BY <1>5, <1>6, <1>7

\* Only credentials of removed connections are deleted.
LEMMA ForgetInv ==
  ASSUME Types, IInv, Forget(1)
  PROVE  IInv'
<1>1. it.kind \in {"remove", "batch"} /\ it.pc = "forget" /\ Over
  BY DEF Forget, At, it, Over
<1>2. UNCHANGED <<file, readable, setting, window, ghosts>> /\ readable /\ it.new = file
  BY <1>1 DEF Forget, IInv, Answering
<1>3. Steady /\ it'.pc = "done" /\ it'.ok = TRUE /\ it'.new = it.new
  BY EndsIt DEF Forget, WarnsOnly
<1>4. \A id \in Ids \ it.ids : vault'[id] = vault[id]
  BY DEF Forget, it
<1>5. Answers(file)'
  BY <1>1, <1>2, <1>4 DEF IInv, Removing, Answering, Answers, Answer, Present, ghosts
<1>6. Alone' /\ Flagged'
  BY <1>1, <1>2, <1>3, SteadyAlone, SteadyFlagged DEF ghosts
<1>7. Answering'
  BY <1>2, <1>3, <1>5 DEF Answering, Over
<1>8. Reported'
  BY <1>1, <1>2, <1>3 DEF IInv, Reported, Agreeing, Over, Steady, window
<1> QED
  BY <1>1, <1>2, <1>3, <1>6, <1>7, <1>8 DEF IInv, Saving, Removing, Migration, Steady,
     SavedOrRemoved, ConnectionsKept, RemovedStaysRemoved, Present, ghosts

\* A change that fails is undone when records may have been written.
LEMMA AbandonIt ==
  ASSUME Types, Abandon(1)
  PROVE  /\ Steady /\ it'.new = it.new /\ it'.undo = it.undo
         /\ IF it.kind = "settings" /\ it.target # it.from
            THEN it'.pc = "restore" ELSE it'.pc = "done" /\ it'.ok = FALSE
BY GotoIt, EndsIt DEF Abandon, Migrating, it

\* Preferences leave the records as they are.
LEMMA WritePreferencesInv ==
  ASSUME Types, IInv, WritePreferences(1)
  PROVE  IInv'
<1>1. it.kind \in {"preferences", "settings"} /\ it.pc = "preferences" /\ ~Over
  BY DEF WritePreferences, At, it, Over
<1>2. UNCHANGED <<disk, window, ghosts>> /\ readable
  BY DEF WritePreferences, IInv
<1>3. Answers(file) /\ Answers(gui) /\ Present(gui) = Present(file)
  BY <1>1 DEF IInv, Answering
<1> DEFINE Goes == it.kind = "settings" /\ Returns(1, "settings", file) /\ UNCHANGED faults
           Done == /\ it.kind = "preferences" /\ UNCHANGED faults
                   /\ task' = [task EXCEPT ![1].pc = "done", ![1].ok = TRUE, ![1].new = file]
           Fails == /\ Abandon(1)
                    /\ faults' \in {faults, faults + 1}
                    /\ it.kind = "settings" => faults' = faults + 1
<1>4. Goes \/ Done \/ Fails
  <2>1. it.kind = "settings" => it.shown \subseteq Present(file)
    BY <1>3 DEF IInv, Migration
  <2> QED  BY <1>1, <1>2, <2>1 DEF WritePreferences, Fault, it
<1>5. (readable /\ SavedOrRemoved)' /\ Answers(file)' /\ Answers(gui)' /\ Present(gui)' = Present(file)'
  BY <1>2, <1>3
     DEF IInv, SavedOrRemoved, ConnectionsKept, RemovedStaysRemoved, Present, Answers,
     Answer, disk, ghosts, window
<1>6. UNCHANGED <<gui, file, setting, storage, want, vault, removed>>
  BY <1>2 DEF disk, window, ghosts
<1>7. CASE Goes
  <2>1. Steady /\ it'.pc = "settings" /\ it'.new = file /\ it'.undo = it.undo
    BY <1>7, ReturnsIt
  <2>2. Migration'
    BY <1>1, <1>3, <1>6, <1>7, <2>1 DEF IInv, Migration, Steady, Present
  <2>3. Reported'
    BY <1>1, <1>6, <1>7, <2>1 DEF IInv, Reported, Agreeing, Over, Steady
  <2>4. Answering'
    BY <1>5, <1>7, <2>1 DEF Answering, Over, Steady
  <2> QED
    BY <1>1, <1>2, <1>5, <1>6, <1>7, <2>1, <2>2, <2>3, <2>4, SteadyAlone, SteadyFlagged
       DEF IInv, Saving, Removing, Steady
<1>8. CASE Done
  <2>1. it \in Jobs /\ task \in [Slots -> Jobs]
    BY TypeOfIt DEF Types
  <2>2. task' = [task EXCEPT ![1] = [it EXCEPT !.pc = "done", !.ok = TRUE, !.new = file]]
    BY <1>8, <2>1, Constants DEF it
  <2>3. it' = [it EXCEPT !.pc = "done", !.ok = TRUE, !.new = file]
        /\ \A t \in Slots \ {1} : task'[t] = task[t]
    BY <2>1, <2>2, Constants DEF it
  <2>4. Steady /\ it'.pc = "done" /\ it'.ok = TRUE /\ it'.new = file
    BY <2>1, <2>3 DEF Steady, Jobs
  <2>5. Answering' /\ Reported'
    BY <1>1, <1>5, <1>6, <1>8, <2>4 DEF IInv, Answering, Reported, Agreeing, Over, Steady
  <2> QED
    BY <1>1, <1>2, <1>5, <1>6, <1>8, <2>4, <2>5, SteadyAlone, SteadyFlagged
       DEF IInv, Saving, Removing, Migration, Steady
<1>9. CASE Fails
  <2>1. /\ Steady /\ it'.new = it.new /\ it'.undo = it.undo
        /\ IF it.kind = "settings" /\ it.target # it.from
           THEN it'.pc = "restore" ELSE it'.pc = "done" /\ it'.ok = FALSE
    BY <1>9, AbandonIt
  <2>2. Migration'
    BY <1>1, <1>6, <2>1 DEF IInv, Migration, Steady, Present
  <2>3. Reported'
    BY <1>1, <1>6, <1>9, <2>1 DEF IInv, Reported, Agreeing, Over, Steady, Types
  <2>4. Answering'
    BY <1>1, <1>5, <2>1 DEF Answering, Over, Steady
  <2> QED
    BY <1>1, <1>2, <1>5, <1>6, <2>1, <2>2, <2>3, <2>4, SteadyAlone, SteadyFlagged
       DEF IInv, Saving, Removing, Steady
<1> QED  BY <1>4, <1>7, <1>8, <1>9

\* Steps of a change of the storage that write no more than the task itself.
LEMMA FailsInv ==
  ASSUME Types, IInv, it.kind = "settings",
         it.pc \in {"save", "reload", "save_final", "reload_final"},
         Fault, Goto(1, "restore"), UNCHANGED <<disk, window, ghosts>>
  PROVE  IInv'
<1>1. Steady /\ it'.pc = "restore" /\ it'.new = it.new /\ it'.undo = it.undo
  BY GotoIt
<1>2. UNCHANGED <<gui, file, readable, setting, storage, want, vault, kept, removed>>
  BY DEF disk, window, ghosts
<1>3. faults' = faults + 1 /\ faults \in Nat
  BY DEF Fault, Types
<1>4. Migration'
  BY <1>1, <1>2 DEF IInv, Migration, Steady, Present
<1>5. Reported'
  BY <1>1, <1>2, <1>3 DEF IInv, Reported, Agreeing, Over, Steady
<1>6. Answering'
  BY <1>1, <1>2 DEF IInv, Answering, Answers, Answer, Present, Over, Steady
<1> QED
  BY <1>1, <1>2, <1>4, <1>5, <1>6, SteadyAlone, SteadyFlagged
    
        DEF IInv, Saving, Removing, Steady, SavedOrRemoved, ConnectionsKept,
         RemovedStaysRemoved, Present

\* Everything is noted before a record is written.
LEMMA PreparedInv ==
  ASSUME Types, IInv, Prepared(1)
  PROVE  IInv'
<1>1. it.kind = "settings" /\ it.pc = "prepare" /\ ~Over
  BY DEF Prepared, At, it, Over
<1>2. Steady /\ it'.pc = "save" /\ it'.new = it.new /\ it'.undo = it.undo
  BY GotoIt DEF Prepared
<1>3. UNCHANGED <<gui, file, readable, setting, storage, want, vault, kept, removed, faults, window>>
  BY DEF Prepared, disk, window, ghosts
<1>4. \A id \in it.ids : it.undo[id] # Kept
  BY DEF Prepared, Unprepared, it
<1>5. Migration'
  BY <1>1, <1>2, <1>3, <1>4 DEF IInv, Migration, Steady, Present, Answers, Answer
<1>6. Reported'
  BY <1>1, <1>2, <1>3 DEF IInv, Reported, Agreeing, Over, Steady
<1>7. Answering'
  BY <1>1, <1>2, <1>3 DEF IInv, Answering, Answers, Answer, Present, Over, Steady
<1> QED
  BY <1>1, <1>2, <1>3, <1>5, <1>6, <1>7, SteadyAlone, SteadyFlagged
    
        DEF IInv, Saving, Removing, Steady, SavedOrRemoved, ConnectionsKept,
         RemovedStaysRemoved, Present

\* The migrated records answer like the former ones, with and without references.
LEMMA SaveAllInv ==
  ASSUME Types, IInv, SaveCandidates(1) \/ SaveFinal(1)
  PROVE  IInv'
<1>1. it.kind = "settings" /\ it.pc \in {"save", "save_final"} /\ ~Over
  BY DEF SaveCandidates, SaveFinal, SaveAll, At, it, Over
<1>2. UNCHANGED <<setting, vault, window, ghosts>> /\ readable
  BY DEF SaveCandidates, SaveFinal, SaveAll, IInv
<1> DEFINE next == IF it.pc = "save" THEN "reload" ELSE "reload_final"
           Done == file' = it.new /\ readable' = TRUE /\ Goto(1, next) /\ UNCHANGED faults
           Fails == Fault /\ Goto(1, "restore") /\ UNCHANGED <<file, readable>>
<1>3. Done \/ Fails
  BY DEF SaveCandidates, SaveFinal, SaveAll, At, it
<1>4. CASE Fails
  BY <1>1, <1>2, <1>4, FailsInv DEF disk
<1>5. CASE Done
  <2>1. Steady /\ it'.pc = next /\ it'.new = it.new /\ it'.undo = it.undo
    BY <1>5, GotoIt
  <2>2. UNCHANGED <<gui, setting, storage, want, vault, kept, removed, faults>> /\ file' = it.new
    BY <1>2, <1>5 DEF window, ghosts
  <2>3. Present(it.new) = Present(gui) /\ Present(gui) = Present(file)
        /\ Answers(it.new) /\ Answers(gui)
    BY <1>1 DEF IInv, Migration, Answering
  <2>4. Migration'
    BY <1>1, <2>1, <2>2, <2>3 DEF IInv, Migration, Steady, Present, Answers, Answer
  <2>5. Reported'
    BY <1>1, <2>1, <2>2 DEF IInv, Reported, Agreeing, Over, Steady
  <2>6. Answering'
    BY <1>1, <2>1, <2>2, <2>3 DEF Answering, Answers, Answer, Present, Over, Steady
  <2>7. SavedOrRemoved'
    BY <2>2, <2>3 DEF IInv, SavedOrRemoved, ConnectionsKept, RemovedStaysRemoved, Present
  <2> QED
    BY <1>1, <1>2, <1>5, <2>1, <2>2, <2>4, <2>5, <2>6, <2>7, SteadyAlone, SteadyFlagged
       DEF IInv, Saving, Removing, Steady
<1> QED  BY <1>3, <1>4, <1>5

\* Records that drop their references keep the secret that was read.
LEMMA ReloadInv ==
  ASSUME Types, IInv, Reload(1)
  PROVE  IInv'
<1>1. it.kind = "settings" /\ it.pc = "reload" /\ ~Over
  BY DEF Reload, At, it, Over
<1>2. UNCHANGED <<disk, window, ghosts>>
  BY DEF Reload
<1>3. file = it.new
  BY <1>1 DEF IInv, Migration
<1>4. CASE Fault /\ Goto(1, "restore")
  BY <1>1, <1>2, <1>4, FailsInv
<1>5. CASE Returns(1, "save_final", Final(1)) /\ UNCHANGED faults
  <2>1. Steady /\ it'.pc = "save_final" /\ it'.new = Final(1) /\ it'.undo = it.undo
    BY <1>5, ReturnsIt
  <2>2. UNCHANGED <<gui, file, readable, setting, storage, want, vault, kept, removed, faults>>
    BY <1>2, <1>5 DEF disk, window, ghosts
  <2>3. Present(it.new) = Present(gui) /\ Answers(it.new)
    BY <1>1 DEF IInv, Migration
  <2>4. \A id \in Ids : it.new[id] # Absent => it.new[id] \in Records
    BY TypeOfIt DEF Listings
  <2>5. \A id \in Ids :
          /\ it.new[id] = Absent => Final(1)[id] = Absent
          /\ it.new[id] # Absent =>
               /\ Final(1)[id] # Absent
               /\ Final(1)[id].obscured = it.new[id].obscured
               /\ Final(1)[id].ref <=> it.new[id].ref /\ it.target = "system"
    <3> SUFFICES ASSUME NEW id \in Ids
                 PROVE  /\ it.new[id] = Absent => Final(1)[id] = Absent
                        /\ it.new[id] # Absent =>
                             /\ Final(1)[id] # Absent
                             /\ Final(1)[id].obscured = it.new[id].obscured
                             /\ Final(1)[id].ref <=> it.new[id].ref /\ it.target = "system"
      OBVIOUS
    <3>1. Final(1)[id] = IF it.new[id] = Absent THEN Absent
                         ELSE [it.new[id] EXCEPT !.ref = it.new[id].ref /\ it.target = "system"]
      BY DEF Final, it
    <3>2. CASE it.new[id] # Absent
      <4> DEFINE r == it.new[id]
                 ref == r.ref /\ it.target = "system"
      <4>1. r \in Records /\ ref \in BOOLEAN
        BY <2>4, <3>2 DEF Records
      <4>2. Final(1)[id] = [r EXCEPT !.ref = ref]
        BY <3>1, <3>2
      <4>3. ref <=> it.new[id].ref /\ it.target = "system"
        OBVIOUS
      <4> HIDE DEF ref
      <4>4. [r EXCEPT !.ref = ref] \in [obscured : Nat \cup {None}, ref : BOOLEAN]
            /\ [r EXCEPT !.ref = ref].obscured = r.obscured
            /\ [r EXCEPT !.ref = ref].ref = ref
        BY <4>1 DEF Records, Known
      <4> QED  BY <3>2, <4>2, <4>3, <4>4, Constants
    <3> QED  BY <3>1, <3>2
  <2>6. Answers(Final(1))
    <3> SUFFICES ASSUME NEW id \in Present(Final(1))
                 PROVE  Answer(Final(1)[id], id) \in want[id]
      BY DEF Answers
    <3>1. id \in Ids /\ it.new[id] # Absent /\ id \in Present(gui)
      BY <2>3, <2>5 DEF Present
    <3>2. CASE it.target = "system"
      BY <2>3, <2>5, <3>1, <3>2 DEF Answers, Answer, Present
    <3>3. CASE it.target # "system"
      <4>1. it.target = "obscure"
        BY <3>3, TypeOfIt DEF Storages
      <4>2. it.undo[id] # Kept
        BY <1>1, <3>1 DEF IInv, Migration
      <4>3. it.new[id].obscured \in want[id]
        BY <1>1, <3>1, <4>1, <4>2 DEF IInv, Migration
      <4> QED  BY <2>5, <3>1, <3>3, <4>3 DEF Answer
    <3> QED  BY <3>2, <3>3
  <2>7. Migration'
    <3>1. Present(Final(1)) = Present(gui)
      BY <2>3, <2>5 DEF Present
    <3>2. it.target = "obscure" => \A id \in Present(gui) : ~Final(1)[id].ref
      BY <2>3, <2>5 DEF Present
    <3>3. Answers(it.new)'
      BY <2>1, <2>2, <2>6 DEF Answers, Answer, Present
    <3> QED  BY <1>1, <2>1, <2>2, <3>1, <3>2, <3>3 DEF IInv, Migration, Steady, Present
  <2>8. Reported'
    BY <1>1, <2>1, <2>2 DEF IInv, Reported, Agreeing, Over, Steady
  <2>9. Answering'
    BY <1>1, <2>1, <2>2 DEF IInv, Answering, Answers, Answer, Present, Over, Steady
  <2> QED
    BY <1>1, <1>2, <2>1, <2>2, <2>7, <2>8, <2>9, SteadyAlone, SteadyFlagged
      
          DEF IInv, Saving, Removing, Steady, SavedOrRemoved, ConnectionsKept,
         RemovedStaysRemoved, Present
<1> QED  BY <1>3, <1>4, <1>5 DEF Reload, it

\* After the second list the references are gone.
LEMMA ReloadFinalInv ==
  ASSUME Types, IInv, ReloadFinal(1)
  PROVE  IInv'
<1>1. it.kind = "settings" /\ it.pc = "reload_final" /\ ~Over
  BY DEF ReloadFinal, At, it, Over
<1>2. UNCHANGED <<disk, window, ghosts>>
  BY DEF ReloadFinal
<1>3. file = it.new
  BY <1>1 DEF IInv, Migration
<1>4. CASE Fault /\ Goto(1, "restore")
  BY <1>1, <1>2, <1>4, FailsInv
<1>5. CASE Goto(1, "preferences") /\ UNCHANGED faults
  <2>1. Steady /\ it'.pc = "preferences" /\ it'.new = it.new /\ it'.undo = it.undo
    BY <1>5, GotoIt
  <2>2. UNCHANGED <<gui, file, readable, setting, storage, want, vault, kept, removed, faults>>
    BY <1>2, <1>5 DEF disk, window, ghosts
  <2>3. Migration'
    BY <1>1, <1>3, <2>1, <2>2 DEF IInv, Migration, Steady, Present
  <2>4. Reported'
    BY <1>1, <2>1, <2>2 DEF IInv, Migration, Reported, Agreeing, Over, Steady
  <2>5. Answering'
    BY <1>1, <2>1, <2>2 DEF IInv, Answering, Answers, Answer, Present, Over, Steady
  <2> QED
    BY <1>1, <1>2, <2>1, <2>2, <2>3, <2>4, <2>5, SteadyAlone, SteadyFlagged
      
          DEF IInv, Saving, Removing, Steady, SavedOrRemoved, ConnectionsKept,
         RemovedStaysRemoved, Present
<1> QED  BY <1>3, <1>4, <1>5 DEF ReloadFinal, it

\* A prepared record answers like the former one, and the former one still does.
LEMMA PrepareInv ==
  ASSUME Types, IInv, Prepare(1)
  PROVE  IInv'
<1>1. it.kind = "settings" /\ it.pc = "prepare" /\ ~Over
  BY DEF Prepare, At, it, Over
<1>2. UNCHANGED <<file, readable, setting, window, ghosts>> /\ readable
  BY DEF Prepare, IInv
<1>3. UNCHANGED <<gui, storage, want, kept, removed>>
  BY <1>2 DEF window, ghosts
<1>4. /\ Answers(file) /\ Answers(gui) /\ Answers(it.new)
      /\ Present(gui) = Present(file) /\ Present(it.new) = Present(gui)
      /\ it.old = gui /\ it.ids = Present(gui)
  BY <1>1 DEF IInv, Answering, Migration
<1>5. (readable /\ SavedOrRemoved)'
  BY <1>2, <1>3 DEF IInv, SavedOrRemoved, ConnectionsKept, RemovedStaysRemoved, Present
<1>6. CASE /\ Goto(1, "unprepare") /\ UNCHANGED vault
           /\ faults' = faults + 1 \/ UNCHANGED faults
  <2>1. Steady /\ it'.pc = "unprepare" /\ it'.new = it.new /\ it'.undo = it.undo
    BY <1>6, GotoIt
  <2>2. Migration'
    BY <1>1, <1>2, <1>3, <1>6, <2>1 DEF IInv, Migration, Steady, Present
  <2>3. Reported'
    BY <1>1, <1>2, <1>3, <1>6, <2>1 DEF IInv, Reported, Agreeing, Over, Steady, Types
  <2>4. Answering'
    BY <1>1, <1>2, <1>3, <1>6, <2>1 DEF IInv, Answering, Answers, Answer, Present, Over, Steady
  <2> QED
    BY <1>1, <1>2, <1>3, <1>5, <2>1, <2>2, <2>3, <2>4, SteadyAlone, SteadyFlagged
       DEF IInv, Saving, Removing, Steady
<1>7. ASSUME NEW id \in Unprepared(1), PreparesOne(1, id)
      PROVE  IInv'
  <2> DEFINE undo == [it.undo EXCEPT ![id] = vault[id]]
             new == [it.new EXCEPT ![id] = PreparedRecord(1, id)]
             r == gui[id]
             puts == it.target = "system" /\ ~r.ref /\ r.obscured # None
  <2>1. /\ id \in Ids /\ id \in Present(gui) /\ id \in Present(file) /\ r # Absent
        /\ it.undo[id] = Kept
    BY <1>4 DEF Unprepared, Present, it
  <2>2. r \in Records
    BY <2>1 DEF Types, Listings
  <2>3. task' = [task EXCEPT ![1].undo = undo, ![1].new = new]
    BY <1>7, Constants DEF PreparesOne, it, Types
  <2>4. UNCHANGED faults /\ vault' = IF puts THEN [vault EXCEPT ![id] = r.obscured] ELSE vault
    BY <1>4, <1>7 DEF PreparesOne, PutsAside, it
  <2>5. PreparedRecord(1, id) = [obscured |-> IF it.target = "obscure" /\ r.ref THEN vault[id]
                                              ELSE r.obscured,
                                 ref |-> r.ref \/ puts]
    BY <1>4 DEF PreparedRecord, PutsAside, it
  <2>6. /\ PreparedRecord(1, id) # Absent
        /\ PreparedRecord(1, id).obscured = IF it.target = "obscure" /\ r.ref THEN vault[id]
                                            ELSE r.obscured
        /\ PreparedRecord(1, id).ref <=> r.ref \/ puts
    <3> DEFINE ref == r.ref \/ puts
               obscured == IF it.target = "obscure" /\ r.ref THEN vault[id] ELSE r.obscured
    <3>1. ref \in BOOLEAN /\ obscured \in Nat \cup {None}
      BY <2>1, <2>2 DEF Records, Types, Known
    <3>2. ref <=> r.ref \/ puts
      OBVIOUS
    <3>3. PreparedRecord(1, id) = [obscured |-> obscured, ref |-> ref]
      BY <2>5
    <3> HIDE DEF ref
    <3>4. [obscured |-> obscured, ref |-> ref] \in [obscured : Nat \cup {None}, ref : BOOLEAN]
      BY <3>1
    <3> QED  BY <3>2, <3>3, <3>4, Constants
  <2> HIDE DEF undo, new
  <2>7. Steady /\ it'.undo = undo /\ it'.new = new /\ it'.pc = it.pc /\ it'.ok = it.ok
    <3>1. it \in Jobs /\ task \in [Slots -> Jobs]
      BY TypeOfIt DEF Types
    <3>2. task' = [task EXCEPT ![1] = [it EXCEPT !.undo = undo, !.new = new]]
      BY <2>3, <3>1, Constants DEF it
    <3>3. it' = [it EXCEPT !.undo = undo, !.new = new] /\ \A t \in Slots \ {1} : task'[t] = task[t]
      BY <3>1, <3>2, Constants DEF it
    <3> QED  BY <3>1, <3>3 DEF Steady, Jobs
  <2>8. /\ undo[id] = vault[id] /\ \A other \in Ids \ {id} : undo[other] = it.undo[other]
        /\ new[id] = PreparedRecord(1, id) /\ \A other \in Ids \ {id} : new[other] = it.new[other]
    BY <2>1, TypeOfIt DEF undo, new, Listings
  <2>9. /\ \A other \in Ids \ {id} : vault'[other] = vault[other]
        /\ vault'[id] = IF puts THEN r.obscured ELSE vault[id]
    BY <2>1, <2>4 DEF Types
  <2>10. /\ IF r.ref THEN vault[id] \in want[id] ELSE r.obscured \in want[id]
         /\ file[id].ref => vault[id] \in want[id]
    BY <1>4, <2>1 DEF Answers, Answer
  <2>11. Answers(file)' /\ Answers(gui)'
    BY <1>2, <1>3, <1>4, <2>9, <2>10 DEF Answers, Answer, Present
  <2>12. Present(new) = Present(gui)
    BY <1>4, <2>1, <2>6, <2>8 DEF Present
  <2>13. Answers(it.new)'
    <3> SUFFICES ASSUME NEW other \in Ids, new[other] # Absent
                 PROVE  (IF new[other].ref THEN vault'[other] ELSE new[other].obscured) \in want[other]
      BY <1>3, <2>7 DEF Answers, Answer, Present
    <3>1. CASE other # id
      BY <1>4, <2>8, <2>9, <3>1 DEF Answers, Answer, Present
    <3>2. CASE other = id
      BY <2>2, <2>6, <2>8, <2>9, <2>10, <3>2, TypeOfIt DEF Storages, Records
    <3> QED  BY <3>1, <3>2
  <2>14. it.target = "obscure" =>
           \A other \in Present(gui) : undo[other] # Kept => new[other].obscured \in want[other]
    <3> SUFFICES ASSUME it.target = "obscure", NEW other \in Present(gui), undo[other] # Kept
                 PROVE  new[other].obscured \in want[other]
      OBVIOUS
    <3>1. CASE other = id
      BY <2>6, <2>8, <2>10, <3>1
    <3>2. CASE other # id
      BY <1>1, <2>8, <3>2 DEF IInv, Migration, Present
    <3> QED  BY <3>1, <3>2
  <2>15. /\ \A other \in Present(gui) :
              undo[other] # Kept /\ gui[other].ref => undo[other] \in want[other]
         /\ \A other \in Present(file) :
              undo[other] # Kept /\ file[other].ref => undo[other] \in want[other]
    BY <1>1, <2>8, <2>10 DEF IInv, Migration, Present
  <2>16. Migration'
    BY <1>1, <1>2, <1>3, <1>4, <2>7, <2>12, <2>13, <2>14, <2>15
       DEF IInv, Migration, Steady, Present
  <2>17. Reported'
    BY <1>1, <1>2, <1>3, <2>4, <2>7 DEF IInv, Reported, Agreeing, Over, Steady
  <2>18. Answering'
    BY <1>1, <1>2, <1>3, <1>4, <2>7, <2>11 DEF Answering, Over, Steady, Present
  <2> QED
    BY <1>1, <1>2, <1>3, <1>5, <2>7, <2>16, <2>17, <2>18, SteadyAlone, SteadyFlagged
       DEF IInv, Saving, Removing, Steady
<1>8. ASSUME NEW id \in Unprepared(1), LeftBehind(1, id)
      PROVE  IInv'
  <2> DEFINE r == gui[id]
  <2>1. /\ id \in Present(gui) /\ id \in Ids /\ r \in Records /\ ~r.ref /\ r.obscured \in want[id]
    BY <1>4, <1>8 DEF Unprepared, LeftBehind, PutsAside, Present, it, Types, Listings,
                      Answers, Answer
  <2>2. vault' = [vault EXCEPT ![id] = r.obscured] /\ Goto(1, "unprepare") /\ faults' = faults + 2
    BY <1>4, <1>8 DEF LeftBehind, it
  <2>3. /\ Steady /\ it'.pc = "unprepare" /\ it'.new = it.new /\ it'.undo = it.undo /\ it'.ok = it.ok
    BY <2>2, GotoIt
  <2>4. \A other \in Ids : vault'[other] = vault[other] \/ vault'[other] \in want[other]
    BY <2>1, <2>2 DEF Types
  <2>5. Answers(file)' /\ Answers(gui)'
    BY <1>2, <1>3, <1>4, <2>4 DEF Answers, Answer, Present
  <2>6. Migration'
    BY <1>1, <1>2, <1>3, <2>3 DEF IInv, Migration, Steady, Present
  <2>7. Reported'
    BY <1>1, <1>2, <1>3, <2>2, <2>3 DEF IInv, Reported, Agreeing, Over, Steady, Types
  <2>8. Answering'
    BY <1>1, <1>2, <1>3, <1>4, <2>3, <2>5 DEF Answering, Over, Steady, Present
  <2> QED
    BY <1>1, <1>2, <1>3, <1>5, <2>3, <2>6, <2>7, <2>8, SteadyAlone, SteadyFlagged
       DEF IInv, Saving, Removing, Steady
<1> QED  BY <1>6, <1>7, <1>8, PrepareCases, Constants

\* The setting is the target from the moment it is written.
LEMMA WriteSettingsInv ==
  ASSUME Types, IInv, WriteSettings(1)
  PROVE  IInv'
<1>1. it.kind = "settings" /\ it.pc = "settings" /\ ~Over
  BY DEF WriteSettings, At, it, Over
<1>2. UNCHANGED <<file, readable, vault, window, ghosts>> /\ readable
  BY DEF WriteSettings, IInv
<1>3. UNCHANGED <<gui, storage, want, kept, removed>>
  BY <1>2 DEF window, ghosts
<1> DEFINE Done == setting' = it.target /\ Goto(1, "retire") /\ UNCHANGED faults
           Fails == faults' = faults + 1 /\ Abandon(1) /\ UNCHANGED setting
<1>4. Done \/ Fails
  BY DEF WriteSettings, Fault, it
<1>5. (readable /\ SavedOrRemoved)'
  BY <1>2, <1>3 DEF IInv, SavedOrRemoved, ConnectionsKept, RemovedStaysRemoved, Present
<1>6. CASE Done
  <2>1. Steady /\ it'.pc = "retire" /\ it'.new = it.new /\ it'.undo = it.undo
    BY <1>6, GotoIt
  <2>2. Migration'
    BY <1>1, <1>2, <1>3, <2>1 DEF IInv, Migration, Steady, Present
  <2>3. Reported'
    BY <1>1, <1>2, <1>3, <1>6, <2>1 DEF Reported, Agreeing, Over, Steady
  <2>4. Answering'
    BY <1>1, <1>2, <1>3, <2>1 DEF IInv, Answering, Answers, Answer, Present, Over, Steady
  <2> QED
    BY <1>1, <1>2, <1>3, <1>5, <2>1, <2>2, <2>3, <2>4, SteadyAlone, SteadyFlagged
       DEF IInv, Saving, Removing, Steady
<1>7. CASE Fails
  <2>1. /\ Steady /\ it'.new = it.new /\ it'.undo = it.undo
        /\ IF it.kind = "settings" /\ it.target # it.from
           THEN it'.pc = "restore" ELSE it'.pc = "done" /\ it'.ok = FALSE
    BY <1>7, AbandonIt
  <2>2. Migration'
    BY <1>1, <1>2, <1>3, <2>1 DEF IInv, Migration, Steady, Present
  <2>3. Reported'
    BY <1>1, <1>2, <1>3, <1>7, <2>1 DEF IInv, Reported, Agreeing, Over, Steady, Types
  <2>4. Answering'
    BY <1>1, <1>2, <1>3, <2>1 DEF IInv, Answering, Answers, Answer, Present, Over, Steady
  <2> QED
    BY <1>1, <1>2, <1>3, <1>5, <2>1, <2>2, <2>3, <2>4, SteadyAlone, SteadyFlagged
       DEF IInv, Saving, Removing, Steady
<1> QED  BY <1>4, <1>6, <1>7

\* No record refers to a credential that is deleted.
LEMMA RetireAllInv ==
  ASSUME Types, IInv, RetireAll(1)
  PROVE  IInv'
<1>1. it.kind = "settings" /\ it.pc = "retire" /\ ~Over
  BY DEF RetireAll, At, it, Over
<1>2. UNCHANGED <<file, readable, setting, window, ghosts>> /\ readable /\ file = it.new
  BY <1>1 DEF RetireAll, IInv, Migration
<1>3. UNCHANGED <<gui, storage, want, kept, removed>>
  BY <1>2 DEF window, ghosts
<1>4. Steady /\ it'.pc = "done" /\ it'.ok = TRUE /\ it'.new = it.new /\ it'.undo = it.undo
  BY EndsIt DEF RetireAll
<1>5. \A id \in Ids : \/ vault'[id] = vault[id]
                      \/ it.target = "obscure" /\ it.from # it.target
  BY DEF RetireAll, Migrating, it
<1>6. Answers(file)'
  <2> SUFFICES ASSUME NEW id \in Present(file)  PROVE Answer(file[id], id)' \in want[id]
    BY <1>2, <1>3 DEF Answers, Present
  <2>1. Answer(file[id], id) \in want[id] /\ id \in Ids
    BY DEF IInv, Answering, Answers, Present
  <2>2. CASE vault'[id] = vault[id]
    BY <1>2, <2>1, <2>2 DEF Answer
  <2>3. CASE it.target = "obscure" /\ it.from # it.target
    BY <1>1, <1>2, <2>1, <2>3 DEF IInv, Migration, Answer
  <2> QED  BY <1>5, <2>1, <2>2, <2>3
<1>7. (readable /\ SavedOrRemoved)'
  BY <1>2, <1>3 DEF IInv, SavedOrRemoved, ConnectionsKept, RemovedStaysRemoved, Present
<1>8. Migration'
  BY <1>1, <1>2, <1>3, <1>4 DEF IInv, Migration, Steady, Present
<1>9. Reported'
  BY <1>1, <1>2, <1>3, <1>4 DEF IInv, Reported, Agreeing, Over, Steady
<1>10. Answering'
  BY <1>2, <1>4, <1>6 DEF Answering, Over
<1> QED
  BY <1>1, <1>2, <1>3, <1>4, <1>7, <1>8, <1>9, <1>10, SteadyAlone, SteadyFlagged
     DEF IInv, Saving, Removing, Steady

\* The former records are put back, and still answer.
LEMMA RestoreInv ==
  ASSUME Types, IInv, Restore(1)
  PROVE  IInv'
<1>1. it.kind = "settings" /\ it.pc = "restore" /\ ~Over /\ it.old = gui
  BY DEF Restore, At, it, Over, IInv, Migration
<1>2. UNCHANGED <<setting, vault, window, ghosts>> /\ readable
  BY DEF Restore, IInv
<1>3. UNCHANGED <<gui, storage, want, kept, removed>>
  BY <1>2 DEF window, ghosts
<1>4. Present(gui) = Present(file) /\ Answers(gui) /\ Answers(file)
  BY <1>1 DEF IInv, Answering
<1> DEFINE Done == file' = gui /\ readable' = TRUE /\ Goto(1, "unprepare") /\ UNCHANGED faults
           Fails == faults' = faults + 1 /\ Ends(1, FALSE) /\ UNCHANGED <<file, readable>>
<1>5. Done \/ Fails
  BY <1>1 DEF Restore, Fault, GiveUp, it
<1>6. CASE Done
  <2>1. Steady /\ it'.pc = "unprepare" /\ it'.new = it.new /\ it'.undo = it.undo
    BY <1>6, GotoIt
  <2>2. Migration'
    BY <1>1, <1>3, <1>6, <2>1 DEF IInv, Migration, Steady, Present
  <2>3. Reported'
    BY <1>1, <1>2, <1>3, <1>6, <2>1 DEF IInv, Reported, Agreeing, Over, Steady
  <2>4. Answering'
    BY <1>1, <1>2, <1>3, <1>4, <1>6, <2>1 DEF Answering, Answers, Answer, Present, Over, Steady
  <2>5. SavedOrRemoved'
    BY <1>3, <1>4, <1>6 DEF IInv, SavedOrRemoved, ConnectionsKept, RemovedStaysRemoved, Present
  <2> QED
    BY <1>1, <1>2, <1>3, <1>6, <2>1, <2>2, <2>3, <2>4, <2>5, SteadyAlone, SteadyFlagged
       DEF IInv, Saving, Removing, Steady
<1>7. CASE Fails
  <2>1. Steady /\ it'.pc = "done" /\ it'.ok = FALSE /\ it'.new = it.new /\ it'.undo = it.undo
    BY <1>7, EndsIt
  <2>2. Migration'
    BY <1>1, <1>3, <1>7, <2>1 DEF IInv, Migration, Steady, Present
  <2>3. Reported'
    BY <1>1, <1>2, <1>3, <1>7, <2>1 DEF IInv, Reported, Agreeing, Over, Steady, Types
  <2>4. Answering'
    BY <1>1, <1>2, <1>3, <1>4, <1>7, <2>1 DEF Answering, Answers, Answer, Present, Over, Steady
  <2>5. SavedOrRemoved'
    BY <1>3, <1>7 DEF IInv, SavedOrRemoved, ConnectionsKept, RemovedStaysRemoved, Present
  <2> QED
    BY <1>1, <1>2, <1>3, <1>7, <2>1, <2>2, <2>3, <2>4, <2>5, SteadyAlone, SteadyFlagged
       DEF IInv, Saving, Removing, Steady
<1> QED  BY <1>5, <1>6, <1>7

\* Then the credentials are, each of them or all but one.
LEMMA UnprepareInv ==
  ASSUME Types, IInv, Unprepare(1)
  PROVE  IInv'
<1>1. it.kind = "settings" /\ it.pc = "unprepare" /\ ~Over
  BY DEF Unprepare, At, it, Over
<1>2. UNCHANGED <<file, readable, setting, window, ghosts>> /\ readable
  BY DEF Unprepare, IInv
<1>3. UNCHANGED <<gui, storage, want, kept, removed>>
  BY <1>2 DEF window, ghosts
<1>4. Steady /\ it'.pc = "done" /\ it'.ok = FALSE /\ it'.new = it.new /\ it'.undo = it.undo
  BY EndsIt DEF Unprepare
<1>5. faults' \in {faults, faults + 1}
  BY DEF Unprepare, Fault
<1>6. \A id \in Ids : \/ vault'[id] = vault[id]
                      \/ it.undo[id] # Kept /\ vault'[id] = it.undo[id]
  BY DEF Unprepare, Restored, it
<1>7. Present(gui) = Present(file) /\ Answers(gui) /\ Answers(file)
  BY <1>1 DEF IInv, Answering
<1>8. Answers(gui)' /\ Answers(file)'
  BY <1>1, <1>2, <1>3, <1>6, <1>7 DEF IInv, Migration, Answers, Answer, Present
<1>9. (readable /\ SavedOrRemoved)'
  BY <1>2, <1>3 DEF IInv, SavedOrRemoved, ConnectionsKept, RemovedStaysRemoved, Present
<1>10. Migration'
  BY <1>1, <1>2, <1>3, <1>4 DEF IInv, Migration, Steady, Present
<1>11. Reported'
  BY <1>1, <1>2, <1>3, <1>4, <1>5 DEF IInv, Reported, Agreeing, Over, Steady, Types
<1>12. Answering'
  BY <1>1, <1>2, <1>3, <1>4, <1>7, <1>8 DEF Answering, Present, Over, Steady
<1> QED
  BY <1>1, <1>2, <1>3, <1>4, <1>9, <1>10, <1>11, <1>12, SteadyAlone, SteadyFlagged
     DEF IInv, Saving, Removing, Steady

\* IInv is kept by every step, under the hypothesis.
LEMMA StepInv ==
  ASSUME Types, IInv, ~Unreadable, [Next /\ RemovalsAlone]_vars
  PROVE  IInv'
<1>1. CASE User /\ RemovalsAlone
  BY <1>1, WindowInv, SaveConnectionInv, SaveSettingsInv, OtherInv DEF User
<1>2. CASE Restart
  BY <1>2, RestartInv
<1>3. ASSUME NEW t \in Slots, Work(t)  PROVE IInv'
  <2>1. task[t].kind # "none"
    BY <1>3
       DEF Work, At, PrepareSecret, Upsert, UndoSecret, Retire, Drop, Forget, WritePreferences,
       Prepare, Prepared, SaveCandidates, SaveFinal, SaveAll, Reload, ReloadFinal, WriteSettings,
       RetireAll, Restore, Unprepare
  <2>2. t = 1
    BY <2>1 DEF IInv, Alone, NoTask
  <2> QED
    BY <1>3, <2>2, PrepareSecretInv, UpsertInv, UndoSecretInv, RetireInv, DropInv, ForgetInv,
       WritePreferencesInv, PrepareInv, PreparedInv, SaveAllInv, ReloadInv, ReloadFinalInv,
       WriteSettingsInv, RetireAllInv, RestoreInv, UnprepareInv DEF Work
<1>4. ASSUME NEW t \in Slots, Deliver(t)  PROVE IInv'
  <2>1. t = 1
    BY <1>4 DEF Deliver, IInv, Alone, NoTask
  <2> QED  BY <1>4, <2>1, DeliverInv
<1>5. CASE UNCHANGED vars
  <2>1. it' = it
    BY <1>5 DEF vars, it
  <2> QED
    BY <1>5, <2>1 DEF vars, disk, window, ghosts, IInv, Alone, SavedOrRemoved, ConnectionsKept,
       RemovedStaysRemoved, Present, Flagged, Answering, Answers, Answer, Over, Reported, Agreeing,
       Saving, SaveOf, Removing, Migration
<1> QED  BY <1>1, <1>2, <1>3, <1>4, <1>5 DEF Next

\* IInv is inductive as long as removals wait.
LEMMA AlwaysInv ==
  ASSUME ~Unreadable
  PROVE  Spec /\ [][RemovalsAlone]_vars => []IInv
<1>1. Init => IInv
  BY InitInv, InitTypes
<1>2. Types /\ IInv /\ [Next]_vars /\ [RemovalsAlone]_vars => IInv'
  BY StepInv
<1> QED  BY <1>1, <1>2, AlwaysTypes, PTL DEF Spec

\* Whatever fails or ends half way, a saved connection answers with the secret that was
\* saved last: while removals wait for the task before them, the file can be read, and a
\* write that fails leaves its file as it was.
THEOREM SecretsKept ==
  ASSUME ~Unreadable
  PROVE  Spec /\ [][RemovalsAlone]_vars => []SecretKept
<1>1. IInv => SecretKept
  BY DEF IInv, Answering, Answers, Answer, SecretKept, Secret
<1> QED  BY <1>1, AlwaysInv, PTL

\* Saved connections stay until they are removed, and those do not come back.
THEOREM ConnectionsSavedOrRemoved ==
  ASSUME ~Unreadable
  PROVE  Spec /\ [][RemovalsAlone]_vars => []SavedOrRemoved
<1>1. IInv => SavedOrRemoved
  BY DEF IInv
<1> QED  BY <1>1, AlwaysInv, PTL

\* The window shows what is saved when nothing is on its way, and it is not locked for
\* ever.
THEOREM WindowCurrent ==
  ASSUME ~Unreadable
  PROVE  Spec /\ [][RemovalsAlone]_vars => []GuiCurrentAndLocked
<1>1. IInv => GuiCurrent
  <2> SUFFICES ASSUME IInv, Quiet  PROVE Present(gui) = Present(file)
    BY DEF GuiCurrent
  <2>1. it.kind = "none"
    BY Constants DEF Quiet, it
  <2> QED  BY <2>1, Resting DEF IInv, Answering
<1> QED  BY <1>1, AlwaysInv, Locked, PTL DEF GuiCurrentAndLocked

\* A change of the credential storage that is reported as failed has left the records
\* and the setting as they were, unless undoing it failed as well.
THEOREM FailedChanges ==
  ASSUME ~Unreadable
  PROVE  Spec /\ [][RemovalsAlone]_vars => []FailedChangeUndone
<1>1. Types /\ IInv => FailedChangeUndone
  <2> SUFFICES ASSUME Types, IInv, NEW t \in Slots, At(t, {"settings"}, "done"), ~task[t].ok,
                      faults <= 1
               PROVE  file = task[t].old /\ setting = storage
    BY DEF FailedChangeUndone
  <2>1. t = 1 /\ it.kind = "settings" /\ it.pc = "done" /\ ~it.ok
    BY DEF At, IInv, Alone, NoTask, it
  <2>2. ~Over /\ Agreeing
    BY <2>1 DEF Over, Agreeing
  <2>3. setting = storage /\ gui = file /\ it.old = gui
    BY <2>1, <2>2 DEF IInv, Reported, Migration
  <2> QED  BY <2>1, <2>3 DEF it
<1> QED  BY <1>1, AlwaysInv, AlwaysTypes, PTL DEF Spec
=============================================================================
