--------------------------- MODULE ConnectionList ---------------------------
(***************************************************************************)
(* The list of connections in the main window: its modes, the selection,   *)
(* and the changes that are saved for several connections at once          *)
(* (crates/mountmate-app/src/main.rs, the handlers from                    *)
(* ConnectionListModeChanged to OpenBatchManagement), what they do to the  *)
(* file of connections (crates/mountmate-core/src/storage.rs), and the     *)
(* registration at login that follows it.                                  *)
(*                                                                         *)
(* A connection is its identity, its tags and whether it is mounted at     *)
(* login; the order of its tags and how the list is sorted on the screen   *)
(* are left out.  The filter of a tag is chosen anew whenever it matters,  *)
(* and a search only narrows the list, as single selections do.            *)
(***************************************************************************)
EXTENDS Naturals, Sequences, FiniteSets

CONSTANTS
  Ids,         \* the connections there may be
  Tags,
  Saved,       \* the list of connections at the start
  None,
  MaxTags,     \* MAX_CONNECTION_TAGS (8)
  MaxSaves,    \* bound: changes of the list that are begun
  MaxOthers    \* bound: changes of the file by another process, mounts and unmounts, and
               \* reads, writes and registrations that fail

VARIABLES
  file,        \* the saved list
  shown,       \* servers: the list in the window
  mode,        \* connection_list_mode
  original,    \* reorder_original
  selected,    \* selected_connections
  asking,      \* the question on the screen, or None
  task,        \* the change that is being saved, or None
  saving,      \* connection_list_saving
  mounted,     \* connections that cannot be changed: mounted, or a task runs
  busy,        \* connections that are being removed
  login,       \* [registered |-> ., lock |-> ., later |-> .]: the login integration
  seen,        \* ghost: [list, login]: nothing was done elsewhere, or went wrong, since
  left

vars == <<file, shown, mode, original, selected, asking, task, saving, mounted,
          busy, login, seen, left>>

list == <<shown, mode, original, selected>>

IdsOf(s) == {s[i].id : i \in DOMAIN s}
At(s, id) == s[CHOOSE i \in DOMAIN s : s[i].id = id]
Order(s) == [i \in DOMAIN s |-> s[i].id]
Carrying(s, tag) == {id \in IdsOf(s) : tag \in At(s, id).tags}
Without(s, ids) == SelectSeq(s, LAMBDA c : c.id \notin ids)
Distinct(ids) == \A i, j \in DOMAIN ids : ids[i] = ids[j] => i = j

\* startup_integration_enabled, of connections that log in by themselves
Wanted(s) == \E i \in DOMAIN s : s[i].login

Update(id, tags, atLogin) == [id |-> id, tags |-> tags, login |-> atLogin]

HasRoom(tags) == Cardinality(tags) <= MaxTags

\* A list that is too long may still shrink.
Fit(tags, existing) == HasRoom(tags) \/ tags \subseteq existing

\* Mutant: the tags are not held against those in the file.
AnyTags(tags, existing) == TRUE

TagsFit(tags, existing) == Fit(tags, existing)

Init ==
  /\ file = Saved /\ shown = Saved
  /\ mode = "browse" /\ original = None /\ selected = {}
  /\ asking = None /\ task = None /\ saving = FALSE
  /\ mounted = {} /\ busy = {}
  /\ login = [registered |-> Wanted(Saved), lock |-> None, later |-> 0]
  /\ seen = [list |-> TRUE, login |-> TRUE]
  /\ left = [saves |-> MaxSaves, others |-> MaxOthers]

Less(what) == left[what] > 0 /\ left' = [left EXCEPT ![what] = @ - 1]

-----------------------------------------------------------------------------
\* The modes.  What the window offers in each of them is a guard of the action.

ChangeMode(to) ==
  /\ ~saving
  /\ mode # to /\ mode # "reorder"
  /\ mode = "browse" \/ to \in {"browse", "reorder"}
  /\ mode' = to
  /\ original' = IF to = "reorder" THEN Order(shown) ELSE None
  /\ selected' = {}
  /\ UNCHANGED <<file, shown, asking, task, saving, mounted, busy, login, seen, left>>

\* From the settings, which do not open while the list is reordered or saved.
OpenBatchManagement ==
  /\ mode # "reorder" /\ ~saving
  /\ mode' = "batch" /\ selected' = {}
  /\ UNCHANGED <<file, shown, original, asking, task, saving, mounted, busy, login,
                 seen, left>>

\* visible_connections: all of them, or those that carry the tag of the filter.
Visible == {IdsOf(shown)} \cup {Carrying(shown, tag) : tag \in Tags}

Choose(ids, on) ==
  /\ selected' = IF on THEN selected \cup ids ELSE selected \ ids
  /\ UNCHANGED <<file, shown, mode, original, asking, task, saving, mounted, busy,
                 login, seen, left>>

Select ==
  /\ mode \in {"batch", "tags"}
  /\ \E on \in BOOLEAN :
       \/ \E id \in IdsOf(shown) : Choose({id}, on)
       \/ \E ids \in Visible : Choose(ids, on)
       \/ /\ mode = "batch"
          /\ \E tag \in Tags : Choose(Carrying(shown, tag), on)

-----------------------------------------------------------------------------
\* Changes that are saved.  A task holds what it was given.

Begin(kind, what) ==
  /\ Less("saves")
  /\ saving' = TRUE
  /\ task' = [kind |-> kind, what |-> what, step |-> "begun", list |-> None, fresh |-> TRUE]

\* save_batch_tag_updates
SaveTags(updates) == updates # {} /\ ~saving /\ Begin("tags", updates)

Chosen == selected \cap IdsOf(shown)

\* Every connection that is selected must have room for the tag.
AddTag(tag) ==
  /\ mode = "tags"
  /\ \A id \in Chosen : HasRoom(At(shown, id).tags \cup {tag})
  /\ SaveTags({Update(id, At(shown, id).tags \cup {tag}, None) : id \in Chosen})
  /\ UNCHANGED <<file, list, asking, mounted, busy, login, seen>>

RemoveTag(id, tag) ==
  /\ mode = "tags" /\ tag \in At(shown, id).tags
  /\ SaveTags({Update(id, At(shown, id).tags \ {tag}, None)})
  /\ UNCHANGED <<file, list, asking, mounted, busy, login, seen>>

ChangeStartup(id) ==
  /\ mode = "batch" /\ ~saving
  /\ Begin("startup", {Update(id, None, ~At(shown, id).login)})
  /\ UNCHANGED <<file, list, asking, mounted, busy, login, seen>>

\* The question keeps the list from being changed until it is answered.
Ask(kind, what) ==
  /\ ~saving
  /\ saving' = TRUE
  /\ asking' = [kind |-> kind, what |-> what]
  /\ UNCHANGED <<file, list, task, mounted, busy, login, seen, left>>

AskTagEverywhere(tag) ==
  /\ mode = "tags" /\ Carrying(shown, tag) # {}
  /\ Ask("tag", tag)

CanModify(id) == id \notin mounted \cup busy

AskDelete ==
  /\ mode = "batch" /\ Chosen # {}
  /\ \A id \in Chosen : CanModify(id)
  /\ Ask("delete", Chosen)

Decline ==
  /\ asking # None
  /\ asking' = None /\ saving' = FALSE
  /\ UNCHANGED <<file, list, task, mounted, busy, login, seen, left>>

\* The connections that carry the tag when the question is answered.
TagEverywhere ==
  /\ asking # None /\ asking.kind = "tag"
  /\ asking' = None
  /\ LET updates == {Update(id, At(shown, id).tags \ {asking.what}, None)
                       : id \in Carrying(shown, asking.what)}
     IN  IF updates = {}
         THEN saving' = FALSE /\ UNCHANGED <<task, left>>
         ELSE Begin("tags", updates)
  /\ UNCHANGED <<file, list, mounted, busy, login, seen>>

\* Mutant: what could be removed when the question was asked is removed.
AsAsked(ids) == TRUE

MayRemove(ids) == \A id \in ids : CanModify(id)

Delete ==
  /\ asking # None /\ asking.kind = "delete"
  /\ asking' = None
  /\ IF MayRemove(asking.what)
     THEN Begin("remove", asking.what) /\ busy' = busy \cup asking.what
     ELSE saving' = FALSE /\ UNCHANGED <<task, busy, left>>
  /\ UNCHANGED <<file, list, mounted, login, seen>>

-----------------------------------------------------------------------------
\* The saved order.

\* moved_connection_order
Move(i, j) ==
  /\ mode = "reorder" /\ ~saving
  /\ {i, j} \subseteq DOMAIN shown /\ (j = i + 1 \/ i = j + 1)
  /\ shown' = [shown EXCEPT ![i] = shown[j], ![j] = shown[i]]
  /\ UNCHANGED <<file, mode, original, selected, asking, task, saving, mounted, busy,
                 login, seen, left>>

SaveOrder ==
  /\ mode = "reorder" /\ ~saving
  /\ Begin("order", Order(shown))
  /\ UNCHANGED <<file, list, asking, mounted, busy, login, seen>>

Ordered(ids) == [i \in DOMAIN ids |-> At(shown, ids[i])]

\* Mutant: the mode is left and the window keeps the order.
KeepOrder(ids) == shown

Restored(ids) == Ordered(SelectSeq(ids, LAMBDA id : id \in IdsOf(shown)))

CancelOrder ==
  /\ mode = "reorder" /\ ~saving
  /\ shown' = Restored(original)
  /\ original' = None /\ mode' = "browse"
  /\ UNCHANGED <<file, selected, asking, task, saving, mounted, busy, login, seen, left>>

-----------------------------------------------------------------------------
\* The tasks.  Each reads the file and writes it while it holds the lock of the file.

Changed(c, updates) ==
  IF \E u \in updates : u.id = c.id
  THEN LET u == CHOOSE u \in updates : u.id = c.id
       IN  [c EXCEPT !.tags = IF u.tags = None THEN @ ELSE u.tags,
                     !.login = IF u.login = None THEN @ ELSE u.login]
  ELSE c

\* update_server_preferences_batch, remove_servers, reorder_servers: whether the file is written.
PreferencesFit(updates) ==
  \A u \in updates : /\ u.id \in IdsOf(file)
                     /\ u.tags # None => TagsFit(u.tags, At(file, u.id).tags)

\* Mutant: connections the order does not name are dropped.
KnownOnly(ids) == \A i \in DOMAIN ids : ids[i] \in IdsOf(file)

IsPermutation(ids) ==
  Len(ids) = Len(file) /\ Distinct(ids) /\ \A i \in DOMAIN ids : ids[i] \in IdsOf(file)

Accepted ==
  CASE task.kind \in {"tags", "startup"} -> PreferencesFit(task.what)
    [] task.kind = "remove" -> task.what \subseteq IdsOf(file)
    [] task.kind = "order"  -> IsPermutation(task.what)

After ==
  CASE task.kind \in {"tags", "startup"} -> [i \in DOMAIN file |-> Changed(file[i], task.what)]
    [] task.kind = "remove" -> Without(file, task.what)
    [] task.kind = "order"  -> [i \in DOMAIN task.what |-> At(file, task.what[i])]

Store ==
  /\ task # None /\ task.step = "begun"
  /\ IF Accepted
     THEN /\ file' = After
          /\ task' = [task EXCEPT !.list = After,
                       !.step = IF task.kind = "startup" THEN "reconcile" ELSE "answer"]
     ELSE task' = [task EXCEPT !.step = "answer"] /\ UNCHANGED file
  /\ UNCHANGED <<list, asking, saving, mounted, busy, login, seen, left>>

StoreFails ==
  /\ task # None /\ task.step = "begun"
  /\ Less("others")
  /\ task' = [task EXCEPT !.step = "answer"]
  /\ UNCHANGED <<file, list, asking, saving, mounted, busy, login, seen>>

\* reconcile_login_startup: the list is read after the lock was taken.
Lock(by) ==
  /\ login.lock = None
  /\ login' = [login EXCEPT !.lock = [by |-> by, wanted |-> Wanted(file)],
                            !.later = IF by = "later" THEN @ - 1 ELSE @]

LockForTask ==
  /\ task # None /\ task.step = "reconcile"
  /\ Lock("task")
  /\ task' = [task EXCEPT !.step = "registering"]
  /\ UNCHANGED <<file, list, asking, saving, mounted, busy, seen, left>>

LockLater ==
  /\ login.later > 0
  /\ Lock("later")
  /\ UNCHANGED <<file, list, asking, task, saving, mounted, busy, seen, left>>

\* A failure is a warning: the change stays saved.
Register(ok) ==
  /\ login.lock # None
  /\ IF ok THEN UNCHANGED left ELSE Less("others")
  /\ login' = [login EXCEPT !.lock = None,
                            !.registered = IF ok THEN login.lock.wanted ELSE @]
  /\ seen' = [seen EXCEPT !.login = IF ok THEN @ \/ login.lock.wanted = Wanted(file) ELSE FALSE]
  /\ task' = IF login.lock.by = "task" THEN [task EXCEPT !.step = "answer"] ELSE task
  /\ UNCHANGED <<file, list, asking, saving, mounted, busy>>

Done(kind) == task # None /\ task.kind = kind /\ task.step = "answer"

\* The list of the answer is shown; a failed change leaves what is shown.
Show ==
  /\ task' = None /\ saving' = FALSE
  /\ IF task.list = None
     THEN UNCHANGED <<shown, seen>>
     ELSE shown' = task.list /\ seen' = [seen EXCEPT !.list = task.fresh]

TagsSaved ==
  /\ Done("tags") /\ Show
  /\ UNCHANGED <<file, mode, original, selected, asking, mounted, busy, login, left>>

StartupSaved ==
  /\ Done("startup") /\ Show
  /\ UNCHANGED <<file, mode, original, selected, asking, mounted, busy, login, left>>

\* Mutant: nothing is registered anew when connections were removed.
NotAgain(l) == l

Again(l) == [l EXCEPT !.later = @ + 1]

Removed ==
  /\ Done("remove") /\ Show
  /\ busy' = busy \ task.what
  /\ IF task.list = None
     THEN UNCHANGED <<selected, login>>
     ELSE selected' = selected \cap IdsOf(task.list) /\ login' = Again(login)
  /\ UNCHANGED <<file, mode, original, asking, mounted, left>>

\* A failed save stays in the mode, with the order the user made.
Reordered ==
  /\ Done("order") /\ Show
  /\ IF task.list = None
     THEN UNCHANGED <<original, mode>>
     ELSE original' = None /\ mode' = "browse"
  /\ UNCHANGED <<file, selected, asking, mounted, busy, login, left>>

-----------------------------------------------------------------------------
\* Mutant: the list is read anew in every mode.
AnyMode == TRUE

MayRefresh == mode # "reorder"

Refresh ==
  /\ MayRefresh
  /\ shown' = file /\ seen' = [seen EXCEPT !.list = TRUE]
  /\ selected' = selected \cap IdsOf(file)
  /\ UNCHANGED <<file, mode, original, asking, task, saving, mounted, busy, login, left>>

\* Another process saves, removes or retags a connection.
Elsewhere ==
  {Without(file, {id}) : id \in IdsOf(file)}
    \cup {Append(file, [id |-> id, tags |-> {}, login |-> TRUE]) : id \in Ids \ IdsOf(file)}
    \cup {[i \in DOMAIN file |-> IF file[i].id = id THEN [file[i] EXCEPT !.tags = {tag}]
                                                    ELSE file[i]]
            : id \in IdsOf(file), tag \in Tags}

ChangedElsewhere ==
  /\ Less("others")
  /\ \E s \in Elsewhere :
       /\ file' = s /\ s # file
       /\ seen' = [list |-> FALSE, login |-> FALSE]
       /\ task' = IF task # None /\ task.list # None THEN [task EXCEPT !.fresh = FALSE] ELSE task
  /\ UNCHANGED <<list, asking, saving, mounted, busy, login>>

\* A connection that is being removed is not mounted: MountOperations.
MountOrUnmount(id) ==
  /\ Less("others")
  /\ id \notin busy /\ id \in IdsOf(shown)
  /\ mounted' = IF id \in mounted THEN mounted \ {id} ELSE mounted \cup {id}
  /\ UNCHANGED <<file, list, asking, task, saving, busy, login, seen>>

Next ==
  \/ \E m \in {"browse", "batch", "tags", "reorder"} : ChangeMode(m)
  \/ OpenBatchManagement
  \/ Select
  \/ \E tag \in Tags : AddTag(tag) \/ AskTagEverywhere(tag)
  \/ \E id \in IdsOf(shown) : ChangeStartup(id) \/ \E tag \in Tags : RemoveTag(id, tag)
  \/ AskDelete \/ Decline \/ TagEverywhere \/ Delete
  \/ \E i, j \in DOMAIN shown : Move(i, j)
  \/ SaveOrder \/ CancelOrder
  \/ Store \/ StoreFails
  \/ LockForTask \/ LockLater
  \/ \E ok \in BOOLEAN : Register(ok)
  \/ TagsSaved \/ StartupSaved \/ Removed \/ Reordered
  \/ Refresh \/ ChangedElsewhere
  \/ \E id \in Ids : MountOrUnmount(id)

Spec == Init /\ [][Next]_vars

-----------------------------------------------------------------------------
Connections == [id : Ids, tags : SUBSET Tags, login : BOOLEAN]
IsList(s) == DOMAIN s \in {1 .. n : n \in 0 .. Cardinality(Ids)}
             /\ \A i \in DOMAIN s : s[i] \in Connections

TypeOK ==
  /\ IsList(file) /\ IsList(shown)
  /\ mode \in {"browse", "batch", "tags", "reorder"}
  /\ original = None \/ \A i \in DOMAIN original : original[i] \in Ids
  /\ selected \subseteq Ids
  /\ asking = None \/ asking.kind \in {"tag", "delete"}
  /\ task = None \/ task.step \in {"begun", "reconcile", "registering", "answer"}
  /\ saving \in BOOLEAN /\ mounted \subseteq Ids /\ busy \subseteq Ids
  /\ login.registered \in BOOLEAN /\ login.later \in 0 .. MaxSaves
  /\ seen \in [list : BOOLEAN, login : BOOLEAN]

\* While nothing is saved or reordered the window shows the saved connections in their saved
\* order, whatever was moved, cancelled, refused or failed before, unless another process
\* changed them since the list was read; and the mark that keeps the list from being changed is
\* set exactly while a question or a task is there to take it away again.
ShowsTheSaved ==
  /\ mode # "reorder" /\ task = None /\ seen.list => shown = file
  /\ saving = (asking # None \/ task # None)

\* When no registration is under way the application is started at login exactly if the saved
\* connections call for it: a registration that read an older list never has the last word
\* (startup_integration_lock), and a removal is followed by one.  A failure, and another
\* process, may leave it behind until the next one.
LoginFollows ==
  seen.login /\ login.lock = None /\ login.later = 0
    /\ (task = None \/ task.step = "begun" \/ task.list = None)
    => login.registered = Wanted(file)

\* A connection is never removed while it is mounted, although it may be mounted while the
\* question is on the screen; the mark that holds mounts back stands until the task has ended.
NotWhileMounted ==
  /\ task # None /\ task.kind = "remove" => task.what \subseteq busy
  /\ busy \cap mounted = {}

\* What a task writes is what was asked for, on the file as it then is: an order only moves the
\* connections, a removal takes exactly the connections of the question and keeps the order of
\* the others, and no connection gets more tags than it may have except by losing some of those
\* it had. (Every step.)
WritesAsAsked ==
  (task # None /\ task.step = "begun" /\ task' # task /\ file' # file) =>
    /\ task.kind = "order" =>
         /\ Len(file') = Len(file)
         /\ {file'[i] : i \in DOMAIN file'} = {file[i] : i \in DOMAIN file}
    /\ task.kind # "order" =>
         Order(file') = SelectSeq(Order(file), LAMBDA id : id \in IdsOf(file'))
    /\ \A id \in IdsOf(file) \ IdsOf(file') : task.kind = "remove" /\ id \in task.what
    /\ \A id \in IdsOf(file') :
         \/ Cardinality(At(file', id).tags) <= MaxTags
         \/ At(file', id).tags \subseteq At(file, id).tags
=============================================================================
