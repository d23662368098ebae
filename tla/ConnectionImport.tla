-------------------------- MODULE ConnectionImport --------------------------
(***************************************************************************)
(* The editor of connections and the preview of imports, as                *)
(* crates/mountmate-app/src/main.rs drives them: a preview is computed     *)
(* from a copy of the list, may come late, and is saved against the list   *)
(* of that moment, while connections become busy and idle.                 *)
(*                                                                         *)
(* A save is one step here; what happens between its writes is the subject *)
(* of ConnectionStore.                                                     *)
(***************************************************************************)
EXTENDS ConnectionRules

CONSTANTS
  Manual,    \* drafts that the user may fill in
  Hosts,     \* what the file of OpenSSH holds, a sequence
  Exported,  \* what the exported file holds, a sequence
  MaxSaves   \* bound: saves, removals, and changes between busy and idle

Files == {"hosts", "exported"}
Closed == "closed"

VARIABLES
  servers,  \* the saved connections
  busy,     \* connections that are mounted or have an operation
  editor,   \* the draft that is open: what it shows and the connection it edits
  loading,  \* the preview that is being computed, if any
  plan,     \* the preview that is shown, if any
  actions,  \* what is chosen for each of its items
  last,     \* ghost: what the last save replaced, and what was marked for it
  left      \* saves that are left

vars == <<servers, busy, editor, loading, plan, actions, last, left>>

NoPlan == [file |-> Unset, items |-> <<>>]
Nothing == [replaced |-> {}, marked |-> {}, busy |-> {}]

Init ==
  /\ servers = <<>> /\ busy = {} /\ last = Nothing /\ left = MaxSaves
  /\ editor = [shows |-> Closed, old |-> NoConnection]
  /\ loading = NoPlan /\ plan = NoPlan /\ actions = <<>>

Show(what, old) == editor' = [shows |-> what, old |-> old]
DropPlan == plan' = NoPlan /\ actions' = <<>>
Spend == left > 0 /\ left' = left - 1

\* can_modify
CanModify(id) == id \notin busy

\* AddConnection: a draft of its own, without a preview.
Add ==
  /\ editor.shows = Closed
  /\ Show("manual", NoConnection) /\ DropPlan
  /\ UNCHANGED <<servers, busy, loading, last, left>>

Edit(i) ==
  /\ editor.shows = Closed /\ CanModify(servers[i].id)
  /\ Show("manual", servers[i]) /\ DropPlan
  /\ UNCHANGED <<servers, busy, loading, last, left>>

\* CancelEditor
Cancel ==
  /\ editor.shows # Closed
  /\ Show(Closed, NoConnection) /\ DropPlan
  /\ UNCHANGED <<servers, busy, loading, last, left>>

Imports(file) == IF file = "hosts" THEN Hosts ELSE Exported

\* load_ssh_config: what is listed is compared with the connections of this moment.
Load(file) ==
  loading' = IF loading # NoPlan THEN loading
             ELSE [file |-> file, items |-> Plan(Imports(file), file = "exported", servers, busy)]

\* ConnectionSourceChanged and BatchImportSourceChanged of a new draft; a preview that is
\* being computed is not asked for again.
ShowFile(file) ==
  /\ editor.shows # Closed /\ editor.old = NoConnection /\ editor.shows # file
  /\ Show(file, NoConnection) /\ DropPlan /\ Load(file)
  /\ UNCHANGED <<servers, busy, last, left>>

\* SshImportLoaded: of use when the draft shows this file, whatever draft asked for it.
Loaded ==
  /\ loading # NoPlan /\ loading' = NoPlan
  /\ IF editor.shows = loading.file
     THEN /\ plan' = loading
          /\ actions' = [i \in DOMAIN loading.items |-> DefaultAction(loading.items[i])]
     ELSE UNCHANGED <<plan, actions>>
  /\ UNCHANGED <<servers, busy, editor, last, left>>

\* SshImportActionChanged: the preview offers what an item allows.
Choose(i, action) ==
  /\ action \in {"ignore"} \cup (IF plan.items[i].new THEN {"import"} ELSE {})
                           \cup (IF plan.items[i].overwrite THEN {"overwrite"} ELSE {})
  /\ action # actions[i]
  /\ actions' = [actions EXCEPT ![i] = action]
  /\ UNCHANGED <<servers, busy, editor, loading, plan, last, left>>

Saved(new, replaced, marked) ==
  /\ servers' = new
  /\ last' = [replaced |-> replaced, marked |-> marked, busy |-> busy]
  /\ Show(Closed, NoConnection)
  /\ Spend

\* save_connection of a draft
Save(draft, typed) ==
  /\ editor.shows = "manual"
  /\ LET c == Validated(editor.old, draft, typed, servers) IN
     /\ c # NoConnection /\ (editor.old # NoConnection => CanModify(editor.old.id))
     /\ LET changed == Upsert(<<c>>, servers) IN
        /\ changed.valid
        /\ Saved(changed.servers, {c.id} \cap IdsOf(servers), {editor.old.id})
  /\ UNCHANGED <<busy, loading, plan, actions>>

\* Mutant: only the preview looked whether a connection is in use.
Unchecked(changes) == TRUE

\* No connection that is replaced is in use by now.
Idle(changes) == \A c \in Range(changes) : c.id \in IdsOf(servers) => CanModify(c.id)

\* save_ssh_batch
SaveBatch ==
  /\ plan # NoPlan /\ editor.shows = plan.file
  /\ \A i \in DOMAIN actions : Allowed(plan.items[i], actions[i], servers)
  /\ LET changes == Changes(plan.items, actions, plan.file = "exported", servers)
         changed == Upsert(changes, servers)
     IN /\ changes # <<>> /\ Idle(changes) /\ changed.valid
        /\ Saved(changed.servers, {c.id : c \in Range(changes)} \cap IdsOf(servers),
                 {plan.items[i].matched : i \in {j \in DOMAIN actions : actions[j] = "overwrite"}})
  /\ UNCHANGED <<busy, loading, plan, actions>>

Delete(i) ==
  /\ editor.shows = Closed /\ CanModify(servers[i].id) /\ Spend
  /\ servers' = RemoveAt(servers, i)
  /\ UNCHANGED <<busy, editor, loading, plan, actions, last>>

\* A connection is mounted, or unmounted.
World(id) ==
  /\ Spend
  /\ busy' = IF id \in busy THEN busy \ {id} ELSE busy \cup {id}
  /\ UNCHANGED <<servers, editor, loading, plan, actions, last>>

Next ==
  \/ Add \/ Cancel \/ Loaded \/ SaveBatch
  \/ \E i \in DOMAIN servers : Edit(i) \/ Delete(i)
  \/ \E file \in Files : ShowFile(file)
  \/ \E i \in DOMAIN actions, action \in {"ignore", "import", "overwrite"} : Choose(i, action)
  \/ \E draft \in Manual, typed \in SUBSET {"password", "phrase"} : Save(draft, typed)
  \/ \E id \in IdsOf(servers) : World(id)

Spec == Init /\ [][Next]_vars

-----------------------------------------------------------------------------
\* Every variable holds what its declaration says; no two connections have one identity.
TypeOK ==
  /\ \A i \in DOMAIN servers : DOMAIN servers[i] = DOMAIN NoConnection
  /\ Cardinality(IdsOf(servers)) = Len(servers)
  /\ editor.shows \in {Closed, "manual"} \cup Files
  /\ loading.file \in {Unset} \cup Files /\ plan.file \in {Unset} \cup Files
  /\ DOMAIN actions = DOMAIN plan.items
  /\ left \in 0 .. MaxSaves

\* A password stays with the account it was entered for and a passphrase with its key file,
\* whatever is edited, imported over or switched to another method in between.
SecretsOfTarget ==
  \A c \in Range(servers) : c.password \in {Unset, c.target} /\ c.phrase \in {Unset, c.key}

\* No two connections reach one directory through one mountpoint, and no two name one
\* mountpoint: an import that moves a connection to another host makes no second one of it.
Distinct ==
  \A i, j \in DOMAIN servers :
    i # j => /\ ~SameConnectionTarget(servers[i], servers[j])
             /\ servers[i].place = Auto \/ servers[i].place # servers[j].place

\* "Imports ... cannot overwrite mounted or busy connections": not one that was idle when
\* the preview was made either.
BusySpared == last.replaced \cap last.busy = {}

\* "Imports require reviewing duplicates": a save replaces the connection that was opened or
\* the ones that were marked to be overwritten, and no other.
OnlyMarkedReplaced == last.replaced \subseteq last.marked
=============================================================================
