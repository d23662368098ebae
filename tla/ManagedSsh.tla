----------------------------- MODULE ManagedSsh -----------------------------
(***************************************************************************)
(* The SSH configuration that the application writes for a connection:     *)
(* crates/mountmate-core/src/ssh.rs (prepare_managed_ssh_server and        *)
(* remove_managed_ssh_server) within a save or a removal of                *)
(* crates/mountmate-app/src/configuration.rs, and the search for hosts in  *)
(* such files (list_ssh_config_hosts).                                     *)
(*                                                                         *)
(* A save copies the key, puts one line first in the user's own file,      *)
(* writes a file for the host and then the connections; each of these may  *)
(* fail, the process may end between two of them, and the user edits the   *)
(* same directory.  The window saves one connection at a time.             *)
(***************************************************************************)
EXTENDS Naturals, Sequences, FiniteSets, SequencesExt

CONSTANTS
  Connections,
  Drafts,      \* what may be saved: see DraftType
  FileOf,      \* the name of the file of each alias (safe_ssh_filename)
  Own,         \* the user's lines of ~/.ssh/config that there may be at the start
  Other,       \* the lines of a file the user includes
  None,
  Copies,      \* how many names there are for the copy of a key
  MaxSaves,    \* bound: saves and removals
  MaxFaults,   \* bound: reads and writes that fail
  MaxCrashes,  \* bound: processes that end in the middle
  MaxEdits     \* bound: changes the user makes

VARIABLES
  saved,   \* the saved connections
  conf,    \* the lines of ~/.ssh/config
  files,   \* the files of ~/.ssh/ssh-mountmate.d
  keys,    \* the private keys in ~/.ssh: whose each is
  task,    \* the save or removal under way
  clean,   \* nothing failed or ended that is not undone
  left     \* the bounds not used up

vars == <<saved, conf, files, keys, task, clean, left>>

Aliases == DOMAIN FileOf
FileNames == {FileOf[x] : x \in Aliases}
KeyNames == FileNames \X (1 .. Copies)

\* A key is none, one outside of ~/.ssh, a copy, or in a draft the one that is saved.
Outside == <<"outside", 0>>
AsSaved == <<"saved", 0>>
DraftType == [alias : Aliases, host : STRING, managed : BOOLEAN, copy : BOOLEAN,
              key : {None, Outside, AsSaved}]
ServerType == [alias : Aliases, host : STRING, managed : BOOLEAN, copy : BOOLEAN,
               key : {None, Outside} \cup KeyNames, path : FileNames \cup {None}]

\* Lines.
Include(what) == [kind |-> "include", arg |-> what]
HostLine(alias) == [kind |-> "host", arg |-> alias]
Managed == Include("managed")

----------------------------------------------------------------------------
(* Hosts                                                                   *)

\* The lines of a file: ~/.ssh/config, the user's other one, or one of the managed ones.
Lines(f) ==
  CASE f = "config" -> conf
    [] f = "other" -> Other
    [] OTHER -> IF files[f] = None THEN <<>> ELSE <<HostLine(files[f].alias)>>

\* resolve_include_pattern and glob
Matches(what) == IF what = "managed" THEN SetToSeq({f \in FileNames : files[f] # None})
                 ELSE <<what>>

\* Mutant: an Include stands for one file.
OneFile(what, seen) ==
  LET all == Matches(what) IN
  IF all # <<>> /\ Head(all) \notin seen THEN <<Head(all)>> ELSE <<>>

\* The files of an Include that were not read before.
NewFiles(what, seen) == SelectSeq(Matches(what), LAMBDA f : f \notin seen)

\* visit_ssh_config: depth first, each file once, the hosts of each line.
RECURSIVE Visit(_, _, _)
Visit(todo, seen, found) ==
  IF todo = <<>> THEN found
  ELSE LET line == Head(todo)
           rest == Tail(todo) IN
       IF line.kind = "host" THEN Visit(rest, seen, Append(found, line.arg))
       ELSE IF line.kind = "include"
       THEN LET new == NewFiles(line.arg, seen) IN
            IF new = <<>> THEN Visit(rest, seen, found)
            ELSE Visit(Lines(Head(new)) \o (IF Len(new) > 1 THEN <<line>> ELSE <<>>) \o rest,
                       seen \cup {Head(new)}, found)
       ELSE Visit(rest, seen, found)
Listed == Visit(<<Include("config")>>, {}, <<>>)

----------------------------------------------------------------------------
(* A save                                                                  *)

NoTask == [step |-> "idle", id |-> None, new |-> None, old |-> None, snapshot |-> None]

Init ==
  /\ saved = [c \in Connections |-> None]
  /\ conf \in Own
  /\ files = [f \in FileNames |-> None]
  /\ keys \in [KeyNames -> {None, "user"}]
  /\ \A k \in KeyNames : keys[k] # None => k[2] = 1
  /\ task = NoTask
  /\ clean = TRUE
  /\ left = [saves |-> MaxSaves, faults |-> MaxFaults, crashes |-> MaxCrashes,
             edits |-> MaxEdits]

Use(what) == left[what] > 0 /\ left' = [left EXCEPT ![what] = @ - 1]
Step(s) == task' = [task EXCEPT !.step = s]

\* save_server up to prepare_managed_ssh_server; capture_managed_profile
Save(c, d) ==
  /\ task.step = "idle" /\ Use("saves")
  /\ d.key = AsSaved => saved[c] # None
  /\ LET key == IF d.key = AsSaved THEN saved[c].key ELSE d.key
         old == saved[c] IN
     task' = [step |-> IF d.managed THEN "copy" ELSE "upsert", id |-> c, old |-> old,
              new |-> [alias |-> d.alias, host |-> d.host, managed |-> d.managed,
                       copy |-> d.copy, key |-> key, path |-> None],
              snapshot |-> IF old # None /\ old.managed THEN files[old.path] ELSE None]
  /\ UNCHANGED <<saved, conf, files, keys, clean>>

\* prepare_managed_ssh_server fails: only the secrets are taken back.
Refused == /\ task' = NoTask /\ Use("faults")

\* Mutant: the copy takes the first name.
FirstName(stem) == <<stem, 1>>

\* copy_private_key: the first name that is free.
FreeName(stem) ==
  <<stem, CHOOSE n \in 1 .. Copies :
            /\ keys[<<stem, n>>] = None \/ n = Copies
            /\ \A i \in 1 .. n - 1 : keys[<<stem, i>>] # None>>

\* A key that is at its place already stays.
CopyKey ==
  /\ task.step = "copy"
  /\ \/ /\ UNCHANGED left
        /\ LET s == task.new
               stem == FileOf[s.alias]
               to == IF s.key = <<stem, 1>> THEN s.key ELSE FreeName(stem) IN
           IF s.copy /\ s.key # None
           THEN /\ keys' = IF to = s.key THEN keys
                           ELSE [keys EXCEPT ![to] = IF s.key = Outside THEN task.id
                                                     ELSE keys[s.key]]
                /\ task' = [task EXCEPT !.step = "include", !.new.key = to]
           ELSE Step("include") /\ UNCHANGED keys
     \/ Refused /\ UNCHANGED keys
  /\ UNCHANGED <<saved, conf, files, clean>>

\* Mutant: the line is added where there is none.
IfMissing(lines) == IF Managed \in ToSet(lines) THEN lines ELSE <<Managed>> \o lines

\* ensure_managed_include: the line of the application comes first, and only there.
WithInclude(lines) == <<Managed>> \o SelectSeq(lines, LAMBDA l : l # Managed)

EnsureInclude ==
  /\ task.step = "include"
  /\ \/ conf' = WithInclude(conf) /\ Step("write") /\ UNCHANGED left
     \/ Refused /\ conf' \in {conf, WithInclude(conf)}
  /\ UNCHANGED <<saved, files, keys, clean>>

Content(s) == [alias |-> s.alias, host |-> s.host, key |-> s.key]

\* The file of the host; it may be written and its permissions not be set.
WriteFile ==
  /\ task.step = "write"
  /\ LET f == FileOf[task.new.alias]
         written == [files EXCEPT ![f] = Content(task.new)] IN
     \/ /\ files' = written /\ UNCHANGED <<clean, left>>
        /\ task' = [task EXCEPT !.step = "upsert", !.new.path = f]
     \/ Refused /\ files' \in {files, written} /\ clean' = (clean /\ files' = files)
  /\ UNCHANGED <<saved, conf, keys>>

\* remove_managed_ssh_server: the file that is recorded, and the one of the alias.
Removed(s) ==
  [f \in FileNames |-> IF s.managed /\ f \in {s.path, FileOf[s.alias]} THEN None ELSE files[f]]

\* Mutant: what was written is removed, whatever was there.
RemovedAlways(t) == Removed(t.new)

\* rollback_prepared_managed_profile
Restored(t) ==
  IF ~t.new.managed THEN files
  ELSE IF t.snapshot # None /\ t.old.path = t.new.path
  THEN [files EXCEPT ![t.new.path] = t.snapshot]
  ELSE Removed(t.new)

\* storage::upsert_server
Upsert ==
  /\ task.step = "upsert"
  /\ \/ /\ saved' = [saved EXCEPT ![task.id] = task.new]
        /\ Step("cleanup") /\ UNCHANGED left
     \/ Use("faults") /\ Step("rollback") /\ UNCHANGED saved
  /\ UNCHANGED <<conf, files, keys, clean>>

Rollback ==
  /\ task.step = "rollback"
  /\ \/ files' = Restored(task) /\ UNCHANGED <<clean, left>>
     \/ Use("faults") /\ UNCHANGED files /\ clean' = FALSE
  /\ task' = NoTask
  /\ UNCHANGED <<saved, conf, keys>>

\* Mutant: the file of before is left where the connection has another one.
KeepOld(t) == t.new # None => ~t.new.managed

\* The file of before is of no use any more.
Retired(t) == t.new # None /\ t.new.managed => t.old.path # t.new.path

\* The end of a save or of a removal.
Cleanup ==
  /\ task.step = "cleanup"
  /\ LET due == task.old # None /\ task.old.managed /\ Retired(task) IN
     \/ files' = (IF due THEN Removed(task.old) ELSE files) /\ UNCHANGED <<clean, left>>
     \/ due /\ Use("faults") /\ UNCHANGED files /\ clean' = FALSE
  /\ task' = NoTask
  /\ UNCHANGED <<saved, conf, keys>>

\* ConfirmRemove and BatchDeleteDecision: the connections first.
RemoveConnection(c) ==
  /\ task.step = "idle" /\ saved[c] # None /\ Use("saves")
  /\ saved' = [saved EXCEPT ![c] = None]
  /\ task' = [NoTask EXCEPT !.step = "cleanup", !.id = c, !.old = saved[c]]
  /\ UNCHANGED <<conf, files, keys, clean>>

\* The process ends in the middle.
Crash ==
  /\ task.step # "idle" /\ Use("crashes")
  /\ task' = NoTask /\ clean' = FALSE
  /\ UNCHANGED <<saved, conf, files, keys>>

\* The user edits ~/.ssh/config, or makes a key.
Edit ==
  /\ Use("edits")
  /\ \/ conf' \in Own \cup {Append(conf, Managed)} /\ UNCHANGED keys
     \/ \E k \in KeyNames : /\ k[2] = 1 /\ keys[k] = None
                            /\ keys' = [keys EXCEPT ![k] = "user"]
                            /\ UNCHANGED conf
  /\ UNCHANGED <<saved, files, task, clean>>

Next ==
  \/ \E c \in Connections : RemoveConnection(c) \/ \E d \in Drafts : Save(c, d)
  \/ CopyKey \/ EnsureInclude \/ WriteFile \/ Upsert \/ Rollback \/ Cleanup \/ Crash \/ Edit

Spec == Init /\ [][Next]_vars

----------------------------------------------------------------------------
TypeOK ==
  /\ Drafts \subseteq DraftType
  /\ saved \in [Connections -> ServerType \cup {None}]
  /\ files \in [FileNames -> [alias : Aliases, host : STRING,
                              key : {None, Outside} \cup KeyNames] \cup {None}]
  /\ keys \in [KeyNames -> Connections \cup {None, "user"}]
  /\ task.step \in {"idle", "copy", "include", "write", "upsert", "rollback", "cleanup"}

\* README.md:346, "writes each managed Host into its own file": the file of a connection
\* says what is saved, and there is no other one, after saves and removals of which some
\* failed and were undone.
OwnFile ==
  (task.step = "idle" /\ clean) =>
    /\ \A c \in Connections :
         saved[c] # None /\ saved[c].managed => files[saved[c].path] = Content(saved[c])
    /\ \A f \in FileNames :
         files[f] # None => \E c \in Connections : saved[c] # None /\ saved[c].path = f

\* The user's lines and keys stay as they are, whatever the application does in between
\* (ssh.rs, "without_changing_user_config"). (Every step.)
UsersKept ==
  conf' # conf \/ keys' # keys =>
    \/ /\ SelectSeq(conf', LAMBDA l : l # Managed) = SelectSeq(conf, LAMBDA l : l # Managed)
       /\ \A k \in KeyNames : keys[k] # None => keys'[k] = keys[k]
    \/ Edit

\* As long as the user leaves the file alone, no host of a saved connection is part of a Host
\* or Match block of the user's.
IncludeFirst ==
  (left.edits = MaxEdits /\ \E c \in Connections : saved[c] # None /\ saved[c].managed) =>
    Head(conf) = Managed

\* The hosts that can be reached through Include lines are listed, however they include one
\* another.
Reached ==
  LET Next1(S) == S \cup UNION {ToSet(Matches(l.arg)) :
                    l \in {m \in UNION {ToSet(Lines(f)) : f \in S} : m.kind = "include"}} IN
  Next1(Next1(Next1({"config"})))
AllListed ==
  ToSet(Listed) = UNION {{l.arg : l \in {m \in ToSet(Lines(f)) : m.kind = "host"}} : f \in Reached}
=============================================================================
