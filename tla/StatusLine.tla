----------------------------- MODULE StatusLine -----------------------------
(***************************************************************************)
(* The line of the window that says what goes on, and the refreshes whose  *)
(* results appear there (crates/mountmate-app/src/main.rs, refresh and     *)
(* refresh_path of crates/mountmate-core/src/service.rs, the calls of      *)
(* rc.rs).                                                                 *)
(*                                                                         *)
(* Everybody writes the line.  An answer may replace it only while the     *)
(* question is still there.  A refresh reads the record of a mount and     *)
(* then makes four calls, between which the mount may end and another      *)
(* process take its port.                                                  *)
(***************************************************************************)
EXTENDS Naturals, Sequences, FiniteSets

CONSTANTS
  Mounts,      \* the targets, in the order of the list
  RootOf,      \* their mountpoints, as names
  Paths,       \* paths to refresh, without the separators and quotes at their ends
  Lower,       \* a name as the system compares it
  Ports,
  Before,      \* the rclone process of each mount when the window starts
  Notice,      \* the start has something to tell
  None,        \* no question, record or process
  MaxAsks,     \* bound: refreshes asked for
  MaxChanges,  \* bound: processes started and ended
  MaxUpsets    \* bound: other lines, files that cannot be read, calls without an answer

VARIABLES
  line,    \* status; ghost "of": the question it asks, by its generation
  gen,     \* status_generation
  notice,  \* startup_notice is still to be told
  tasks,   \* questions under way
  files,   \* the state file of each mount
  procs,   \* the rclone process of each mount
  spent    \* what the bounds count

vars == <<line, gen, notice, tasks, files, procs, spent>>

MountTargets == {Mounts[n] : n \in DOMAIN Mounts}
Other == [says |-> "other", of |-> None]

Task == [kind |-> "status", gen |-> 0, expected |-> "start", path |-> <<>>, at |-> 0,
         target |-> None, step |-> "done", told |-> {}]

\* The question that is asked at the start, with what the start has to tell on the line.
\* Mounts outlive the window that began them.
Init ==
  /\ notice = Notice
  /\ line = [says |-> IF notice THEN "notice" ELSE "start", of |-> 1]
  /\ gen = 1
  /\ tasks = {[Task EXCEPT !.kind = "initial", !.gen = 1, !.expected = line.says]}
  /\ files = Before
  /\ procs = Before
  /\ spent = [asks |-> 0, changes |-> 0, upsets |-> 0]

Spend(what, bound) == spent[what] < bound /\ spent' = [spent EXCEPT ![what] = @ + 1]

-----------------------------------------------------------------------------
(* Questions and answers                                                   *)

\* Mutant: the line is remembered before it says what is asked.
ExpectedBefore(says) == line.says
Expected(says) == says

\* The line says what is asked, and the question remembers both.
AskWith(task, says) ==
  /\ gen' = gen + 1                                       \* claim_status_generation
  /\ line' = [says |-> says, of |-> gen + 1]
  /\ tasks' = tasks \cup {[task EXCEPT !.gen = gen + 1, !.expected = Expected(says)]}
  /\ Spend("asks", MaxAsks)
  /\ UNCHANGED <<notice, files, procs>>

\* Mutants: only the text, or only the generation.
SameText(t) == t.expected = line.says
SameGeneration(t) == t.gen = gen
\* status_publication_is_current
Current(t) == t.gen = gen /\ t.expected = line.says

\* Message::Refresh, for at least one target that is not busy.
Refresh == AskWith(Task, "refreshing status")

\* Without one nothing is asked: the line stays as it is until somebody else writes.
RefreshNothing ==
  /\ gen' = gen + 1
  /\ line' = [says |-> "refreshing status", of |-> None]
  /\ Spend("asks", MaxAsks)
  /\ UNCHANGED <<notice, tasks, files, procs>>

\* AppCommand::RefreshPath
RefreshPath(path) ==
  AskWith([Task EXCEPT !.kind = "path", !.path = path, !.at = 1, !.step = "look"], "refreshing")

\* AppCommand::Refresh, of the mount at this place in the list.
RefreshId(n) ==
  AskWith([Task EXCEPT !.kind = "id", !.at = n, !.step = "look"], "refreshing")

\* Any other line: mounts that begin, a list in the middle of a change, errors.
Say ==
  /\ line' = Other
  /\ Spend("upsets", MaxUpsets)
  /\ UNCHANGED <<gen, notice, tasks, files, procs>>

\* Message::MountFinished, which makes every question an old one.
MountFinished ==
  /\ gen' = gen + 1
  /\ line' = Other
  /\ Spend("upsets", MaxUpsets)
  /\ UNCHANGED <<notice, tasks, files, procs>>

\* Message::StatusesLoaded: the answer to the first question repeats the notice.
StatusesLoaded(t) ==
  /\ t.kind \in {"initial", "status"}
  /\ tasks' = tasks \ {t}
  /\ line' = IF ~Current(t) THEN line
             ELSE IF t.kind = "initial" /\ notice THEN [Other EXCEPT !.says = "notice"]
             ELSE Other
  /\ notice' = (notice /\ ~(t.kind = "initial" /\ Current(t)))
  /\ UNCHANGED <<gen, files, procs, spent>>

\* Message::RefreshFinished
RefreshFinished(t) ==
  /\ t.kind \in {"id", "path"} /\ t.step = "done"
  /\ tasks' = tasks \ {t}
  /\ line' = IF Current(t) THEN Other ELSE line
  /\ UNCHANGED <<gen, notice, files, procs, spent>>

-----------------------------------------------------------------------------
(* A refresh                                                               *)

\* normalize_refresh_relative_path; the mutant keeps what names no directory.
AsTyped(names) == names
Plain(names) == SelectSeq(names, LAMBDA name : name # ".")

Same(a, b) ==
  Len(a) = Len(b) /\ \A n \in DOMAIN a : Lower[a[n]] = Lower[b[n]]
Within(root, path) ==
  path # <<>> /\ Len(root) <= Len(path) /\ Same(root, SubSeq(path, 1, Len(root)))
\* relative_refresh_dir
RelativeDir(root, path) == Plain(SubSeq(path, Len(root) + 1, Len(path)))

Become(t, u) == tasks' = (tasks \ {t}) \cup {u}
Wrong(t) == Become(t, [t EXCEPT !.step = "done", !.at = 0])

Found(t, m) ==
  [t EXCEPT !.step = "forget", !.at = 0,
            !.target = [mount |-> m, port |-> files[m].port, number |-> files[m].number,
                        dir |-> IF t.kind = "id" THEN <<>> ELSE RelativeDir(RootOf[m], t.path)]]

\* refresh: the record of this mount, or an error.
LookById(t) ==
  /\ t.kind = "id" /\ t.step = "look"
  /\ LET m == Mounts[t.at] IN
     \/ /\ files[m] # None
        /\ Become(t, Found(t, m))
        /\ UNCHANGED spent
     \/ /\ files[m] = None
        /\ Wrong(t)
        /\ UNCHANGED spent
     \/ /\ files[m] # None
        /\ Spend("upsets", MaxUpsets)
        /\ Wrong(t)
  /\ UNCHANGED <<line, gen, notice, files, procs>>

\* refresh_path: the first in the list that can be read and holds the path.
LookByPath(t) ==
  /\ t.kind = "path" /\ t.step = "look"
  /\ \/ /\ t.at > Len(Mounts)
        /\ Wrong(t)
        /\ UNCHANGED spent
     \/ /\ t.at <= Len(Mounts)
        /\ LET m == Mounts[t.at] IN
           \/ /\ files[m] # None /\ Within(RootOf[m], t.path)
              /\ Become(t, Found(t, m))
              /\ UNCHANGED spent
           \/ /\ files[m] = None \/ ~Within(RootOf[m], t.path)
              /\ Become(t, [t EXCEPT !.at = @ + 1])
              /\ UNCHANGED spent
           \/ /\ files[m] # None
              /\ Spend("upsets", MaxUpsets)
              /\ Become(t, [t EXCEPT !.at = @ + 1])
  /\ UNCHANGED <<line, gen, notice, files, procs>>

\* Mutant: whoever has the port is told.
Anyone(target) == {m \in MountTargets : procs[m] # None /\ procs[m].port = target.port}
\* The process at the port takes calls with its own credentials only.
Accepting(target) ==
  {m \in MountTargets : procs[m] # None /\ procs[m].port = target.port
                                   /\ procs[m].number = target.number}

After == [forget |-> "refresh", refresh |-> "list", list |-> "queue", queue |-> "done"]

\* refresh_remote_snapshot: one call after the other, until one fails.
Call(t) ==
  /\ t.step \in DOMAIN After
  /\ LET there == Accepting(t.target)
         heard == [t EXCEPT !.told = @ \cup {procs[m].number : m \in there}]
     IN \/ /\ there # {}
           /\ Become(t, [heard EXCEPT !.step = After[@]])
           /\ UNCHANGED spent
        \/ /\ there = {}
           /\ Wrong(t)
           /\ UNCHANGED spent
        \/ /\ there # {}
           /\ Spend("upsets", MaxUpsets)
           /\ \E u \in {t, heard} : Become(t, [u EXCEPT !.step = "done"])
  /\ UNCHANGED <<line, gen, notice, files, procs>>

-----------------------------------------------------------------------------
(* The mounts                                                              *)

\* A process is started, at any free port, and recorded with its credentials.
Started(m) ==
  /\ procs[m] = None
  /\ Spend("changes", MaxChanges)
  /\ \E port \in Ports \ {procs[x].port : x \in {y \in MountTargets : procs[y] # None}} :
       /\ procs' = [procs EXCEPT ![m] = [port |-> port, number |-> spent'.changes]]
       /\ files' = [files EXCEPT ![m] = procs'[m]]
  /\ UNCHANGED <<line, gen, notice, tasks>>

\* It ends by itself, or is unmounted and its record removed.
Ended(m) ==
  /\ procs[m] # None
  /\ Spend("changes", MaxChanges)
  /\ procs' = [procs EXCEPT ![m] = None]
  /\ files' \in {files, [files EXCEPT ![m] = None]}
  /\ UNCHANGED <<line, gen, notice, tasks>>

Next ==
  \/ Refresh \/ RefreshNothing \/ Say \/ MountFinished
  \/ \E path \in Paths : RefreshPath(path)
  \/ \E n \in DOMAIN Mounts : RefreshId(n)
  \/ \E t \in tasks :
       StatusesLoaded(t) \/ RefreshFinished(t) \/ LookById(t) \/ LookByPath(t) \/ Call(t)
  \/ \E m \in MountTargets : Started(m) \/ Ended(m)

-----------------------------------------------------------------------------
TypeOK ==
  /\ line.says \in {"start", "notice", "refreshing status", "refreshing", "other"}
  /\ line.of \in {None} \cup 1 .. gen
  /\ notice \in BOOLEAN
  /\ \A t \in tasks :
       /\ t.kind \in {"initial", "status", "id", "path"}
       /\ t.step \in DOMAIN After \cup {"look", "done"}
       /\ t.gen \in 1 .. gen

\* A question on the line is asked of somebody who will answer it there: nothing says
\* "refreshing" for ever, except where RefreshNothing asks nobody.
AnswerComes == line.of # None => \E t \in tasks : t.gen = line.of /\ Current(t)

\* An answer replaces the line of its own question only.  (Every step.)
NothingNewerReplaced ==
  \A t \in tasks : t \notin tasks' /\ t.gen \notin {u.gen : u \in tasks'} /\ line' # line
                     => t.gen = line.of

\* A refresh is told to the process whose record was read, whoever has its port now, and
\* for the directory that was asked for, under whatever name.
RefreshesThatMount ==
  \A t \in tasks : t.target # None =>
    /\ t.told \subseteq {t.target.number}
    /\ t.kind = "path" =>
         Same(RootOf[t.target.mount] \o t.target.dir, SelectSeq(t.path, LAMBDA x : x # "."))
=============================================================================
