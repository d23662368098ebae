--------------------------- MODULE DesktopEntries ---------------------------
(***************************************************************************)
(* What the application leaves on the desktop: the commands in the menus   *)
(* of file managers, the launcher, and the entry that starts it at login:  *)
(* crates/mountmate-platform/src/lib.rs, and the tasks of the window and   *)
(* the command line that call it in crates/mountmate-app/src/main.rs.      *)
(*                                                                         *)
(* An entry is several writes on every system; two tasks of the window, a  *)
(* command line and a process that ends make them in any order.  Each      *)
(* entry names the executable in a syntax of its own; a path is a sequence *)
(* of characters, of which those with a meaning in some syntax matter.     *)
(***************************************************************************)
EXTENDS Naturals, SequencesExt

CONSTANTS
  Executables,  \* paths of the application, before and after an update
  Nothing,      \* no entry
  MaxRuns,      \* bound: processes of the window
  MaxOps,       \* bound: operations asked for
  MaxFaults     \* bound: writes, removals and renames that fail

Menu == {"refresh", "transfers"}
Entries == Menu \cup {"login", "launcher"}
Tasks == {"one", "two", "command"}  \* of the window, of the window, of a command line
Systems == {"linux", "macos", "windows"}

VARIABLES
  os,       \* the system
  exe,      \* the path of the executable each process was started from
  entries,  \* each entry: the path its command starts and whether it can be run
  staged,   \* the workflow each process is building (macOS)
  backup,   \* the workflow each process has set aside (macOS)
  left,     \* the workflows that processes which ended had set aside
  lock,     \* the task that holds startup_integration_lock
  task,     \* what each task has left to do
  runs,     \* processes of the window so far
  ops, faults

vars == <<os, exe, entries, staged, backup, left, lock, task, runs, ops, faults>>

----------------------------------------------------------------------------
(* The syntaxes                                                            *)

Replace(s, c, by) == FlattenSeq([i \in DOMAIN s |-> IF s[i] = c THEN by ELSE <<s[i]>>])

\* shell_single_quote
ShellSingleQuote(s) == <<"'">> \o Replace(s, "'", <<"'", "\"", "'", "\"", "'">>) \o <<"'">>

\* desktop_exec_argument: the escapes of Exec, and then those of a string of the file.
Quoted(s, protected) == FoldLeft(LAMBDA t, c : Replace(t, c, <<"\\", c>>), s, protected)
SpecialLast == <<"\"", "tick", "$", "\\">>  \* mutant: the backslash after what it protects
Protected == <<"\\", "\"", "tick", "$">>
DesktopExecArgument(s) ==
  <<"\"">> \o Replace(Replace(Replace(Quoted(s, Protected), "%", <<"%", "%">>),
                              "\\", <<"\\", "\\">>), "\n", <<"\\", "n">>) \o <<"\"">>
\* desktop_exec_command: "env" keeps a path with % out of the place that is checked first.
DesktopExecCommand(s) ==
  IF Contains(s, "%") THEN <<"env", " ", "-", "-", " ">> \o DesktopExecArgument(s)
  ELSE DesktopExecArgument(s)

\* What a shell reads: [out, mode] after each character.
Shell(s) ==
  FoldLeft(LAMBDA a, c :
             CASE a.mode = "plain" /\ c \in {"'", "\""} -> [a EXCEPT !.mode = c]
               [] a.mode # "plain" /\ c = a.mode -> [a EXCEPT !.mode = "plain"]
               [] OTHER -> [a EXCEPT !.out = Append(@, c)],
           [out |-> <<>>, mode |-> "plain"], s).out
\* What remains of s when one character escapes the next, which stands for Meaning(c).
Unescaped(s, Meaning(_), escape) ==
  FoldLeft(LAMBDA a, c :
             IF a.escaped THEN [out |-> Append(a.out, Meaning(c)), escaped |-> FALSE]
             ELSE IF c = escape THEN [a EXCEPT !.escaped = TRUE]
             ELSE [a EXCEPT !.out = Append(@, c)],
           [out |-> <<>>, escaped |-> FALSE], s).out
\* What a desktop starts: the string of the file, its words, its field codes.
Desktop(s) ==
  LET string == Unescaped(s, LAMBDA c : IF c = "n" THEN "\n" ELSE c, "\\")
      env == Len(string) > 5 /\ string[1] = "env"
      word == IF env THEN SubSeq(string, 6, Len(string)) ELSE string
      bare == Unescaped(SubSeq(word, 2, Len(word) - 1), LAMBDA c : c, "\\")
  IN Unescaped(bare, LAMBDA c : c, "%")

\* The path that is read back from a command, for each syntax.
ReadBack == [shell |-> [path \in Executables |-> Shell(ShellSingleQuote(path))],
             desktop |-> [path \in Executables |-> Desktop(DesktopExecCommand(path))],
             plain |-> [path \in Executables |-> path]]
\* linux_file_manager_entries, finder_workflows, explorer_command and set_login_startup:
\* scripts are read by a shell, the rest by the desktop; Windows and launchd take a path
\* as it is.
Syntax(e) ==
  CASE (os = "linux" /\ e = "refresh") \/ (os = "macos" /\ e \in Menu) -> "shell"
    [] os = "linux" /\ e # "refresh" -> "desktop"
    [] OTHER -> "plain"
Command(e, path) == ReadBack[Syntax(e)][path]

----------------------------------------------------------------------------
(* The operations                                                          *)

\* The steps of an entry, as [do, entry].
Steps(e) ==
  LET names == IF os = "linux" /\ e = "refresh" THEN <<"write", "mode">>
               ELSE IF os = "macos" /\ e \in Menu THEN <<"stage", "aside", "place", "clear">>
               ELSE IF os = "windows" /\ e \in Menu THEN <<"key", "command">>
               ELSE <<"write">>
  IN [i \in DOMAIN names |-> [do |-> names[i], entry |-> e]]
MenuSteps == Steps("refresh") \o Steps("transfers")
Removal(e) == <<[do |-> "remove", entry |-> e]>>

\* ensure_application_identity: the launcher on Linux; on Windows the menu of an earlier
\* version is written again, and a menu that was never asked for is not.
Identity ==
  IF os = "linux" THEN Steps("launcher")
  ELSE IF os = "windows" /\ \E e \in Menu : entries[e] # Nothing THEN MenuSteps
  ELSE <<>>
Todo(op) ==
  CASE op = "register" -> MenuSteps
    [] op = "unregister" -> Removal("refresh") \o Removal("transfers")
    [] op = "login" -> Steps("login")
    [] op = "no login" -> Removal("login")
    [] op = "identity" -> Identity

Idle == [op |-> "none", todo |-> <<>>, alone |-> TRUE, result |-> "none"]
Asked(op) == [Idle EXCEPT !.op = op, !.result = "waits"]
Process(t) == IF t = "command" THEN "command" ELSE "window"

Init ==
  /\ os \in Systems
  /\ exe \in {[p \in {"window", "command"} |-> path] : path \in Executables}
  /\ entries = [e \in Entries |-> Nothing]
  /\ staged = [p \in {"window", "command"} |-> [e \in Menu |-> Nothing]]
  /\ backup = staged
  /\ left = {}
  /\ lock = Nothing
  \* The window sees to its identity before anything else.
  /\ task = [[t \in Tasks |-> Idle] EXCEPT !["one"] = Asked("identity")]
  /\ runs = 1
  /\ ops = 0
  /\ faults = 0

\* file_manager_menu_task, the command line's actions, reconcile_login_startup.
Ask(t, op) ==
  /\ ops < MaxOps
  /\ task[t].result \in {"none", "ok", "failed"}
  /\ t # "command" => task["one"].op # "identity" \/ task["one"].result \in {"ok", "failed"}
  /\ task' = [task EXCEPT ![t] = Asked(op)]
  /\ ops' = ops + 1
  /\ UNCHANGED <<os, exe, entries, staged, backup, left, lock, runs, faults>>

\* A task of the window takes the lock; a command line has none to take.
Anyone(t) == TRUE  \* mutant
Free(t) == t = "command" \/ lock = Nothing
Begin(t) ==
  /\ task[t].result = "waits"
  /\ Free(t)
  /\ LET todo == Todo(task[t].op)
     IN /\ task' = [task EXCEPT ![t].todo = todo,
                                ![t].result = IF todo = <<>> THEN "ok" ELSE "works"]
        /\ lock' = IF t = "command" \/ todo = <<>> THEN lock ELSE t
  /\ UNCHANGED <<os, exe, entries, staged, backup, left, runs, ops, faults>>

\* What one step makes of the entry, what is staged and what is set aside.
Whole(e, path) == [starts |-> Command(e, path), runs |-> TRUE]
Partly(e, path) == [starts |-> Command(e, path), runs |-> FALSE]
RemovesIt(now) == [now EXCEPT !.at = Nothing, !.aside = Nothing]  \* mutant
SetAside(now) == [now EXCEPT !.at = Nothing, !.aside = now.at]
Removed(now) == [now EXCEPT !.at = Nothing]
\* The script is written whole, and made executable after.
Runnable(now) == [now EXCEPT !.at = IF @ = Nothing THEN @ ELSE [@ EXCEPT !.runs = TRUE]]
\* The key is there before its command.
Keyed(now) == [now EXCEPT !.at = IF @ = Nothing THEN [starts |-> <<>>, runs |-> FALSE] ELSE @]
Built(now, new) == [now EXCEPT !.staged = new]
Placed(now) == [now EXCEPT !.at = now.staged, !.staged = Nothing]
Cleared(now) == [now EXCEPT !.aside = Nothing]
Effect(do, e, p) ==
  LET now == [at |-> entries[e], staged |-> IF e \in Menu THEN staged[p][e] ELSE Nothing,
              aside |-> IF e \in Menu THEN backup[p][e] ELSE Nothing]
  IN CASE do = "remove" -> Removed(now)
       [] do = "write" /\ e = "refresh" -> [now EXCEPT !.at = Partly(e, exe[p])]
       [] do = "write" /\ e # "refresh" -> [now EXCEPT !.at = Whole(e, exe[p])]
       [] do = "mode" -> Runnable(now)
       [] do = "key" -> Keyed(now)
       [] do = "command" -> [now EXCEPT !.at = Whole(e, exe[p])]
       [] do = "stage" -> Built(now, Whole(e, exe[p]))
       [] do = "aside" -> SetAside(now)
       [] do = "place" -> Placed(now)
       [] do = "clear" -> Cleared(now)
\* The renames of macOS and the mode of Linux need what an earlier step left.
Possible(do, e, p) ==
  /\ do = "place" => staged[p][e] # Nothing /\ entries[e] = Nothing
  /\ do = "mode" => entries[e] # Nothing

Apply(e, p, new) ==
  /\ entries' = [entries EXCEPT ![e] = new.at]
  /\ IF e \in Menu
     THEN staged' = [staged EXCEPT ![p][e] = new.staged] /\ backup' = [backup EXCEPT ![p][e] = new.aside]
     ELSE UNCHANGED <<staged, backup>>
\* Others that work at this moment are no longer alone.
Disturb(t, mine) ==
  [u \in Tasks |-> IF u = t THEN mine
                   ELSE IF Process(u) # Process(t) /\ task[u].result = "works"
                   THEN [task[u] EXCEPT !.alone = FALSE] ELSE task[u]]
Ends(t, result) == [task[t] EXCEPT !.todo = <<>>, !.result = result]
Release(t) == IF lock = t THEN Nothing ELSE lock

Do(t) ==
  /\ task[t].result = "works"
  /\ LET step == Head(task[t].todo)
     IN /\ Possible(step.do, step.entry, Process(t))
        /\ Apply(step.entry, Process(t), Effect(step.do, step.entry, Process(t)))
  /\ LET last == Len(task[t].todo) = 1
     IN /\ task' = Disturb(t, IF last THEN Ends(t, "ok") ELSE [task[t] EXCEPT !.todo = Tail(@)])
        /\ lock' = IF last THEN Release(t) ELSE lock
  /\ UNCHANGED <<os, exe, left, runs, ops, faults>>

\* A step fails, and what follows is not done; a workflow set aside goes back.
Fail(t) ==
  /\ task[t].result = "works"
  /\ LET step == Head(task[t].todo)
         p == Process(t)
         fault == Possible(step.do, step.entry, p)
     IN /\ IF fault THEN faults < MaxFaults /\ faults' = faults + 1 ELSE UNCHANGED faults
        /\ IF step.do = "place" /\ backup[p][step.entry] # Nothing /\ entries[step.entry] = Nothing
           THEN Apply(step.entry, p, [at |-> backup[p][step.entry], aside |-> Nothing,
                                      staged |-> staged[p][step.entry]])
           ELSE UNCHANGED <<entries, staged, backup>>
  /\ task' = Disturb(t, Ends(t, "failed"))
  /\ lock' = Release(t)
  /\ UNCHANGED <<os, exe, left, runs, ops>>

\* The window's process ends, in the middle of a task or not, and another begins, from
\* where an update put it; what has the other process's number in its name stays.
NewWindow(path) ==
  /\ runs < MaxRuns
  /\ runs' = runs + 1
  /\ exe' = [exe EXCEPT !["window"] = path]
  /\ task' = [task EXCEPT !["one"] = Asked("identity"), !["two"] = Idle]
  /\ lock' = Nothing
  /\ staged' = [staged EXCEPT !["window"] = [e \in Menu |-> Nothing]]
  /\ backup' = [backup EXCEPT !["window"] = [e \in Menu |-> Nothing]]
  /\ left' = left \cup {e \in Menu : backup["window"][e] # Nothing}
  /\ UNCHANGED <<os, entries, ops, faults>>

Next ==
  \/ \E t \in Tasks, op \in {"register", "unregister", "login", "no login"} : Ask(t, op)
  \/ \E t \in Tasks : Begin(t) \/ Do(t) \/ Fail(t)
  \/ \E path \in Executables : NewWindow(path)

Spec == Init /\ [][Next]_vars

----------------------------------------------------------------------------

TypeOK ==
  /\ os \in Systems
  /\ \A e \in Entries : entries[e] = Nothing \/ entries[e].runs \in BOOLEAN
  /\ lock \in {Nothing, "one", "two"}
  /\ left \subseteq Menu
  /\ runs \in 1..MaxRuns /\ ops \in 0..MaxOps /\ faults \in 0..MaxFaults

Named(e, path) ==
  entries[e] # Nothing /\ entries[e].runs /\ entries[e].starts = path
AsAsked(t) ==
  LET path == exe[Process(t)] op == task[t].op
  IN CASE op = "register" -> \A e \in Menu : Named(e, path)
       [] op = "unregister" -> \A e \in Menu : entries[e] = Nothing
       [] op = "login" -> Named("login", path)
       [] op = "no login" -> entries["login"] = Nothing
       [] op = "identity" ->
            /\ os = "linux" => Named("launcher", path)
            /\ os = "windows" => \A e \in Menu : entries[e] = Nothing \/ Named(e, path)

\* An operation that reports success has done all of what was asked, and what it wrote is
\* read back as the path of the executable, whatever characters are in it: tasks of the
\* window do not mix what they write.  (A command line of another process may.)
\* (Every step.)
DoneAsAsked ==
  \A t \in Tasks :
    task[t].result = "works" /\ task'[t].result = "ok" /\ task'[t].alone => AsAsked(t)'

Somewhere(e) ==
  entries[e] # Nothing \/ e \in left \/ \E p \in {"window", "command"} : backup[p][e] # Nothing
\* What replaces a workflow keeps the one it replaces until the new one is in its place:
\* no failure and no process that ends loses both. (Every step.)
KeptAside ==
  \A e \in Menu, t \in Tasks :
    /\ task'[t] # task[t] /\ task[t].alone /\ task'[t].alone
    /\ task[t].op # "unregister"
    /\ Somewhere(e)
    => Somewhere(e)'
=============================================================================
