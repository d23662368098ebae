--------------------------- MODULE MountComponent ---------------------------
(***************************************************************************)
(* The mounting component of Windows:                                      *)
(* crates/mountmate-core/src/winfsp.rs, dependency.rs, and the window's    *)
(* question, installation and waiting mounts in                            *)
(* crates/mountmate-app/src/main.rs.                                       *)
(*                                                                         *)
(* A mount asked for without the component waits while the window asks     *)
(* whether to install it.  The installer is carried by the application,    *)
(* written to a directory both the window and a command line use, and run  *)
(* with an administrator's rights while its file may be changed by others. *)
(***************************************************************************)
EXTENDS Naturals, SequencesExt

CONSTANTS
  Ids,         \* connections
  None,        \* no file, no answer yet
  Damaged,     \* the content of an installer that is not the official one
  MaxChecks,   \* bound: checks of the dependencies on their way
  MaxUpsets    \* bound: operations that fail, processes that end, and changes of the
               \* component or the installer from outside

Workers == {"window", "command"}

Assumption ==
  /\ None \notin Workers \cup {"whole"}
  /\ Damaged # "whole"
  /\ {MaxChecks, MaxUpsets} \subseteq Nat

VARIABLES
  embedded,   \* this build carries the installer
  component,  \* a runtime library of the component is there
  msi,        \* the installer's file
  lock,       \* who holds the lock of its directory
  held,       \* who has the file open and lets nobody write it
  task,       \* the installation each process is in the middle of, and how it ended
  window,     \* what the window remembers, its open questions, the mounts it began, and
              \* whether its status line says why a mount is not begun
  checks,     \* checks of the dependencies on their way
  upsets      \* how many of them there were

vars == <<embedded, component, msi, lock, held, task, window, checks, upsets>>
outside == <<embedded, component, msi, lock, held, task>>

Idle == [step |-> "idle", outcome |-> "none"]
NewWindow == [pending |-> FALSE, dialogs |-> 0, waiting |-> {}, started |-> {}, excused |-> FALSE,
              checking |-> TRUE, saving |-> FALSE]
AtStart == <<[startup |-> TRUE, seen |-> None]>>

Init ==
  /\ embedded \in BOOLEAN
  /\ component \in BOOLEAN
  /\ msi \in {None, Damaged}
  /\ lock = None
  /\ held = {}
  /\ task = [w \in Workers |-> Idle]
  /\ window = NewWindow
  /\ checks = AtStart
  /\ upsets = 0

Upset == upsets < MaxUpsets /\ upsets' = upsets + 1

----------------------------------------------------------------------------
(* The window                                                              *)

\* win_fsp_install_prompt: one question; without an installer nothing waits.
AsksEachTime(w) ==  \* mutant
  IF ~embedded THEN [w EXCEPT !.waiting = {}, !.excused = TRUE]
  ELSE [w EXCEPT !.pending = TRUE, !.dialogs = @ + 1]
Prompt(w) ==
  IF w.pending THEN w
  ELSE IF ~embedded THEN [w EXCEPT !.waiting = {}, !.excused = TRUE]
  ELSE [w EXCEPT !.pending = TRUE, !.dialogs = @ + 1]

\* start_mount_operation, for each of ids: what the runtime does then is MountOperations.
StartEach(w, ids) ==
  IF w.saving \/ ids = {} THEN w
  ELSE IF component THEN [w EXCEPT !.started = @ \cup ids]
  ELSE Prompt([w EXCEPT !.waiting = @ \cup ids])

AskMount(id) ==
  /\ id \notin window.started
  /\ window' = StartEach([window EXCEPT !.excused = FALSE], {id})
  /\ UNCHANGED <<outside, checks, upsets>>
\* The mount ends, or the editor begins or ends to save.
MountOver(id) ==
  /\ id \in window.started
  /\ window' = [window EXCEPT !.started = @ \ {id}]
  /\ UNCHANGED <<outside, checks, upsets>>
EditorSaves ==
  /\ window' = [window EXCEPT !.saving = ~@]
  /\ UNCHANGED <<outside, checks, upsets>>

\* Message::WinFspInstallDecision
KeepsWaiting(w) == [w EXCEPT !.pending = FALSE, !.excused = TRUE]  \* mutant
Postponed(w) == [w EXCEPT !.pending = FALSE, !.waiting = {}, !.excused = TRUE]
Decide(install) ==
  /\ window.dialogs > 0
  /\ IF install
     THEN /\ task["window"] = Idle
          /\ task' = [task EXCEPT !["window"].step = "begin"]
          /\ window' = [window EXCEPT !.dialogs = @ - 1]
     ELSE /\ window' = Postponed([window EXCEPT !.dialogs = @ - 1])
          /\ UNCHANGED task
  /\ UNCHANGED <<embedded, component, msi, lock, held, checks, upsets>>

\* Message::WinFspInstallFinished: the pending mounts are taken whatever the outcome, and
\* begun only after an installation.
GoOnWithOne(w, ids) == StartEach(w, {id \in ids : id = CHOOSE i \in ids : TRUE})  \* mutant
GoOn(w, ids) == StartEach(w, ids)
InstallFinished ==
  /\ task["window"].step = "over"
  /\ task' = [task EXCEPT !["window"] = Idle]
  /\ LET outcome == task["window"].outcome
         taken == [window EXCEPT !.pending = FALSE, !.waiting = {}, !.excused = outcome # "installed"]
     IN IF outcome = "installed"
        THEN /\ Len(checks) < MaxChecks
             /\ checks' = Append(checks, [startup |-> FALSE, seen |-> None])
             /\ window' = GoOn([taken EXCEPT !.checking = TRUE], window.waiting)
        ELSE window' = taken /\ UNCHANGED checks
  /\ UNCHANGED <<embedded, component, msi, lock, held, upsets>>

\* Message::CheckDependencies, Message::OpenSettings
CheckDependencies(opening) ==
  /\ opening \/ ~window.checking
  /\ Len(checks) < MaxChecks
  /\ checks' = Append(checks, [startup |-> FALSE, seen |-> None])
  /\ window' = [window EXCEPT !.checking = TRUE]
  /\ UNCHANGED <<outside, upsets>>
\* check_dependencies looks, and may fail over another program.
Look(i, ok) ==
  /\ checks[i].seen = None
  /\ IF ok THEN UNCHANGED upsets ELSE Upset
  /\ checks' = [checks EXCEPT ![i].seen =
                  IF ~ok THEN "failed" ELSE IF component THEN "there" ELSE "missing"]
  /\ UNCHANGED <<outside, window>>
\* Message::DependenciesChecked, Message::StartupDependenciesChecked
Checked(i) ==
  /\ checks[i].seen # None
  /\ checks' = RemoveAt(checks, i)
  /\ LET w == [window EXCEPT !.checking = FALSE]
     IN window' = IF checks[i].startup /\ checks[i].seen = "missing" THEN Prompt(w) ELSE w
  /\ UNCHANGED <<outside, upsets>>

----------------------------------------------------------------------------
(* install, in the window's task or by the command line                    *)

Install ==
  /\ task["command"] = Idle
  /\ task' = [task EXCEPT !["command"] = [Idle EXCEPT !.step = "begin"]]
  /\ UNCHANGED <<embedded, component, msi, lock, held, window, checks, upsets>>

Goes(w, step) == task' = [task EXCEPT ![w].step = step]
\* install returns: what it holds is given back; the command line ends with it.
Returns(w, outcome) ==
  /\ task' = [task EXCEPT ![w] = IF w = "window" THEN [step |-> "over", outcome |-> outcome] ELSE Idle]
  /\ lock' = IF lock = w THEN None ELSE lock
  /\ held' = held \ {w}

Begin(w) ==
  /\ task[w].step = "begin"
  /\ IF component \/ ~embedded
     THEN Returns(w, IF component THEN "installed" ELSE "failed")
     ELSE Goes(w, "lock") /\ UNCHANGED <<lock, held>>
  /\ UNCHANGED <<embedded, component, msi, window, checks, upsets>>

Locked(w) ==
  /\ task[w].step = "lock"
  /\ lock = None
  /\ lock' = w
  /\ Goes(w, "check")
  /\ UNCHANGED <<embedded, component, msi, held, window, checks, upsets>>

\* materialize_installer: a file that is not the official one is written again, which
\* Windows refuses while another has it open.
Check(w) ==
  /\ task[w].step = "check"
  /\ IF msi = "whole"
     THEN Goes(w, "open") /\ lock' = None /\ UNCHANGED <<msi, held>>
     ELSE IF held = {}
     THEN Goes(w, "verify") /\ msi' = "whole" /\ UNCHANGED <<lock, held>>
     ELSE Returns(w, "failed") /\ UNCHANGED msi
  /\ UNCHANGED <<embedded, component, window, checks, upsets>>

Verify(w) ==
  /\ task[w].step = "verify"
  /\ IF msi = "whole"
     THEN Goes(w, "open") /\ lock' = None /\ UNCHANGED held
     ELSE Returns(w, "failed")
  /\ UNCHANGED <<embedded, component, msi, window, checks, upsets>>

\* The file is opened for reading, shared with readers only.
Shares(w) == held  \* mutant
Keep(w) == held \cup {w}
Open(w) ==
  /\ task[w].step = "open"
  /\ IF msi = None THEN Returns(w, "failed")
     ELSE Goes(w, "recheck") /\ held' = Keep(w) /\ UNCHANGED lock
  /\ UNCHANGED <<embedded, component, msi, window, checks, upsets>>

Trusted == TRUE  \* mutant
Official == msi = "whole"
Recheck(w) ==
  /\ task[w].step = "recheck"
  /\ IF Official THEN Goes(w, "run") /\ UNCHANGED <<lock, held>> ELSE Returns(w, "failed")
  /\ UNCHANGED <<embedded, component, msi, window, checks, upsets>>

\* ShellExecuteExW, the installer's exit code and installer_outcome.  An installer that
\* says it is done is believed when the component is found.
Detected(there) == IF there THEN "installed" ELSE "failed"
Run(w, outcome, there) ==
  /\ task[w].step = "run"
  /\ component' = (component \/ (there /\ outcome \in {"installed", "restart"}))
  /\ Returns(w, IF outcome = "installed" THEN Detected(component') ELSE outcome)
  /\ UNCHANGED <<embedded, msi, window, checks, upsets>>

\* An error of the file system, of the access list, of COM, of the lock's time limit.
Fault(w) ==
  /\ task[w].step \notin {"idle", "over"}
  /\ Upset
  /\ Returns(w, "failed")
  /\ UNCHANGED <<embedded, component, msi, window, checks>>

----------------------------------------------------------------------------
(* Outside                                                                 *)

\* A process ends; the window begins anew.
Crash(w) ==
  /\ Upset
  /\ task' = [task EXCEPT ![w] = Idle]
  /\ lock' = IF lock = w THEN None ELSE lock
  /\ held' = held \ {w}
  /\ IF w = "window" THEN window' = NewWindow /\ checks' = AtStart
     ELSE UNCHANGED <<window, checks>>
  /\ UNCHANGED <<embedded, component, msi>>
\* The installer's file is damaged or removed, as far as it may be written.
Touch(content) ==
  /\ held = {}
  /\ Upset
  /\ msi' = content
  /\ UNCHANGED <<embedded, component, lock, held, task, window, checks>>
\* The component is installed or removed by other means.
Other ==
  /\ Upset
  /\ component' = ~component
  /\ UNCHANGED <<embedded, msi, lock, held, task, window, checks>>

InstallStep(w) ==
  \/ Begin(w) \/ Locked(w) \/ Check(w) \/ Verify(w) \/ Open(w) \/ Recheck(w)
  \/ \E outcome \in {"installed", "restart", "cancelled", "failed"}, there \in BOOLEAN :
       Run(w, outcome, there)
  \/ Fault(w) \/ Crash(w)

Next ==
  \/ \E id \in Ids : AskMount(id) \/ MountOver(id)
  \/ EditorSaves \/ InstallFinished \/ Install \/ Other
  \/ \E yes \in BOOLEAN : Decide(yes) \/ CheckDependencies(yes)
  \/ \E i \in 1..MaxChecks : i \in DOMAIN checks /\ (Checked(i) \/ \E ok \in BOOLEAN : Look(i, ok))
  \/ \E w \in Workers : InstallStep(w)
  \/ \E content \in {None, Damaged} : Touch(content)

Spec == Init /\ [][Next]_vars

----------------------------------------------------------------------------

TypeOK ==
  /\ embedded \in BOOLEAN /\ component \in BOOLEAN
  /\ msi \in {None, Damaged, "whole"}
  /\ lock \in Workers \cup {None} /\ held \subseteq Workers
  /\ window.waiting \subseteq Ids /\ window.started \subseteq Ids
  /\ Len(checks) <= MaxChecks
  /\ upsets \in 0..MaxUpsets

\* One question or one installation at a time, exactly while the window says so: checks,
\* mounts and installations that end in any order never open a second one.
OneInstallation ==
  (IF task["window"] = Idle THEN 0 ELSE 1) + window.dialogs = IF window.pending THEN 1 ELSE 0

\* A mount waits only for a question that is open or an installation that runs: none
\* is left waiting for nothing.
WaitsForAnswer == window.waiting # {} => window.pending

\* What runs with an administrator's rights is the installer the application carries,
\* until it ends, whatever is done to its file by the other process or from outside.
RunsTheWhole == \A w \in Workers : task[w].step = "run" => msi = "whole"

\* A mount stops waiting when it is begun, when it waits again, or when the window says
\* why it is not; the editor that saves at that moment is the one exception. (Every step.)
WaitedGoOn ==
  \A id \in window.waiting \ window'.waiting :
    \/ id \in window'.started
    \/ window'.excused
    \/ window.saving
    \/ window' = NewWindow
=============================================================================
