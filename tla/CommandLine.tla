----------------------------- MODULE CommandLine -----------------------------
(***************************************************************************)
(* The arguments a process is started with and what it does about them     *)
(* before it looks for another instance: crates/mountmate-app/src/cli.rs,  *)
(* and main and the first half of run in main.rs.                          *)
(*                                                                         *)
(* The arguments are read from left to right and the first one that is     *)
(* wrong ends the reading, so a behaviour is a list that grows by a word   *)
(* until it is refused or ends.  What the application writes itself, into  *)
(* menus, login entries, the configuration of rclone and the starts of an  *)
(* update, must be read back as it was meant.                              *)
(***************************************************************************)
EXTENDS Naturals, SequencesExt

CONSTANTS
  Words,      \* what an argument may be
  Values,     \* those that are neither empty nor begin with "-"
  Empty,      \* the empty argument
  Serial,     \* what the Finder of old macOS adds: "-psn_..."
  None,
  MaxWords,   \* bound: arguments of a list
  MaxRest     \* bound: arguments handed to a connector

Window == {"--show-main", "--show-transfers"}
Background == {"--mount-all", "--mount-startup", "--unmount-all"}
\* Commands that end the process when they are done.
Alone ==
  {"--help", "--version", "--licenses", "--check-update", "--rclone-path", "--plink-path",
   "--winfsp-installer-path", "--install-winfsp", "--register-file-manager-menu",
   "--unregister-file-manager-menu", "--register-login-startup", "--unregister-login-startup"}
WithValue ==
  {"--mount-id", "--unmount-id", "--open-id", "--refresh-path", "--refresh-id",
   "--run-update-helper"}
Connector == "--run-ssh-connector"
Pair == {"--update-health-marker", "--update-health-token"}
Once == Pair \cup {"--update-helper-token"}
\* Other spellings.
Means(w) ==
  CASE w = "-h" -> "--help"
    [] w = "-V" -> "--version"
    [] w = "--register-shell-menu" -> "--register-file-manager-menu"
    [] w = "--unregister-shell-menu" -> "--unregister-file-manager-menu"
    [] w = "--mount-startup-all" -> "--mount-all"
    [] OTHER -> w

\* LaunchAction: the command, its value, the directory, the update's options, and all the
\* arguments of a connector.
Action(command, value) ==
  [command |-> command, value |-> value, dir |-> None,
   update |-> [o \in Once |-> None], rest |-> <<>>]
NoAction == Action(None, None)

VARIABLES
  words,     \* the arguments so far
  wants,     \* the option whose value is next
  action,    \* LaunchAction as far as it is known
  verdict,   \* "reading", "accepted", "incomplete" (an error at the end) or "refused"
  ended,     \* how run ends: "no", "well", "error", or "goes on" to the instance lock
  told       \* an error was shown in a dialog and not only printed

vars == <<words, wants, action, verdict, ended, told>>

Init ==
  /\ words = <<>>
  /\ wants = None
  /\ action = NoAction
  /\ verdict = "reading"
  /\ ended = "no"
  /\ told = FALSE

Connecting == words # <<>> /\ words[1] = Connector
FilteredFirst(w) == w = Serial  \* mutant: before the connector is looked for
Filtered(w) == w = Serial /\ ~Connecting

\* set_once
LastWins(option) == TRUE  \* mutant
Unset(option) == action.update[option] = None
Refuse == verdict' = "refused" /\ UNCHANGED <<wants, action>>

\* next_value: what the option that waits for a value takes.
TakeValue(w) ==
  IF w \notin Values THEN Refuse
  ELSE /\ wants' = None
       /\ IF wants \in Once
          THEN IF Unset(wants) THEN /\ action' = [action EXCEPT !.update[wants] = w]
                                    /\ UNCHANGED verdict
               ELSE verdict' = "refused" /\ UNCHANGED action
          ELSE IF wants = "--relative-dir"
          THEN action' = [action EXCEPT !.dir = w] /\ UNCHANGED verdict
          ELSE IF action.command # None THEN verdict' = "refused" /\ UNCHANGED action
          ELSE /\ action' = [action EXCEPT !.command = wants, !.value = w]
               /\ UNCHANGED verdict
TakeOption(w) ==
  CASE w \in WithValue \cup Once \cup {"--relative-dir"} ->
         wants' = w /\ UNCHANGED <<action, verdict>>
    [] w \in Window \cup Background \cup Alone /\ action.command = None ->
         action' = [action EXCEPT !.command = w] /\ UNCHANGED <<wants, verdict>>
    [] OTHER -> Refuse
\* The program must be there; it and the rest are kept as they are.
TakeRest(w) ==
  CASE words = <<>> -> action' = Action(Connector, None) /\ UNCHANGED <<wants, verdict>>
    [] Len(words) = 1 /\ w = Empty -> Refuse
    [] Len(words) = 1 /\ w # Empty -> action' = [action EXCEPT !.value = w] /\ UNCHANGED <<wants, verdict>>
    [] OTHER -> action' = [action EXCEPT !.rest = Append(@, w)] /\ UNCHANGED <<wants, verdict>>

Read(w) ==
  /\ verdict = "reading"
  /\ Len(words) < (IF Connecting THEN 2 + MaxRest ELSE MaxWords)
  /\ words' = Append(words, w)
  /\ CASE Filtered(w) -> UNCHANGED <<wants, action, verdict>>
       [] ~Filtered(w) /\ (Connecting \/ (words = <<>> /\ w = Connector)) -> TakeRest(w)
       [] ~Filtered(w) /\ ~Connecting /\ wants # None -> TakeValue(w)
       [] OTHER -> TakeOption(Means(w))
  /\ UNCHANGED <<ended, told>>

\* What must go together does, and a command keeps the options that are its own.
AnyOptions == TRUE  \* mutant
Given == {o \in Once : action.update[o] # None}
Together ==
  CASE action.command = "--run-update-helper" -> Given = Once \ Pair
    [] action.command \in Window -> Given \in {{}, Pair}
    [] OTHER -> Given = {}
OfCommand ==
  LET own == IF action.command = "--run-update-helper" THEN Once \ Pair
             ELSE IF action.command \in Window /\ Pair \subseteq Given THEN Pair ELSE {}
  IN [action EXCEPT !.update = [o \in Once |-> IF o \in own THEN @[o] ELSE None]]
Complete ==
  /\ wants = None
  /\ action.command # None
  /\ action.command = Connector => action.value # None
  /\ action.dir # None => action.command = "--refresh-id"
  /\ Together
EndOfList ==
  /\ verdict = "reading"
  /\ IF words = <<>>
     THEN action' = Action("--show-main", None) /\ verdict' = "accepted"
     ELSE IF Complete THEN action' = OfCommand /\ verdict' = "accepted"
     ELSE verdict' = "incomplete" /\ UNCHANGED action
  /\ UNCHANGED <<words, wants, ended, told>>

\* main: an error is shown when a window was asked for (Windows).
ShowMain == words # <<>> /\ words[1] = "--show-main"  \* mutant
Shown == words = <<>> \/ words[1] \in Window
Fails == ended' = "error" /\ told' = Shown
\* run
Dispatch ==
  /\ verdict # "reading"
  /\ ended = "no"
  /\ \/ verdict = "accepted" /\ action.command \notin Window \cup Background \cup WithValue
        /\ ended' = "well" /\ UNCHANGED told
     \/ verdict = "accepted" /\ action.command = "--run-update-helper"
        /\ ended' = "well" /\ UNCHANGED told
     \* The profile and the instance lock are next.
     \/ verdict = "accepted" /\ action.command \in Window \cup Background \cup WithValue
        /\ action.command # "--run-update-helper"
        /\ ended' = "goes on" /\ UNCHANGED told
     \/ (verdict = "accepted" => action.command \notin {"--help", "--version", "--licenses"}) /\ Fails
  /\ UNCHANGED <<words, wants, action, verdict>>

Next == \/ \E w \in Words : Read(w)
        \/ EndOfList
        \/ Dispatch

Spec == Init /\ [][Next]_vars

----------------------------------------------------------------------------

TypeOK ==
  /\ \A i \in DOMAIN words : words[i] \in Words
  /\ wants \in WithValue \cup Once \cup {"--relative-dir", None}
  /\ action.value \in Words \cup {None}
  /\ action.dir \in Values \cup {None}
  /\ \A o \in Once : action.update[o] \in Values \cup {None}
  /\ verdict \in {"reading", "accepted", "incomplete", "refused"}
  /\ ended \in {"no", "well", "error", "goes on"}
  /\ told \in BOOLEAN

\* The lists the application writes, and what each is for.
Relaunch(v, t) ==
  <<"--show-main", "--update-health-marker", v, "--update-health-token", t>>
Health(v, t) == [o \in Once |-> IF o = "--update-health-marker" THEN v
                                ELSE IF o = "--update-health-token" THEN t ELSE None]
Own ==
  {[list |-> <<>>, means |-> Action("--show-main", None)]}
  \* file_manager_entries, linux_file_manager_entries, login_startup_command
  \cup {[list |-> <<c>>, means |-> Action(c, None)] : c \in {"--show-transfers", "--mount-startup"}}
  \cup {[list |-> <<"--refresh-path", v>>, means |-> Action("--refresh-path", v)] : v \in Values}
  \* launch_update_helper
  \cup {[list |-> <<"--run-update-helper", v, "--update-helper-token", t>>,
         means |-> [Action("--run-update-helper", v) EXCEPT !.update["--update-helper-token"] = t]]
          : v \in Values, t \in Values}
  \* complete_applied_update
  \cup {[list |-> Relaunch(v, t),
         means |-> [Action("--show-main", None) EXCEPT !.update = Health(v, t)]]
          : v \in Values, t \in Values}
\* What the application writes itself is accepted and means what it was written for, word
\* for word; and when one that is to show a window fails, a dialog says so.
OwnUnderstood ==
  /\ \A own \in Own :
    /\ verdict = "refused" => ~IsPrefix(words, own.list)
    /\ verdict \in {"accepted", "incomplete"} /\ words = own.list =>
         /\ verdict = "accepted" /\ action = own.means
         /\ own.means.command \in Window /\ ended = "error" => told
  \* ssh_connector_command: a program and what it is given, even "-psn_..." and "".
  /\ Connecting /\ Len(words) > 1 /\ words[2] # Empty =>
       /\ verdict \in {"reading", "accepted"}
       /\ action = [Action(Connector, words[2]) EXCEPT !.rest = SubSeq(words, 3, Len(words))]

Said == SelectSeq(words, LAMBDA w : w # Serial)
\* A later directory replaces an earlier one.
Superseded(i) ==
  /\ i > 1 /\ Said[i - 1] = "--relative-dir"
  /\ \E j \in i + 1 .. Len(Said) : Said[j] = "--relative-dir"
Heard(w) ==
  \/ w \in {action.value, action.dir} \cup Range(action.rest)
  \/ \E o \in Once : action.update[o] = w
\* No value given to an accepted command is dropped, but for a directory that a later one
\* replaces: an identifier, a plan or a token is never taken for something else or lost.
NothingDropped ==
  verdict = "accepted" =>
    \A i \in DOMAIN Said : Said[i] \in Values => Heard(Said[i]) \/ Superseded(i)
=============================================================================
