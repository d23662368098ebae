----------------------------- MODULE AppWindows -----------------------------
(***************************************************************************)
(* The windows of the application: the main window, which the icon in the  *)
(* tray outlives, the window of a login's terminal and that of the logs    *)
(* (crates/mountmate-app/src/main.rs).  The transfer window is in          *)
(* TransferNotices.                                                        *)
(*                                                                         *)
(* A window is opened and closed by the system some time after the         *)
(* application says so, and what the user does with it is heard later      *)
(* still: a window may be shown again before the closing of its            *)
(* predecessor has been heard of.  The messages about one window come in   *)
(* their order, those about two in any.                                    *)
(***************************************************************************)
EXTENDS Naturals, FiniteSets

CONSTANTS
  Ids,       \* windows; one that is gone and forgotten may stand for a new one
  Logins,    \* connections with a terminal
  Mounts,    \* mounts with a log
  None,      \* no window, login or mount
  MaxAsks    \* bound: what users and other processes ask for, and windows destroyed

VARIABLES
  app,     \* what the application knows
  win,     \* the windows, with the messages about them still to be heard
  reads,   \* reads of logs under way, for each mount
  running,
  wanted,  \* ghost: somebody asked for the main window and has not seen it yet
  asks

vars == <<app, win, reads, running, wanted, asks>>

NoWindow == [kind |-> None, state |-> "none", opened |-> FALSE, request |-> FALSE,
             lost |-> FALSE]
NoLog == [of |-> None, loading |-> FALSE, content |-> None]

Opening(kind) == [NoWindow EXCEPT !.kind = kind, !.state = "opening"]

Init ==
  /\ LET i == CHOOSE j \in Ids : TRUE IN
       /\ app = [main |-> i, ready |-> FALSE, opening |-> TRUE,  \* main_window, _ready, _opening
                 activate |-> FALSE,                \* pending_main_activation
                 tray |-> "untried", exit |-> FALSE, \* tray, exit_confirmation_open
                 terminal |-> None, login |-> None, \* terminal_window, terminal_server_id
                 log |-> None, view |-> NoLog]      \* log_window, log_view
       /\ win = [j \in Ids |-> IF j = i THEN Opening("main") ELSE NoWindow]
  /\ reads = [m \in Mounts |-> 0]
  /\ running = TRUE
  /\ wanted = FALSE
  /\ asks = 0

Ask == asks < MaxAsks /\ asks' = asks + 1

-----------------------------------------------------------------------------
(* What a handler does to the application, its windows and "wanted"        *)

Now == [app |-> app, win |-> win, wanted |-> wanted]
Become(s) == app' = s.app /\ win' = s.win /\ wanted' = s.wanted

\* Identifiers no window and no variable of the application has.
Fresh(s) ==
  {i \in Ids : s.win[i] = NoWindow /\ i \notin {s.app.main, s.app.terminal, s.app.log}}
New(s) == CHOOSE i \in Fresh(s) : TRUE

\* window::close
Close(w, i) ==
  [w EXCEPT ![i].state = IF @ \in {"opening", "open"} THEN "shut" ELSE @]

\* activate_main_window: the user sees the window, unless the application has closed it.
Activated(s) ==
  [s EXCEPT !.wanted = @ /\ s.win[s.app.main].state # "open" /\ ~s.win[s.app.main].lost]

\* Mutant: a window that is being opened is not waited for.
ShowImpatient(s) ==
  IF s.app.ready THEN Activated(s)
  ELSE [s EXCEPT !.win[New(s)] = Opening("main"), !.app.main = New(s),
                 !.app.opening = TRUE, !.app.activate = TRUE]
\* show_main_window
Show(s) ==
  IF s.app.ready THEN Activated(s)
  ELSE IF s.app.opening THEN [s EXCEPT !.app.activate = TRUE]
  ELSE [s EXCEPT !.win[New(s)] = Opening("main"), !.app.main = New(s),
                 !.app.opening = TRUE, !.app.activate = TRUE]

\* Mutant: the window that is closed still counts as ready.
HiddenReady(s) == [s EXCEPT !.app.opening = FALSE, !.win = Close(@, s.app.main)]
\* hide_main_window, when there is a tray.
Hidden(s) ==
  [s EXCEPT !.app.ready = FALSE, !.app.opening = FALSE, !.win = Close(@, s.app.main)]

\* open_terminal_window
Terminal(s, login) ==
  IF s.app.terminal # None \/ ~s.app.ready THEN [s EXCEPT !.app.login = login]
  ELSE [s EXCEPT !.app.login = login, !.app.terminal = New(s),
                 !.win[New(s)] = Opening("terminal")]

\* Mutant: a terminal asked for without a main window is forgotten.
WaitingDropped(s) == s
\* The terminal that waited for the main window.
Waiting(s) == IF s.app.login = None THEN s ELSE Terminal(s, s.app.login)

\* Mutant: its window stays.
TerminalLeft(s) == [s EXCEPT !.app.terminal = None, !.app.login = None]
TerminalClosed(s) ==
  [s EXCEPT !.app.terminal = None, !.app.login = None,
            !.win = IF s.app.terminal = None THEN @ ELSE Close(@, s.app.terminal)]

\* Mutant: every log has a window of its own.
SecondLogWindow(s) ==
  [s EXCEPT !.app.log = New(s), !.win[New(s)] = Opening("log")]
LogWindow(s) ==
  IF s.app.log # None THEN s
  ELSE [s EXCEPT !.app.log = New(s), !.win[New(s)] = Opening("log")]

LogClosed(s) ==
  [s EXCEPT !.app.log = None, !.app.view = NoLog,
            !.win = IF s.app.log = None THEN @ ELSE Close(@, s.app.log)]

\* request_exit: with uploads or logins that are not finished the user is asked.
RequestExit(unfinished) ==
  /\ running' = (app.exit \/ unfinished)
  /\ app' = [app EXCEPT !.exit = @ \/ unfinished]
  /\ UNCHANGED <<win, wanted>>

\* initialize_tray, which a permanent error ends.
Trays(tray) == IF tray \in {"there", "never"} THEN {tray} ELSE {"there", "retry", "never"}

-----------------------------------------------------------------------------
(* The system                                                              *)

Create(i) ==
  /\ win[i].state = "opening"
  /\ win' = [win EXCEPT ![i].state = "open", ![i].opened = TRUE]
  /\ UNCHANGED <<app, reads, running, wanted, asks>>

\* The user closes a window, perhaps twice.
UserCloses(i) ==
  /\ win[i].state = "open" /\ ~win[i].request
  /\ win' = [win EXCEPT ![i].request = TRUE]
  /\ Ask
  /\ UNCHANGED <<app, reads, running, wanted>>

\* A window goes without having been closed.
Destroy(i) ==
  /\ win[i].state = "open"
  /\ win' = [win EXCEPT ![i].state = "shut", ![i].lost = TRUE]
  /\ Ask
  /\ UNCHANGED <<app, reads, running, wanted>>

-----------------------------------------------------------------------------
(* Messages about windows                                                  *)

Heard(i) == [Now EXCEPT !.win[i].opened = FALSE]

\* Message::MainWindowOpened: the first to try the tray, and what waited for the window.
\* That it also confirms an update and cleans up after it is in UpdateTransaction.
MainWindowOpened(i) ==
  /\ win[i].opened /\ win[i].kind = "main"
  /\ IF i # app.main THEN Become(Heard(i))
     ELSE \E tray \in Trays(app.tray) :
            LET shown == [Heard(i) EXCEPT !.app.ready = TRUE, !.app.opening = FALSE,
                                          !.app.tray = tray, !.app.activate = FALSE]
                seen == IF app.activate THEN Activated(shown) ELSE shown
            IN /\ app.login # None => Fresh(seen) # {}
               /\ Become(Waiting(seen))
  /\ UNCHANGED <<reads, running, asks>>

\* Message::TerminalWindowOpened, Message::LogWindowOpened
OtherWindowOpened(i) ==
  /\ win[i].opened /\ win[i].kind # "main"
  /\ Become(Heard(i))
  /\ UNCHANGED <<reads, running, asks>>

CloseHeard(i) == [Now EXCEPT !.win[i].request = FALSE]

\* Message::CloseRequested of the main window: without a tray it is the end.
MainCloseRequested(i) ==
  /\ win[i].request /\ ~win[i].opened
  /\ i = app.main
  /\ \/ /\ app.tray = "there"
        /\ Become(Hidden(CloseHeard(i)))
        /\ UNCHANGED running
     \/ /\ app.tray # "there"
        /\ \E unfinished \in BOOLEAN :
             /\ running' = (app.exit \/ unfinished)
             /\ app' = [app EXCEPT !.exit = @ \/ unfinished]
        /\ win' = [win EXCEPT ![i].request = FALSE]
        /\ UNCHANGED wanted
  /\ UNCHANGED <<reads, asks>>

\* Message::CloseRequested of another one, which may be a main window of before.
CloseRequested(i) ==
  /\ win[i].request /\ ~win[i].opened
  /\ i # app.main
  /\ Become(IF i = app.log THEN LogClosed(CloseHeard(i))
            ELSE IF i = app.terminal THEN TerminalClosed(CloseHeard(i))
            ELSE CloseHeard(i))
  /\ UNCHANGED <<reads, running, asks>>

\* Mutant: which window was closed is not looked at.
AnyIsMain(i) == win[i].kind = "main"
IsMain(i) == i = app.main

\* Message::WindowClosed
WindowClosed(i) ==
  /\ win[i].state = "shut" /\ ~win[i].opened /\ ~win[i].request
  /\ LET gone == [Now EXCEPT !.win[i] = NoWindow] IN
     \/ /\ IsMain(i)
        /\ Become([gone EXCEPT !.app.ready = FALSE, !.app.opening = FALSE])
        /\ running' = (app.tray = "there")
     \/ /\ ~IsMain(i)
        /\ Become(IF i = app.log THEN LogClosed(gone)
                  ELSE IF i = app.terminal THEN TerminalClosed(gone) ELSE gone)
        /\ UNCHANGED running
  /\ UNCHANGED <<reads, asks>>

-----------------------------------------------------------------------------
(* What is asked for                                                       *)

Asked == [Now EXCEPT !.wanted = TRUE]
CanShow == app.ready \/ app.opening \/ Fresh(Now) # {}

\* AppCommand::ShowMain, TrayAction::ShowMain, Message::HostKeyPrompt
ShowMain ==
  /\ CanShow
  /\ Become(Show(Asked))
  /\ Ask
  /\ UNCHANGED <<reads, running>>

\* AppCommand::ExitForReplacement: mounts with a login keep it from happening, and the
\* main window says so; an operation under way does too.
ExitForReplacement ==
  /\ \/ CanShow /\ Become(Show(Asked)) /\ UNCHANGED running
     \/ UNCHANGED <<app, win, wanted, running>>
     \/ \E unfinished \in BOOLEAN : RequestExit(unfinished)
  /\ Ask
  /\ UNCHANGED reads

\* TrayAction::Exit
TrayExit ==
  /\ app.tray = "there"
  /\ \E unfinished \in BOOLEAN : RequestExit(unfinished)
  /\ Ask
  /\ UNCHANGED reads

\* Message::ExitDecision
ExitDecision ==
  /\ app.exit
  /\ app' = [app EXCEPT !.exit = FALSE]
  /\ running' \in BOOLEAN
  /\ UNCHANGED <<win, reads, wanted, asks>>

\* Message::TrayTick, while a failed tray may be tried again.
TrayTick ==
  /\ app.tray = "retry" /\ app.ready
  /\ app' \in {[app EXCEPT !.tray = t] : t \in Trays(app.tray)}
  /\ UNCHANGED <<win, reads, running, wanted, asks>>

OpenTerminal(login) ==
  /\ Fresh(Now) # {}
  /\ Become(Terminal(Now, login))
  /\ Ask
  /\ UNCHANGED <<reads, running>>

\* Message::HideTerminal, which only a terminal has.
HideTerminal ==
  /\ app.terminal # None
  /\ Become(TerminalClosed(Now))
  /\ UNCHANGED <<reads, running, asks>>

\* end_interactive_session, reconcile_interactive_sessions
EndSession ==
  /\ app.login # None
  /\ Become(TerminalClosed(Now))
  /\ Ask
  /\ UNCHANGED <<reads, running>>

\* open_log
OpenLog(m) ==
  /\ Fresh(Now) # {}
  /\ Become([LogWindow(Now) EXCEPT !.app.view = [NoLog EXCEPT !.of = m, !.loading = TRUE]])
  /\ reads' = [reads EXCEPT ![m] = @ + 1]
  /\ Ask
  /\ UNCHANGED running

\* open_log_window without a mount: one is chosen in the window.
OpenLogChooser ==
  /\ Fresh(Now) # {}
  /\ Become(LogWindow(Now))
  /\ Ask
  /\ UNCHANGED <<reads, running>>

ReloadLog ==
  /\ app.view.of # None
  /\ app' = [app EXCEPT !.view.loading = TRUE]
  /\ reads' = [reads EXCEPT ![app.view.of] = @ + 1]
  /\ Ask
  /\ UNCHANGED <<win, running, wanted>>

CloseLog ==
  /\ app.log # None
  /\ Become(LogClosed(Now))
  /\ UNCHANGED <<reads, running, asks>>

\* Mutant: whose log it is is not looked at.
AnyLog(m) == app.view.of # None
OfThisView(m) == app.view.of # None /\ app.view.of = m

\* read_mount_log and Message::LogLoaded: a read that fails leaves what is shown.
LogLoaded(m) ==
  /\ reads[m] > 0
  /\ reads' = [reads EXCEPT ![m] = @ - 1]
  /\ IF OfThisView(m)
     THEN \E content \in {m, app.view.content} :
            app' = [app EXCEPT !.view.loading = FALSE, !.view.content = content]
     ELSE UNCHANGED app
  /\ UNCHANGED <<win, running, wanted, asks>>

Next ==
  /\ running
  /\ \/ \E i \in Ids :
          \/ Create(i) \/ UserCloses(i) \/ Destroy(i)
          \/ MainWindowOpened(i) \/ OtherWindowOpened(i)
          \/ MainCloseRequested(i) \/ CloseRequested(i) \/ WindowClosed(i)
     \/ ShowMain \/ ExitForReplacement \/ TrayExit \/ ExitDecision \/ TrayTick
     \/ \E login \in Logins : OpenTerminal(login)
     \/ HideTerminal \/ EndSession
     \/ \E m \in Mounts : OpenLog(m) \/ LogLoaded(m)
     \/ OpenLogChooser \/ ReloadLog \/ CloseLog

-----------------------------------------------------------------------------
TypeOK ==
  /\ app.main \in Ids
  /\ {app.terminal, app.log} \subseteq Ids \cup {None}
  /\ app.login \in Logins \cup {None}
  /\ app.tray \in {"untried", "retry", "never", "there"}
  /\ \A i \in Ids : win[i].state \in {"none", "opening", "open", "shut"}
  /\ reads \in [Mounts -> 0 .. MaxAsks]

UnderWay(i) == win[i].state \in {"opening", "open"}

\* There is one main window, whatever is still unheard of its predecessors, and no window
\* of a log or a terminal that the application no longer knows.
OneOfEach ==
  /\ \A i, j \in Ids :
       UnderWay(i) /\ UnderWay(j) /\ win[i].kind = "main" /\ win[j].kind = "main" => i = j
  /\ \A i \in Ids : UnderWay(i) => i \in {app.main, app.terminal, app.log}

\* Whoever asks for the main window, with a question about a host key for instance, sees it:
\* until then it is being opened and will be activated.  A terminal waits for it.
AskedIsShown ==
  /\ running /\ wanted =>
       /\ app.opening /\ app.activate
       /\ UnderWay(app.main) \/ win[app.main].lost
  /\ app.login # None /\ app.ready => app.terminal # None

\* An application that runs has a tray or a main window, or will hear that it has lost it.
Reachable ==
  running => app.tray = "there" \/ UnderWay(app.main) \/ win[app.main].state = "shut"

\* The log that is shown is that of the mount it is shown for, and an answer ends "loading".
LogInView ==
  /\ app.view.content \in {None, app.view.of}
  /\ app.view.loading => reads[app.view.of] > 0
=============================================================================
