------------------------- MODULE InteractiveSession -------------------------
(***************************************************************************)
(* Shared SSH logins: the sessions of crates/mountmate-app/src/main.rs and *)
(* the control socket of crates/mountmate-core/src/interactive_ssh.rs.  A  *)
(* connection that wants an interactive login opens a terminal in which    *)
(* OpenSSH runs as the master of a control socket.  The window asks every  *)
(* half second whether the master answers, and starts the mounts that wait *)
(* when it does.  All mounts of the connection then use that master.       *)
(*                                                                         *)
(* Terminals are dropped and opened again, their processes end when they   *)
(* like, and the answers of checks come late.                              *)
(***************************************************************************)
EXTENDS Naturals

CONSTANTS
  Connections,
  Targets,      \* mount targets: the directories of all connections
  Owner,        \* Owner[t]: the connection of t
  Nobody,       \* no connection
  Another,      \* a connection that has no login
  MaxLogins,    \* bound: terminals that are opened
  MaxSaves,     \* bound: connections that are saved
  MaxErrors     \* bound: observations that fail

ASSUME InteractiveAssumption ==
  /\ Owner \in [Targets -> Connections]
  /\ Nobody # Another
  /\ {Nobody, Another} \cap Connections = {}
  /\ MaxLogins \in Nat
  /\ MaxSaves \in Nat
  /\ MaxErrors \in Nat

VARIABLES
  session,   \* interactive_terminals
  next,      \* next_terminal_generation
  pending,   \* pending_interactive_mounts
  shown,     \* terminal_server_id
  saving,    \* what is saved while editor_saving
  whole,     \* the save may change more than the directories of a connection
  saves,
  config,    \* which version of a connection the window works with
  obs,       \* mount_observations
  errors,    \* observations that failed
  ops,       \* mount operations under way
  checks,    \* readiness checks under way
  child,     \* the process in a terminal, per generation
  hung,      \* processes that were told to end, because their terminal was dropped
  socket,    \* the process that bound the control socket of a connection
  ended,     \* exits of terminal processes that the window has not heard of
  via,       \* the master a living mount runs through, 0 if it does not live
  wish       \* ghost: mounts asked for, neither begun nor called off since

window == <<session, next, pending, shown>>
saved == <<saving, whole, saves, config>>
mounts == <<obs, errors, ops, via>>
ssh == <<child, socket>>
vars == <<window, saved, mounts, checks, ssh, hung, ended, wish>>

None == 0
Logins == 1 .. MaxLogins
DirectoriesOf(c) == {t \in Targets : Owner[t] = c}
Busy == {o.t : o \in ops}

NoSession == [gen |-> None, life |-> "none", queued |-> FALSE, resumed |-> FALSE,
              checking |-> FALSE, config |-> 0,
              by |-> None]  \* ghost: who answered, None if he was told to end

Init ==
  /\ session = [c \in Connections |-> NoSession]
  /\ next = 1
  /\ pending = {}
  /\ shown = Nobody
  /\ saving = Nobody
  /\ whole = FALSE
  /\ saves = 0
  /\ config = [c \in Connections |-> 0]
  /\ obs = [t \in Targets |-> "unmounted"]
  /\ errors = 0
  /\ ops = {}
  /\ checks = {}
  /\ child = [g \in Logins |-> [conn |-> Nobody, at |-> "none"]]
  /\ hung = {}
  /\ socket = [c \in Connections |-> None]
  /\ ended = {}
  /\ via = [t \in Targets |-> None]
  /\ wish = {}

-----------------------------------------------------------------------------
(* Sessions                                                                *)

\* The session of c goes, and its terminal with it.
Dropped(c) == hung \cup ({session[c].gen} \ {None})

\* open_interactive_terminal; the session before it has been removed.
Open(c) ==
  /\ next \in Logins
  /\ next' = next + 1
  /\ shown' = c
  /\ hung' = Dropped(c)
  /\ \/ /\ session' = [session EXCEPT ![c] =
              [NoSession EXCEPT !.gen = next, !.life = "starting", !.queued = TRUE,
                                !.config = config[c]]]
        /\ child' = [child EXCEPT ![next] = [conn |-> c, at |-> "login"]]
     \/ /\ session' = [session EXCEPT ![c] = NoSession]
        /\ UNCHANGED child

\* session_can_end
CanEnd(c) == \A t \in DirectoriesOf(c) : t \notin Busy /\ obs[t] \notin {"mounted", "starting"}

\* start_mount_operation, from where the session is ready.
Begin(S) ==
  LET go == {t \in S \ Busy : obs[t] \notin {"mounted", "starting"}} IN
  /\ ops' = ops \cup {[t |-> t, kind |-> "mount", at |-> "asking", by |-> None] : t \in go}
  /\ obs' = [t \in Targets |-> IF t \in go THEN "starting" ELSE obs[t]]

\* A mount is requested while the session is ready.
Mount(t) ==
  LET c == Owner[t] IN
  /\ saving = Nobody
  /\ session[c].life = "ready"
  /\ Begin({t})
  /\ session' = [session EXCEPT ![c].queued = FALSE, ![c].resumed = TRUE]
  /\ wish' = wish \ {t}
  /\ UNCHANGED <<next, pending, shown, saved, errors, via, checks, ssh, hung, ended>>

\* queue_interactive_mount: it has to wait, for a login under way or for a new one.
Wait(t) ==
  LET c == Owner[t] IN
  /\ saving = Nobody
  /\ session[c].life = "starting"
  /\ session' = [session EXCEPT ![c].queued = TRUE, ![c].resumed = FALSE]
  /\ pending' = pending \cup {t}
  /\ wish' = wish \cup {t}
  /\ shown' = c
  /\ UNCHANGED <<next, saved, mounts, checks, ssh, hung, ended>>

WaitForNew(t) ==
  LET c == Owner[t] IN
  /\ saving = Nobody
  /\ session[c].life \in {"none", "exited", "failed"}
  /\ pending' = pending \cup {t}
  /\ wish' = wish \cup {t}
  /\ Open(c)
  /\ UNCHANGED <<saved, mounts, checks, socket, ended>>

\* Mutant: ending a session leaves the mounts that wait for it.
EndOnly(c) ==
  /\ shown = c /\ CanEnd(c)
  /\ shown' = Nobody
  /\ hung' = Dropped(c)
  /\ session' = [session EXCEPT ![c] = NoSession]
  /\ wish' = wish \ DirectoriesOf(c)
  /\ UNCHANGED <<next, pending, saved, mounts, checks, ssh, ended>>
\* end_interactive_session
End(c) ==
  /\ shown = c /\ CanEnd(c)
  /\ shown' = Nobody
  /\ hung' = Dropped(c)
  /\ session' = [session EXCEPT ![c] = NoSession]
  /\ pending' = pending \ DirectoriesOf(c)
  /\ wish' = wish \ DirectoriesOf(c)
  /\ UNCHANGED <<next, saved, mounts, checks, ssh, ended>>

\* Mutant: only running operations are in the way.
RetryUnlessBusy(c) ==
  /\ shown = c /\ session[c].life # "starting"
  /\ DirectoriesOf(c) \cap Busy = {}
  /\ Open(c)
  /\ UNCHANGED <<pending, saved, mounts, checks, socket, ended, wish>>
\* retry_interactive_terminal; the button is there unless a login is under way.
Retry(c) ==
  /\ shown = c /\ session[c].life # "starting"
  /\ CanEnd(c)
  /\ Open(c)
  /\ UNCHANGED <<pending, saved, mounts, checks, socket, ended, wish>>

\* handle_terminal_event: the process of a generation has ended.
Ended(g) ==
  /\ g \in ended
  /\ ended' = ended \ {g}
  /\ session' = [c \in Connections |->
       IF session[c].gen = g
       THEN [session[c] EXCEPT !.life = "exited", !.queued = FALSE, !.resumed = TRUE]
       ELSE session[c]]
  /\ UNCHANGED <<next, pending, shown, saved, mounts, checks, ssh, hung, wish>>

-----------------------------------------------------------------------------
(* Readiness                                                               *)

\* Mutant: every tick asks, whether or not an answer is outstanding.
PollEveryTick(c) ==
  /\ session[c].life = "starting" /\ session[c].queued /\ saving # c
  /\ session' = [session EXCEPT ![c].checking = TRUE]
  /\ checks' = checks \cup {[conn |-> c, gen |-> session[c].gen, at |-> "asking",
                             by |-> None]}
  /\ UNCHANGED <<next, pending, shown, saved, mounts, ssh, hung, ended, wish>>
\* poll_interactive_terminals, for one session.
Poll(c) ==
  /\ session[c].life = "starting" /\ session[c].queued /\ ~session[c].checking
  /\ saving # c
  /\ session' = [session EXCEPT ![c].checking = TRUE]
  /\ checks' = checks \cup {[conn |-> c, gen |-> session[c].gen, at |-> "asking",
                             by |-> None]}
  /\ UNCHANGED <<next, pending, shown, saved, mounts, ssh, hung, ended, wish>>

\* Who answers "ssh -O check", and what is known of him.
Answers(c) == socket[c] # None /\ child[socket[c]].at = "master"
Refuses(c) == ~Answers(c) \/ socket[c] \in hung

\* check_ready, whose "no" is followed by cleanup_failed_readiness.
Ask(k) ==
  /\ k \in checks /\ k.at = "asking"
  /\ \E at \in {"yes", "refused", "error"} :
       /\ at = "yes" => Answers(k.conn)
       /\ at = "refused" => Refuses(k.conn)
       /\ checks' = (checks \ {k}) \cup
            {[k EXCEPT !.at = at,
               !.by = IF at = "yes" /\ socket[k.conn] \notin hung THEN socket[k.conn]
                      ELSE None]}
  /\ UNCHANGED <<window, saved, mounts, ssh, hung, ended, wish>>

Clean(k) ==
  /\ k \in checks /\ k.at = "refused"
  /\ checks' = (checks \ {k}) \cup {[k EXCEPT !.at = "no"]}
  /\ socket' = [socket EXCEPT ![k.conn] = None]
  /\ UNCHANGED <<window, saved, mounts, child, hung, ended, wish>>

\* Mutant: the answer of any terminal will do.
AnyTerminal(k) == session[k.conn] # NoSession
\* The answer is about the terminal there is.
SameTerminal(k) == session[k.conn].gen = k.gen

Checked(k) == [session[k.conn] EXCEPT !.checking = FALSE]

Waiting(c) == pending \cap DirectoriesOf(c)

Unheard(k) ==
  /\ k \in checks /\ k.at \in {"yes", "no", "error"} /\ ~SameTerminal(k)
  /\ checks' = checks \ {k}
  /\ UNCHANGED <<window, saved, mounts, ssh, hung, ended, wish>>

\* InteractiveReadinessChecked, of the session there is.
ReadinessChecked(k) ==
  /\ k \in checks /\ k.at \in {"yes", "no", "error"} /\ SameTerminal(k)
  /\ checks' = checks \ {k}
  /\ LET c == k.conn
         s == Checked(k)
     IN \/ /\ ~(s.life = "starting" /\ s.queued) \/ k.at = "no"
           /\ session' = [session EXCEPT ![c] = s]
           /\ UNCHANGED <<pending, ops, obs, wish>>
        \/ /\ s.life = "starting" /\ s.queued /\ k.at = "error"
           /\ session' = [session EXCEPT ![c] = [s EXCEPT !.life = "failed", !.queued = FALSE]]
           /\ UNCHANGED <<pending, ops, obs, wish>>
        \/ /\ s.life = "starting" /\ s.queued /\ k.at = "yes"
           /\ LET S == IF s.resumed THEN {} ELSE Waiting(c) IN
              /\ session' = [session EXCEPT ![c] =
                    [s EXCEPT !.life = "ready", !.by = k.by, !.queued = @ /\ s.resumed,
                              !.resumed = TRUE]]
              /\ pending' = pending \ S
              /\ wish' = wish \ S
              /\ Begin(IF saving = Nobody THEN S ELSE {})
  /\ UNCHANGED <<next, shown, saved, errors, via, ssh, hung, ended>>

-----------------------------------------------------------------------------
(* The editor                                                              *)

\* can_modify
CanModify(c) ==
  \A t \in DirectoriesOf(c) :
    /\ t \notin Busy /\ obs[t] \in {"unmounted"}
    /\ ~(t \in pending /\ session[c].life = "starting")

\* save_connection: of a connection in use only the directories can be changed.
BeginSave(c) ==
  /\ saving = Nobody /\ saves < MaxSaves
  /\ saving' = c
  /\ whole' = (c \in Connections /\ CanModify(c))
  /\ saves' = saves + 1
  /\ UNCHANGED <<window, config, mounts, checks, ssh, hung, ended, wish>>

\* ConnectionSaved: nothing changes for sessions unless the login does.
EndSave ==
  /\ saving # Nobody
  /\ saving' = Nobody
  /\ whole' = FALSE
  /\ UNCHANGED <<window, saves, config, mounts, checks, ssh, hung, ended, wish>>

\* What reconcile_interactive_sessions does to the session of a changed connection.
DropSession(c) ==
  /\ session' = [session EXCEPT ![c] = NoSession]
  /\ hung' = Dropped(c)

EndSaveChanged(c) ==
  /\ saving = c /\ whole
  /\ saving' = Nobody
  /\ whole' = FALSE
  /\ config' = [config EXCEPT ![c] = @ + 1]
  /\ DropSession(c)
  /\ pending' = pending \ DirectoriesOf(c)
  /\ wish' = wish \ DirectoriesOf(c)
  /\ shown' = IF shown = c THEN Nobody ELSE shown
  /\ UNCHANGED <<next, saves, mounts, checks, ssh, ended>>

-----------------------------------------------------------------------------
(* Mounts                                                                  *)

Moves(o, at, by) == ops' = (ops \ {o}) \cup {[o EXCEPT !.at = at, !.by = by]}

\* interactive_ssh_arguments: a check of its own, which cleans up as well.
AskForMount(o) ==
  LET c == Owner[o.t] IN
  /\ o \in ops /\ o.at = "asking" /\ o.kind = "mount"
  /\ \/ Answers(c) /\ Moves(o, "connecting", socket[c])
     \/ Refuses(c) /\ Moves(o, "refused", None)
     \/ Moves(o, "failed", None)
  /\ UNCHANGED <<window, saved, obs, errors, via, checks, ssh, hung, ended, wish>>

CleanForMount(o) ==
  /\ o \in ops /\ o.at = "refused"
  /\ Moves(o, "failed", None)
  /\ socket' = [socket EXCEPT ![Owner[o.t]] = None]
  /\ UNCHANGED <<window, saved, obs, errors, via, checks, child, hung, ended, wish>>

\* rclone runs its connector through the socket.
Connect(o) ==
  /\ o \in ops /\ o.at = "connecting"
  /\ \/ /\ child[o.by].at = "master"
        /\ via' = [via EXCEPT ![o.t] = o.by]
        /\ Moves(o, "done", o.by)
     \/ /\ UNCHANGED via
        /\ Moves(o, "failed", None)
  /\ UNCHANGED <<window, saved, obs, errors, checks, ssh, hung, ended, wish>>

\* start_mount_operation for an unmount that needs no dialog.
Unmount(t) ==
  /\ saving = Nobody
  /\ t \notin Busy /\ obs[t] # "unmounted"
  /\ ops' = ops \cup {[t |-> t, kind |-> "unmount", at |-> "asking", by |-> None]}
  /\ obs' = [obs EXCEPT ![t] = "starting"]
  /\ UNCHANGED <<window, saved, errors, via, checks, ssh, hung, ended, wish>>

UnmountRuns(o) ==
  /\ o \in ops /\ o.at = "asking" /\ o.kind = "unmount"
  /\ \/ /\ via' = [via EXCEPT ![o.t] = None]
        /\ Moves(o, "done", None)
     \/ UNCHANGED via /\ Moves(o, "failed", None)
  /\ UNCHANGED <<window, saved, obs, errors, checks, ssh, hung, ended, wish>>

\* MountFinished; after a failure the window looks again.
MountFinished(o) ==
  /\ o \in ops /\ o.at \in {"done", "failed"}
  /\ ops' = ops \ {o}
  /\ obs' = [obs EXCEPT ![o.t] =
       IF o.at = "failed" THEN @ ELSE IF o.kind = "mount" THEN "mounted" ELSE "unmounted"]
  /\ UNCHANGED <<window, saved, errors, via, checks, ssh, hung, ended, wish>>

\* StatusesLoaded: that an observation may be late is the subject of MountOperations.
Observe(t) ==
  /\ t \notin Busy
  /\ \/ /\ obs' = [obs EXCEPT ![t] = IF via[t] = None THEN "unmounted" ELSE "mounted"]
        /\ UNCHANGED errors
     \/ /\ errors < MaxErrors
        /\ errors' = errors + 1
        /\ obs' = [obs EXCEPT ![t] = "error"]
  /\ UNCHANGED <<window, saved, ops, via, checks, ssh, hung, ended, wish>>

-----------------------------------------------------------------------------
(* OpenSSH in a terminal                                                   *)

\* The user has logged in.  A socket that is there is not replaced: the process
\* goes on without sharing.
LoggedIn(g) ==
  LET c == child[g].conn IN
  /\ child[g].at = "login" /\ g \notin hung
  /\ IF socket[c] = None
     THEN /\ child' = [child EXCEPT ![g].at = "master"]
          /\ socket' = [socket EXCEPT ![c] = g]
     ELSE /\ child' = [child EXCEPT ![g].at = "alone"]
          /\ UNCHANGED socket
  /\ UNCHANGED <<window, saved, mounts, checks, hung, ended, wish>>

\* It ends, because the terminal was dropped or for reasons of its own, and may
\* leave its socket behind.
ChildEnds(g) ==
  LET c == child[g].conn IN
  /\ child[g].at \in {"login", "master", "alone"}
  /\ child' = [child EXCEPT ![g].at = "none"]
  /\ \/ UNCHANGED socket
     \/ socket[c] = g /\ socket' = [socket EXCEPT ![c] = None]
  /\ ended' = IF g \in hung THEN ended ELSE ended \cup {g}
  /\ hung' = hung \ {g}
  /\ UNCHANGED <<window, saved, mounts, checks, wish>>

-----------------------------------------------------------------------------

Answer(k) == Ask(k) \/ Clean(k) \/ Unheard(k) \/ ReadinessChecked(k)

Operation(o) ==
  \/ AskForMount(o) \/ CleanForMount(o) \/ Connect(o) \/ UnmountRuns(o)
  \/ MountFinished(o)

Next ==
  \/ \E t \in Targets :
       Mount(t) \/ Wait(t) \/ WaitForNew(t) \/ Unmount(t) \/ Observe(t)
  \/ \E c \in Connections :
       End(c) \/ Retry(c) \/ Poll(c) \/ EndSaveChanged(c)
  \/ \E c \in Connections \cup {Another} : BeginSave(c)
  \/ EndSave
  \/ \E k \in checks : Answer(k)
  \/ \E o \in ops : Operation(o)
  \/ \E g \in Logins : LoggedIn(g) \/ ChildEnds(g) \/ Ended(g)

Spec == Init /\ [][Next]_vars

-----------------------------------------------------------------------------
(* Properties                                                              *)

Generations == Logins \cup {None}
Sessions == [gen : Generations, life : {"none", "starting", "ready", "exited", "failed"},
             queued : BOOLEAN, resumed : BOOLEAN, checking : BOOLEAN,
             config : 0 .. MaxSaves, by : Generations]
Checks == [conn : Connections, gen : Logins,
           at : {"asking", "yes", "refused", "no", "error"}, by : Generations]
Operations == [t : Targets, kind : {"mount", "unmount"},
               at : {"asking", "refused", "connecting", "done", "failed"},
               by : Generations]
Children == [conn : Connections \cup {Nobody},
             at : {"none", "login", "master", "alone"}]

\* The state has the shape of App's fields, and a check under way is one at a time.
TypeOK ==
  /\ session \in [Connections -> Sessions]
  /\ next \in 1 .. MaxLogins + 1
  /\ pending \subseteq Targets
  /\ shown \in Connections \cup {Nobody}
  /\ saving \in Connections \cup {Nobody, Another}
  /\ whole \in BOOLEAN
  /\ saves \in 0 .. MaxSaves
  /\ config \in [Connections -> 0 .. MaxSaves]
  /\ obs \in [Targets -> {"starting", "mounted", "unmounted", "error"}]
  /\ errors \in 0 .. MaxErrors
  /\ ops \subseteq Operations
  /\ checks \subseteq Checks
  /\ \A j, k \in checks : j.gen = k.gen => j = k
  /\ child \in [Logins -> Children]
  /\ hung \subseteq Logins
  /\ socket \in [Connections -> Generations]
  /\ ended \subseteq Logins
  /\ via \in [Targets -> Generations]
  /\ wish \subseteq Targets

\* A session counts as ready because the process in its own terminal answered, or one
\* that was told to end and had not; never because of an answer about a terminal
\* that is gone.  And it is a login to the connection as it is saved.
ReadyIsCurrent ==
  \A c \in Connections : session[c].life = "ready" =>
    /\ session[c].by \in {session[c].gen, None}
    /\ session[c].config = config[c]

\* The mounts of c that wait begin when its session becomes ready.
ResumesAt(c) ==
  session[c].life = "starting" /\ session'[c].life = "ready" =>
    \A t \in wish \cap DirectoriesOf(c) :
      t \in {o.t : o \in ops'} \/ obs[t] \in {"mounted", "starting"}

\* A mount that waits begins when its session becomes ready ("the queued mount resumes
\* exactly once", README.md:362) unless the editor is saving then; and a session that
\* becomes ready begins only mounts that were asked for, neither begun before nor called
\* off since.
ResumesOnce ==
  [][\A c \in Connections :
       /\ saving = Nobody => ResumesAt(c)
       /\ session[c].life = "starting" /\ session'[c].life = "ready" =>
            {o.t : o \in ops' \ ops} \subseteq wish]_vars

\* interactive_session_can_restart_or_end, mapping_is_editable: ending a session, trying
\* again and saving the connection do not end a login that a mount runs through, unless
\* the window could not look at that mount.  (A session that has failed is replaced by
\* queue_interactive_mount whatever runs through it.)
SessionKept ==
  [][\A c \in Connections :
       LET g == session[c].gen IN
       session[c].life \in {"starting", "ready"} /\ session'[c].gen # g =>
         \A t \in Targets : via[t] = g /\ child[g].at = "master" => obs[t] = "error"]_vars
=============================================================================
