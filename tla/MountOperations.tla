-------------------------- MODULE MountOperations --------------------------
(***************************************************************************)
(* The window and the mounts it drives: App::update_message of             *)
(* crates/mountmate-app/src/main.rs with mount_feedback.rs.  A message is  *)
(* handled at once; what takes time - mounting, unmounting, looking at a   *)
(* mount, asking rclone for its transfers, removing a connection, a dialog *)
(* - is a task whose answer is a later message.  Answers come in any       *)
(* order, and rclone may exit at any time.                                 *)
(***************************************************************************)
EXTENDS Naturals, FiniteSets

CONSTANTS
  Targets,     \* mount targets: the directories of all connections
  Owner,       \* Owner[t]: the connection of t, named as its first target
  Odd,         \* bounds: what an observation may say besides the plain truth,
  MaxReads,    \*   observations of a target under way,
  MaxDialogs,  \*   open dialogs,
  MaxUser      \*   what the user does

MountOperationsAssumption ==
  /\ Owner \in [Targets -> Targets]
  /\ \A t \in Targets : Owner[Owner[t]] = Owner[t]
  /\ Odd \subseteq {"starting", "stale", "error"}
  /\ MaxReads \in Nat \ {0}
  /\ MaxUser \in Nat

VARIABLES
  app,      \* App: its fields, and the tasks it has started
  file,     \* the connections in servers.json
  alive,    \* the targets whose mount lives
  unheard,  \* ghost: what became of a mount without the window being told
  user      \* what the user has done so far

vars == <<app, file, alive, unheard, user>>

\* What an answer is about: the mount there is, or one there was.
Mounts == {"this", "former"}
Requests == 1 .. MaxReads
Connections == {Owner[t] : t \in Targets}
DirectoriesOf(conns) == {t \in Targets : Owner[t] \in conns}

NoFeedback == [gen |-> 0, polls |-> 0, of |-> {}]
NoPoll == [gen |-> 0, answer |-> "none", of |-> "none"]

StartReads(S) == {[t |-> t, req |-> 1, saw |-> "nothing"] : t \in S}

Init ==
  /\ app = [targets   |-> Targets,                        \* mount_targets
            obs       |-> [t \in Targets |-> "none"],     \* mount_observations
            reading   |-> [t \in Targets |-> 1],          \* status_reads
            flights   |-> StartReads(Targets),            \* tasks of status_task
            busy      |-> {},
            ops       |-> {},                             \* tasks of mounting
            queue     |-> [t \in Targets |-> "none"],     \* pending_commands
            behind    |-> {},      \* ghost: queued behind a mount operation
            feedback  |-> [t \in Targets |-> NoFeedback], \* mount_feedback
            polls     |-> [t \in Targets |-> NoPoll],     \* task of transfer_task
            waiting   |-> {},                             \* pending_unmount_after_sync
            confirmed |-> [t \in Targets |-> "no"],       \* confirmed_unmounts, and why
            dialogs   |-> {},
            saving    |-> FALSE,                          \* editor_saving
            listed    |-> FALSE,                          \* connection_list_saving
            leaving   |-> {}]                             \* connections being removed
  /\ file = Connections
  /\ alive \in SUBSET Targets
  /\ unheard = [t \in Targets |-> IF t \in alive THEN "unseen" ELSE "nothing"]
  /\ user = 0

-----------------------------------------------------------------------------
(* What the window knows                                                   *)

\* Two answers in a row, the last one "synced": a failure starts over.
Synced(a, t) == a.feedback[t].polls = 2

Polling(a) == \E t \in Targets : a.polls[t] # NoPoll

\* Mutant: a mount whose state is unknown counts as none.
UnknownCanModify(a, t) ==
  t \notin a.busy /\ a.obs[t] \in {"none", "unmounted", "error"}
MappingCanModify(a, t) == t \notin a.busy /\ a.obs[t] \in {"none", "unmounted"}

CanModify(a, conn) ==
  /\ \A t \in a.targets \cap DirectoriesOf({conn}) : MappingCanModify(a, t)
  /\ MappingCanModify(a, conn)

Forget(a, S) ==
  [a EXCEPT !.feedback = [t \in Targets |-> IF t \in S THEN NoFeedback ELSE @[t]],
            !.waiting = @ \ S,
            !.confirmed = [t \in Targets |-> IF t \in S THEN "no" ELSE @[t]]]

\* refresh_mount_targets
ShowTargets(a, conns) ==
  LET gone == Targets \ DirectoriesOf(conns) IN
  [Forget(a, gone) EXCEPT
     !.targets = Targets \ gone,
     !.obs = [t \in Targets |-> IF t \in gone THEN "none" ELSE @[t]],
     !.reading = [t \in Targets |-> IF t \in gone THEN 0 ELSE @[t]]]

-----------------------------------------------------------------------------
(* Tasks                                                                   *)

FreeRequests(a, t) == Requests \ {f.req : f \in {g \in a.flights : g.t = t}}

BeginReads(a, S) ==
  LET req == [t \in S |-> CHOOSE r \in FreeRequests(a, t) : TRUE] IN
  [a EXCEPT !.flights = @ \cup {[t |-> t, req |-> req[t], saw |-> "nothing"] : t \in S},
            !.reading = [t \in Targets |-> IF t \in S THEN req[t] ELSE @[t]]]

\* status_task: a silent one leaves a read alone that is under way, one that names
\* its targets is for those that may change by themselves.
StatusTask(a, S, silent, targeted) ==
  BeginReads(a, {t \in S : /\ t \notin a.busy
                           /\ silent => a.reading[t] = 0
                           /\ targeted => a.obs[t] \in {"error", "mounted", "starting"}})

Live(a) == {t \in a.targets : a.obs[t] = "mounted" /\ t \notin a.busy}

\* Mutant: generations are not told apart.
SameGen(a, t) == 1
\* A generation no answer under way belongs to.
NewGen(a, t) == IF a.polls[t].gen = 1 THEN 2 ELSE 1
StartFeedback(a, S) ==
  [a EXCEPT !.feedback =
     [t \in Targets |-> IF t \in S /\ @[t] = NoFeedback
                        THEN [NoFeedback EXCEPT !.gen = NewGen(a, t)] ELSE @[t]]]

TransferTask(a) ==
  LET S == Live(a)
      b == StartFeedback(a, S)
  IN IF Polling(a) THEN a
     ELSE [b EXCEPT !.polls =
             [t \in Targets |-> IF t \in S THEN [NoPoll EXCEPT !.gen = b.feedback[t].gen]
                                ELSE NoPoll]]

\* capacity_task, which does nothing while one is under way.
CapacityTask(a, idle) == IF idle THEN StartFeedback(a, Live(a)) ELSE a

-----------------------------------------------------------------------------
(* Mount operations                                                        *)

\* Mutant: nothing is looked for.
NothingInTheWay(a, S) == {}
\* Targets a started operation would find in the way of another.
InTheWay(a, S) == S \cap a.busy

\* Mutant: only a mount seen to be mounted can have uploads.
UnsafeIfMounted(a, t) ==
  a.confirmed[t] = "no" /\ ~Synced(a, t) /\ a.obs[t] = "mounted"
\* Its uploads are pending, or nobody knows, and nobody has said "unmount".
Unsafe(a, t) == a.confirmed[t] = "no" /\ ~Synced(a, t)

\* start_mount_operation for each of S.
Start(a, S, kind) ==
  LET ask == {t \in S : kind = "unmount" /\ Unsafe(a, t)}
      go == {t \in (S \ ask) \ InTheWay(a, S) :
               a.obs[t] \notin (IF kind = "mount" THEN {"mounted", "starting"}
                                ELSE {"unmounted"})}
      why(t) == IF Synced(a, t) THEN "synced" ELSE a.confirmed[t]
      asked == [a EXCEPT
        !.dialogs = @ \cup {[about |-> {t}, sure |-> FALSE] : t \in ask},
        !.confirmed = [t \in Targets |->
          IF t \in S /\ kind = "unmount" THEN "no"
          ELSE IF t \in go /\ @[t] # "no" THEN "former" ELSE @[t]]]
  IN IF a.saving THEN a
     ELSE [Forget(asked, go) EXCEPT
             !.busy = @ \cup go,
             !.reading = [t \in Targets |-> IF t \in go THEN 0 ELSE @[t]],
             !.obs = [t \in Targets |-> IF t \in go THEN "starting" ELSE @[t]],
             !.ops = @ \cup {[t |-> t, kind |-> kind, why |-> why(t),
                              at |-> IF kind = "mount" /\ t \notin a.targets
                                     THEN "failed" ELSE "running"] : t \in go}]

\* handle_mount_command for each of S: the last command for a busy target waits.
MountCommand(a, S, kind) ==
  LET held == S \cap a.busy IN
  Start([a EXCEPT
           !.queue = [t \in Targets |-> IF t \in held THEN kind ELSE @[t]],
           !.behind = (@ \ held) \cup {t \in held : \E o \in a.ops : o.t = t}],
        S \ held, kind)

Ask(a, S) == IF S = {} THEN a
             ELSE [a EXCEPT !.dialogs = @ \cup {[about |-> S, sure |-> FALSE]}]

\* MountRequested, RetryOperation
Request(t, kind) ==
  /\ t \in app.targets
  /\ app' = Start(app, {t}, kind)
  /\ UNCHANGED <<file, alive, unheard>>

\* A command names one target, which may be gone; BatchMountSelected, MountAll.
Command(S, kind) ==
  /\ Cardinality(S) = 1 \/ (kind = "mount" /\ S \subseteq app.targets)
  /\ app' = MountCommand(app, S, kind)
  /\ UNCHANGED <<file, alive, unheard>>

\* BatchUnmountSelected, UnmountAll: the recorded ones of S.
UnmountMany(S) ==
  /\ S \subseteq app.targets
  /\ LET safe == {t \in S : Synced(app, t)}
     IN app' = Ask(MountCommand(app, safe, "unmount"), S \ safe)
  /\ UNCHANGED <<file, alive, unheard>>

\* MountConnection
UnmountConnection(conn) ==
  LET S == app.targets \cap DirectoriesOf({conn})
      unsafe == {t \in S : ~Synced(app, t) /\ app.obs[t] = "mounted"}
  IN /\ app' = Ask(MountCommand(app, S \ unsafe, "unmount"), unsafe)
     /\ UNCHANGED <<file, alive, unheard>>

\* UnmountWaitDecision
AnswerWhen(d, choice) ==
  /\ d \in app.dialogs /\ ~d.sure
  /\ LET a == [app EXCEPT !.dialogs = @ \ {d}] IN
     app' = CASE choice = "wait" ->
                   TransferTask([a EXCEPT !.waiting = @ \cup d.about])
              [] choice = "now" -> [a EXCEPT !.dialogs = @ \cup {[d EXCEPT !.sure = TRUE]}]
              [] choice = "cancel" -> a
  /\ UNCHANGED <<file, alive, unheard>>

\* UnmountNowDecision
AnswerSure(d, yes) ==
  /\ d \in app.dialogs /\ d.sure
  /\ LET a == [app EXCEPT !.dialogs = @ \ {d}]
         b == [a EXCEPT
                 !.confirmed = [t \in Targets |-> IF t \in d.about THEN "now" ELSE @[t]]]
     IN app' = IF yes THEN Start(b, d.about, "unmount") ELSE a
  /\ UNCHANGED <<file, alive, unheard>>

CancelWait(t) ==
  /\ t \in app.waiting
  /\ app' = [app EXCEPT !.waiting = @ \ {t}]
  /\ UNCHANGED <<file, alive, unheard>>

\* Mutant: only a success takes the command.
TakeOnSuccess(a, t) ==
  IF a.queue[t] = "none" \/ a.obs[t] \notin {"mounted", "unmounted"} THEN a
  ELSE MountCommand([a EXCEPT !.queue[t] = "none", !.behind = @ \ {t}], {t}, a.queue[t])
\* take_pending_command, and what MountFinished does with it.
TakePending(a, t) ==
  IF a.queue[t] = "none" THEN a
  ELSE MountCommand([a EXCEPT !.queue[t] = "none", !.behind = @ \ {t}], {t}, a.queue[t])

Says(a, t, status) == [a EXCEPT !.obs[t] = status]

MountFinished(o, idle) ==
  /\ o \in app.ops /\ o.at # "running"
  /\ LET t == o.t
         a == [app EXCEPT !.ops = @ \ {o}, !.busy = @ \ {t}, !.reading[t] = 0]
         b == CASE o.at = "done" /\ o.kind = "mount" ->
                     TransferTask(CapacityTask(StatusTask(Says(a, t, "mounted"), {t},
                                                          TRUE, TRUE), idle))
                [] o.at = "done" /\ o.kind = "unmount" ->
                     Forget(Says(a, t, "unmounted"), {t})
                [] o.at = "cancelled" -> Says(a, t, "unmounted")
                [] o.at = "failed" -> StatusTask(a, {t}, TRUE, TRUE)
     IN app' = TakePending(b, t)
  /\ UNCHANGED <<file, alive, unheard>>

-----------------------------------------------------------------------------
(* Looking                                                                 *)

\* Mutant: an answer is an answer.
AnyAccepted(a, f) == f.t \notin a.busy
\* accept_mount_observation for the answer f.
Accepted(a, f) == a.reading[f.t] = f.req /\ f.t \notin a.busy

Accept(a, f) ==
  LET b == [a EXCEPT !.flights = @ \ {f},
                     !.reading[f.t] = IF @ = f.req THEN 0 ELSE @]
  IN IF ~Accepted(a, f) THEN b
     ELSE LET c == [b EXCEPT !.obs[f.t] = f.saw]
          IN IF f.saw \in {"unmounted", "stale"} THEN Forget(c, {f.t}) ELSE c

\* StatusesLoaded, for one of its targets; OpenFinished does not ask for capacities.
StatusLoaded(f, idle) ==
  /\ f \in app.flights /\ f.saw # "nothing"
  /\ app' = CapacityTask(Accept(app, f), idle)
  /\ unheard' = [unheard EXCEPT ![f.t] = IF Accepted(app, f) /\ @ = "unseen"
                                          THEN "nothing" ELSE @]
  /\ UNCHANGED <<file, alive>>

TransferTick ==
  /\ app' = StatusTask(TransferTask(app),
                       {t \in app.targets : app.obs[t] \in {"starting", "error"}},
                       TRUE, TRUE)
  /\ UNCHANGED <<file, alive, unheard>>

CheckMount(t) ==
  /\ app' = StatusTask(app, {t}, TRUE, TRUE)
  /\ UNCHANGED <<file, alive, unheard>>

Open(t) ==
  /\ t \notin app.busy
  /\ app' = BeginReads(app, {t})
  /\ UNCHANGED <<file, alive, unheard>>

Refresh ==
  /\ LET a == ShowTargets(app, file) IN app' = StatusTask(a, a.targets, FALSE, FALSE)
  /\ UNCHANGED <<file, alive, unheard>>

\* CapacityTick, and CapacitiesLoaded, which looks again at mounts it failed for.
CapacityTick(recheck, idle) ==
  /\ app' = StatusTask(CapacityTask(app, idle), recheck, TRUE, TRUE)
  /\ UNCHANGED <<file, alive, unheard>>

\* Mutant: the count has no limit.
PolledOn(fb, poll) ==
  CASE poll.answer = "synced" -> [fb EXCEPT !.polls = @ + 1, !.of = @ \cup {poll.of}]
    [] OTHER -> [fb EXCEPT !.polls = 0, !.of = {}]
\* TransferState::update and fail
Polled(fb, poll) ==
  CASE poll.answer = "synced" ->
         [fb EXCEPT !.polls = IF @ = 2 THEN 2 ELSE @ + 1, !.of = @ \cup {poll.of}]
    [] OTHER -> [fb EXCEPT !.polls = 0, !.of = {}]

TransfersLoaded ==
  /\ Polling(app)
  /\ \A t \in Targets : app.polls[t] # NoPoll => app.polls[t].answer # "none"
  /\ LET heard == {t \in Targets : app.polls[t] # NoPoll
                                   /\ app.polls[t].gen = app.feedback[t].gen}
         failed == {t \in heard : app.polls[t].answer = "error"}
         a == [app EXCEPT
                 !.polls = [t \in Targets |-> NoPoll],
                 !.feedback = [t \in Targets |-> IF t \in heard
                                                 THEN Polled(@[t], app.polls[t]) ELSE @[t]]]
         ready == {t \in a.waiting : Synced(a, t)}
         b == [a EXCEPT
                 !.waiting = @ \ ready,
                 !.confirmed = [t \in Targets |-> IF t \in ready /\ @[t] # "now"
                                                  THEN "waited" ELSE @[t]]]
     IN app' = Start(StatusTask(b, failed, TRUE, TRUE), ready, "unmount")
  /\ UNCHANGED <<file, alive, unheard>>

-----------------------------------------------------------------------------
(* Saving and removing connections, as far as it meets mounts              *)

\* Bound: one change of the list at a time.
Quiet == ~app.saving /\ ~app.listed

\* save_connection and save_settings; ConnectionSaved and SettingsSaved.
BeginSave ==
  /\ Quiet
  /\ app' = [app EXCEPT !.saving = TRUE]
  /\ UNCHANGED <<file, alive, unheard>>

EndSave(loaded, connection) ==
  /\ app.saving /\ app.leaving = {}
  /\ LET a == [app EXCEPT !.saving = FALSE]
         b == IF loaded THEN ShowTargets(a, file) ELSE a
     IN app' = IF loaded /\ connection THEN StatusTask(b, b.targets, TRUE, FALSE) ELSE b
  /\ UNCHANGED <<file, alive, unheard>>

\* ConfirmRemove, whose flag is that of a save.
Remove(conn) ==
  /\ Quiet
  /\ conn \in app.targets /\ CanModify(app, conn)
  /\ app' = [app EXCEPT !.busy = @ \cup {conn}, !.saving = TRUE, !.leaving = {conn}]
  /\ UNCHANGED <<file, alive, unheard>>

\* BatchDeleteSelected and BatchDeleteDecision, which looks again.
BatchDelete(conns) ==
  /\ Quiet
  /\ conns # {} /\ conns \subseteq app.targets
  /\ \A c \in conns : CanModify(app, c)
  /\ app' = [app EXCEPT !.busy = @ \cup conns, !.listed = TRUE, !.leaving = conns]
  /\ UNCHANGED <<file, alive, unheard>>

\* RemoveFinished and BatchRemoved; the write may have failed.
RemovalDone ==
  /\ app.leaving # {}
  /\ LET a == [app EXCEPT !.busy = @ \ app.leaving, !.leaving = {},
                          !.saving = FALSE, !.listed = FALSE]
     IN app' = IF app.leaving \cap file = {} THEN ShowTargets(a, file) ELSE a
  /\ UNCHANGED <<file, alive, unheard>>

Removed ==
  /\ app.leaving \cap file # {}
  /\ file' = file \ app.leaving
  /\ UNCHANGED <<app, alive, unheard>>

-----------------------------------------------------------------------------
(* Threads and rclone                                                      *)

\* The mount of t ends or is replaced: what was heard is of a former one.
Former(of) == IF of = "this" THEN "former" ELSE of
Past(a, t) == [a EXCEPT !.feedback[t].of = {Former(x) : x \in @},
                        !.polls[t].of = Former(@)]
Becomes(a, o, at) == [a EXCEPT !.ops = (@ \ {o}) \cup {[o EXCEPT !.at = at]}]
Hears(t, what) == unheard' = [unheard EXCEPT ![t] = what]

\* MountService::mount, with its dialogs about host keys: a mount that lives is kept,
\* or replaced when it does not answer.
MountRuns(o) ==
  /\ o \in app.ops /\ o.at = "running" /\ o.kind = "mount"
  /\ \/ /\ app' = Becomes(Past(app, o.t), o, "done")
        /\ alive' = alive \cup {o.t}
        /\ Hears(o.t, "nothing")
     \/ /\ o.t \in alive
        /\ app' = Becomes(app, o, "done")
        /\ Hears(o.t, "nothing")
        /\ UNCHANGED alive
     \/ /\ app' = Becomes(Past(app, o.t), o, "failed")
        /\ alive' = alive \ {o.t}
        /\ UNCHANGED unheard
     \/ /\ app' = Becomes(app, o, "failed")
        /\ UNCHANGED <<alive, unheard>>
     \/ /\ app' = Becomes(app, o, "cancelled")
        /\ Hears(o.t, "declined")
        /\ UNCHANGED alive
  /\ UNCHANGED file

UnmountRuns(o) ==
  /\ o \in app.ops /\ o.at = "running" /\ o.kind = "unmount"
  /\ \/ /\ \E at \in {"done", "failed"} : app' = Becomes(Past(app, o.t), o, at)
        /\ alive' = alive \ {o.t}
     \/ /\ app' = Becomes(app, o, "failed")
        /\ UNCHANGED alive
  /\ UNCHANGED <<file, unheard>>

\* MountService::observe
Observe(f) ==
  /\ f \in app.flights /\ f.saw = "nothing"
  /\ \E saw \in IF f.t \in alive THEN {"mounted"} \cup Odd
               ELSE {"unmounted"} \cup (Odd \ {"starting"}) :
       app' = [app EXCEPT !.flights = (@ \ {f}) \cup {[f EXCEPT !.saw = saw]}]
  /\ UNCHANGED <<file, alive, unheard>>

\* MountService::transfer_snapshot
PollTransfers(t) ==
  /\ app.polls[t] # NoPoll /\ app.polls[t].answer = "none"
  /\ \/ /\ t \in alive
        /\ \E answer \in {"synced", "pending"} :
             app' = [app EXCEPT !.polls[t].answer = answer, !.polls[t].of = "this"]
     \/ app' = [app EXCEPT !.polls[t].answer = "error"]
  /\ UNCHANGED <<file, alive, unheard>>

Exit(t) ==
  /\ t \in alive
  /\ alive' = alive \ {t}
  /\ app' = Past(app, t)
  /\ Hears(t, "exit")
  /\ UNCHANGED file

-----------------------------------------------------------------------------

\* A handler that may start an observation, and one that may open a dialog, waits
\* until the bounds leave room.
Room == \A t \in Targets : FreeRequests(app, t) # {}
Space == Cardinality(app'.dialogs) <= MaxDialogs

User ==
  /\ user < MaxUser
  /\ user' = user + 1
  /\ \/ \E t \in Targets, kind \in {"mount", "unmount"} : Request(t, kind)
     \/ \E S \in SUBSET Targets, kind \in {"mount", "unmount"} : Command(S, kind)
     \/ \E S \in SUBSET Targets : UnmountMany(S)
     \/ \E conn \in Connections : UnmountConnection(conn)
     \/ \E d \in app.dialogs, choice \in {"wait", "now", "cancel"} : AnswerWhen(d, choice)
     \/ \E d \in app.dialogs, yes \in BOOLEAN : AnswerSure(d, yes)
     \/ \E t \in Targets : CancelWait(t) \/ (Room /\ Open(t))
     \/ Room /\ Refresh
     \/ BeginSave
     \/ \E conn \in Connections : Remove(conn)
     \/ \E conns \in SUBSET Connections : BatchDelete(conns)
  /\ Space

Answers ==
  \/ \E f \in app.flights, idle \in BOOLEAN : StatusLoaded(f, idle)
  \/ /\ Room
     /\ \/ \E o \in app.ops, idle \in BOOLEAN : MountFinished(o, idle) /\ Space
        \/ TransferTick
        \/ \E t \in Targets : CheckMount(t)
        \/ \E S \in SUBSET Targets, idle \in BOOLEAN : CapacityTick(S, idle)
        \/ TransfersLoaded
        \/ \E loaded, connection \in BOOLEAN : EndSave(loaded, connection)
  \/ RemovalDone

Environment ==
  \/ Removed
  \/ \E o \in app.ops : MountRuns(o) \/ UnmountRuns(o)
  \/ \E f \in app.flights : Observe(f)
  \/ \E t \in Targets : PollTransfers(t) \/ Exit(t)

Next == User \/ ((Answers \/ Environment) /\ UNCHANGED user)

Spec == Init /\ [][Next]_vars

-----------------------------------------------------------------------------
(* Properties                                                              *)

Statuses == {"none", "mounted", "starting", "unmounted", "stale", "error"}
Feedback == [gen : 0 .. 2, polls : 0 .. 2, of : SUBSET Mounts]
Polls == [gen : 0 .. 2, answer : {"none", "synced", "pending", "error"},
          of : Mounts \cup {"none"}]
Flights == [t : Targets, req : Requests, saw : (Statuses \ {"none"}) \cup {"nothing"}]
Reasons == {"no", "now", "waited", "former"}
Operations == [t : Targets, kind : {"mount", "unmount"},
               why : Reasons \cup {"synced"},
               at : {"running", "done", "failed", "cancelled"}]
Dialogs == [about : SUBSET Targets, sure : BOOLEAN]

\* The fields of the window.
App ==
  [targets : SUBSET Targets,
   obs : [Targets -> Statuses],
   reading : [Targets -> Requests \cup {0}],
   flights : SUBSET Flights,
   busy : SUBSET Targets,
   ops : SUBSET Operations,
   queue : [Targets -> {"none", "mount", "unmount"}],
   behind : SUBSET Targets,
   feedback : [Targets -> Feedback],
   polls : [Targets -> Polls],
   waiting : SUBSET Targets,
   confirmed : [Targets -> Reasons],
   dialogs : SUBSET Dialogs,
   saving : BOOLEAN,
   listed : BOOLEAN,
   leaving : SUBSET Connections]

\* The state has the shape of App's fields.
TypeOK ==
  /\ app \in App
  /\ file \subseteq Connections
  /\ alive \subseteq Targets
  /\ unheard \in [Targets -> {"nothing", "unseen", "exit", "declined"}]
  /\ user \in 0 .. MaxUser

\* busy: a target has at most one operation, whatever the buttons, commands, dialogs
\* and answers do at once, and it is marked busy exactly while it has one or its
\* connection is being removed.
OneOperation ==
  /\ \A o, p \in app.ops : o.t = p.t => o = p
  /\ app.busy = {o.t : o \in app.ops} \cup app.leaving
  /\ {o.t : o \in app.ops} \cap app.leaving = {}

\* status_reads: what the window says of a target at rest is true of the mount there
\* is now.  "Mounted" may only be out of date because rclone exited, "unmounted" only
\* because a host key was declined over a mount that lives.
SaysWhatIs ==
  \A t \in Targets \ app.busy :
    /\ app.obs[t] = "mounted" => (t \in alive \/ unheard[t] = "exit")
    /\ app.obs[t] = "unmounted" => (t \notin alive \/ unheard[t] = "declined")

\* MountFeedbacks: the answers that make a target "synced" are all about one mount, and
\* if a mount of it lives and is at rest, about that one.
PollsOfThisMount ==
  \A t \in alive \ app.busy : app.feedback[t].of \subseteq {"this"}

\* start_mount_operation: an unmount begins because this mount's uploads were twice
\* reported to be done, because the user said "now" of this mount, or because waiting
\* for its uploads came to its end.
UnmountConsented ==
  \A o \in app.ops : o.kind = "unmount" => o.why \in {"now", "waited", "synced"}

\* docs/development-roadmap.md:209: an unmount is guarded while uploads are pending or
\* their state is unknown; only the explicit option does without "synced".
UnmountGuarded ==
  \A o \in app.ops : o.kind = "unmount" => o.why \in {"now", "synced"}

\* pending_commands: a command held back by a mount operation is never left behind
\* when that operation is over.
HeldBackWhileBusy == app.behind \subseteq {o.t : o \in app.ops}

\* UnmountBeforeRemove: a connection is not removed from under its mount, unless the
\* window has not looked yet or a host key was declined over that mount.
RemovedUnmounted ==
  [][\A conn \in file \ file' : conn \in alive => unheard[conn] # "nothing"]_vars

\* One operation at a time, no command left behind, and the window shows what is.
WindowAgrees == OneOperation /\ HeldBackWhileBusy /\ SaysWhatIs /\ PollsOfThisMount
\* An unmount that could lose uploads was agreed to, and a mounted connection is not removed.
NothingLost == []UnmountConsented /\ RemovedUnmounted
=============================================================================
