----------------------------- MODULE AppCommand -----------------------------
(***************************************************************************)
(* One instance of the application and the commands that other processes   *)
(* forward to it (crates/mountmate-core/src/app_command.rs, and `run` of   *)
(* crates/mountmate-app/src/main.rs).  A process that gets the instance    *)
(* lock becomes the server: it binds a port, publishes port, token and     *)
(* identity in a state file and serves.  One that does not get it reads    *)
(* that file and sends its command.  A newer build asks the old one to     *)
(* exit and takes over, while the old one is still tidying up.             *)
(***************************************************************************)
EXTENDS Naturals, FiniteSets

CONSTANTS
  Procs,          \* processes of the application, each with one command
  Free,           \* nobody holds the instance lock
  NoState,        \* there is no state file
  QueueCapacity,  \* AUTH_QUEUE_CAPACITY
  Workers         \* AUTH_WORKER_COUNT

ASSUME AppCommandAssumption ==
  /\ Free \notin Procs
  /\ NoState \notin Procs
  /\ QueueCapacity \in Nat
  /\ Workers \in Nat \ {0}

VARIABLES
  pc,         \* step of each process
  lock,       \* holder of the instance lock
  state,      \* the server that the state file names
  open,       \* the port is bound and somebody accepts
  stopping,   \* AppCommandServer.stopping
  early,      \* the process drops its instance lock before its server
  goal,       \* what the command of a process asks for
  peer,       \* the server a process has connected to
  conn,       \* how far that connection has come
  mutex,      \* the connection whose worker holds the callback mutex
  executed,   \* how often the command of a process was handed to the application
  outcome,    \* what the sender was told
  late        \* ghost: callbacks that ran after their server was dropped

vars == <<pc, lock, state, open, stopping, early, goal, peer, conn, mutex, executed,
          outcome, late>>
server == <<lock, state, open, stopping, early, mutex>>

Starting == {"bind", "unlink", "publish", "spawn", "unpublish"}
Stopping == {"stop", "join", "owns", "remove", "dropped"}
Ended == {"end", "dead"}
Alive(p) == pc[p] \notin {"new"} \cup Ended
InFlight == {"backlog", "queued", "reading", "waiting", "calling"}
Finished == {"ok", "rejected", "closed"}

Go(p, step) == pc' = [pc EXCEPT ![p] = step]
End(p, told) ==
  /\ Go(p, "end")
  /\ outcome' = [outcome EXCEPT ![p] = told]
\* Connections of a process that no longer answers are closed.
Closed(p) == [c \in Procs |->
  IF peer[c] = p /\ conn[c] \in InFlight THEN "closed" ELSE conn[c]]

Init ==
  /\ pc = [p \in Procs |-> "new"]
  /\ lock = Free
  /\ state = NoState
  /\ open = [p \in Procs |-> FALSE]
  /\ stopping = [p \in Procs |-> FALSE]
  /\ early \in [Procs -> BOOLEAN]
  /\ goal = [p \in Procs |-> "command"]
  /\ peer = [p \in Procs |-> NoState]
  /\ conn = [p \in Procs |-> "none"]
  /\ mutex = [p \in Procs |-> NoState]
  /\ executed = [p \in Procs |-> 0]
  /\ outcome = [p \in Procs |-> "none"]
  /\ late = [p \in Procs |-> 0]

-----------------------------------------------------------------------------
(* A process is started: run and run_headless                              *)

\* InstanceLock::try_acquire.  Mutant: the lock of a file nobody deletes is
\* taken for stale.
LockIgnored == TRUE
LockFree == lock = Free

\* Without a GUI a command line process does its
\* work itself, under the lock and without a server.
Launch(p) ==
  /\ pc[p] = "new"
  /\ IF LockFree
     THEN lock' = p /\ (Go(p, "bind") \/ Go(p, "headless"))
     ELSE UNCHANGED lock /\ Go(p, "verify")
  /\ UNCHANGED <<state, open, stopping, early, goal, peer, conn, mutex, executed,
                 outcome, late>>

Headless(p) ==
  /\ pc[p] = "headless"
  /\ lock' = Free
  /\ \/ executed' = [executed EXCEPT ![p] = @ + 1] /\ End(p, "ok")
     \/ UNCHANGED executed /\ End(p, "failed")
  /\ UNCHANGED <<state, open, stopping, early, mutex, goal, peer, conn, late>>

\* running_instance, once and without a retry: the state file must name a live
\* process.  A GUI of another build is asked to make way if the user agrees.
Verify(p) ==
  /\ pc[p] = "verify"
  /\ IF state # NoState /\ Alive(state)
     THEN \/ Go(p, "send") /\ UNCHANGED <<goal, outcome>>
          \/ /\ goal' = [goal EXCEPT ![p] = "replace"]
             /\ Go(p, "send")
             /\ UNCHANGED outcome
          \/ End(p, "declined") /\ UNCHANGED goal
     ELSE End(p, "not_running") /\ UNCHANGED goal
  /\ UNCHANGED <<server, peer, conn, executed, late>>

-----------------------------------------------------------------------------
(* send_command_retry                                                      *)

\* The state file names a live process, and its port accepts.
Reachable == state # NoState /\ Alive(state) /\ open[state]

Connect(p) ==
  /\ pc[p] = "send"
  /\ Reachable
  /\ peer' = [peer EXCEPT ![p] = state]
  /\ conn' = [conn EXCEPT ![p] = "backlog"]
  /\ Go(p, "await")
  /\ UNCHANGED <<server, goal, executed, outcome, late>>

\* NotRunning and Connect are retried, that is, p stays where it is; after two
\* seconds it gives up.
GiveUp(p) ==
  /\ pc[p] = "send"
  /\ ~Reachable
  /\ End(p, "not_running")
  /\ UNCHANGED <<server, goal, peer, conn, executed, late>>

Answer(p) ==
  /\ pc[p] = "await"
  /\ conn[p] \in Finished
  /\ IF conn[p] = "ok" /\ goal[p] = "replace"
     THEN Go(p, "relock") /\ UNCHANGED outcome
     ELSE End(p, IF conn[p] = "closed" THEN "io" ELSE conn[p])
  /\ UNCHANGED <<server, goal, peer, conn, executed, late>>

\* retryable_before_delivery.  Mutant: a lost answer is a reason to retry.
RetryableAlways == TRUE
RetryableAfterConnect == FALSE

\* The read timeout of 500 ms.  Mutant: the socket has none.
NoDeadline == FALSE
ReadDeadline == TRUE

\* No answer in time: the command may have been delivered.
NoAnswer(p) ==
  /\ pc[p] = "await"
  /\ ReadDeadline
  /\ conn[p] \notin {"ok", "rejected"}
  /\ \/ RetryableAfterConnect /\ Go(p, "send") /\ UNCHANGED outcome
     \/ End(p, "io")
  /\ UNCHANGED <<server, goal, peer, conn, executed, late>>

\* The replaced instance is given eight seconds to exit.
Relock(p) ==
  /\ pc[p] = "relock"
  /\ IF LockFree THEN lock' = p /\ Go(p, "bind") /\ UNCHANGED outcome
                    ELSE UNCHANGED lock /\ End(p, "busy")
  /\ UNCHANGED <<state, open, stopping, early, goal, peer, conn, mutex, executed,
                 late>>

-----------------------------------------------------------------------------
(* AppCommandServer::start_with_version                                    *)

Bind(p) ==
  /\ pc[p] = "bind"
  /\ open' = [open EXCEPT ![p] = TRUE]
  /\ Go(p, "unlink")
  /\ UNCHANGED <<lock, state, stopping, early, mutex, goal, peer, conn, executed,
                 outcome, late>>

\* write_private_state removes what is there, then renames its own file.
Unlink(p) ==
  /\ pc[p] = "unlink"
  /\ state' = NoState
  /\ Go(p, "publish")
  /\ UNCHANGED <<lock, open, stopping, early, mutex, goal, peer, conn, executed,
                 outcome, late>>

\* A failure ends the application: the listener and the lock go with it.
Publish(p) ==
  /\ pc[p] = "publish"
  /\ \/ /\ state' = p
        /\ Go(p, "spawn")
        /\ UNCHANGED <<lock, conn, outcome>>
     \/ /\ lock' = Free
        /\ conn' = Closed(p)
        /\ End(p, "failed")
        /\ UNCHANGED state
  /\ UNCHANGED <<open, stopping, early, mutex, goal, peer, executed, late>>

\* A thread that cannot be created leaves the published state to its guard.
Spawn(p) ==
  /\ pc[p] = "spawn"
  /\ Go(p, "serving") \/ Go(p, "unpublish")
  /\ UNCHANGED <<server, goal, peer, conn, executed, outcome, late>>

\* PendingCommandState::drop.  Mutant: it empties the file and leaves it.
UnpublishEmpties(p) == state' = Free
UnpublishOwn(p) == state' = IF state = p THEN NoState ELSE state
Unpublish(p) ==
  /\ pc[p] = "unpublish"
  /\ UnpublishOwn(p)
  /\ lock' = Free
  /\ conn' = Closed(p)
  /\ End(p, "failed")
  /\ UNCHANGED <<open, stopping, early, mutex, goal, peer, executed, late>>

-----------------------------------------------------------------------------
(* The accepting thread and the authentication workers of a server         *)

Queued(p) == {c \in Procs : peer[c] = p /\ conn[c] = "queued"}
Busy(p) == {c \in Procs : peer[c] = p /\ conn[c] \in {"reading", "waiting", "calling"}}

\* try_send: a connection that does not fit is dropped.
Accept(p) ==
  \E c \in Procs :
    /\ pc[p] \in {"serving", "stop", "join"}
    /\ open[p]
    /\ peer[c] = p
    /\ conn[c] = "backlog"
    /\ conn' = [conn EXCEPT ![c] =
         IF Cardinality(Queued(p)) < QueueCapacity THEN "queued" ELSE "closed"]
    /\ UNCHANGED <<pc, server, goal, peer, executed, outcome, late>>

BacklogClosed(p) == [c \in Procs |->
  IF peer[c] = p /\ conn[c] = "backlog" THEN "closed" ELSE conn[c]]

\* Any other error of accept ends the accepting thread while the server stays.
AcceptError(p) ==
  /\ pc[p] = "serving"
  /\ open[p]
  /\ open' = [open EXCEPT ![p] = FALSE]
  /\ conn' = BacklogClosed(p)
  /\ UNCHANGED <<pc, lock, state, stopping, early, mutex, goal, peer, executed,
                 outcome, late>>

\* The process runs: its workers outlive the server object.
Running(p) == pc[p] \in {"serving"} \cup Stopping

Take(p) ==
  \E c \in Queued(p) :
    /\ Running(p)
    /\ Cardinality(Busy(p)) < Workers
    /\ conn' = [conn EXCEPT ![c] = "reading"]
    /\ UNCHANGED <<pc, server, goal, peer, executed, outcome, late>>

\* A message that is not understood is refused.
Refused(c) == conn' = [conn EXCEPT ![c] = "rejected"]

\* The request arrives before the deadline, or the client is told otherwise.
Read(p) ==
  \E c \in Busy(p) :
    /\ Running(p)
    /\ conn[c] = "reading"
    /\ conn' = [conn EXCEPT ![c] = "waiting"] \/ Refused(c)
    /\ UNCHANGED <<pc, server, goal, peer, executed, outcome, late>>

\* Mutant: stopping is not looked at again once the mutex is there.
StoppingIgnored(p) == FALSE
StoppingSeen(p) == stopping[p]

\* The callback mutex, and the second look at `stopping` under it.
Enter(p) ==
  \E c \in Busy(p) :
    /\ Running(p)
    /\ conn[c] = "waiting"
    /\ mutex[p] = NoState
    /\ IF StoppingSeen(p)
       THEN Refused(c) /\ UNCHANGED mutex
       ELSE /\ conn' = [conn EXCEPT ![c] = "calling"]
            /\ mutex' = [mutex EXCEPT ![p] = c]
    /\ UNCHANGED <<pc, lock, state, open, stopping, early, goal, peer,
                   executed, outcome, late>>

Call(p) ==
  \E c \in Busy(p) :
    /\ Running(p)
    /\ conn[c] = "calling"
    /\ conn' = [conn EXCEPT ![c] = "ok"]
    /\ executed' = [executed EXCEPT ![c] = @ + 1]
    /\ mutex' = [mutex EXCEPT ![p] = NoState]
    /\ late' = IF pc[p] = "dropped" THEN [late EXCEPT ![p] = @ + 1] ELSE late
    /\ UNCHANGED <<pc, lock, state, open, stopping, early, goal, peer, outcome>>

-----------------------------------------------------------------------------
(* The application exits: the instance lock and the server are dropped     *)

\* Both are shared between App and Bootstrap, which drop them in field order:
\* the lock goes first, unless something else still holds it.
Stop(p) ==
  /\ pc[p] = "serving"
  /\ lock' = IF early[p] THEN Free ELSE lock
  /\ Go(p, "stop")
  /\ UNCHANGED <<state, open, stopping, early, mutex, goal, peer, conn, executed,
                 outcome, late>>

SetStopping(p) ==
  /\ pc[p] = "stop"
  /\ stopping' = [stopping EXCEPT ![p] = TRUE]
  /\ Go(p, "join")
  /\ UNCHANGED <<lock, state, open, early, mutex, goal, peer, conn, executed,
                 outcome, late>>

\* The accepting thread ends within 20 ms; the listener goes with it.  Mutant:
\* the connections that were accepted are waited for.
WorkersJoined(p) == Queued(p) \cup Busy(p) = {}
AcceptorJoined(p) == TRUE

Join(p) ==
  /\ pc[p] = "join"
  /\ AcceptorJoined(p)
  /\ open' = [open EXCEPT ![p] = FALSE]
  /\ conn' = BacklogClosed(p)
  /\ Go(p, "owns")
  /\ UNCHANGED <<lock, state, stopping, early, mutex, goal, peer, executed,
                 outcome, late>>

\* The state file is removed if it holds this server's token.
Owns(p) ==
  /\ pc[p] = "owns"
  /\ Go(p, IF state = p THEN "remove" ELSE "dropped")
  /\ UNCHANGED <<server, goal, peer, conn, executed, outcome, late>>

Remove(p) ==
  /\ pc[p] = "remove"
  /\ state' = NoState
  /\ Go(p, "dropped")
  /\ UNCHANGED <<lock, open, stopping, early, mutex, goal, peer, conn, executed,
                 outcome, late>>

\* The process ends, and with it its workers.
Leave(p) ==
  /\ pc[p] = "dropped"
  /\ lock' = IF lock = p THEN Free ELSE lock
  /\ conn' = Closed(p)
  /\ End(p, "stopped")
  /\ UNCHANGED <<state, open, stopping, early, mutex, goal, peer, executed, late>>

Crash(p) ==
  /\ Alive(p)
  /\ lock' = IF lock = p THEN Free ELSE lock
  /\ conn' = Closed(p)
  /\ Go(p, "dead")
  /\ UNCHANGED <<state, open, stopping, early, mutex, goal, peer, executed, outcome,
                 late>>

Client(p) == Launch(p) \/ Headless(p) \/ Verify(p) \/ Connect(p) \/ GiveUp(p)
             \/ Answer(p) \/ NoAnswer(p) \/ Relock(p)
Startup(p) == Bind(p) \/ Unlink(p) \/ Publish(p) \/ Spawn(p) \/ Unpublish(p)
Shutdown(p) == SetStopping(p) \/ Join(p) \/ Owns(p) \/ Remove(p) \/ Leave(p)
Serve(p) == Accept(p) \/ AcceptError(p) \/ Take(p) \/ Read(p) \/ Enter(p) \/ Call(p)

Next == \E p \in Procs : Client(p) \/ Startup(p) \/ Serve(p) \/ Stop(p)
                         \/ Shutdown(p) \/ Crash(p)

Spec == Init /\ [][Next]_vars

\* Threads that are runnable run.  Nothing makes a client send its request, so
\* Serve is not fair.
Fairness == \A p \in Procs : WF_vars(Client(p)) /\ WF_vars(Shutdown(p))

FairSpec == Spec /\ Fairness

-----------------------------------------------------------------------------
TypeOK ==
  /\ pc \in [Procs -> {"new", "headless", "verify", "send", "await", "relock",
                       "serving"} \cup Starting \cup Stopping \cup Ended]
  /\ lock \in Procs \cup {Free}
  /\ state \in Procs \cup {NoState}
  /\ open \in [Procs -> BOOLEAN]
  /\ stopping \in [Procs -> BOOLEAN]
  /\ early \in [Procs -> BOOLEAN]
  /\ goal \in [Procs -> {"command", "replace"}]
  /\ peer \in [Procs -> Procs \cup {NoState}]
  /\ conn \in [Procs -> {"none"} \cup InFlight \cup Finished]
  /\ mutex \in [Procs -> Procs \cup {NoState}]
  /\ executed \in [Procs -> Nat]
  /\ outcome \in [Procs -> {"none", "ok", "rejected", "io", "not_running", "busy",
                            "declined", "failed", "stopped"}]
  /\ late \in [Procs -> Nat]

\* What the outcome of a process says of its command; nobody has told the user about one
\* that went into a server, or crashed.
Told(p) ==
  CASE outcome[p] = "none" -> "nothing"
    [] outcome[p] = "ok" -> "done"
    [] outcome[p] \in {"rejected", "not_running", "declined"} -> "refused"
    [] OTHER -> "unknown"

Delivery == INSTANCE CommandDelivery WITH
  Senders <- Procs, times <- executed, told <- [p \in Procs |-> Told(p)]

\* The protocol of the instances implements CommandDelivery: whatever servers stop, crash
\* or are replaced meanwhile, no command is carried out twice, none after its sender was
\* told that it was refused, and "ok" is true.
ImplementsDelivery == Delivery!Spec

\* While a server is up the state file does not send commands elsewhere, to a
\* predecessor that is still stopping or to one that crashed; nor to a server whose
\* start failed.
StateNamesServer ==
  \A p \in Procs :
    /\ pc[p] = "serving" => state \in {p, NoState}
    /\ outcome[p] = "failed" => state # p

\* Of all commands that wait for the callback mutex at most the one that was let
\* in before `stopping` was set can run after the server is gone.
AtMostOneLate == \A p \in Procs : late[p] <= 1

\* Whom the state file names and to whom a command may come too late (app_command.rs:381
\* and 527): the server of the lock or one that is gone, and one command at a time.
ServerKnown == StateNamesServer /\ AtMostOneLate

\* Slow clients do not delay the end of a server, and a client always ends.
ServerEnds == \A p \in Procs : pc[p] = "stop" ~> pc[p] \in Ended
ClientEnds == \A p \in Procs : pc[p] \in {"verify", "send", "await"}
                               ~> pc[p] \in Ended \cup {"bind"}
=============================================================================
