----------------------------- MODULE RemoteUse -----------------------------
(***************************************************************************)
(* How a mount or a capacity probe hands a connection to rclone:           *)
(* crates/mountmate-core/src/service.rs (mount, capacity and what they     *)
(* prepare) and the configuration file of crates/mountmate-core/src/       *)
(* rclone.rs, in which each directory of a connection has a section.       *)
(*                                                                         *)
(* Several tasks run at once, in one process or in several.  Secrets that  *)
(* are kept in the credential store of the system are in the file only     *)
(* while a task runs.                                                      *)
(***************************************************************************)
EXTENDS Naturals, FiniteSets

CONSTANTS
  Workers,     \* tasks that may run at once
  Targets,     \* directories that may be mounted
  Server,      \* the saved connection of each: see ServerType
  None,
  MaxFaults,   \* bound: calls and writes that fail
  MaxCrashes,  \* bound: processes that end in the middle
  MaxTasks     \* bound: tasks that are begun

VARIABLES
  conf,      \* rclone.conf: a section or None under each name
  work,      \* the tasks
  mounted,   \* what the rclone process of each target was given, or None
  session,   \* the shared SSH session of interactive connections is ready
  known,     \* a known_hosts file has a binding of the host
  left       \* faults, crashes and tasks that are left

vars == <<conf, work, mounted, session, known, left>>

ServerType ==
  [id : STRING, method : {"native", "openssh", "interactive"}, alias : STRING,
   imported : BOOLEAN, complete : BOOLEAN, vault : BOOLEAN]

\* Mutant: the alias comes first, whatever the method.
AliasFirst(t) == IF Server[t].imported THEN Server[t].alias ELSE Server[t].id

\* remote_name: the first directory of an imported connection goes by its alias.
RemoteName(t) ==
  IF Server[t].method # "interactive" /\ Server[t].imported /\ Server[t].alias # ""
  THEN Server[t].alias ELSE Server[t].id
Names == {RemoteName(t) : t \in Targets}

Native(t) == Server[t].method = "native"
HasRefs(t) == Server[t].vault

\* native_server_needs_ssh_defaults
NeedsDefaults(t) == Native(t) /\ Server[t].imported /\ ~Server[t].complete

\* for_server_with_external_ssh: a native section names its host, the keys of it and a
\* password or passphrase, another one only the command that connects.
Section(t, secret) ==
  IF Native(t)
  THEN [to |-> Server[t].id, by |-> "native", hosts |-> TRUE, secret |-> secret]
  ELSE [to |-> Server[t].id, by |-> Server[t].method, hosts |-> FALSE, secret |-> FALSE]

Idle == [step |-> "idle", target |-> None, kind |-> "mount", secret |-> FALSE,
         read |-> None, ok |-> FALSE]

Init ==
  /\ conf = [n \in Names |-> None]
  /\ work = [w \in Workers |-> Idle]
  /\ mounted = [t \in Targets |-> None]
  /\ session \in BOOLEAN /\ known \in BOOLEAN
  /\ left = [faults |-> MaxFaults, crashes |-> MaxCrashes, tasks |-> MaxTasks]

Fault == left.faults > 0 /\ left' = [left EXCEPT !.faults = @ - 1]
Fine == UNCHANGED left
Become(w, r) == work' = [work EXCEPT ![w] = r]
Step(w, s) == Become(w, [work[w] EXCEPT !.step = s])
End(w) == Become(w, Idle)
Target(w) == work[w].target

\* MountService::mount and capacity, which asks only about what is mounted.  A native mount
\* answers by itself, unless its rclone is too old to.
Begin(w, t) ==
  /\ work[w].step = "idle" /\ left.tasks > 0
  /\ left' = [left EXCEPT !.tasks = @ - 1]
  /\ \E kind \in {"mount", "capacity"} :
       /\ kind = "capacity" => mounted[t] # None
       /\ Become(w, [Idle EXCEPT !.step = "connector", !.target = t, !.kind = kind])
  /\ UNCHANGED <<conf, mounted, session, known>>

\* session_capacity
AskMount(w) ==
  /\ work[w].step = "connector" /\ work[w].kind = "capacity" /\ Native(Target(w))
  /\ End(w)
  /\ UNCHANGED <<conf, mounted, session, known, left>>

\* interactive_ssh_arguments: only a session that is ready connects.
Connector(w) ==
  /\ work[w].step = "connector"
  /\ IF Server[Target(w)].method = "interactive" /\ ~session
     THEN End(w) ELSE Step(w, "credentials")
  /\ UNCHANGED <<conf, mounted, session, known, left>>

\* Mutant: what the store does not give is left out.
CarriesOn(w) == Become(w, [work[w] EXCEPT !.step = "resolve"])

\* hydrate_server_credentials fails: the operation ends.
StoreFailed(w) == End(w)

\* prepare_server_credentials: read from the store and obscured by rclone, or not at all.
Credentials(w) ==
  /\ work[w].step = "credentials"
  /\ \/ /\ Fine
        /\ Become(w, [work[w] EXCEPT !.step = "resolve", !.secret = Native(Target(w))])
     \/ HasRefs(Target(w)) /\ Native(Target(w)) /\ Fault /\ StoreFailed(w)
  /\ UNCHANGED <<conf, mounted, session, known>>

\* ensure_remote up to the section: ssh -G where something is missing, then the keys of
\* the host; without a binding the user is asked, or the host does not answer.
Resolve(w) ==
  /\ work[w].step = "resolve"
  /\ \/ Fine /\ (Native(Target(w)) => known) /\ Step(w, "write")
     \/ Fine /\ Native(Target(w)) /\ ~known /\ End(w)
     \/ NeedsDefaults(Target(w)) /\ Fault /\ End(w)
  /\ UNCHANGED <<conf, mounted, session, known>>

\* write_rclone_remote replaces the section under the lock of the file; the write fails
\* before its rename or after it.
Write(w) ==
  /\ work[w].step = "write"
  /\ LET new == [conf EXCEPT ![RemoteName(Target(w))] = Section(Target(w), work[w].secret)] IN
     \/ Fine /\ conf' = new /\ Step(w, "use")
     \/ Fault /\ conf' \in {conf, new} /\ End(w)
  /\ UNCHANGED <<mounted, session, known>>

\* rclone starts and reads its section, for a mount or to be asked about the capacity.
Use(w) ==
  /\ work[w].step = "use" /\ Fine
  /\ Become(w, [work[w] EXCEPT !.step = "outcome", !.read = conf[RemoteName(Target(w))]])
  /\ UNCHANGED <<conf, mounted, session, known>>

\* A section connects to where it says, if it has the secret that it needs.
Connects(t, section) ==
  /\ section # None
  /\ Native(t) => section.secret

\* runtime.mount, mounted_capacity: a second mount of one target is refused, and anything
\* else may go wrong besides.
Outcome(w) ==
  /\ work[w].step = "outcome"
  /\ LET t == Target(w)
         mounts == work[w].kind = "mount" /\ mounted[t] = None IN
     \/ /\ Fine /\ Connects(t, work[w].read) /\ (work[w].kind = "mount" => mounts)
        /\ mounted' = IF mounts THEN [mounted EXCEPT ![t] = work[w].read] ELSE mounted
        /\ Become(w, [work[w] EXCEPT !.step = "finish", !.ok = TRUE])
     \/ /\ IF Connects(t, work[w].read) /\ (work[w].kind = "mount" => mounts)
           THEN Fault ELSE Fine
        /\ Become(w, [work[w] EXCEPT !.step = "finish", !.ok = FALSE])
        /\ UNCHANGED mounted
  /\ UNCHANGED <<conf, session, known>>

\* Mutant: a task that failed clears nothing.
OnlyWhenOk(w) == HasRefs(Target(w)) /\ work[w].ok

\* finish_secret_use: with references, whatever the outcome.
ToClear(w) == HasRefs(Target(w))

\* clear_rclone_remote_secrets
Cleared(t) ==
  IF conf[RemoteName(t)] = None THEN conf ELSE [conf EXCEPT ![RemoteName(t)].secret = FALSE]

\* A cleanup that fails after a success ends the mount.
Finish(w) ==
  /\ work[w].step = "finish"
  /\ \/ /\ Fine /\ conf' = IF ToClear(w) THEN Cleared(Target(w)) ELSE conf
        /\ UNCHANGED mounted
     \/ /\ ToClear(w) /\ Fault
        /\ conf' \in {conf, Cleared(Target(w))}
        /\ mounted' = IF work[w].ok THEN [mounted EXCEPT ![Target(w)] = None] ELSE mounted
  /\ End(w)
  /\ UNCHANGED <<session, known>>

\* The process of a task ends.
Crash(w) ==
  /\ work[w].step # "idle" /\ left.crashes > 0
  /\ left' = [left EXCEPT !.crashes = @ - 1]
  /\ End(w)
  /\ UNCHANGED <<conf, mounted, session, known>>

\* MountService::unmount, or rclone ends.
Unmount(t) ==
  /\ mounted[t] # None
  /\ mounted' = [mounted EXCEPT ![t] = None]
  /\ UNCHANGED <<conf, work, session, known, left>>

\* The user logs in or out, and confirms a host.
World ==
  /\ \/ session' = ~session /\ UNCHANGED known
     \/ ~known /\ known' = TRUE /\ UNCHANGED session
  /\ UNCHANGED <<conf, work, mounted, left>>

Next ==
  \/ \E w \in Workers :
       \/ \E t \in Targets : Begin(w, t)
       \/ AskMount(w) \/ Connector(w) \/ Credentials(w) \/ Resolve(w) \/ Write(w) \/ Use(w)
       \/ Outcome(w) \/ Finish(w) \/ Crash(w)
  \/ \E t \in Targets : Unmount(t)
  \/ World

Spec == Init /\ [][Next]_vars

----------------------------------------------------------------------------
Sections == [to : {Server[t].id : t \in Targets}, by : {"native", "openssh", "interactive"},
             hosts : BOOLEAN, secret : BOOLEAN]
TypeOK ==
  /\ \A t \in Targets : Server[t] \in ServerType
  /\ conf \in [Names -> Sections \cup {None}]
  /\ \A w \in Workers :
       /\ work[w].step \in {"idle", "connector", "credentials", "resolve", "write", "use",
                            "outcome", "finish"}
       /\ work[w].target \in Targets \cup {None} /\ work[w].read \in Sections \cup {None}
  /\ mounted \in [Targets -> Sections \cup {None}]

\* README.md:414, "remove its secret fields immediately after startup": when no task is
\* left, and none failed to write or was ended, the file has no secret of the store.
SecretsRemoved ==
  (/\ \A w \in Workers : work[w].step = "idle"
   /\ left.faults = MaxFaults /\ left.crashes = MaxCrashes)
     => \A t \in Targets : HasRefs(t) /\ conf[RemoteName(t)] # None
                             => ~conf[RemoteName(t)].secret

\* development-roadmap.md:394, an interactive connection uses its unique identifier, "this
\* prevents the two transports from overwriting the same rclone config section": a mount
\* goes to its own connection, by its own method, and a native one checks the host.
OwnConnection ==
  \A t \in Targets : mounted[t] # None =>
    /\ mounted[t].to = Server[t].id
    /\ mounted[t].hosts = Native(t)

\* README.md:412, "a failed read stops the operation without falling back", and the host
\* key is bound before the section is written: no section is written without them.
\* (Every step.)
WrittenWhole ==
  \A n \in Names : conf'[n] # conf[n] /\ conf'[n].hosts
     => known /\ (conf'[n].secret \/ (conf[n] # None /\ conf[n].secret))
=============================================================================
