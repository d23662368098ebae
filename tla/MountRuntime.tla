---------------------------- MODULE MountRuntime ----------------------------
(***************************************************************************)
(* The mount runtime (crates/mountmate-core/src/runtime.rs): mount,        *)
(* unmount and stale-state cleanup of rclone processes by several          *)
(* application threads or processes, over one state file, one              *)
(* authentication file and one lock per connection and one allocation lock *)
(* for all of them.                                                        *)
(*                                                                         *)
(* Processes outlive the application that spawned them, PIDs are reused,   *)
(* argument vectors are sometimes unreadable and actors crash at any step. *)
(* Every process gets a distinct instance number `inst`.  The program      *)
(* never sees it, except that the random RC password of a spawn makes      *)
(* "core/pid" answer for that instance alone.                              *)
(***************************************************************************)
EXTENDS Naturals

CONSTANTS
  Actors,      \* threads and processes of the application
  Servers,     \* connection identities
  Mps,         \* mountpoints
  Pids,        \* process identifiers of the operating system
  Foreign,     \* command line of a process that is not a mount of ours
  Free,        \* nobody holds the lock
  NoRecord,    \* no MountState: no state file, or an idle actor
  NoProcess,   \* no process has this PID
  NoStart,     \* process_started_at = None
  MaxClock,    \* bound: start times are the whole seconds 0..MaxClock
  MaxInst      \* bound: processes started during a behaviour

Insts == 1 .. MaxInst
Starts == 0 .. MaxClock

\* What an operation is asked to mount, before it has a process.
MountRequest == [srv: Servers, mp: Mps]

MountState == [srv: Servers, mp: Mps, pid: Pids, start: Starts \cup {NoStart},
               inst: Insts, phase: {"Starting", "Mounted"}]

\* exec: the child has replaced the image it was forked from
Process == [cmd: (Servers \X Mps) \cup {Foreign}, inst: Insts, start: Starts,
            exec: BOOLEAN]

ASSUME ConstantsAssumption ==
  /\ Foreign \notin Servers \X Mps
  /\ Free \notin Actors
  /\ MaxClock \in Nat
  /\ MaxInst \in Nat
  /\ NoStart \notin Starts
  /\ NoRecord \notin MountState \cup MountRequest
  /\ NoProcess \notin Process

VARIABLES
  file,       \* the state file of each connection
  auth,       \* instance whose credential the htpasswd file holds, 0 if none
  proc,       \* the process table
  mlock,      \* holder of each connection's mount lock
  alock,      \* holder of the mount allocation lock
  pc,         \* the step an actor is at
  caller,     \* the operation that called stop_if_owned
  rec,        \* the request or the MountState an actor works on
  mark,       \* next instance number when the actor last verified a process
  nextInst,   \* next instance number
  clock,      \* the clock that start times are read from
  abandoned   \* instances given up by a crash or a failed record write

vars == <<file, auth, proc, mlock, alock, pc, caller, rec, mark, nextInst,
          clock, abandoned>>

RequestPcs == {"m_check", "m_alloc", "m_reserve", "m_spawn"}
AllocPcs == {"m_reserve", "m_spawn", "m_snapshot", "m_save"}
StopPcs == {"s_check", "s_verify", "s_signal", "s_recheck", "s_verify_force",
            "s_force", "s_final"}
StatePcs == {"m_snapshot", "m_save", "m_wait", "m_commit", "u_check", "u_wait",
             "u_exit", "u_mp", "c_check"} \cup StopPcs
Callers == {"save_failed", "not_ready", "unmount"}

-----------------------------------------------------------------------------
(* What the runtime can tell of a process.                                 *)

Alive(pid) == proc[pid] # NoProcess

\* The recorded process itself, which the program can only infer.
Live(r) == Alive(r.pid) /\ proc[r.pid].inst = r.inst

\* rc.process_id(state) == state.pid, when the RC server answers in time
RcReads(r) == IF Live(r) THEN BOOLEAN ELSE {FALSE}

\* The PID exists and has the recorded start time, if one was recorded.
StartMatches(r) ==
  Alive(r.pid) /\ r.start \in {NoStart, proc[r.pid].start}

\* argv_matches_state on the arguments the process really has
ArgvMatches(r) ==
  Alive(r.pid) /\ proc[r.pid].exec /\ proc[r.pid].cmd = <<r.srv, r.mp>>

\* A snapshot returns the arguments, or none when they cannot be read.
ArgvReads(r) == {IF ArgvMatches(r) THEN "match" ELSE "mismatch", "unreadable"}

\* signal_verified_process without its argument check
VerifiedByStart(r) == StartMatches(r)

\* What signal_verified_process requires at the moment it signals
Verified(r) == StartMatches(r) /\ ArgvMatches(r)

\* status_for that takes unreadable arguments for a mismatch
StaleUnlessMatch(r, argv) == ~StartMatches(r) \/ argv # "match"

\* status_for returns Stale: the only status mount and cleanup act upon
Stale(r, argv) == ~StartMatches(r) \/ argv = "mismatch"

MayBeOwned(r, argv) == StartMatches(r) /\ argv # "mismatch"

\* mountpoint_reserved_by_other without the probe of the other mount lock
ReservesByProcess(r, argv) == MayBeOwned(r, argv)

\* A record of another connection that still claims the mountpoint.
Reserves(r, argv) ==
  \/ MayBeOwned(r, argv)
  \/ r.phase = "Starting" /\ mlock[r.srv] # Free

-----------------------------------------------------------------------------
(* Locks, files and the way an operation returns.                          *)

Goto(a, step) == pc' = [pc EXCEPT ![a] = step]

Lock(s, a) == mlock[s] = Free /\ mlock' = [mlock EXCEPT ![s] = a]

\* The FileLocks an operation holds are dropped when it returns or crashes.
Return(a) ==
  /\ Goto(a, "idle")
  /\ caller' = [caller EXCEPT ![a] = "none"]
  /\ rec' = [rec EXCEPT ![a] = NoRecord]
  /\ mark' = [mark EXCEPT ![a] = 0]
  /\ mlock' = [s \in Servers |-> IF mlock[s] = a THEN Free ELSE mlock[s]]
  /\ alock' = IF alock = a THEN Free ELSE alock

DropFile(s) == file' = [file EXCEPT ![s] = NoRecord]
DropAuth(s) == auth' = [auth EXCEPT ![s] = 0]

\* remove_state tries to remove both files, and either removal may fail.
RemoveState(s) ==
  /\ DropFile(s) \/ UNCHANGED file
  /\ DropAuth(s) \/ UNCHANGED auth

\* A failed atomic_write may already have replaced the file.
WriteState(r, written) ==
  file' = IF written THEN [file EXCEPT ![r.srv] = r] ELSE file

Abandon(r) ==
  abandoned' = IF Live(r) THEN abandoned \cup {r.inst} ELSE abandoned

StopFor(a, why) ==
  /\ Goto(a, "s_check")
  /\ caller' = [caller EXCEPT ![a] = why]

-----------------------------------------------------------------------------
(* mount                                                                   *)

Mount(a, s, m) ==
  /\ pc[a] = "idle"
  /\ Lock(s, a)
  /\ Goto(a, "m_check")
  /\ rec' = [rec EXCEPT ![a] = [srv |-> s, mp |-> m]]
  /\ UNCHANGED <<file, auth, proc, alock, caller, mark, nextInst, clock,
                 abandoned>>

MountCheck(a) ==
  LET s == rec[a].srv IN
  /\ pc[a] = "m_check"
  /\ UNCHANGED <<proc, nextInst, clock, abandoned>>
  /\ \/ /\ file[s] = NoRecord
        /\ Goto(a, "m_alloc")
        /\ UNCHANGED <<file, auth, mlock, alock, caller, rec, mark>>
     \/ /\ file[s] # NoRecord
        /\ \E argv \in ArgvReads(file[s]) :
             \/ /\ Stale(file[s], argv)
                /\ DropFile(s) /\ DropAuth(s)
                /\ Goto(a, "m_alloc")
                /\ UNCHANGED <<mlock, alock, caller, rec, mark>>
             \/ /\ Stale(file[s], argv)        \* a removal failed
                /\ RemoveState(s)
                /\ Return(a)
             \/ /\ ~Stale(file[s], argv)       \* AlreadyMounted
                /\ Return(a)
                /\ UNCHANGED <<file, auth>>

MountAllocate(a) ==
  /\ pc[a] = "m_alloc"
  /\ \/ /\ alock = Free
        /\ alock' = a
        /\ Goto(a, "m_reserve")
        /\ UNCHANGED <<mlock, caller, rec, mark>>
     \/ /\ alock # Free                        \* LockTimeout
        /\ Return(a)
  /\ UNCHANGED <<file, auth, proc, nextInst, clock, abandoned>>

\* mountpoint_reserved_by_other, then prepare, which may refuse
MountReserve(a) ==
  LET others == {t \in Servers \ {rec[a].srv} :
                   file[t] # NoRecord /\ file[t].mp = rec[a].mp} IN
  /\ pc[a] = "m_reserve"
  /\ \/ /\ \A t \in others :
             \E argv \in ArgvReads(file[t]) : ~Reserves(file[t], argv)
        /\ Goto(a, "m_spawn")
        /\ UNCHANGED <<mlock, alock, caller, rec, mark>>
     \/ Return(a)                              \* MountpointReserved, Invalid
  /\ UNCHANGED <<file, auth, proc, nextInst, clock, abandoned>>

Spawned(r, pid) ==
  [srv |-> r.srv, mp |-> r.mp, pid |-> pid, start |-> NoStart,
   inst |-> nextInst, phase |-> "Starting"]

NewProcess(cmd, exec) ==
  [cmd |-> cmd, inst |-> nextInst, start |-> clock, exec |-> exec]

\* The htpasswd file is written first and given up again if spawn fails.
MountSpawn(a) ==
  LET r == rec[a] IN
  /\ pc[a] = "m_spawn"
  /\ \/ \E pid \in Pids, exec \in BOOLEAN :
          /\ proc[pid] = NoProcess
          /\ nextInst \in Insts
          /\ nextInst' = nextInst + 1
          /\ auth' = [auth EXCEPT ![r.srv] = nextInst]
          /\ proc' = [proc EXCEPT ![pid] = NewProcess(<<r.srv, r.mp>>, exec)]
          /\ rec' = [rec EXCEPT ![a] = Spawned(r, pid)]
          /\ Goto(a, "m_snapshot")
          /\ UNCHANGED <<mlock, alock, caller, mark>>
     \/ /\ DropAuth(r.srv) \/ UNCHANGED auth
        /\ Return(a)
        /\ UNCHANGED <<proc, nextInst>>
  /\ UNCHANGED <<file, clock, abandoned>>

\* The process may have exited, or its PID been taken, before the snapshot.
WithStart(r) ==
  [r EXCEPT !.start = IF Alive(r.pid) THEN proc[r.pid].start ELSE NoStart]

MountSnapshot(a) ==
  /\ pc[a] = "m_snapshot"
  /\ rec' = [rec EXCEPT ![a] = WithStart(rec[a])]
  /\ Goto(a, "m_save")
  /\ UNCHANGED <<file, auth, proc, mlock, alock, caller, mark, nextInst, clock,
                 abandoned>>

\* Saving releases the allocation lock; a failed save stops the process first.
MountSave(a) ==
  /\ pc[a] = "m_save"
  /\ \/ /\ WriteState(rec[a], TRUE)
        /\ alock' = Free
        /\ Goto(a, "m_wait")
        /\ UNCHANGED caller
     \/ \E written \in BOOLEAN :
          /\ WriteState(rec[a], written)
          /\ StopFor(a, "save_failed")
          /\ UNCHANGED alock
  /\ UNCHANGED <<auth, proc, mlock, rec, mark, nextInst, clock, abandoned>>

\* wait_until_ready: a child execs long before the deadline of 20 s passes.
MountWait(a) ==
  LET r == rec[a] IN
  /\ pc[a] = "m_wait"
  /\ \/ /\ Verified(r) /\ Live(r)
        /\ Goto(a, "m_commit")
        /\ UNCHANGED caller
     \/ /\ StartMatches(r) => proc[r.pid].exec
        /\ StopFor(a, "not_ready")
  /\ UNCHANGED <<file, auth, proc, mlock, alock, rec, mark, nextInst, clock,
                 abandoned>>

AsMounted(r) == [r EXCEPT !.phase = "Mounted"]

MountCommit(a) ==
  LET r == AsMounted(rec[a]) IN
  /\ pc[a] = "m_commit"
  /\ \/ /\ WriteState(r, TRUE)
        /\ Return(a)
     \/ \E written \in BOOLEAN :
          /\ WriteState(r, written)
          /\ rec' = [rec EXCEPT ![a] = r]
          /\ StopFor(a, "not_ready")
          /\ UNCHANGED <<mlock, alock, mark>>
  /\ UNCHANGED <<auth, proc, nextInst, clock, abandoned>>

-----------------------------------------------------------------------------
(* stop_if_owned, and what its caller does with the answer                 *)

\* DropRecord that ignores whether the process could be stopped
DropRecordAnyway(s, stopped) == RemoveState(s)

\* DropRecord that removes the authentication file in any case
DropAuthAnyway(s, stopped) ==
  /\ DropAuth(s)
  /\ IF stopped THEN DropFile(s) ELSE UNCHANGED file

\* mount gives up the record only for a process that is gone.
DropRecord(s, stopped) ==
  IF stopped THEN RemoveState(s) ELSE UNCHANGED <<file, auth>>

AfterStop(a, stopped) ==
  LET r == rec[a] IN
  \/ /\ caller[a] = "save_failed"
     /\ DropAuth(r.srv) \/ UNCHANGED auth
     /\ Abandon(r)
     /\ Return(a)
     /\ UNCHANGED file
  \/ /\ caller[a] = "not_ready"
     /\ DropRecord(r.srv, stopped)
     /\ Return(a)
     /\ UNCHANGED abandoned
  \/ /\ caller[a] = "unmount"
     /\ Goto(a, "u_exit")
     /\ UNCHANGED <<file, auth, mlock, alock, caller, rec, mark, abandoned>>

StopCheck(a) ==
  LET r == rec[a] IN
  /\ pc[a] = "s_check"
  /\ \/ ~Alive(r.pid) /\ AfterStop(a, TRUE)
     \/ Alive(r.pid) /\ ~StartMatches(r) /\ AfterStop(a, FALSE)
     \/ /\ StartMatches(r)
        /\ \E argv \in ArgvReads(r), rc \in RcReads(r) :
             \/ argv # "match" /\ ~rc /\ AfterStop(a, FALSE)
             \/ /\ argv = "match" \/ rc
                /\ Goto(a, "s_verify")
                /\ UNCHANGED <<file, auth, mlock, alock, caller, rec, mark,
                               abandoned>>
  /\ UNCHANGED <<proc, nextInst, clock>>

\* signal_verified looks at the process afresh before it signals the PID.
StopVerify(a) ==
  /\ pc[a] \in {"s_verify", "s_verify_force"}
  /\ LET force == pc[a] = "s_verify_force" IN
     \/ /\ Verified(rec[a])
        /\ mark' = [mark EXCEPT ![a] = nextInst]
        /\ Goto(a, IF force THEN "s_force" ELSE "s_signal")
     \/ /\ Goto(a, IF force THEN "s_final" ELSE "s_recheck")
        /\ UNCHANGED mark
  /\ UNCHANGED <<file, auth, proc, mlock, alock, caller, rec, nextInst, clock,
                 abandoned>>

\* Either signal may leave the process running.
StopSignal(a) ==
  /\ pc[a] \in {"s_signal", "s_force"}
  /\ \/ proc' = [proc EXCEPT ![rec[a].pid] = NoProcess]
     \/ UNCHANGED proc
  /\ Goto(a, IF pc[a] = "s_force" THEN "s_final" ELSE "s_recheck")
  /\ UNCHANGED <<file, auth, mlock, alock, caller, rec, mark, nextInst, clock,
                 abandoned>>

StopRecheck(a) ==
  /\ pc[a] = "s_recheck"
  /\ \/ Verified(rec[a]) /\ Goto(a, "s_verify_force")
     \/ Goto(a, "s_final")
  /\ UNCHANGED <<file, auth, proc, mlock, alock, caller, rec, mark, nextInst,
                 clock, abandoned>>

StopFinal(a) ==
  /\ pc[a] = "s_final"
  /\ AfterStop(a, ~Alive(rec[a].pid))
  /\ UNCHANGED <<proc, nextInst, clock>>

-----------------------------------------------------------------------------
(* unmount and cleanup_stale_state                                         *)

\* unmount that does not ask for a record first
UnmountUnchecked(a, s) ==
  /\ pc[a] = "idle"
  /\ Lock(s, a)
  /\ Goto(a, "u_check")
  /\ rec' = [rec EXCEPT ![a] = file[s]]
  /\ UNCHANGED <<file, auth, proc, alock, caller, mark, nextInst, clock,
                 abandoned>>

Unmount(a, s) ==
  /\ pc[a] = "idle"
  /\ file[s] # NoRecord
  /\ Lock(s, a)
  /\ Goto(a, "u_check")
  /\ rec' = [rec EXCEPT ![a] = file[s]]
  /\ UNCHANGED <<file, auth, proc, alock, caller, mark, nextInst, clock,
                 abandoned>>

\* A mismatch drops the record, an unreadable identity keeps it.
UnmountCheck(a) ==
  LET r == rec[a] IN
  /\ pc[a] = "u_check"
  /\ \/ /\ ~StartMatches(r)                   \* gone, or PidReused
        /\ RemoveState(r.srv)
        /\ Return(a)
     \/ /\ StartMatches(r)
        /\ \E argv \in ArgvReads(r), rc \in RcReads(r) :
             \/ /\ argv = "mismatch" /\ ~rc    \* PidReused
                /\ RemoveState(r.srv)
                /\ Return(a)
             \/ /\ argv = "unreadable" /\ ~rc  \* IdentityUnverified
                /\ Return(a)
                /\ UNCHANGED <<file, auth>>
             \/ /\ argv = "match" \/ rc
                /\ Goto(a, "u_wait")
                /\ UNCHANGED <<file, auth, mlock, alock, caller, rec, mark>>
  /\ UNCHANGED <<proc, nextInst, clock, abandoned>>

UnmountWait(a) ==
  /\ pc[a] = "u_wait"
  /\ \/ Alive(rec[a].pid) /\ StopFor(a, "unmount")
     \/ ~Alive(rec[a].pid) /\ Goto(a, "u_mp") /\ UNCHANGED caller
  /\ UNCHANGED <<file, auth, proc, mlock, alock, rec, mark, nextInst, clock,
                 abandoned>>

UnmountExit(a) ==
  /\ pc[a] = "u_exit"
  /\ \/ /\ Alive(rec[a].pid)                   \* "PID did not exit"
        /\ Return(a)
     \/ /\ ~Alive(rec[a].pid)
        /\ Goto(a, "u_mp")
        /\ UNCHANGED <<mlock, alock, caller, rec, mark>>
  /\ UNCHANGED <<file, auth, proc, nextInst, clock, abandoned>>

\* The record is kept while the mountpoint still answers as mounted.
UnmountMountpoint(a) ==
  /\ pc[a] = "u_mp"
  /\ \/ RemoveState(rec[a].srv)
     \/ UNCHANGED <<file, auth>>               \* MountpointStillReady
  /\ Return(a)
  /\ UNCHANGED <<proc, nextInst, clock, abandoned>>

CleanupStaleState(a, s) ==
  /\ pc[a] = "idle"
  /\ file[s] # NoRecord
  /\ Lock(s, a)
  /\ Goto(a, "c_check")
  /\ rec' = [rec EXCEPT ![a] = file[s]]
  /\ UNCHANGED <<file, auth, proc, alock, caller, mark, nextInst, clock,
                 abandoned>>

CleanupCheck(a) ==
  /\ pc[a] = "c_check"
  /\ \E argv \in ArgvReads(rec[a]) :
       IF Stale(rec[a], argv) THEN RemoveState(rec[a].srv)
                              ELSE UNCHANGED <<file, auth>>
  /\ Return(a)
  /\ UNCHANGED <<proc, nextInst, clock, abandoned>>

-----------------------------------------------------------------------------
(* Crashes and the operating system                                        *)

\* A crash gives up a process nothing on disk identifies yet.
Crash(a) ==
  /\ pc[a] # "idle"
  /\ Return(a)
  /\ IF \/ pc[a] \in {"m_snapshot", "m_save"}
        \/ pc[a] \in StopPcs /\ caller[a] = "save_failed"
        \/ pc[a] = "m_wait" /\ Alive(rec[a].pid) /\ ~proc[rec[a].pid].exec
       THEN Abandon(rec[a])
       ELSE UNCHANGED abandoned
  /\ UNCHANGED <<file, auth, proc, nextInst, clock>>

Exec(pid) ==
  /\ Alive(pid) /\ ~proc[pid].exec
  /\ proc' = [proc EXCEPT ![pid] = [@ EXCEPT !.exec = TRUE]]
  /\ UNCHANGED <<file, auth, mlock, alock, pc, caller, rec, mark, nextInst,
                 clock, abandoned>>

\* rclone exits: asked by rc.quit, by the user, or by itself.
Exit(pid) ==
  /\ Alive(pid)
  /\ proc' = [proc EXCEPT ![pid] = NoProcess]
  /\ UNCHANGED <<file, auth, mlock, alock, pc, caller, rec, mark, nextInst,
                 clock, abandoned>>

StartForeign(pid) ==
  /\ ~Alive(pid)
  /\ nextInst \in Insts
  /\ nextInst' = nextInst + 1
  /\ proc' = [proc EXCEPT ![pid] = NewProcess(Foreign, TRUE)]
  /\ UNCHANGED <<file, auth, mlock, alock, pc, caller, rec, mark, clock,
                 abandoned>>

Tick ==
  /\ clock < MaxClock
  /\ clock' = clock + 1
  /\ UNCHANGED <<file, auth, proc, mlock, alock, pc, caller, rec, mark,
                 nextInst, abandoned>>

-----------------------------------------------------------------------------
Init ==
  /\ file = [s \in Servers |-> NoRecord]
  /\ auth = [s \in Servers |-> 0]
  /\ proc = [p \in Pids |-> NoProcess]
  /\ mlock = [s \in Servers |-> Free]
  /\ alock = Free
  /\ pc = [a \in Actors |-> "idle"]
  /\ caller = [a \in Actors |-> "none"]
  /\ rec = [a \in Actors |-> NoRecord]
  /\ mark = [a \in Actors |-> 0]
  /\ nextInst = 1
  /\ clock = 0
  /\ abandoned = {}

Begin(a) ==
  \/ \E s \in Servers, m \in Mps : Mount(a, s, m)
  \/ \E s \in Servers : Unmount(a, s) \/ CleanupStaleState(a, s)

Step(a) ==
  \/ MountCheck(a) \/ MountAllocate(a) \/ MountReserve(a) \/ MountSpawn(a)
  \/ MountSnapshot(a) \/ MountSave(a) \/ MountWait(a) \/ MountCommit(a)
  \/ StopCheck(a) \/ StopVerify(a) \/ StopSignal(a) \/ StopRecheck(a)
  \/ StopFinal(a)
  \/ UnmountCheck(a) \/ UnmountWait(a) \/ UnmountExit(a)
  \/ UnmountMountpoint(a) \/ CleanupCheck(a)

System(pid) == Exec(pid) \/ Exit(pid) \/ StartForeign(pid)

Next ==
  \/ \E a \in Actors : Begin(a) \/ Step(a) \/ Crash(a)
  \/ \E pid \in Pids : System(pid)
  \/ Tick

Spec == Init /\ [][Next]_vars

-----------------------------------------------------------------------------
(* Properties                                                              *)

\* Every variable keeps its type; an actor before its spawn holds a request,
\* an actor after it a MountState.
TypeOK ==
  /\ file \in [Servers -> MountState \cup {NoRecord}]
  /\ auth \in [Servers -> Insts \cup {0}]
  /\ proc \in [Pids -> Process \cup {NoProcess}]
  /\ mlock \in [Servers -> Actors \cup {Free}]
  /\ alock \in Actors \cup {Free}
  /\ pc \in [Actors -> {"idle"} \cup RequestPcs \cup StatePcs]
  /\ caller \in [Actors -> Callers \cup {"none"}]
  /\ rec \in [Actors -> MountState \cup MountRequest \cup {NoRecord}]
  /\ mark \in [Actors -> Nat]
  /\ nextInst \in 1 .. (MaxInst + 1)
  /\ clock \in Starts
  /\ abandoned \subseteq Insts
  /\ \A a \in Actors :
       /\ pc[a] \in RequestPcs => rec[a] \in MountRequest
       /\ pc[a] \in StatePcs => rec[a] \in MountState

Recorded(s) == file[s] # NoRecord

\* A recorded mount that runs and that no crash has given up
Owned(s) ==
  Recorded(s) /\ Live(file[s]) /\ file[s].inst \notin abandoned

\* Two connections never both own a running mount on one mountpoint: the
\* allocation lock covers the reservation check, the spawn and the first save
\* of the record, and a record still starting reserves while its lock is held.
ExclusiveMountpoint ==
  \A s, t \in Servers :
    s # t /\ Owned(s) /\ Owned(t) => file[s].mp # file[t].mp

\* The actor holds the only MountState of a process no file records yet.
InFlight(a) ==
  \/ pc[a] \in {"m_snapshot", "m_save"}
  \/ pc[a] \in StopPcs /\ caller[a] = "save_failed"

\* No operation loses an rclone process: unless a crash or a failed record
\* write gave it up, each one running is recorded for its connection, or is
\* about to be by the actor that spawned it. Status, unmount, cleanup and a
\* failed mount drop a record only when its process is gone.
NoUnrecordedProcess ==
  \A pid \in Pids :
    Alive(pid) /\ proc[pid].cmd # Foreign /\ proc[pid].inst \notin abandoned =>
      LET s == proc[pid].cmd[1] IN
      \/ Recorded(s) /\ file[s].inst = proc[pid].inst /\ file[s].pid = pid
      \/ \E a \in Actors : InFlight(a) /\ rec[a].inst = proc[pid].inst

\* A connection never runs two rclone processes unless one was given up.
SingleInstance ==
  \A p, q \in Pids :
    /\ p # q /\ Alive(p) /\ Alive(q)
    /\ proc[p].cmd # Foreign /\ proc[q].cmd # Foreign
    /\ proc[p].cmd[1] = proc[q].cmd[1]
    => proc[p].inst \in abandoned \/ proc[q].inst \in abandoned

\* signal_verified only ever signals the recorded instance, or a process that
\* took the PID after the identity check it made for this very signal.
SignalsVerified ==
  \A a \in Actors :
    pc[a] \in {"s_signal", "s_force"} /\ Alive(rec[a].pid) =>
      \/ Live(rec[a])
      \/ proc[rec[a].pid].inst >= mark[a]

\* The RC credential of a running recorded mount stays on disk, so that the
\* mount can still be identified and asked to quit.
AuthMatchesRecord ==
  \A s \in Servers : Owned(s) => auth[s] = file[s].inst
=============================================================================
