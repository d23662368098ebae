------------------------ MODULE MountpointAllocation ------------------------
(***************************************************************************)
(* Where a directory is mounted on Windows: the allocator and the          *)
(* preparation of crates/mountmate-core/src/mountpoint.rs, the loop of     *)
(* MountmateService::mount around them and the reservation that            *)
(* MountRuntime::mount makes under the allocation lock.                    *)
(*                                                                         *)
(* The connections are mounted, unmounted and lost at any moment; so do    *)
(* drives and folders of other programs come and go.  The mounting of one  *)
(* connection against itself is the subject of MountRuntime.               *)
(***************************************************************************)
EXTENDS Naturals, Sequences, FiniteSets

CONSTANTS
  Servers,     \* connections
  Drives,      \* sequence of the drive letters, in the order the allocator tries them
  Folders,     \* folders a connection may name, each spelled in two ways
  MaxChanges,  \* bound: drives and folders that other programs take or give up
  MaxLosses,   \* bound: processes that die and spawns that fail
  MaxMounts    \* bound: mounts that are begun

Letters == {Drives[i] : i \in 1..Len(Drives)}
Places == Letters \cup Folders

\* windows_drive spells a drive in one way; two texts of a folder may be one folder.
Paths == [place : Letters, spelled : {"upper"}] \cup [place : Folders, spelled : {"upper", "lower"}]
Auto == [place |-> "auto", spelled |-> "upper"]
NoPath == [place |-> "none", spelled |-> "upper"]

VARIABLES
  choice,    \* the mountpoint each connection is configured with
  record,    \* the path in the state file of each connection
  process,   \* whether the rclone of the record lives
  up,        \* whether its mountpoint has appeared
  foreign,   \* places that other programs hold
  task,      \* the mount of each connection: its step, its path and what its allocator reserved
  taken,     \* ghost: places each mount could have found taken since it began
  remaining  \* changes, losses and mounts that are left

vars == <<choice, record, process, up, foreign, task, taken, remaining>>

Idle == [step |-> "idle", path |-> NoPath, reserved |-> {}]

Init ==
  /\ choice \in [Servers -> {Auto} \cup Paths]
  /\ record = [s \in Servers |-> NoPath]
  /\ process = [s \in Servers |-> FALSE]
  /\ up = [s \in Servers |-> FALSE]
  /\ foreign = {}
  /\ task = [s \in Servers |-> Idle]
  /\ taken = [s \in Servers |-> {}]
  /\ remaining = [changes |-> MaxChanges, losses |-> MaxLosses, mounts |-> MaxMounts]

Spend(what) == remaining[what] > 0 /\ remaining' = [remaining EXCEPT ![what] = @ - 1]

\* Mutant: paths are compared as they are spelled.
Spelled(path) == path

\* path_key
Key(path) == path.place

Others(s) == {t \in Servers \ {s} : record[t] # NoPath}

\* windows_drive_occupancy and windows_path_occupied
Occupied == foreign \cup {record[s].place : s \in {t \in Servers : up[t]}}

\* The places of other programs and of the other connections.
Unavailable(s) == Occupied' \cup {record'[t].place : t \in {x \in Servers \ {s} : record'[x] # NoPath}}
Watch ==
  taken' = [s \in Servers |->
              IF task'[s].step = "idle" THEN {}
              ELSE (IF task[s].step = "idle" THEN {} ELSE taken[s]) \cup Unavailable(s)]

\* Mutant: the connection's own record counts as well.
AllRecords(s) == {Key(record[t]) : t \in {x \in Servers : record[x] # NoPath}}

\* reserve_recorded_mountpoints
Recorded(s) == {Key(record[t]) : t \in Others(s)}

Begin(s) ==
  /\ task[s].step = "idle"
  /\ task' = [task EXCEPT ![s] = [step |-> "resolve", path |-> NoPath, reserved |-> Recorded(s)]]
  /\ Spend("mounts")
  /\ UNCHANGED <<choice, record, process, up, foreign>>

\* allocate_windows_drive: the first letter that is neither assigned nor reserved.
Available(s) == {i \in 1..Len(Drives) : /\ Drives[i] \notin Occupied
                                        /\ Key([place |-> Drives[i], spelled |-> "upper"])
                                             \notin task[s].reserved}
First(S) == CHOOSE i \in S : \A j \in S : i <= j

\* validate_custom_path, and the test of a drive that is named
Taken(s) == Key(choice[s]) \in task[s].reserved \/ choice[s].place \in Occupied

\* resolve
Resolve(s) ==
  /\ task[s].step = "resolve"
  /\ LET free == Available(s)
         path == IF choice[s] # Auto THEN choice[s]
                 ELSE [place |-> Drives[First(free)], spelled |-> "upper"]
         refused == IF choice[s] = Auto THEN free = {} ELSE Taken(s)
     IN IF refused THEN task' = [task EXCEPT ![s].step = "refused"]
        ELSE task' = [task EXCEPT ![s] = [step |-> "forget", path |-> path,
                                          reserved |-> @.reserved \cup {Key(path)}]]
  /\ UNCHANGED <<choice, record, process, up, foreign, remaining>>

\* MountRuntime::mount, under the lock of the connection: an old record is removed.
Forget(s) ==
  /\ task[s].step = "forget"
  /\ IF process[s]
     THEN task' = [task EXCEPT ![s] = Idle] /\ UNCHANGED <<record, up>>
     ELSE /\ task' = [task EXCEPT ![s].step = "claim"]
          /\ record' = [record EXCEPT ![s] = NoPath]
          /\ up' = [up EXCEPT ![s] = FALSE]
  /\ UNCHANGED <<choice, process, foreign, remaining>>

\* mountpoint_reserved_by_other: a connection whose process may live.
Reserved(s) == \E t \in Others(s) : process[t] /\ Key(record[t]) = Key(task[s].path)

\* prepare_mountpoint, for a drive and for a folder
Prepared(s) == task[s].path.place \notin Occupied

\* Under the allocation lock; only an automatic mount looks for another place, and only
\* when the place was reserved or the drive in use.
Claim(s) ==
  /\ task[s].step = "claim"
  /\ IF Reserved(s) \/ ~Prepared(s)
     THEN /\ task' = [task EXCEPT ![s] = IF choice[s] = Auto THEN [@ EXCEPT !.step = "resolve"]
                                         ELSE Idle]
          /\ UNCHANGED <<record, process, remaining>>
     ELSE \/ /\ record' = [record EXCEPT ![s] = task[s].path]
             /\ process' = [process EXCEPT ![s] = TRUE]
             /\ task' = [task EXCEPT ![s].step = "wait"]
             /\ UNCHANGED remaining
          \/ /\ Spend("losses")
             /\ task' = [task EXCEPT ![s] = Idle]
             /\ UNCHANGED <<record, process>>
  /\ UNCHANGED <<choice, up, foreign>>

\* WinFsp makes the mountpoint appear, unless another program has it by now; or the wait
\* ends, which stops the process and removes the record.
Wait(s) ==
  /\ task[s].step = "wait"
  /\ task' = [task EXCEPT ![s] = Idle]
  /\ IF process[s] /\ record[s].place \notin Occupied
     THEN up' = [up EXCEPT ![s] = TRUE] /\ UNCHANGED <<record, process>>
     ELSE /\ record' = [record EXCEPT ![s] = NoPath]
          /\ process' = [process EXCEPT ![s] = FALSE]
          /\ UNCHANGED up
  /\ UNCHANGED <<choice, foreign, remaining>>

\* The mount says that there is no place, and is over.
Refused(s) ==
  /\ task[s].step = "refused"
  /\ task' = [task EXCEPT ![s] = Idle]
  /\ UNCHANGED <<choice, record, process, up, foreign, remaining>>

Unmount(s) ==
  /\ task[s].step = "idle" /\ record[s] # NoPath
  /\ record' = [record EXCEPT ![s] = NoPath]
  /\ process' = [process EXCEPT ![s] = FALSE]
  /\ up' = [up EXCEPT ![s] = FALSE]
  /\ UNCHANGED <<choice, foreign, task, remaining>>

\* The record of a process that died stays.
Die(s) ==
  /\ process[s] /\ Spend("losses")
  /\ process' = [process EXCEPT ![s] = FALSE]
  /\ up' = [up EXCEPT ![s] = FALSE]
  /\ UNCHANGED <<choice, record, foreign, task>>

\* Another program takes a place that is free, or gives one up.
World(p) ==
  /\ p \in foreign \/ p \notin Occupied
  /\ foreign' = IF p \in foreign THEN foreign \ {p} ELSE foreign \cup {p}
  /\ Spend("changes")
  /\ UNCHANGED <<choice, record, process, up, task>>

Next ==
  /\ \/ \E s \in Servers : \/ Begin(s) \/ Resolve(s) \/ Forget(s) \/ Claim(s) \/ Wait(s)
                           \/ Refused(s) \/ Unmount(s) \/ Die(s)
     \/ \E p \in Places : World(p)
  /\ Watch

Spec == Init /\ [][Next]_vars

-----------------------------------------------------------------------------
\* Every variable holds what its declaration says.
TypeOK ==
  /\ choice \in [Servers -> {Auto} \cup Paths]
  /\ record \in [Servers -> {NoPath} \cup Paths]
  /\ process \in [Servers -> BOOLEAN] /\ up \in [Servers -> BOOLEAN]
  /\ foreign \subseteq Places /\ taken \in [Servers -> SUBSET Places]
  /\ \A s \in Servers : /\ task[s].path \in {NoPath} \cup Paths
                        /\ task[s].step \in {"idle", "resolve", "forget", "claim", "wait", "refused"}

\* No two processes mount at one place, however it is spelled and although a place that was
\* claimed has not appeared yet when the next mount looks.
OnePlace ==
  \A s, t \in Servers : s # t /\ process[s] /\ process[t] => record[s].place # record[t].place

\* An automatic mount says that there is no free drive only when each of them was held by
\* somebody else at some moment since it began: its own old record, or the letters it tried
\* in vain, take none away from it.
GivesUpRightly ==
  \A s \in Servers : task[s].step = "refused" /\ choice[s] = Auto => Letters \subseteq taken[s]
=============================================================================
