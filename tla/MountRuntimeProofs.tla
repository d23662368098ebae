------------------------- MODULE MountRuntimeProofs -------------------------
(***************************************************************************)
(* Proofs about MountRuntime, for every set of actors, connections,        *)
(* mountpoints and PIDs and every bound.                                   *)
(***************************************************************************)
EXTENDS MountRuntime, TLAPS

-----------------------------------------------------------------------------
(* The inductive invariant                                                 *)

\* An operation holds the mount lock of its connection, and the allocation
\* lock from the reservation check to the first save.
Holds ==
  \A a \in Actors :
    /\ pc[a] # "idle" => mlock[rec[a].srv] = a
    /\ pc[a] \in AllocPcs => alock = a

\* Instance numbers in use are below the next one, and no PID shares one.
Fresh ==
  /\ \A p \in Pids : Alive(p) => proc[p].inst < nextInst
  /\ \A s \in Servers : Recorded(s) => file[s].inst < nextInst
  /\ \A a \in Actors : pc[a] \in StatePcs => rec[a].inst < nextInst
  /\ \A p, q \in Pids :
       Alive(p) /\ Alive(q) /\ proc[p].inst = proc[q].inst => p = q

\* A MountState tells its process from every other one with the same PID:
\* its own process passes the identity check, and a process of the same
\* command line is its own.
Known(r) ==
  Alive(r.pid) =>
    /\ Live(r) => proc[r.pid].cmd = <<r.srv, r.mp>> /\ StartMatches(r)
    /\ proc[r.pid].cmd = <<r.srv, r.mp>> => Live(r)

FilesKnown == \A s \in Servers : Recorded(s) => file[s].srv = s /\ Known(file[s])

RecsKnown == \A a \in Actors : pc[a] \in StatePcs => Known(rec[a])

\* Before the first save there is no record; afterwards the actor works on
\* the recorded mount, unless the save failed without writing.
BeforeSave == {"m_alloc", "m_reserve", "m_spawn", "m_snapshot", "m_save"}

SameMount(r, q) ==
  r.mp = q.mp /\ r.pid = q.pid /\ r.inst = q.inst /\ r.start = q.start

FileOfRec ==
  \A a \in Actors :
    /\ pc[a] \in BeforeSave => ~Recorded(rec[a].srv)
    /\ pc[a] \in StatePcs \ BeforeSave =>
         \/ Recorded(rec[a].srv) /\ SameMount(file[rec[a].srv], rec[a])
         \/ /\ pc[a] \in StopPcs /\ caller[a] = "save_failed"
            /\ ~Recorded(rec[a].srv)
    /\ pc[a] \in {"m_snapshot", "m_save", "m_wait"} => rec[a].phase = "Starting"
    /\ pc[a] \in StopPcs => caller[a] \in Callers
    /\ pc[a] = "u_mp" => ~Live(rec[a])

\* A recorded child that has not replaced its image is still starting and its
\* connection is locked by the actor that spawned it.
Spawning(a) == pc[a] = "m_wait" \/ (pc[a] \in StopPcs /\ caller[a] = "save_failed")

Young ==
  \A s \in Servers :
    Owned(s) /\ ~proc[file[s].pid].exec =>
      /\ file[s].phase = "Starting"
      /\ \E a \in Actors : mlock[s] = a /\ rec[a].srv = s /\ Spawning(a)

\* Between the reservation check and the save no other mount has the target.
Cleared ==
  \A a \in Actors, t \in Servers :
    /\ pc[a] \in {"m_spawn", "m_snapshot", "m_save"}
    /\ t # rec[a].srv /\ Owned(t)
    => file[t].mp # rec[a].mp

AuthOfRec ==
  \A a \in Actors :
    pc[a] \in {"m_snapshot", "m_save"} => auth[rec[a].srv] = rec[a].inst

\* NoUnrecordedProcess with the PID the actor in flight knows.
Accounted ==
  \A pid \in Pids :
    Alive(pid) /\ proc[pid].cmd # Foreign /\ proc[pid].inst \notin abandoned =>
      LET s == proc[pid].cmd[1] IN
      \/ Recorded(s) /\ file[s].inst = proc[pid].inst /\ file[s].pid = pid
      \/ \E a \in Actors :
           /\ InFlight(a) /\ rec[a].inst = proc[pid].inst
           /\ rec[a].pid = pid /\ rec[a].srv = s

\* An identity check is as old as the instances it can have seen.
Marked == \A a \in Actors : mark[a] <= nextInst

IInv ==
  /\ TypeOK /\ Holds /\ Fresh /\ FilesKnown /\ RecsKnown /\ FileOfRec
  /\ Young /\ Cleared /\ AuthOfRec /\ Accounted /\ Marked
  /\ ExclusiveMountpoint /\ SignalsVerified /\ AuthMatchesRecord

USE ConstantsAssumption DEF RequestPcs, AllocPcs, StopPcs, StatePcs, Callers,
  BeforeSave, Alive, Live, Recorded, Owned, InFlight, Spawning

-----------------------------------------------------------------------------
(* Fields of typed values                                                  *)

LEMMA RecFields ==
  ASSUME TypeOK, NEW a \in Actors
  PROVE  /\ pc[a] # "idle" => rec[a].srv \in Servers /\ rec[a].mp \in Mps
         /\ pc[a] \in StatePcs =>
              rec[a] \in MountState /\ rec[a].pid \in Pids /\ rec[a].inst \in Nat
BY DEF TypeOK, MountRequest, MountState, Insts

LEMMA FileFields ==
  ASSUME TypeOK, NEW s \in Servers, Recorded(s)
  PROVE  /\ file[s] \in MountState
         /\ file[s].pid \in Pids /\ file[s].inst \in Nat /\ file[s].mp \in Mps
BY DEF TypeOK, MountState, Insts

LEMMA ProcFields ==
  ASSUME TypeOK, NEW p \in Pids, Alive(p)
  PROVE  /\ proc[p] \in Process
         /\ proc[p].inst \in Nat /\ proc[p].inst <= MaxInst
         /\ proc[p].cmd # Foreign => proc[p].cmd[1] \in Servers
BY DEF TypeOK, Process, Insts

(* A step that starts no process, writes no file and lends no actor a new   *)
(* MountState keeps everything that speaks of files and processes.         *)
LEMMA Shrink ==
  ASSUME IInv, UNCHANGED <<file, nextInst>>, abandoned \subseteq abandoned',
         \A p \in Pids : proc'[p] \in {proc[p], NoProcess},
         \A b \in Actors :
           pc'[b] \in StatePcs => pc[b] \in StatePcs /\ rec'[b] = rec[b]
  PROVE  /\ Fresh' /\ FilesKnown' /\ RecsKnown'
         /\ ExclusiveMountpoint' /\ (auth' = auth => AuthMatchesRecord')
         /\ \A s \in Servers : Owned(s)' =>
              Owned(s) /\ proc'[file[s].pid] = proc[file[s].pid]
<1> USE RecFields, FileFields DEF IInv
<1>1. Fresh'
  BY DEF Fresh
<1>2. FilesKnown'
  BY DEF FilesKnown, Known, StartMatches
<1>3. RecsKnown'
  <2> SUFFICES ASSUME NEW b \in Actors, pc'[b] \in StatePcs
               PROVE  Known(rec[b])'
    BY DEF RecsKnown
  <2>1. Known(rec[b]) /\ rec'[b] = rec[b] /\ rec[b].pid \in Pids
    BY DEF RecsKnown
  <2> QED BY <2>1 DEF Known, StartMatches
<1>4. \A s \in Servers : Owned(s)' =>
        Owned(s) /\ proc'[file[s].pid] = proc[file[s].pid]
  OBVIOUS
<1>5. ExclusiveMountpoint' /\ (auth' = auth => AuthMatchesRecord')
  BY <1>4 DEF ExclusiveMountpoint, AuthMatchesRecord
<1> QED BY <1>1, <1>2, <1>3, <1>4, <1>5

-----------------------------------------------------------------------------
(* Steps of stop_if_owned and unmount that keep every file                 *)

LEMMA StopStep ==
  ASSUME IInv, TypeOK', NEW a \in Actors, NEW to,
         pc[a] \in StopPcs \cup {"u_check", "u_wait", "u_exit"},
         to \in StopPcs \cup {"u_wait", "u_exit", "u_mp"},
         pc' = [pc EXCEPT ![a] = to],
         UNCHANGED <<file, auth, rec, mlock, alock, nextInst, abandoned>>,
         \A p \in Pids : proc'[p] \in {proc[p], NoProcess},
         \A b \in Actors \ {a} : caller'[b] = caller[b] /\ mark'[b] = mark[b],
         to \in StopPcs => caller'[a] \in Callers,
         to \in StopPcs /\ pc[a] \in StopPcs => caller'[a] = caller[a],
         to \in StopPcs /\ pc[a] \notin StopPcs => caller'[a] # "save_failed",
         to \notin StopPcs => caller[a] # "save_failed" \/ pc[a] \notin StopPcs,
         to = "u_mp" => ~Live(rec[a]),
         to \in {"s_signal", "s_force"} => Live(rec[a]), mark'[a] <= nextInst
  PROVE  IInv'
<1>1. \A b \in Actors :
        /\ b # a => pc'[b] = pc[b] /\ caller'[b] = caller[b] /\ mark'[b] = mark[b]
        /\ b = a => pc'[b] = to /\ pc[b] # "idle" /\ pc[b] \notin AllocPcs
        /\ Spawning(b)' = Spawning(b) /\ InFlight(b)' = InFlight(b)
  BY DEF IInv, TypeOK
<1>2. /\ Fresh' /\ FilesKnown' /\ RecsKnown'
      /\ ExclusiveMountpoint' /\ AuthMatchesRecord'
      /\ \A s \in Servers : Owned(s)' =>
           Owned(s) /\ proc'[file[s].pid] = proc[file[s].pid]
  BY <1>1, Shrink
<1>3. Holds'
  BY <1>1 DEF Holds, IInv
<1>4. FileOfRec'
  BY <1>1, RecFields DEF FileOfRec, SameMount, IInv
<1>5. Young'
  BY <1>1, <1>2 DEF Young, IInv
<1>6. Cleared'
  BY <1>1, <1>2 DEF Cleared, IInv
<1>7. AuthOfRec'
  BY <1>1 DEF AuthOfRec, IInv
<1>8. Accounted'
  BY <1>1 DEF Accounted, IInv
<1>9. SignalsVerified' /\ Marked'
  BY <1>1, RecFields DEF SignalsVerified, Marked, IInv
<1> QED BY <1>2, <1>3, <1>4, <1>5, <1>6, <1>7, <1>8, <1>9 DEF IInv

LEMMA StopSignalInv ==
  ASSUME IInv, NEW a \in Actors, StopSignal(a)
  PROVE  IInv'
<1> DEFINE to == IF pc[a] = "s_force" THEN "s_final" ELSE "s_recheck"
<1>1. TypeOK'
  BY DEF StopSignal, Goto, IInv, TypeOK
<1>2. \A p \in Pids : proc'[p] \in {proc[p], NoProcess}
  BY RecFields DEF StopSignal, IInv, TypeOK
<1>3. /\ pc[a] \in StopPcs /\ to \in StopPcs /\ pc' = [pc EXCEPT ![a] = to]
      /\ UNCHANGED <<file, auth, rec, mlock, alock, caller, mark, nextInst, abandoned>>
  BY DEF StopSignal, Goto
<1>4. caller[a] \in Callers /\ mark[a] <= nextInst
  BY <1>3 DEF IInv, FileOfRec, Marked
<1> QED BY <1>1, <1>2, <1>3, <1>4, StopStep

LEMMA StopVerifyInv ==
  ASSUME IInv, NEW a \in Actors, StopVerify(a)
  PROVE  IInv'
<1>1. PICK to : 
        /\ pc[a] \in StopPcs /\ to \in StopPcs /\ pc' = [pc EXCEPT ![a] = to]
        /\ to \in {"s_signal", "s_force"} => Verified(rec[a])
  BY DEF StopVerify, Goto
<1>2. TypeOK' /\ \A b \in Actors \ {a} : mark'[b] = mark[b]
  BY DEF StopVerify, Goto, IInv, TypeOK
<1>3. UNCHANGED <<file, auth, proc, rec, mlock, alock, caller, nextInst, abandoned>>
  BY DEF StopVerify
<1>4. caller[a] \in Callers /\ mark'[a] <= nextInst
  BY <1>1 DEF StopVerify, IInv, TypeOK, FileOfRec, Marked
<1>5. Verified(rec[a]) => Live(rec[a])
  BY <1>1 DEF Verified, ArgvMatches, IInv, RecsKnown, Known
<1> QED BY <1>1, <1>2, <1>3, <1>4, <1>5, StopStep

LEMMA StopRecheckInv ==
  ASSUME IInv, NEW a \in Actors, StopRecheck(a)
  PROVE  IInv'
<1>1. PICK to : 
        /\ pc[a] \in StopPcs /\ to \in StopPcs \ {"s_signal", "s_force"}
        /\ pc' = [pc EXCEPT ![a] = to]
  BY DEF StopRecheck, Goto
<1>2. TypeOK'
  BY DEF StopRecheck, Goto, IInv, TypeOK
<1>3. UNCHANGED <<file, auth, proc, rec, mlock, alock, caller, mark, nextInst, abandoned>>
  BY DEF StopRecheck
<1>4. caller[a] \in Callers /\ mark[a] <= nextInst
  BY <1>1 DEF IInv, FileOfRec, Marked
<1> QED BY <1>1, <1>2, <1>3, <1>4, StopStep

LEMMA UnmountWaitInv ==
  ASSUME IInv, NEW a \in Actors, UnmountWait(a)
  PROVE  IInv'
<1>1. PICK to : 
        /\ pc[a] = "u_wait" /\ pc' = [pc EXCEPT ![a] = to]
        /\ \/ to = "s_check" /\ caller' = [caller EXCEPT ![a] = "unmount"]
           \/ to = "u_mp" /\ ~Live(rec[a]) /\ UNCHANGED caller
  BY DEF UnmountWait, Goto, StopFor
<1>2. TypeOK'
  BY DEF UnmountWait, Goto, StopFor, IInv, TypeOK
<1>3. UNCHANGED <<file, auth, proc, rec, mlock, alock, mark, nextInst, abandoned>>
  BY DEF UnmountWait
<1>4. /\ \A b \in Actors \ {a} : caller'[b] = caller[b]
      /\ to = "s_check" => caller'[a] = "unmount"
      /\ mark[a] <= nextInst
  BY <1>1 DEF IInv, TypeOK, Marked
<1> QED BY <1>1, <1>2, <1>3, <1>4, StopStep

-----------------------------------------------------------------------------
(* An operation returns                                                    *)

LEMMA ReturnFacts ==
  ASSUME TypeOK, NEW a \in Actors, Return(a)
  PROVE  /\ pc'[a] = "idle" /\ mark'[a] = 0
         /\ \A b \in Actors \ {a} :
              /\ pc'[b] = pc[b] /\ caller'[b] = caller[b]
              /\ rec'[b] = rec[b] /\ mark'[b] = mark[b]
         /\ \A s \in Servers :
              mlock'[s] = IF mlock[s] = a THEN Free ELSE mlock[s]
         /\ alock' = IF alock = a THEN Free ELSE alock
BY DEF Return, Goto, TypeOK

LEMMA ReturnType ==
  ASSUME TypeOK, NEW a \in Actors, Return(a), UNCHANGED <<proc, nextInst, clock>>,
         file' \in [Servers -> MountState \cup {NoRecord}],
         auth' \in [Servers -> Insts \cup {0}],
         abandoned' \subseteq Insts
  PROVE  TypeOK'
BY DEF TypeOK, Return, Goto

(* A process in flight must be given up, and so must one that has not       *)
(* replaced its image.                                                      *)
LEMMA ReturnKeeps ==
  ASSUME IInv, NEW a \in Actors, Return(a), pc[a] # "idle",
         NEW s \in Servers, s = rec[a].srv,
         UNCHANGED <<file, proc, nextInst, clock>>,
         abandoned \subseteq abandoned', abandoned' \subseteq Insts,
         \/ UNCHANGED auth
         \/ auth' = [auth EXCEPT ![s] = 0] /\ ~Owned(s)',
         InFlight(a) \/ pc[a] = "m_wait" =>
           \/ ~Live(rec[a]) \/ rec[a].inst \in abandoned'
           \/ ~InFlight(a) /\ proc[rec[a].pid].exec
  PROVE  IInv'
<1> HIDE DEF Owned
<1>1. TypeOK'
  <2>1. auth' \in [Servers -> Insts \cup {0}]
    BY DEF IInv, TypeOK
  <2>2. file' \in [Servers -> MountState \cup {NoRecord}]
    BY DEF IInv, TypeOK
  <2> QED BY <2>1, <2>2, ReturnType DEF IInv
<1>2. /\ pc'[a] = "idle" /\ mark'[a] = 0
      /\ \A b \in Actors \ {a} :
           /\ pc'[b] = pc[b] /\ caller'[b] = caller[b]
           /\ rec'[b] = rec[b] /\ mark'[b] = mark[b]
           /\ pc[b] # "idle" => rec[b].srv \in Servers /\ rec[b].srv # s
      /\ \A t \in Servers : mlock[t] # a => mlock'[t] = mlock[t]
      /\ alock # a => alock' = alock
  BY ReturnFacts, RecFields DEF IInv, Holds
<1>3. /\ Fresh' /\ FilesKnown' /\ RecsKnown' /\ ExclusiveMountpoint'
      /\ auth' = auth => AuthMatchesRecord'
      /\ \A t \in Servers : Owned(t)' => Owned(t)
  BY SMTT(30), <1>2, Shrink
<1>4. \A t \in Servers : t # s => auth'[t] = auth[t]
  BY DEF IInv, TypeOK
<1>5. Holds'
  BY <1>2, RecFields DEF Holds, IInv
<1>6. FileOfRec'
  BY SMTT(30), <1>2, RecFields DEF FileOfRec, SameMount, IInv
<1>7. Young'
  <2> SUFFICES ASSUME NEW t \in Servers, Owned(t)', ~proc[file[t].pid].exec
               PROVE  /\ file[t].phase = "Starting"
                      /\ \E b \in Actors :
                           mlock'[t] = b /\ rec'[b].srv = t /\ Spawning(b)'
    BY DEF Young
  <2>1. Owned(t)
    BY <1>3
  <2>2. PICK b \in Actors : mlock[t] = b /\ rec[b].srv = t /\ Spawning(b)
    BY <2>1 DEF Young, IInv
  <2>3. b # a
    <3> SUFFICES ASSUME b = a  PROVE FALSE
      OBVIOUS
    <3>1. Recorded(t) /\ SameMount(file[t], rec[a])
      BY <2>1, <2>2 DEF FileOfRec, IInv, Owned
    <3> QED  BY <2>1, <2>2, <3>1 DEF SameMount, Owned
  <2>4. file[t].phase = "Starting"
    BY <2>1 DEF Young, IInv
  <2> QED BY <1>2, <2>2, <2>3, <2>4
<1>8. Cleared' /\ AuthOfRec'
  BY SMTT(30), <1>2, <1>3, <1>4, RecFields DEF Cleared, AuthOfRec, IInv
<1>9. Accounted'
  <2> SUFFICES ASSUME NEW p \in Pids, Alive(p), proc[p].cmd # Foreign,
                      proc[p].inst \notin abandoned',
                      NEW b \in Actors, InFlight(b), rec[b].inst = proc[p].inst,
                      rec[b].pid = p, rec[b].srv = proc[p].cmd[1]
               PROVE  b # a
    BY SMTT(30), <1>2 DEF Accounted, IInv
  <2> QED OBVIOUS
<1>10. SignalsVerified' /\ Marked'
  <2>1. SignalsVerified'
    BY <1>2 DEF SignalsVerified, IInv
  <2>2. Marked'
    BY <1>2 DEF Marked, TypeOK, IInv
  <2> QED BY <2>1, <2>2
<1>11. AuthMatchesRecord'
  <2>1. CASE UNCHANGED auth
    BY <1>3, <2>1
  <2>2. ASSUME ~Owned(s)', NEW t \in Servers, Owned(t)'
        PROVE  auth'[t] = file'[t].inst
    <3>1. Owned(t) /\ t # s
      BY SMTT(30), <1>3, <2>2
    <3> QED BY <1>4, <3>1 DEF AuthMatchesRecord, IInv
  <2> QED BY <2>1, <2>2 DEF AuthMatchesRecord
<1> QED BY <1>1, <1>3, <1>5, <1>6, <1>7, <1>8, <1>9, <1>10, <1>11 DEF IInv

LEMMA ReturnDrops ==
  ASSUME IInv, NEW a \in Actors, Return(a), pc[a] # "idle", ~InFlight(a),
         NEW s \in Servers, s = rec[a].srv, ~Owned(s),
         DropFile(s), DropAuth(s) \/ UNCHANGED auth,
         UNCHANGED <<proc, nextInst, clock, abandoned>>
  PROVE  IInv'
<1> HIDE DEF Owned
<1>1. mlock[s] = a
  BY RecFields DEF IInv, Holds
<1>2. /\ ~Recorded(s)'
      /\ \A t \in Servers \ {s} : file'[t] = file[t] /\ auth'[t] = auth[t]
  BY DEF DropFile, DropAuth, IInv, TypeOK
<1>3. TypeOK'
  <2>1. file' \in [Servers -> MountState \cup {NoRecord}]
    BY DEF DropFile, IInv, TypeOK
  <2>2. auth' \in [Servers -> Insts \cup {0}]
    BY DEF DropAuth, IInv, TypeOK
  <2>3. abandoned' \subseteq Insts
    BY DEF IInv, TypeOK
  <2> QED BY <2>1, <2>2, <2>3, ReturnType DEF IInv
<1>4. /\ pc'[a] = "idle" /\ mark'[a] = 0
      /\ \A b \in Actors \ {a} :
           /\ pc'[b] = pc[b] /\ caller'[b] = caller[b]
           /\ rec'[b] = rec[b] /\ mark'[b] = mark[b]
           /\ pc[b] # "idle" => rec[b].srv \in Servers /\ rec[b].srv # s
      /\ \A t \in Servers : mlock[t] # a => mlock'[t] = mlock[t]
      /\ alock # a => alock' = alock
  BY <1>1, ReturnFacts, RecFields DEF IInv, Holds
<1>5. \A t \in Servers : Owned(t)' => t # s /\ Owned(t) /\ file'[t] = file[t]
  BY <1>2 DEF Owned
<1>6. Holds' /\ Fresh'
  <2>1. Holds'
    BY <1>4 DEF Holds, IInv
  <2>2. Fresh'
    BY <1>2, <1>4 DEF Fresh, IInv
  <2> QED BY <2>1, <2>2
<1>7. FilesKnown' /\ RecsKnown'
  <2>1. ASSUME NEW t \in Servers, Recorded(t)'
        PROVE  file'[t].srv = t /\ Known(file[t])'
    BY SMTT(30), <1>2, <2>1 DEF FilesKnown, Known, StartMatches, IInv
  <2>2. ASSUME NEW b \in Actors, pc'[b] \in StatePcs
        PROVE  Known(rec[b])'
    <3>1. Known(rec[b]) /\ rec'[b] = rec[b]
      BY <1>4, <2>2 DEF RecsKnown, IInv
    <3> QED BY SMTT(30), <3>1 DEF Known, StartMatches
  <2> QED BY <2>1, <2>2 DEF FilesKnown, RecsKnown
<1>8. FileOfRec' /\ AuthOfRec'
  BY SMTT(30), <1>2, <1>4 DEF FileOfRec, SameMount, AuthOfRec, IInv
<1>9. Young'
  <2> SUFFICES ASSUME NEW t \in Servers, Owned(t)', ~proc'[file'[t].pid].exec
               PROVE  /\ file'[t].phase = "Starting"
                      /\ \E b \in Actors :
                           mlock'[t] = b /\ rec'[b].srv = t /\ Spawning(b)'
    BY DEF Young
  <2>1. t # s /\ Owned(t) /\ file'[t] = file[t]
    BY <1>5
  <2>2. file[t].phase = "Starting"
    BY <2>1 DEF Young, IInv
  <2>3. PICK b \in Actors : mlock[t] = b /\ rec[b].srv = t /\ Spawning(b)
    BY <2>1 DEF Young, IInv
  <2> QED BY <1>4, <2>1, <2>2, <2>3
<1>10. Cleared' /\ ExclusiveMountpoint' /\ AuthMatchesRecord'
  BY SMTT(30), <1>2, <1>4, <1>5 DEF Cleared, ExclusiveMountpoint, AuthMatchesRecord, IInv
<1>11. Accounted'
  <2> SUFFICES ASSUME NEW p \in Pids, Alive(p), proc[p].cmd # Foreign,
                      proc[p].inst \notin abandoned
               PROVE  LET t == proc[p].cmd[1] IN
                      \/ /\ Recorded(t)' /\ file'[t].inst = proc[p].inst
                         /\ file'[t].pid = p
                      \/ \E b \in Actors :
                           /\ InFlight(b)' /\ rec'[b].inst = proc[p].inst
                           /\ rec'[b].pid = p /\ rec'[b].srv = t
    BY SMTT(30) DEF Accounted
  <2> DEFINE t == proc[p].cmd[1]
  <2>1. t \in Servers
    BY ProcFields DEF IInv
  <2>2. CASE Recorded(t) /\ file[t].inst = proc[p].inst /\ file[t].pid = p
    BY <1>2, <2>1, <2>2 DEF Owned
  <2>3. CASE \E b \in Actors : /\ InFlight(b) /\ rec[b].inst = proc[p].inst
                               /\ rec[b].pid = p /\ rec[b].srv = t
    BY <1>4, <2>3
  <2> QED BY SMTT(30), <2>2, <2>3 DEF Accounted, IInv
<1>12. SignalsVerified' /\ Marked'
  <2>1. SignalsVerified'
    BY <1>4 DEF SignalsVerified, IInv
  <2>2. Marked'
    BY <1>4 DEF Marked, TypeOK, IInv
  <2> QED BY <2>1, <2>2
<1> QED BY <1>3, <1>6, <1>7, <1>8, <1>9, <1>10, <1>11, <1>12 DEF IInv

(* remove_state, complete or not, of a record that owns no process         *)
LEMMA ReturnRemoves ==
  ASSUME IInv, NEW a \in Actors, Return(a), pc[a] # "idle", ~InFlight(a),
         pc[a] # "m_wait", NEW s \in Servers, s = rec[a].srv, ~Owned(s),
         RemoveState(s), UNCHANGED <<proc, nextInst, clock, abandoned>>
  PROVE  IInv'
<1>1. CASE DropFile(s)
  BY <1>1, ReturnDrops DEF RemoveState
<1>2. CASE UNCHANGED file
  <2>1. ~Owned(s)' /\ abandoned' \subseteq Insts
    BY <1>2 DEF IInv, TypeOK
  <2> QED BY <1>2, <2>1, ReturnKeeps DEF RemoveState, DropAuth
<1> QED BY <1>1, <1>2 DEF RemoveState

-----------------------------------------------------------------------------
(* What the identity checks establish                                      *)

LEMMA NotOwned ==
  ASSUME IInv, NEW s \in Servers, NEW a \in Actors, mlock[s] = a, ~Spawning(a),
         Recorded(s), NEW r, Known(r), r.srv = s, SameMount(file[s], r),
         ~StartMatches(r) \/ ~ArgvMatches(r)
  PROVE  ~Owned(s)
<1> SUFFICES ASSUME Owned(s) PROVE FALSE
  OBVIOUS
<1>1. /\ file[s].pid = r.pid /\ file[s].inst = r.inst /\ file[s].mp = r.mp
      /\ Alive(r.pid) /\ Live(r)
  BY DEF SameMount
<1>2. StartMatches(r) /\ proc[r.pid].cmd = <<r.srv, r.mp>>
  BY <1>1 DEF Known
<1>3. ~proc[r.pid].exec
  BY <1>1, <1>2 DEF ArgvMatches
<1> QED BY <1>1, <1>3 DEF Young, IInv

LEMMA Mismatch ==
  ASSUME NEW r, NEW argv \in ArgvReads(r), argv = "mismatch"
  PROVE  ~ArgvMatches(r)
BY DEF ArgvReads

\* What an actor that holds a record knows of it
LEMMA RecOfFile ==
  ASSUME IInv, NEW a \in Actors,
         pc[a] \in {"m_wait", "m_commit", "u_check", "u_wait", "u_exit", "u_mp",
                    "c_check"} \cup StopPcs,
         pc[a] \in StopPcs => caller[a] # "save_failed"
  PROVE  LET s == rec[a].srv IN
         /\ s \in Servers /\ mlock[s] = a /\ Recorded(s) /\ ~InFlight(a)
         /\ SameMount(file[s], rec[a]) /\ Known(rec[a])
         /\ Owned(s) => Live(rec[a])
BY RecFields DEF IInv, Holds, FileOfRec, RecsKnown, SameMount

-----------------------------------------------------------------------------
(* stop_if_owned returns                                                   *)

LEMMA AfterStopInv ==
  ASSUME IInv, NEW a \in Actors, NEW stopped \in BOOLEAN, pc[a] \in StopPcs,
         AfterStop(a, stopped), UNCHANGED <<proc, nextInst, clock>>,
         stopped => ~Alive(rec[a].pid)
  PROVE  IInv'
<1>0. PICK s \in Servers : s = rec[a].srv
  BY RecFields DEF IInv
<1>1. CASE caller[a] = "save_failed"
  <2>1. /\ Return(a) /\ Abandon(rec[a]) /\ UNCHANGED file
        /\ auth' = [auth EXCEPT ![s] = 0] \/ UNCHANGED auth
    BY <1>0, <1>1 DEF AfterStop, DropAuth
  <2>2. Live(rec[a]) => rec[a].inst \in abandoned'
    BY <2>1 DEF Abandon
  <2>3. rec[a].inst \in Insts /\ abandoned' \subseteq Insts /\ abandoned \subseteq abandoned'
    BY <2>1 DEF Abandon, IInv, TypeOK, MountState
  <2>4. ASSUME Owned(s)' PROVE FALSE
    <3>1. Recorded(s) /\ SameMount(file[s], rec[a])
      BY <1>0, <1>1, <2>1, <2>4 DEF IInv, FileOfRec
    <3> QED BY <2>1, <2>2, <2>4, <3>1 DEF SameMount
  <2>5. \/ UNCHANGED auth
        \/ auth' = [auth EXCEPT ![s] = 0] /\ ~Owned(s)'
    BY <2>1, <2>4, Zenon
  <2>6. pc[a] # "idle" /\ UNCHANGED <<file, proc, nextInst, clock>>
    BY <2>1
  <2> HIDE DEF InFlight, Owned
  <2> QED BY <1>0, <2>1, <2>2, <2>3, <2>5, <2>6, ReturnKeeps, Zenon
<1>2. CASE caller[a] = "not_ready"
  <2>1. Return(a) /\ UNCHANGED abandoned /\ DropRecord(s, stopped)
    BY <1>0, <1>2 DEF AfterStop
  <2>2. s \in Servers /\ ~InFlight(a) /\ (stopped => ~Owned(s))
    BY <1>0, <1>2, RecOfFile
  <2>3. CASE stopped
    BY <1>0, <2>1, <2>2, <2>3, ReturnRemoves DEF DropRecord
  <2>4. CASE ~stopped
    <3>1. abandoned' \subseteq Insts
      BY <2>1 DEF IInv, TypeOK
    <3> QED BY <1>0, <2>1, <2>2, <2>4, <3>1, ReturnKeeps DEF DropRecord
  <2> QED BY <2>3, <2>4
<1>3. CASE caller[a] = "unmount"
  <2>1. /\ pc' = [pc EXCEPT ![a] = "u_exit"]
        /\ UNCHANGED <<file, auth, mlock, alock, caller, rec, mark, abandoned>>
    BY <1>3 DEF AfterStop, Goto
  <2>2. TypeOK'
    BY <2>1, <1>3, RecFields DEF IInv, TypeOK
  <2> QED BY <1>3, <2>1, <2>2, StopStep DEF IInv, Marked
<1> QED BY <1>1, <1>2, <1>3 DEF AfterStop

LEMMA StopCheckInv ==
  ASSUME IInv, NEW a \in Actors, StopCheck(a)
  PROVE  IInv'
<1>1. CASE \E stopped \in BOOLEAN :
             AfterStop(a, stopped) /\ (stopped => ~Alive(rec[a].pid))
  BY <1>1, AfterStopInv DEF StopCheck
<1>2. CASE /\ pc' = [pc EXCEPT ![a] = "s_verify"]
           /\ UNCHANGED <<file, auth, mlock, alock, caller, rec, mark, abandoned>>
  <2>1. /\ pc[a] \in StopPcs /\ UNCHANGED <<proc, nextInst, clock>>
        /\ caller[a] \in Callers
    BY DEF StopCheck, IInv, FileOfRec
  <2>2. TypeOK'
    BY <1>2, <2>1, RecFields DEF IInv, TypeOK
  <2> QED BY <1>2, <2>1, <2>2, StopStep DEF IInv, Marked
<1> QED BY <1>1, <1>2 DEF StopCheck, Goto

LEMMA StopFinalInv ==
  ASSUME IInv, NEW a \in Actors, StopFinal(a)
  PROVE  IInv'
BY AfterStopInv DEF StopFinal

-----------------------------------------------------------------------------
(* The steps of unmount and cleanup that return                            *)

LEMMA UnmountCheckInv ==
  ASSUME IInv, NEW a \in Actors, UnmountCheck(a)
  PROVE  IInv'
<1> DEFINE s == rec[a].srv
<1>1. /\ pc[a] = "u_check" /\ UNCHANGED <<proc, nextInst, clock, abandoned>>
      /\ \/ /\ ~StartMatches(rec[a]) \/ ~ArgvMatches(rec[a])
            /\ RemoveState(s) /\ Return(a)
         \/ Return(a) /\ UNCHANGED <<file, auth>>
         \/ /\ pc' = [pc EXCEPT ![a] = "u_wait"]
            /\ UNCHANGED <<file, auth, mlock, alock, caller, rec, mark>>
  BY Mismatch DEF UnmountCheck, Goto
<1>2. abandoned' \subseteq Insts /\ abandoned \subseteq abandoned'
  BY <1>1 DEF IInv, TypeOK
<1>3. CASE /\ ~StartMatches(rec[a]) \/ ~ArgvMatches(rec[a])
           /\ RemoveState(s) /\ Return(a)
  <2>1. s \in Servers /\ ~InFlight(a) /\ ~Owned(s)
    BY <1>1, <1>3, RecOfFile, NotOwned
  <2> QED BY <1>1, <1>3, <2>1, ReturnRemoves
<1>4. CASE Return(a) /\ UNCHANGED <<file, auth>>
  BY <1>1, <1>2, <1>4, RecFields, ReturnKeeps DEF IInv
<1>5. CASE /\ pc' = [pc EXCEPT ![a] = "u_wait"]
           /\ UNCHANGED <<file, auth, mlock, alock, caller, rec, mark>>
  <2>1. TypeOK'
    BY <1>1, <1>5, RecFields DEF IInv, TypeOK
  <2> QED BY <1>1, <1>5, <2>1, StopStep DEF IInv, Marked
<1> QED BY <1>1, <1>3, <1>4, <1>5

LEMMA UnmountExitInv ==
  ASSUME IInv, NEW a \in Actors, UnmountExit(a)
  PROVE  IInv'
<1>1. /\ pc[a] = "u_exit"
      /\ UNCHANGED <<file, auth, proc, nextInst, clock, abandoned>>
      /\ abandoned' \subseteq Insts
  BY DEF UnmountExit, IInv, TypeOK
<1>2. CASE Return(a)
  BY <1>1, <1>2, RecFields, ReturnKeeps DEF IInv
<1>3. CASE /\ ~Alive(rec[a].pid) /\ pc' = [pc EXCEPT ![a] = "u_mp"]
           /\ UNCHANGED <<mlock, alock, caller, rec, mark>>
  <2>1. TypeOK'
    BY <1>1, <1>3, RecFields DEF IInv, TypeOK
  <2> QED BY <1>1, <1>3, <2>1, StopStep DEF IInv, Marked
<1> QED BY <1>2, <1>3 DEF UnmountExit, Goto

LEMMA UnmountMountpointInv ==
  ASSUME IInv, NEW a \in Actors, UnmountMountpoint(a)
  PROVE  IInv'
<1>1. /\ pc[a] = "u_mp" /\ Return(a)
      /\ UNCHANGED <<proc, nextInst, clock, abandoned>>
      /\ abandoned' \subseteq Insts
  BY DEF UnmountMountpoint, IInv, TypeOK
<1>2. CASE UNCHANGED <<file, auth>>
  BY <1>1, <1>2, RecFields, ReturnKeeps DEF IInv
<1>3. CASE RemoveState(rec[a].srv)
  <2>1. ~Live(rec[a])
    BY <1>1 DEF IInv, FileOfRec
  <2>2. rec[a].srv \in Servers /\ ~InFlight(a) /\ ~Owned(rec[a].srv)
    BY <1>1, <2>1, RecOfFile
  <2> QED BY <1>1, <1>3, <2>2, ReturnRemoves
<1> QED BY <1>2, <1>3 DEF UnmountMountpoint

LEMMA CleanupCheckInv ==
  ASSUME IInv, NEW a \in Actors, CleanupCheck(a)
  PROVE  IInv'
<1>1. /\ pc[a] = "c_check" /\ Return(a)
      /\ UNCHANGED <<proc, nextInst, clock, abandoned>>
      /\ abandoned' \subseteq Insts
  BY DEF CleanupCheck, IInv, TypeOK
<1>2. CASE UNCHANGED <<file, auth>>
  BY <1>1, <1>2, RecFields, ReturnKeeps DEF IInv
<1>3. CASE \E argv \in ArgvReads(rec[a]) :
             Stale(rec[a], argv) /\ RemoveState(rec[a].srv)
  <2>1. ~StartMatches(rec[a]) \/ ~ArgvMatches(rec[a])
    BY <1>3, Mismatch DEF Stale
  <2>2. rec[a].srv \in Servers /\ ~InFlight(a) /\ ~Owned(rec[a].srv)
    BY <1>1, <2>1, RecOfFile, NotOwned
  <2> QED BY <1>1, <1>3, <2>2, ReturnRemoves
<1> QED BY <1>2, <1>3 DEF CleanupCheck

-----------------------------------------------------------------------------
(* An operation begins                                                     *)

LEMMA BeginStep ==
  ASSUME IInv, TypeOK', NEW a \in Actors, NEW s \in Servers, NEW r, NEW to,
         pc[a] = "idle", to \in {"m_check", "u_check", "c_check"}, r.srv = s,
         mlock[s] = Free, mlock' = [mlock EXCEPT ![s] = a],
         pc' = [pc EXCEPT ![a] = to], rec' = [rec EXCEPT ![a] = r],
         to # "m_check" => Recorded(s) /\ r = file[s],
         UNCHANGED <<file, auth, proc, alock, caller, mark, nextInst, clock,
                     abandoned>>
  PROVE  IInv'
<1>1. /\ pc'[a] = to /\ rec'[a] = r /\ mlock'[s] = a
      /\ \A b \in Actors \ {a} :
           /\ pc'[b] = pc[b] /\ rec'[b] = rec[b]
           /\ pc[b] # "idle" => rec[b].srv \in Servers /\ rec[b].srv # s
      /\ \A t \in Servers \ {s} : mlock'[t] = mlock[t]
  BY RecFields DEF IInv, TypeOK, Holds
<1>2. Holds' /\ Cleared' /\ AuthOfRec'
  BY <1>1 DEF Holds, Cleared, AuthOfRec, IInv
<1>3. FilesKnown' /\ ExclusiveMountpoint' /\ AuthMatchesRecord'
  <2>1. FilesKnown'
    BY DEF FilesKnown, Known, StartMatches, IInv
  <2>2. ExclusiveMountpoint' /\ AuthMatchesRecord'
    BY DEF ExclusiveMountpoint, AuthMatchesRecord, IInv
  <2> QED BY <2>1, <2>2
<1>4. Fresh' /\ RecsKnown'
  <2>1. Fresh'
    BY <1>1 DEF Fresh, IInv
  <2>2. ASSUME NEW b \in Actors, pc'[b] \in StatePcs
        PROVE  Known(rec[b])'
    <3>1. CASE b = a
      <4>1. rec'[b] = file[s] /\ Known(file[s])
        BY <1>1, <2>2, <3>1 DEF FilesKnown, IInv
      <4> QED BY <4>1 DEF Known, StartMatches
    <3>2. CASE b # a
      <4>1. rec'[b] = rec[b] /\ Known(rec[b])
        BY <1>1, <2>2, <3>2 DEF RecsKnown, IInv
      <4> QED BY <4>1 DEF Known, StartMatches
    <3> QED BY <3>1, <3>2
  <2> QED BY <2>1, <2>2 DEF RecsKnown
<1>5. FileOfRec'
  BY <1>1 DEF FileOfRec, SameMount, IInv
<1>6. Young' /\ Accounted' /\ SignalsVerified' /\ Marked'
  <2>1. Young'
    BY <1>1 DEF Young, IInv
  <2>2. Accounted'
    BY <1>1 DEF Accounted, IInv
  <2>3. SignalsVerified' /\ Marked'
    BY <1>1 DEF SignalsVerified, Marked, IInv
  <2> QED BY <2>1, <2>2, <2>3
<1> QED BY <1>2, <1>3, <1>4, <1>5, <1>6 DEF IInv

LEMMA MountInv ==
  ASSUME IInv, NEW a \in Actors, NEW s \in Servers, NEW m \in Mps, Mount(a, s, m)
  PROVE  IInv'
<1> DEFINE r == [srv |-> s, mp |-> m]
<1>1. r \in MountRequest /\ r.srv = s
  BY DEF MountRequest
<1>2. TypeOK'
  BY <1>1 DEF Mount, Lock, Goto, IInv, TypeOK
<1> QED BY <1>1, <1>2, BeginStep DEF Mount, Lock, Goto

LEMMA UnmountInv ==
  ASSUME IInv, NEW a \in Actors, NEW s \in Servers, Unmount(a, s)
  PROVE  IInv'
<1>1. file[s] \in MountState /\ file[s].srv = s
  BY FileFields DEF Unmount, IInv, FilesKnown
<1>2. TypeOK'
  BY <1>1 DEF Unmount, Lock, Goto, IInv, TypeOK
<1> QED BY <1>1, <1>2, BeginStep DEF Unmount, Lock, Goto

LEMMA CleanupStaleStateInv ==
  ASSUME IInv, NEW a \in Actors, NEW s \in Servers, CleanupStaleState(a, s)
  PROVE  IInv'
<1>1. file[s] \in MountState /\ file[s].srv = s
  BY FileFields DEF CleanupStaleState, IInv, FilesKnown
<1>2. TypeOK'
  BY <1>1 DEF CleanupStaleState, Lock, Goto, IInv, TypeOK
<1> QED BY <1>1, <1>2, BeginStep DEF CleanupStaleState, Lock, Goto

-----------------------------------------------------------------------------
(* mount before the first save                                             *)

(* The steps up to the reservation check may drop a stale record.          *)
LEMMA RequestStep ==
  ASSUME IInv, TypeOK', NEW a \in Actors, NEW to, NEW s \in Servers,
         pc[a] \in RequestPcs \ {"m_spawn"}, to \in RequestPcs \ {"m_check"},
         s = rec[a].srv, pc' = [pc EXCEPT ![a] = to],
         to \in AllocPcs => alock' = a,
         alock' = alock \/ alock = Free,
         \A t \in Servers : t # s => file'[t] = file[t] /\ auth'[t] = auth[t],
         file'[s] = NoRecord, ~Owned(s),
         to = "m_spawn" => \A t \in Servers \ {s} : Owned(t) => file[t].mp # rec[a].mp,
         UNCHANGED <<proc, mlock, caller, rec, mark, nextInst, clock, abandoned>>
  PROVE  IInv'
<1> HIDE DEF Owned
<1>1. /\ pc'[a] = to /\ mlock[s] = a
      /\ \A b \in Actors \ {a} :
           /\ pc'[b] = pc[b]
           /\ pc[b] # "idle" => rec[b].srv \in Servers /\ rec[b].srv # s
  BY RecFields DEF IInv, TypeOK, Holds
<1>2. \A t \in Servers : Owned(t)' => t # s /\ Owned(t) /\ file'[t] = file[t]
  BY DEF Owned
<1>3. Holds' /\ Fresh'
  <2>1. Holds'
    BY <1>1 DEF Holds, IInv
  <2>2. Fresh'
    BY <1>1 DEF Fresh, IInv
  <2> QED BY <2>1, <2>2
<1>4. FilesKnown' /\ RecsKnown'
  <2>1. ASSUME NEW t \in Servers, Recorded(t)'
        PROVE  file'[t].srv = t /\ Known(file[t])'
    <3>1. t # s /\ file'[t] = file[t] /\ file[t].srv = t /\ Known(file[t])
      BY <2>1 DEF FilesKnown, IInv
    <3> QED BY SMTT(30), <3>1 DEF Known, StartMatches
  <2>2. ASSUME NEW b \in Actors, pc'[b] \in StatePcs
        PROVE  Known(rec[b])'
    <3>1. Known(rec[b]) /\ rec'[b] = rec[b]
      BY <1>1, <2>2 DEF RecsKnown, IInv
    <3> QED BY SMTT(30), <3>1 DEF Known, StartMatches
  <2> QED BY <2>1, <2>2 DEF FilesKnown, RecsKnown
<1>5. FileOfRec' /\ AuthOfRec'
  BY SMTT(30), <1>1 DEF FileOfRec, SameMount, AuthOfRec, IInv
<1>6. Young'
  <2> SUFFICES ASSUME NEW t \in Servers, Owned(t)', ~proc'[file'[t].pid].exec
               PROVE  /\ file'[t].phase = "Starting"
                      /\ \E b \in Actors :
                           mlock'[t] = b /\ rec'[b].srv = t /\ Spawning(b)'
    BY SMTT(30) DEF Young
  <2>1. t # s /\ Owned(t) /\ file'[t] = file[t]
    BY SMTT(30), <1>2
  <2>2. file[t].phase = "Starting"
    BY <2>1 DEF Young, IInv
  <2>3. PICK b \in Actors : mlock[t] = b /\ rec[b].srv = t /\ Spawning(b)
    BY <2>1 DEF Young, IInv
  <2> QED BY SMTT(30), <1>1, <2>1, <2>2, <2>3
<1>7. Cleared' /\ ExclusiveMountpoint' /\ AuthMatchesRecord'
  <2>1. Cleared'
    BY SMTT(30), <1>1, <1>2 DEF Cleared, IInv
  <2>2. ExclusiveMountpoint' /\ AuthMatchesRecord'
    BY SMTT(30), <1>2 DEF ExclusiveMountpoint, AuthMatchesRecord, IInv
  <2> QED BY <2>1, <2>2
<1>8. Accounted'
  <2> SUFFICES ASSUME NEW p \in Pids, Alive(p), proc[p].cmd # Foreign,
                      proc[p].inst \notin abandoned
               PROVE  LET t == proc[p].cmd[1] IN
                      \/ /\ Recorded(t)' /\ file'[t].inst = proc[p].inst
                         /\ file'[t].pid = p
                      \/ \E b \in Actors :
                           /\ InFlight(b)' /\ rec'[b].inst = proc[p].inst
                           /\ rec'[b].pid = p /\ rec'[b].srv = t
    BY SMTT(30) DEF Accounted
  <2> DEFINE t == proc[p].cmd[1]
  <2>1. t \in Servers
    BY ProcFields DEF IInv
  <2>2. CASE Recorded(t) /\ file[t].inst = proc[p].inst /\ file[t].pid = p
    <3>1. Owned(t)
      BY <2>1, <2>2 DEF Owned
    <3> QED  BY <2>1, <2>2, <3>1
  <2>3. CASE \E b \in Actors : /\ InFlight(b) /\ rec[b].inst = proc[p].inst
                               /\ rec[b].pid = p /\ rec[b].srv = t
    BY SMTT(30), <1>1, <2>3
  <2> QED BY SMTT(30), <2>2, <2>3 DEF Accounted, IInv
<1>9. SignalsVerified' /\ Marked'
  BY SMTT(30), <1>1 DEF SignalsVerified, Marked, IInv
<1> QED BY <1>3, <1>4, <1>5, <1>6, <1>7, <1>8, <1>9 DEF IInv

LEMMA StaleRecord ==
  ASSUME IInv, NEW a \in Actors, NEW s \in Servers, mlock[s] = a, ~Spawning(a),
         Recorded(s), ~StartMatches(file[s]) \/ ~ArgvMatches(file[s])
  PROVE  ~Owned(s)
<1>1. Known(file[s]) /\ file[s].srv = s
  BY DEF IInv, FilesKnown
<1>2. SameMount(file[s], file[s])
  BY DEF SameMount
<1> QED BY <1>1, <1>2, NotOwned

LEMMA MountCheckInv ==
  ASSUME IInv, NEW a \in Actors, MountCheck(a)
  PROVE  IInv'
<1> DEFINE s == rec[a].srv
<1>1. /\ pc[a] = "m_check" /\ s \in Servers /\ mlock[s] = a
      /\ UNCHANGED <<proc, nextInst, clock, abandoned>>
      /\ abandoned' \subseteq Insts
  BY RecFields DEF MountCheck, IInv, TypeOK, Holds
<1>2. CASE /\ file[s] = NoRecord /\ pc' = [pc EXCEPT ![a] = "m_alloc"]
           /\ UNCHANGED <<file, auth, mlock, alock, caller, rec, mark>>
  <2>1. TypeOK'
    BY <1>1, <1>2, RecFields DEF IInv, TypeOK
  <2> QED BY <1>1, <1>2, <2>1, RequestStep
<1>3. CASE /\ file[s] # NoRecord /\ pc' = [pc EXCEPT ![a] = "m_alloc"]
           /\ ~StartMatches(file[s]) \/ ~ArgvMatches(file[s])
           /\ DropFile(s) /\ DropAuth(s)
           /\ UNCHANGED <<mlock, alock, caller, rec, mark>>
  <2>1. TypeOK'
    BY <1>1, <1>3, RecFields DEF DropFile, DropAuth, IInv, TypeOK
  <2>2. ~Owned(s)
    BY <1>1, <1>3, StaleRecord
  <2>3. /\ file'[s] = NoRecord
        /\ \A t \in Servers : t # s => file'[t] = file[t] /\ auth'[t] = auth[t]
    BY <1>1, <1>3 DEF DropFile, DropAuth, IInv, TypeOK
  <2> QED BY Zenon, <1>1, <1>3, <2>1, <2>2, <2>3, RequestStep
<1>4. CASE Return(a) /\ UNCHANGED <<file, auth>>
  BY <1>1, <1>4, ReturnKeeps
<1>5. CASE /\ file[s] # NoRecord /\ Return(a) /\ RemoveState(s)
           /\ ~StartMatches(file[s]) \/ ~ArgvMatches(file[s])
  <2>1. ~Owned(s)
    BY <1>1, <1>5, StaleRecord
  <2> QED BY <1>1, <1>5, <2>1, ReturnRemoves
<1> QED BY <1>2, <1>3, <1>4, <1>5, Mismatch DEF MountCheck, Stale, Goto

LEMMA MountAllocateInv ==
  ASSUME IInv, NEW a \in Actors, MountAllocate(a)
  PROVE  IInv'
<1>1. /\ pc[a] = "m_alloc" /\ rec[a].srv \in Servers
      /\ file[rec[a].srv] = NoRecord
      /\ UNCHANGED <<file, auth, proc, nextInst, clock, abandoned>>
      /\ abandoned' \subseteq Insts
  BY RecFields DEF MountAllocate, IInv, TypeOK, FileOfRec
<1>2. CASE /\ alock = Free /\ alock' = a /\ pc' = [pc EXCEPT ![a] = "m_reserve"]
           /\ UNCHANGED <<mlock, caller, rec, mark>>
  <2>1. TypeOK'
    BY <1>1, <1>2, RecFields DEF IInv, TypeOK
  <2> QED BY <1>1, <1>2, <2>1, RequestStep
<1>3. CASE Return(a)
  BY <1>1, <1>3, ReturnKeeps
<1> QED BY <1>2, <1>3 DEF MountAllocate, Goto

LEMMA MountReserveInv ==
  ASSUME IInv, NEW a \in Actors, MountReserve(a)
  PROVE  IInv'
<1> DEFINE s == rec[a].srv
           others == {t \in Servers \ {s} :
                        file[t] # NoRecord /\ file[t].mp = rec[a].mp}
<1>1. /\ pc[a] = "m_reserve" /\ s \in Servers /\ mlock[s] = a /\ alock = a
      /\ file[s] = NoRecord
      /\ UNCHANGED <<file, auth, proc, nextInst, clock, abandoned>>
      /\ abandoned' \subseteq Insts
  BY RecFields DEF MountReserve, IInv, TypeOK, FileOfRec, Holds
<1>2. CASE /\ \A t \in others :
                \E argv \in ArgvReads(file[t]) : ~Reserves(file[t], argv)
           /\ pc' = [pc EXCEPT ![a] = "m_spawn"]
           /\ UNCHANGED <<mlock, alock, caller, rec, mark>>
  <2>1. TypeOK'
    BY <1>1, <1>2, RecFields DEF IInv, TypeOK
  <2>2. ASSUME NEW t \in Servers \ {s}, Owned(t), file[t].mp = rec[a].mp
        PROVE  FALSE
    <3>1. PICK argv \in ArgvReads(file[t]) : ~Reserves(file[t], argv)
      BY <1>2, <2>2
    <3>2. Known(file[t]) /\ file[t].srv = t /\ Alive(file[t].pid)
      BY <2>2 DEF IInv, FilesKnown
    <3>3. StartMatches(file[t]) /\ proc[file[t].pid].cmd = <<t, file[t].mp>>
      BY <2>2, <3>2 DEF Known
    <3>4. argv = "mismatch"
      BY <3>1, <3>3 DEF Reserves, MayBeOwned
    <3>5. ~proc[file[t].pid].exec
      BY <3>2, <3>3, <3>4, Mismatch DEF ArgvMatches
    <3>6. file[t].phase = "Starting" /\ mlock[t] \in Actors
      BY <2>2, <3>5 DEF IInv, Young
    <3> QED BY <3>1, <3>2, <3>6 DEF Reserves
  <2> QED BY <1>1, <1>2, <2>1, <2>2, RequestStep
<1>3. CASE Return(a)
  BY <1>1, <1>3, ReturnKeeps
<1> QED BY <1>2, <1>3 DEF MountReserve, Goto

-----------------------------------------------------------------------------
(* A process starts                                                        *)

(* Its instance number is new, and it is no recorded mount's command line. *)
LEMMA Grow ==
  ASSUME IInv, NEW pid \in Pids, proc[pid] = NoProcess, NEW new \in Process,
         new.inst = nextInst, proc' = [proc EXCEPT ![pid] = new],
         nextInst' = nextInst + 1, UNCHANGED <<file, abandoned>>,
         \A s \in Servers : Recorded(s) => new.cmd # <<s, file[s].mp>>,
         \A b \in Actors :
           pc[b] \in StatePcs => new.cmd # <<rec[b].srv, rec[b].mp>>
  PROVE  /\ proc'[pid] = new /\ \A p \in Pids : p # pid => proc'[p] = proc[p]
         /\ \A s \in Servers : Owned(s)' => Owned(s) /\ file[s].pid # pid
         /\ FilesKnown' /\ ExclusiveMountpoint'
         /\ \A b \in Actors : pc[b] \in StatePcs /\ rec'[b] = rec[b] => Known(rec[b])'
         /\ \A b \in Actors : pc[b] \in StatePcs /\ rec[b].pid = pid => ~Live(rec[b])
         /\ \A p, q \in Pids :
              Alive(p)' /\ Alive(q)' /\ proc'[p].inst = proc'[q].inst => p = q
<1>1. proc'[pid] = new /\ \A p \in Pids : p # pid => proc'[p] = proc[p]
  BY DEF IInv, TypeOK
<1>2. nextInst \in Nat /\ new # NoProcess
  BY DEF IInv, TypeOK
<1>3. \A s \in Servers : Recorded(s) /\ file[s].pid = pid =>
        file[s].inst # nextInst
  BY <1>2, FileFields DEF Fresh, IInv
<1>4. \A s \in Servers : Owned(s)' => Owned(s) /\ file[s].pid # pid
  BY <1>1, <1>3, FileFields DEF IInv
<1>5. ASSUME NEW s \in Servers, Recorded(s)'
      PROVE  file'[s].srv = s /\ Known(file[s])'
  <2>1. Recorded(s) /\ file[s].srv = s /\ Known(file[s]) /\ file[s].pid \in Pids
    BY <1>5, FileFields DEF IInv, FilesKnown
  <2>2. CASE file[s].pid = pid
    BY <1>1, <1>3, <2>1, <2>2 DEF Known
  <2>3. CASE file[s].pid # pid
    BY <1>1, <2>1, <2>3 DEF Known, StartMatches
  <2> QED BY <2>1, <2>2, <2>3
<1>6. ASSUME NEW b \in Actors, pc[b] \in StatePcs, rec'[b] = rec[b]
      PROVE  Known(rec[b])'
  <2>1. Known(rec[b]) /\ rec[b].pid \in Pids /\ rec[b].inst # nextInst
    BY <1>2, <1>6, RecFields DEF IInv, RecsKnown, Fresh
  <2>2. CASE rec[b].pid = pid
    BY <1>1, <1>6, <2>1, <2>2 DEF Known
  <2>3. CASE rec[b].pid # pid
    BY <1>1, <1>6, <2>1, <2>3 DEF Known, StartMatches
  <2> QED BY <2>2, <2>3
<1>7. ExclusiveMountpoint'
  BY <1>4 DEF ExclusiveMountpoint, IInv
<1>8. \A p, q \in Pids :
        Alive(p)' /\ Alive(q)' /\ proc'[p].inst = proc'[q].inst => p = q
  <2>1. \A p \in Pids : Alive(p) => proc[p].inst \in Nat /\ proc[p].inst < nextInst
    BY ProcFields DEF IInv, Fresh
  <2> QED BY <1>1, <1>2, <2>1 DEF IInv, Fresh
<1> QED BY <1>1, <1>4, <1>5, <1>6, <1>7, <1>8 DEF FilesKnown

LEMMA StartForeignInv ==
  ASSUME IInv, NEW pid \in Pids, StartForeign(pid)
  PROVE  IInv'
<1> DEFINE new == NewProcess(Foreign, TRUE)
<1>1. /\ new \in Process /\ new.inst = nextInst /\ new.cmd = Foreign
      /\ proc[pid] = NoProcess /\ nextInst \in Insts /\ nextInst' = nextInst + 1
      /\ proc' = [proc EXCEPT ![pid] = new]
      /\ UNCHANGED <<file, auth, mlock, alock, pc, caller, rec, mark, clock,
                     abandoned>>
  BY DEF StartForeign, NewProcess, Process, IInv, TypeOK
<1> HIDE DEF new
<1>2. TypeOK'
  BY <1>1 DEF Insts, IInv, TypeOK
<1>3. /\ \A s \in Servers : Recorded(s) => Foreign # <<s, file[s].mp>>
      /\ \A b \in Actors : pc[b] \in StatePcs => Foreign # <<rec[b].srv, rec[b].mp>>
  BY FileFields, RecFields DEF IInv
<1>4. /\ proc'[pid] = new /\ \A p \in Pids : p # pid => proc'[p] = proc[p]
      /\ \A s \in Servers : Owned(s)' => Owned(s) /\ file[s].pid # pid
      /\ FilesKnown' /\ ExclusiveMountpoint'
      /\ \A b \in Actors : pc[b] \in StatePcs /\ rec'[b] = rec[b] => Known(rec[b])'
      /\ \A b \in Actors : pc[b] \in StatePcs /\ rec[b].pid = pid => ~Live(rec[b])
      /\ \A p, q \in Pids :
           Alive(p)' /\ Alive(q)' /\ proc'[p].inst = proc'[q].inst => p = q
  BY Zenon, <1>1, <1>3, Grow
<1>5. nextInst \in Nat
  BY <1>1 DEF Insts
<1>6. Holds' /\ RecsKnown' /\ AuthOfRec'
  BY <1>1, <1>4 DEF Holds, RecsKnown, AuthOfRec, IInv
<1>7. Fresh'
  <2>1. ASSUME NEW p \in Pids, Alive(p)'
        PROVE  proc'[p].inst < nextInst'
    BY <1>1, <1>4, <1>5, <2>1, ProcFields DEF Fresh, IInv
  <2>2. \A s \in Servers : Recorded(s)' => file'[s].inst < nextInst'
    BY <1>1, <1>5, FileFields DEF Fresh, IInv
  <2>3. \A b \in Actors : pc'[b] \in StatePcs => rec'[b].inst < nextInst'
    BY <1>1, <1>5, RecFields DEF Fresh, IInv
  <2> QED BY <1>4, <2>1, <2>2, <2>3 DEF Fresh
<1>8. FileOfRec'
  <2>1. \A b \in Actors : pc[b] = "u_mp" => ~Live(rec[b])'
    <3> SUFFICES ASSUME NEW b \in Actors, pc[b] = "u_mp", Live(rec[b])'
                 PROVE  FALSE
      OBVIOUS
    <3>1. /\ ~Live(rec[b]) /\ rec[b].pid \in Pids /\ rec[b].inst < nextInst
          /\ rec[b].inst \in Nat
      BY RecFields DEF FileOfRec, Fresh, IInv
    <3> QED BY <1>1, <1>4, <1>5, <3>1
  <2> QED BY <1>1, <2>1 DEF FileOfRec, SameMount, IInv
<1>9. Young'
  <2> SUFFICES ASSUME NEW t \in Servers, Owned(t)', ~proc'[file[t].pid].exec
               PROVE  /\ file[t].phase = "Starting"
                      /\ \E b \in Actors :
                           mlock[t] = b /\ rec[b].srv = t /\ Spawning(b)
    BY <1>1 DEF Young
  <2>1. Owned(t) /\ file[t].pid # pid /\ file[t].pid \in Pids
    BY <1>4, FileFields DEF IInv
  <2> QED BY <1>4, <2>1 DEF Young, IInv
<1>10. Cleared' /\ AuthMatchesRecord'
  BY <1>1, <1>4 DEF Cleared, AuthMatchesRecord, IInv
<1>11. Accounted'
  BY <1>1, <1>4 DEF Accounted, IInv
<1>12. SignalsVerified' /\ Marked'
  <2>1. Marked'
    BY <1>1, <1>5 DEF Marked, TypeOK, IInv
  <2>2. ASSUME NEW b \in Actors, pc[b] \in {"s_signal", "s_force"},
               Alive(rec[b].pid)'
        PROVE  Live(rec[b])' \/ proc'[rec[b].pid].inst >= mark[b]
    <3>1. rec[b].pid \in Pids /\ mark[b] <= nextInst
      BY <2>2, RecFields DEF IInv, Marked
    <3>2. CASE rec[b].pid = pid
      BY <1>1, <1>4, <3>1, <3>2
    <3>3. CASE rec[b].pid # pid
      BY <1>1, <1>4, <2>2, <3>1, <3>3 DEF SignalsVerified, IInv
    <3> QED BY <3>2, <3>3
  <2> QED BY <1>1, <2>1, <2>2 DEF SignalsVerified
<1> QED BY <1>2, <1>4, <1>6, <1>7, <1>8, <1>9, <1>10, <1>11, <1>12 DEF IInv

LEMMA MountSpawnInv ==
  ASSUME IInv, NEW a \in Actors, MountSpawn(a)
  PROVE  IInv'
<1>1. PICK s \in Servers, m \in Mps :
        /\ rec[a].srv = s /\ rec[a].mp = m /\ pc[a] = "m_spawn"
        /\ ~Recorded(s) /\ mlock[s] = a /\ alock = a
  BY RecFields DEF MountSpawn, IInv, FileOfRec, Holds
<1>2. \A b \in Actors \ {a} : pc[b] # "idle" => rec[b].srv \in Servers /\ rec[b].srv # s
  BY <1>1, RecFields DEF IInv, Holds
<1>3. CASE /\ auth' = [auth EXCEPT ![s] = 0] \/ UNCHANGED auth
           /\ Return(a) /\ UNCHANGED <<proc, nextInst>>
  <2>1. UNCHANGED <<file, clock, abandoned>> /\ abandoned' \subseteq Insts
    BY DEF MountSpawn, IInv, TypeOK
  <2> QED BY <1>1, <1>3, <2>1, ReturnKeeps
<1>4. ASSUME NEW pid \in Pids, NEW exec \in BOOLEAN,
             proc[pid] = NoProcess, nextInst \in Insts, nextInst' = nextInst + 1,
             auth' = [auth EXCEPT ![s] = nextInst],
             proc' = [proc EXCEPT ![pid] = NewProcess(<<s, m>>, exec)],
             rec' = [rec EXCEPT ![a] = Spawned(rec[a], pid)],
             pc' = [pc EXCEPT ![a] = "m_snapshot"],
             UNCHANGED <<mlock, alock, caller, mark>>
      PROVE  IInv'
  <2> DEFINE new == NewProcess(<<s, m>>, exec)
             r == Spawned(rec[a], pid)
  <2>1. /\ new \in Process /\ new.inst = nextInst /\ new.cmd = <<s, m>>
        /\ new.start = clock /\ new.cmd # Foreign
    BY <1>4 DEF NewProcess, Process, IInv, TypeOK
  <2>2. /\ r \in MountState /\ r.srv = s /\ r.mp = m /\ r.pid = pid
        /\ r.inst = nextInst /\ r.start = NoStart /\ r.phase = "Starting"
    BY <1>1, <1>4 DEF Spawned, MountState
  <2>3. proc' = [proc EXCEPT ![pid] = new] /\ rec' = [rec EXCEPT ![a] = r]
    BY <1>4
  <2>4. UNCHANGED <<file, clock, abandoned>> /\ nextInst \in Nat
    BY <1>4 DEF MountSpawn, Insts
  <2> HIDE DEF new, r
  <2>5. TypeOK'
    BY <1>1, <1>4, <2>1, <2>2, <2>3, <2>4 DEF Insts, IInv, TypeOK
  <2>6. /\ pc'[a] = "m_snapshot" /\ rec'[a] = r /\ auth'[s] = nextInst
        /\ \A b \in Actors \ {a} : pc'[b] = pc[b] /\ rec'[b] = rec[b]
        /\ \A t \in Servers \ {s} : auth'[t] = auth[t]
    BY <1>4, <2>3 DEF IInv, TypeOK
  <2>7. /\ \A t \in Servers : Recorded(t) => new.cmd # <<t, file[t].mp>>
        /\ \A b \in Actors : pc[b] \in StatePcs => new.cmd # <<rec[b].srv, rec[b].mp>>
    BY <1>1, <1>2, <2>1
  <2>8. /\ proc'[pid] = new /\ \A p \in Pids : p # pid => proc'[p] = proc[p]
        /\ \A t \in Servers : Owned(t)' => Owned(t) /\ file[t].pid # pid
        /\ FilesKnown' /\ ExclusiveMountpoint'
        /\ \A b \in Actors : pc[b] \in StatePcs /\ rec'[b] = rec[b] => Known(rec[b])'
        /\ \A b \in Actors : pc[b] \in StatePcs /\ rec[b].pid = pid => ~Live(rec[b])
        /\ \A p, q \in Pids :
             Alive(p)' /\ Alive(q)' /\ proc'[p].inst = proc'[q].inst => p = q
    BY Zenon, <1>4, <2>1, <2>3, <2>4, <2>7, Grow
  <2>9. Holds' /\ AuthOfRec'
    BY <1>1, <1>2, <1>4, <2>2, <2>6 DEF Holds, AuthOfRec, IInv
  <2>10. RecsKnown'
    <3>1. Known(rec[a])'
      BY <2>1, <2>2, <2>6, <2>8 DEF Known, StartMatches
    <3>2. ASSUME NEW b \in Actors, b # a, pc'[b] \in StatePcs
          PROVE  Known(rec[b])'
      BY <2>6, <2>8, <3>2
    <3> QED BY <3>1, <3>2 DEF RecsKnown
  <2>11. Fresh'
    <3>1. ASSUME NEW p \in Pids, Alive(p)'
          PROVE  proc'[p].inst < nextInst'
      BY <1>4, <2>1, <2>4, <2>8, <3>1, ProcFields DEF Fresh, IInv
    <3>2. \A t \in Servers : Recorded(t)' => file'[t].inst < nextInst'
      BY <1>4, <2>4, FileFields DEF Fresh, IInv
    <3>3. \A b \in Actors : pc'[b] \in StatePcs => rec'[b].inst < nextInst'
      BY <1>4, <2>2, <2>4, <2>6, RecFields DEF Fresh, IInv
    <3> QED BY <2>8, <3>1, <3>2, <3>3 DEF Fresh
  <2>12. FileOfRec'
    <3>1. \A b \in Actors : pc[b] = "u_mp" => ~Live(rec[b])'
      <4> SUFFICES ASSUME NEW b \in Actors, pc[b] = "u_mp", Live(rec[b])'
                   PROVE  FALSE
        OBVIOUS
      <4>1. /\ ~Live(rec[b]) /\ rec[b].pid \in Pids /\ rec[b].inst < nextInst
            /\ rec[b].inst \in Nat /\ rec'[b] = rec[b]
        BY <1>1, <2>6, RecFields DEF FileOfRec, Fresh, IInv
      <4> QED BY <2>1, <2>4, <2>8, <4>1
    <3> QED BY <1>1, <1>4, <2>2, <2>4, <2>6, <3>1 DEF FileOfRec, SameMount, IInv
  <2>13. Young'
    <3> SUFFICES ASSUME NEW t \in Servers, Owned(t)', ~proc'[file[t].pid].exec
                 PROVE  /\ file[t].phase = "Starting"
                        /\ \E b \in Actors :
                             mlock[t] = b /\ rec'[b].srv = t /\ Spawning(b)'
      BY <1>4, <2>4 DEF Young
    <3>1. Owned(t) /\ file[t].pid # pid /\ file[t].pid \in Pids
      BY <2>8, FileFields DEF IInv
    <3>2. file[t].phase = "Starting"
      BY <2>8, <3>1 DEF Young, IInv
    <3>3. PICK b \in Actors : mlock[t] = b /\ rec[b].srv = t /\ Spawning(b)
      BY <2>8, <3>1 DEF Young, IInv
    <3>4. b # a
      BY <1>1, <3>3
    <3> QED BY <1>4, <2>6, <3>2, <3>3, <3>4
  <2>14. Cleared' /\ AuthMatchesRecord'
    <3>1. Cleared'
      BY <1>1, <2>2, <2>4, <2>6, <2>8 DEF Cleared, IInv
    <3>2. AuthMatchesRecord'
      BY <1>1, <2>4, <2>6, <2>8 DEF AuthMatchesRecord, IInv
    <3> QED BY <3>1, <3>2
  <2>15. Accounted'
    <3> SUFFICES ASSUME NEW p \in Pids, Alive(p)', proc'[p].cmd # Foreign,
                        proc'[p].inst \notin abandoned
                 PROVE  LET t == proc'[p].cmd[1] IN
                        \/ Recorded(t) /\ file[t].inst = proc'[p].inst /\ file[t].pid = p
                        \/ \E b \in Actors :
                             /\ InFlight(b)' /\ rec'[b].inst = proc'[p].inst
                             /\ rec'[b].pid = p /\ rec'[b].srv = t
      BY <2>4 DEF Accounted
    <3>1. CASE p = pid
      <4>1. proc'[p].cmd[1] = s /\ proc'[p].inst = nextInst
        BY <2>1, <2>8, <3>1
      <4> QED BY <2>2, <2>6, <3>1, <4>1
    <3>2. CASE p # pid
      <4>1. proc'[p] = proc[p]
        BY <2>8, <3>2
      <4>2. ASSUME NEW b \in Actors, InFlight(b), rec[b].inst = proc[p].inst
            PROVE  InFlight(b)' /\ rec'[b] = rec[b]
        BY <1>1, <1>4, <2>6, <4>2
      <4> QED BY <4>1, <4>2 DEF Accounted, IInv
    <3> QED BY <3>1, <3>2
  <2>16. SignalsVerified' /\ Marked'
    <3>1. Marked'
      BY <1>4, <2>4 DEF Marked, TypeOK, IInv
    <3>2. ASSUME NEW b \in Actors, pc'[b] \in {"s_signal", "s_force"},
                 Alive(rec[b].pid)'
          PROVE  Live(rec[b])' \/ proc'[rec'[b].pid].inst >= mark[b]
      <4>1. /\ rec'[b] = rec[b] /\ pc'[b] = pc[b]
            /\ rec[b].pid \in Pids /\ mark[b] <= nextInst
        BY <2>6, <3>2, RecFields DEF IInv, Marked
      <4>2. CASE rec[b].pid = pid
        BY <2>1, <2>8, <4>1, <4>2
      <4>3. CASE rec[b].pid # pid
        BY <2>8, <3>2, <4>1, <4>3 DEF SignalsVerified, IInv
      <4> QED BY <4>2, <4>3
    <3> QED BY <1>4, <3>1, <3>2 DEF SignalsVerified
  <2> QED BY <2>5, <2>8, <2>9, <2>10, <2>11, <2>12, <2>13, <2>14, <2>15, <2>16
        DEF IInv
<1> QED BY <1>1, <1>3, <1>4 DEF MountSpawn, DropAuth, Goto

-----------------------------------------------------------------------------
(* mount after the spawn                                                   *)

LEMMA MountSnapshotInv ==
  ASSUME IInv, NEW a \in Actors, MountSnapshot(a)
  PROVE  IInv'
<1> DEFINE r == WithStart(rec[a])
<1>1. /\ pc[a] = "m_snapshot" /\ pc' = [pc EXCEPT ![a] = "m_save"]
      /\ rec' = [rec EXCEPT ![a] = r]
      /\ UNCHANGED <<file, auth, proc, mlock, alock, caller, mark, nextInst,
                     clock, abandoned>>
  BY DEF MountSnapshot, Goto
<1>2. rec[a] \in MountState /\ Known(rec[a])
  BY <1>1, RecFields DEF IInv, RecsKnown
<1>3. /\ r \in MountState /\ r.srv = rec[a].srv /\ r.mp = rec[a].mp
      /\ r.pid = rec[a].pid /\ r.inst = rec[a].inst /\ r.phase = rec[a].phase
      /\ Alive(r.pid) => r.start = proc[r.pid].start
  BY <1>2 DEF WithStart, MountState, Process, IInv, TypeOK
<1> HIDE DEF r
<1>4. TypeOK'
  BY <1>1, <1>3 DEF IInv, TypeOK
<1>5. /\ pc'[a] = "m_save" /\ rec'[a] = r
      /\ \A b \in Actors \ {a} : pc'[b] = pc[b] /\ rec'[b] = rec[b]
  BY <1>1 DEF IInv, TypeOK
<1>6. Holds' /\ Fresh'
  BY <1>1, <1>3, <1>5 DEF Holds, Fresh, IInv
<1>7. FilesKnown' /\ RecsKnown'
  <2>1. FilesKnown'
    BY <1>1 DEF FilesKnown, Known, StartMatches, IInv
  <2>2. Known(rec[a])'
    BY <1>1, <1>2, <1>3, <1>5 DEF Known, StartMatches
  <2>3. ASSUME NEW b \in Actors, b # a, pc'[b] \in StatePcs
        PROVE  Known(rec[b])'
    <3>1. /\ Known(rec[b]) /\ rec'[b] = rec[b]
          /\ UNCHANGED proc
      BY <1>1, <1>5, <2>3 DEF RecsKnown, IInv
    <3> QED BY <3>1 DEF Known, StartMatches
  <2> QED BY <2>1, <2>2, <2>3 DEF RecsKnown
<1>8. FileOfRec' /\ AuthOfRec'
  BY <1>1, <1>3, <1>5 DEF FileOfRec, SameMount, AuthOfRec, IInv
<1>9. Young' /\ Cleared'
  <2>1. \A b \in Actors : Spawning(b)' = Spawning(b) /\ rec'[b].srv = rec[b].srv
    BY <1>1, <1>3, <1>5
  <2>2. Young'
    BY <1>1, <2>1 DEF Young, IInv
  <2>3. Cleared'
    BY <1>1, <1>3, <1>5 DEF Cleared, IInv
  <2> QED BY <2>2, <2>3
<1>10. ExclusiveMountpoint' /\ AuthMatchesRecord'
  BY <1>1 DEF ExclusiveMountpoint, AuthMatchesRecord, IInv
<1>11. Accounted'
  <2>1. \A b \in Actors :
          InFlight(b) => /\ InFlight(b)' /\ rec'[b].inst = rec[b].inst
                         /\ rec'[b].pid = rec[b].pid /\ rec'[b].srv = rec[b].srv
    BY <1>1, <1>3, <1>5
  <2> QED BY <1>1, <2>1 DEF Accounted, IInv
<1>12. SignalsVerified' /\ Marked'
  BY <1>1, <1>5 DEF SignalsVerified, Marked, IInv
<1> QED BY <1>4, <1>6, <1>7, <1>8, <1>9, <1>10, <1>11, <1>12 DEF IInv

(* The record is written, or the save fails with or without writing it.    *)
LEMMA MountSaveInv ==
  ASSUME IInv, NEW a \in Actors, MountSave(a)
  PROVE  IInv'
<1>1. PICK s \in Servers, to \in {"m_wait", "s_check"} :
        /\ s = rec[a].srv /\ pc[a] = "m_save" /\ pc' = [pc EXCEPT ![a] = to]
        /\ \/ /\ to = "m_wait" /\ alock' = Free /\ UNCHANGED caller
              /\ file' = [file EXCEPT ![s] = rec[a]]
           \/ /\ to = "s_check" /\ UNCHANGED alock
              /\ caller' = [caller EXCEPT ![a] = "save_failed"]
              /\ file' \in {file, [file EXCEPT ![s] = rec[a]]}
        /\ UNCHANGED <<auth, proc, mlock, rec, mark, nextInst, clock, abandoned>>
  BY RecFields DEF MountSave, WriteState, StopFor, Goto, IInv
<1>2. /\ rec[a] \in MountState /\ Known(rec[a]) /\ ~Recorded(s) /\ mlock[s] = a
      /\ alock = a /\ rec[a].phase = "Starting" /\ auth[s] = rec[a].inst
      /\ rec[a].inst < nextInst
  BY <1>1, RecFields DEF IInv, RecsKnown, FileOfRec, Holds, AuthOfRec, Fresh
<1>3. TypeOK'
  <2>1. file' \in [Servers -> MountState \cup {NoRecord}]
    BY <1>1, <1>2 DEF IInv, TypeOK
  <2> QED BY <1>1, <1>2, <2>1 DEF IInv, TypeOK
<1>4. /\ pc'[a] = to
      /\ \A b \in Actors \ {a} :
           /\ pc'[b] = pc[b] /\ caller'[b] = caller[b]
           /\ pc[b] # "idle" => rec[b].srv \in Servers /\ rec[b].srv # s
      /\ to = "s_check" => caller'[a] = "save_failed"
      /\ \A t \in Servers \ {s} : file'[t] = file[t]
      /\ file'[s] = rec[a] \/ (file'[s] = NoRecord /\ to = "s_check")
  BY <1>1, <1>2, RecFields DEF IInv, TypeOK, Holds
<1>5. \A t \in Servers : t # s => (Owned(t)' <=> Owned(t))
  BY <1>1, <1>4
<1>6. Holds' /\ AuthOfRec'
  BY <1>1, <1>2, <1>4 DEF Holds, AuthOfRec, IInv
<1>7. Fresh'
  BY <1>1, <1>2, <1>4 DEF Fresh, IInv
<1>8. FilesKnown' /\ RecsKnown'
  <2>1. ASSUME NEW t \in Servers, Recorded(t)'
        PROVE  file'[t].srv = t /\ Known(file[t])'
    <3>1. /\ file'[t].srv = t
          /\ \/ file'[t] = file[t] /\ Known(file[t])
             \/ file'[t] = rec[a]
      BY <1>1, <1>4, <2>1 DEF FilesKnown, IInv
    <3>2. CASE file'[t] = file[t] /\ Known(file[t])
      BY <1>1, <3>1, <3>2 DEF Known, StartMatches
    <3>3. CASE file'[t] = rec[a]
      BY <1>1, <1>2, <3>1, <3>3 DEF Known, StartMatches
    <3> QED BY <3>1, <3>2, <3>3
  <2>2. ASSUME NEW b \in Actors, pc'[b] \in StatePcs
        PROVE  Known(rec[b])'
    <3>1. Known(rec[b])
      BY <1>1, <1>2, <1>4, <2>2 DEF RecsKnown, IInv
    <3> QED BY <1>1, <3>1 DEF Known, StartMatches
  <2> QED BY <2>1, <2>2 DEF FilesKnown, RecsKnown
<1>9. FileOfRec'
  BY <1>1, <1>2, <1>4 DEF FileOfRec, SameMount, IInv
<1>10. Young'
  <2> SUFFICES ASSUME NEW t \in Servers, Owned(t)', ~proc[file'[t].pid].exec
               PROVE  /\ file'[t].phase = "Starting"
                      /\ \E b \in Actors :
                           mlock[t] = b /\ rec[b].srv = t /\ Spawning(b)'
    BY <1>1 DEF Young
  <2>1. CASE t = s
    BY <1>1, <1>2, <1>4, <2>1
  <2>2. CASE t # s
    <3>1. Owned(t) /\ file'[t] = file[t]
      BY <1>4, <1>5, <2>2
    <3>2. PICK b \in Actors : mlock[t] = b /\ rec[b].srv = t /\ Spawning(b)
      BY <3>1 DEF Young, IInv
    <3>3. file[t].phase = "Starting"
      BY <3>1 DEF Young, IInv
    <3>4. b # a
      BY <1>1, <2>2, <3>2
    <3> QED BY <1>4, <3>1, <3>2, <3>3, <3>4
  <2> QED BY <2>1, <2>2
<1>11. Cleared' /\ ExclusiveMountpoint' /\ AuthMatchesRecord'
  <2>1. \A b \in Actors : pc'[b] \in AllocPcs => b # a /\ pc[b] \notin AllocPcs
    BY <1>1, <1>2, <1>4 DEF IInv, Holds
  <2>2. Cleared'
    BY <1>4, <2>1
       DEF Cleared, IInv
  <2>3. ExclusiveMountpoint'
    <3>1. \A t \in Servers : t # s /\ Owned(t) => file[t].mp # rec[a].mp
      BY <1>1 DEF Cleared, IInv
    <3> QED BY <1>1, <1>4, <1>5, <3>1 DEF ExclusiveMountpoint, IInv
  <2>4. AuthMatchesRecord'
    BY <1>1, <1>2, <1>4, <1>5 DEF AuthMatchesRecord, IInv
  <2> QED BY <2>2, <2>3, <2>4
<1>12. Accounted'
  <2> SUFFICES ASSUME NEW p \in Pids, Alive(p), proc[p].cmd # Foreign,
                      proc[p].inst \notin abandoned
               PROVE  LET t == proc[p].cmd[1] IN
                      \/ /\ Recorded(t)' /\ file'[t].inst = proc[p].inst
                         /\ file'[t].pid = p
                      \/ \E b \in Actors :
                           /\ InFlight(b)' /\ rec[b].inst = proc[p].inst
                           /\ rec[b].pid = p /\ rec[b].srv = t
    BY <1>1 DEF Accounted
  <2> DEFINE t == proc[p].cmd[1]
  <2>1. t \in Servers
    BY ProcFields DEF IInv
  <2>2. CASE Recorded(t) /\ file[t].inst = proc[p].inst /\ file[t].pid = p
    <3>1. t # s
      BY <1>2, <2>2
    <3>2. file'[t] = file[t]
      BY <1>4, <2>1, <3>1
    <3> QED BY <1>1, <2>2, <3>2
  <2>3. ASSUME NEW b \in Actors, InFlight(b), rec[b].inst = proc[p].inst,
               rec[b].pid = p, rec[b].srv = t
        PROVE  \/ /\ Recorded(t)' /\ file'[t].inst = proc[p].inst
                  /\ file'[t].pid = p
               \/ InFlight(b)'
    <3>1. CASE b # a
      BY <1>4, <2>3, <3>1
    <3>2. CASE b = a
      <4>1. CASE file'[s] = rec[a]
        BY <1>1, <1>2, <2>3, <3>2, <4>1 DEF IInv, TypeOK
      <4>2. CASE to = "s_check"
        BY <1>4, <3>2, <4>2
      <4> QED BY <1>4, <4>1, <4>2
    <3> QED BY <3>1, <3>2
  <2> QED BY <2>2, <2>3 DEF Accounted, IInv
<1>13. SignalsVerified' /\ Marked'
  BY <1>1, <1>4 DEF SignalsVerified, Marked, IInv
<1> QED BY <1>3, <1>6, <1>7, <1>8, <1>9, <1>10, <1>11, <1>12, <1>13 DEF IInv

LEMMA MountWaitInv ==
  ASSUME IInv, NEW a \in Actors, MountWait(a)
  PROVE  IInv'
<1>1. PICK s \in Servers, to \in {"m_commit", "s_check"} :
        /\ s = rec[a].srv /\ pc[a] = "m_wait" /\ pc' = [pc EXCEPT ![a] = to]
        /\ \/ to = "m_commit" /\ UNCHANGED caller /\ Verified(rec[a])
           \/ /\ to = "s_check" /\ caller' = [caller EXCEPT ![a] = "not_ready"]
              /\ StartMatches(rec[a]) => proc[rec[a].pid].exec
        /\ UNCHANGED <<file, auth, proc, mlock, alock, rec, mark, nextInst,
                       clock, abandoned>>
  BY RecFields DEF MountWait, StopFor, Goto, IInv
<1>2. /\ Recorded(s) /\ SameMount(file[s], rec[a]) /\ Known(rec[a])
      /\ rec[a] \in MountState
  BY <1>1, RecFields DEF IInv, FileOfRec, RecsKnown
<1>3. TypeOK'
  BY <1>1, <1>2 DEF IInv, TypeOK
<1>4. /\ pc'[a] = to
      /\ \A b \in Actors \ {a} : pc'[b] = pc[b] /\ caller'[b] = caller[b]
      /\ to = "s_check" => caller'[a] = "not_ready"
  BY <1>1 DEF IInv, TypeOK
<1>5. Holds' /\ Cleared' /\ AuthOfRec'
  BY <1>1, <1>4 DEF Holds, Cleared, AuthOfRec, IInv
<1>6. /\ Fresh' /\ FilesKnown' /\ RecsKnown' /\ ExclusiveMountpoint'
      /\ AuthMatchesRecord'
  <2>1. \A b \in Actors : pc'[b] \in StatePcs => pc[b] \in StatePcs
    BY <1>1, <1>4
  <2> QED BY <1>1, <2>1, Shrink
<1>7. FileOfRec'
  BY <1>1, <1>2, <1>4 DEF FileOfRec, SameMount, IInv
<1>8. Young'
  <2> SUFFICES ASSUME NEW t \in Servers, Owned(t), ~proc[file[t].pid].exec
               PROVE  /\ file[t].phase = "Starting"
                      /\ \E b \in Actors :
                           mlock[t] = b /\ rec[b].srv = t /\ Spawning(b)'
    BY <1>1 DEF Young
  <2>1. PICK b \in Actors : mlock[t] = b /\ rec[b].srv = t /\ Spawning(b)
    BY DEF Young, IInv
  <2>2. file[t].phase = "Starting"
    BY DEF Young, IInv
  <2>3. ASSUME b = a PROVE FALSE
    <3>1. Live(rec[a]) /\ file[t].pid = rec[a].pid
      BY <1>1, <1>2, <2>1, <2>3 DEF SameMount
    <3>2. StartMatches(rec[a])
      BY <1>2, <3>1 DEF Known
    <3> QED BY <1>1, <3>1, <3>2 DEF Verified, ArgvMatches
  <2> QED BY <1>4, <2>1, <2>2, <2>3
<1>9. Accounted'
  BY <1>1, <1>4 DEF Accounted, IInv
<1>10. SignalsVerified' /\ Marked'
  BY <1>1, <1>4 DEF SignalsVerified, Marked, IInv
<1> QED BY <1>3, <1>5, <1>6, <1>7, <1>8, <1>9, <1>10 DEF IInv

(* The recorded phase becomes Mounted, or the write fails.                 *)
LEMMA MountCommitInv ==
  ASSUME IInv, NEW a \in Actors, MountCommit(a)
  PROVE  IInv'
<1> DEFINE r == AsMounted(rec[a])
<1>1. PICK s \in Servers :
        /\ s = rec[a].srv /\ pc[a] = "m_commit"
        /\ file' \in {file, [file EXCEPT ![s] = r]}
        /\ \/ Return(a)
           \/ /\ pc' = [pc EXCEPT ![a] = "s_check"]
              /\ caller' = [caller EXCEPT ![a] = "not_ready"]
              /\ rec' = [rec EXCEPT ![a] = r]
              /\ UNCHANGED <<mlock, alock, mark>>
        /\ UNCHANGED <<auth, proc, nextInst, clock, abandoned>>
  <2>1. rec[a].srv \in Servers /\ r.srv = rec[a].srv
    BY RecFields DEF MountCommit, AsMounted, MountState, IInv
  <2> QED BY <2>1 DEF MountCommit, WriteState, StopFor, Goto
<1>2. /\ Recorded(s) /\ SameMount(file[s], rec[a]) /\ Known(rec[a])
      /\ rec[a] \in MountState /\ mlock[s] = a /\ rec[a].inst < nextInst
      /\ file[s].srv = s
  BY <1>1, RecFields DEF IInv, FileOfRec, RecsKnown, Holds, Fresh, FilesKnown
<1>3. /\ r \in MountState /\ r.srv = s /\ r.mp = rec[a].mp /\ r.pid = rec[a].pid
      /\ r.inst = rec[a].inst /\ r.start = rec[a].start
  BY <1>1, <1>2 DEF AsMounted, MountState
<1> HIDE DEF r
<1>4. TypeOK'
  <2>1. file' \in [Servers -> MountState \cup {NoRecord}]
    BY <1>1, <1>3 DEF IInv, TypeOK
  <2>2. abandoned' \subseteq Insts /\ auth' \in [Servers -> Insts \cup {0}]
    BY <1>1 DEF IInv, TypeOK
  <2>3. CASE Return(a)
    BY <1>1, <2>1, <2>2, <2>3, ReturnType DEF IInv
  <2>4. CASE /\ pc' = [pc EXCEPT ![a] = "s_check"]
             /\ caller' = [caller EXCEPT ![a] = "not_ready"]
             /\ rec' = [rec EXCEPT ![a] = r]
             /\ UNCHANGED <<mlock, alock, mark>>
    BY <1>1, <1>3, <2>1, <2>4 DEF IInv, TypeOK
  <2> QED BY <1>1, <2>3, <2>4
<1>5. /\ \A b \in Actors \ {a} :
           /\ pc'[b] = pc[b] /\ caller'[b] = caller[b]
           /\ rec'[b] = rec[b] /\ mark'[b] = mark[b]
           /\ pc[b] # "idle" => rec[b].srv \in Servers /\ rec[b].srv # s
      /\ \/ pc'[a] = "idle" /\ mark'[a] = 0
         \/ /\ pc'[a] = "s_check" /\ caller'[a] = "not_ready" /\ rec'[a] = r
            /\ mlock' = mlock /\ mark'[a] = mark[a]
      /\ \A t \in Servers : mlock[t] # a => mlock'[t] = mlock[t]
      /\ alock # a => alock' = alock
  <2>1. \A b \in Actors \ {a} :
          pc[b] # "idle" => rec[b].srv \in Servers /\ rec[b].srv # s
    BY <1>1, <1>2, RecFields DEF IInv, Holds
  <2>2. CASE Return(a)
    BY <2>1, <2>2, ReturnFacts DEF IInv
  <2>3. CASE /\ pc' = [pc EXCEPT ![a] = "s_check"]
             /\ caller' = [caller EXCEPT ![a] = "not_ready"]
             /\ rec' = [rec EXCEPT ![a] = r]
             /\ UNCHANGED <<mlock, alock, mark>>
    BY <2>1, <2>3 DEF IInv, TypeOK
  <2> QED BY <1>1, <2>2, <2>3
<1>6. /\ \A t \in Servers : t # s => file'[t] = file[t]
      /\ file'[s] \in {file[s], r} /\ Recorded(s)'
      /\ SameMount(file'[s], file[s]) /\ file'[s].srv = s
  <2>1. SameMount(r, file[s]) /\ SameMount(file[s], file[s]) /\ r # NoRecord
    BY <1>2, <1>3 DEF SameMount
  <2>2. \/ file' = file
        \/ /\ file'[s] = r
           /\ \A t \in Servers : t # s => file'[t] = file[t]
    BY <1>1 DEF IInv, TypeOK
  <2> QED BY <1>2, <1>3, <2>1, <2>2
<1>7. \A t \in Servers :
        /\ Recorded(t)' <=> Recorded(t)
        /\ Recorded(t) => SameMount(file'[t], file[t])
        /\ Owned(t)' <=> Owned(t)
  BY <1>1, <1>2, <1>6 DEF SameMount
<1>8. Holds' /\ AuthOfRec'
  <2>1. Holds'
    BY <1>1, <1>2, <1>3, <1>5 DEF Holds, IInv
  <2>2. AuthOfRec'
    BY <1>1, <1>5 DEF AuthOfRec, IInv
  <2> QED BY <2>1, <2>2
<1>9. Fresh'
  <2>1. \A p \in Pids : Alive(p)' => Alive(p) /\ proc'[p] = proc[p]
    BY <1>1
  <2>2. \A t \in Servers : Recorded(t)' => file'[t].inst < nextInst'
    BY <1>1, <1>7 DEF Fresh, SameMount, IInv
  <2>3. \A b \in Actors : pc'[b] \in StatePcs => rec'[b].inst < nextInst'
    BY <1>1, <1>2, <1>3, <1>5 DEF Fresh, SameMount, IInv
  <2> QED BY <1>1, <2>1, <2>2, <2>3 DEF Fresh, IInv
<1>10. FilesKnown' /\ RecsKnown'
  <2>1. ASSUME NEW t \in Servers, Recorded(t)'
        PROVE  file'[t].srv = t /\ Known(file[t])'
    <3>1. Known(file[t]) /\ file[t].srv = t
      BY <1>7, <2>1 DEF FilesKnown, IInv
    <3>2. SameMount(file'[t], file[t]) /\ file'[t].srv = t
      BY <1>6, <1>7, <2>1, <3>1
    <3> QED BY <1>1, <3>1, <3>2 DEF Known, StartMatches, SameMount
  <2>2. ASSUME NEW b \in Actors, pc'[b] \in StatePcs
        PROVE  Known(rec[b])'
    <3>1. Known(rec[b])
      BY <1>2, <1>5, <2>2 DEF RecsKnown, IInv
    <3>2. SameMount(rec'[b], rec[b]) /\ rec'[b].srv = rec[b].srv
      BY <1>1, <1>3, <1>5, <2>2 DEF SameMount
    <3> QED BY <1>1, <3>1, <3>2 DEF Known, StartMatches, SameMount
  <2> QED BY <2>1, <2>2 DEF FilesKnown, RecsKnown
<1>11. FileOfRec'
  <2>1. ASSUME NEW b \in Actors, b # a, pc[b] # "idle"
        PROVE  file'[rec[b].srv] = file[rec[b].srv]
    BY <1>5, <1>6, <2>1
  <2>2. SameMount(file'[s], rec[a])
    BY <1>2, <1>6 DEF SameMount
  <2> DEFINE OfRec(b) ==
        /\ pc[b] \in BeforeSave => ~Recorded(rec[b].srv)
        /\ pc[b] \in StatePcs \ BeforeSave =>
             \/ Recorded(rec[b].srv) /\ SameMount(file[rec[b].srv], rec[b])
             \/ /\ pc[b] \in StopPcs /\ caller[b] = "save_failed"
                /\ ~Recorded(rec[b].srv)
        /\ pc[b] \in {"m_snapshot", "m_save", "m_wait"} => rec[b].phase = "Starting"
        /\ pc[b] \in StopPcs => caller[b] \in Callers
        /\ pc[b] = "u_mp" => ~Live(rec[b])
  <2>3. ASSUME NEW b \in Actors, b # a  PROVE OfRec(b)'
    <3>1. OfRec(b)
      BY DEF FileOfRec, IInv
    <3>2. pc'[b] = pc[b] /\ caller'[b] = caller[b] /\ rec'[b] = rec[b] /\ proc' = proc
      BY <1>1, <1>5, <2>3
    <3> QED BY <2>1, <2>3, <3>1, <3>2 DEF SameMount
  <2>4. OfRec(a)'
    BY <1>1, <1>3, <1>5, <1>6, <2>2 DEF SameMount
  <2> QED BY <2>3, <2>4 DEF FileOfRec
<1>12. Young'
  <2> SUFFICES ASSUME NEW t \in Servers, Owned(t)', ~proc[file'[t].pid].exec
               PROVE  /\ file'[t].phase = "Starting"
                      /\ \E b \in Actors :
                           mlock'[t] = b /\ rec'[b].srv = t /\ Spawning(b)'
    BY <1>1 DEF Young
  <2>1. Owned(t) /\ ~proc[file[t].pid].exec
    BY <1>7 DEF SameMount
  <2>2. PICK b \in Actors : mlock[t] = b /\ rec[b].srv = t /\ Spawning(b)
    BY <2>1 DEF Young, IInv
  <2>3. file[t].phase = "Starting"
    BY <2>1 DEF Young, IInv
  <2>4. b # a /\ t # s
    BY <1>1, <1>2, <2>2
  <2> QED BY <1>5, <1>6, <2>2, <2>3, <2>4
<1>13. Cleared' /\ ExclusiveMountpoint' /\ AuthMatchesRecord'
  BY <1>1, <1>5, <1>7 DEF Cleared, ExclusiveMountpoint, AuthMatchesRecord,
    SameMount, IInv
<1>14. Accounted'
  <2> SUFFICES ASSUME NEW p \in Pids, Alive(p), proc[p].cmd # Foreign,
                      proc[p].inst \notin abandoned
               PROVE  LET t == proc[p].cmd[1] IN
                      \/ /\ Recorded(t)' /\ file'[t].inst = proc[p].inst
                         /\ file'[t].pid = p
                      \/ \E b \in Actors :
                           /\ InFlight(b)' /\ rec'[b].inst = proc[p].inst
                           /\ rec'[b].pid = p /\ rec'[b].srv = t
    BY <1>1 DEF Accounted
  <2> DEFINE t == proc[p].cmd[1]
  <2>1. t \in Servers
    BY ProcFields DEF IInv
  <2>2. CASE Recorded(t) /\ file[t].inst = proc[p].inst /\ file[t].pid = p
    BY <1>1, <1>7, <2>1, <2>2 DEF SameMount
  <2>3. CASE \E b \in Actors : /\ InFlight(b) /\ rec[b].inst = proc[p].inst
                               /\ rec[b].pid = p /\ rec[b].srv = t
    BY <1>1, <1>5, <2>3
  <2> QED BY <2>2, <2>3 DEF Accounted, IInv
<1>15. SignalsVerified' /\ Marked'
  <2>1. SignalsVerified'
    BY <1>1, <1>5 DEF SignalsVerified, IInv
  <2>2. Marked'
    BY <1>1, <1>5 DEF Marked, TypeOK, IInv
  <2> QED BY <2>1, <2>2
<1> QED BY <1>4, <1>8, <1>9, <1>10, <1>11, <1>12, <1>13, <1>14, <1>15 DEF IInv

-----------------------------------------------------------------------------
(* Crashes and the operating system                                        *)

LEMMA CrashInv ==
  ASSUME IInv, NEW a \in Actors, Crash(a)
  PROVE  IInv'
<1>1. PICK s \in Servers : s = rec[a].srv
  BY RecFields DEF Crash, IInv
<1>2. /\ pc[a] # "idle" /\ Return(a)
      /\ UNCHANGED <<file, auth, proc, nextInst, clock>>
  BY DEF Crash
<1>3. CASE /\ \/ pc[a] \in {"m_snapshot", "m_save"}
              \/ pc[a] \in StopPcs /\ caller[a] = "save_failed"
              \/ pc[a] = "m_wait" /\ Alive(rec[a].pid) /\ ~proc[rec[a].pid].exec
           /\ Abandon(rec[a])
  <2>1. rec[a].inst \in Insts
    BY <1>3 DEF IInv, TypeOK, MountState
  <2>2. /\ Live(rec[a]) => rec[a].inst \in abandoned'
        /\ abandoned \subseteq abandoned' /\ abandoned' \subseteq Insts
    BY <1>3, <2>1 DEF Abandon, IInv, TypeOK
  <2> QED BY <1>1, <1>2, <2>2, ReturnKeeps
<1>4. CASE /\ ~ \/ pc[a] \in {"m_snapshot", "m_save"}
                \/ pc[a] \in StopPcs /\ caller[a] = "save_failed"
                \/ pc[a] = "m_wait" /\ Alive(rec[a].pid) /\ ~proc[rec[a].pid].exec
           /\ UNCHANGED abandoned
  <2>1. abandoned' \subseteq Insts
    BY <1>4 DEF IInv, TypeOK
  <2> QED BY <1>1, <1>2, <1>4, <2>1, ReturnKeeps
<1> QED BY <1>3, <1>4 DEF Crash

LEMMA ExitInv ==
  ASSUME IInv, NEW pid \in Pids, Exit(pid)
  PROVE  IInv'
<1>1. /\ proc' = [proc EXCEPT ![pid] = NoProcess]
      /\ UNCHANGED <<file, auth, mlock, alock, pc, caller, rec, mark, nextInst,
                     clock, abandoned>>
  BY DEF Exit
<1>2. \A p \in Pids : proc'[p] \in {proc[p], NoProcess}
  BY <1>1 DEF IInv, TypeOK
<1>3. TypeOK'
  BY <1>1 DEF IInv, TypeOK
<1>4. /\ Fresh' /\ FilesKnown' /\ RecsKnown'
      /\ ExclusiveMountpoint' /\ AuthMatchesRecord'
      /\ \A s \in Servers : Owned(s)' =>
           Owned(s) /\ proc'[file[s].pid] = proc[file[s].pid]
  BY <1>1, <1>2, Shrink
<1>5. Holds' /\ AuthOfRec' /\ Marked'
  BY <1>1 DEF Holds, AuthOfRec, Marked, IInv
<1>6. FileOfRec' /\ SignalsVerified'
  BY <1>1, <1>2, RecFields DEF FileOfRec, SameMount, SignalsVerified, IInv
<1>7. Young' /\ Cleared'
  BY <1>1, <1>4 DEF Young, Cleared, IInv
<1>8. Accounted'
  BY <1>1, <1>2 DEF Accounted, IInv
<1> QED BY <1>3, <1>4, <1>5, <1>6, <1>7, <1>8 DEF IInv

LEMMA ExecInv ==
  ASSUME IInv, NEW pid \in Pids, Exec(pid)
  PROVE  IInv'
<1> DEFINE new == [proc[pid] EXCEPT !.exec = TRUE]
<1>1. /\ Alive(pid) /\ proc' = [proc EXCEPT ![pid] = new]
      /\ UNCHANGED <<file, auth, mlock, alock, pc, caller, rec, mark, nextInst,
                     clock, abandoned>>
  BY DEF Exec
<1>2. /\ new \in Process /\ new.inst = proc[pid].inst /\ new.cmd = proc[pid].cmd
      /\ new.start = proc[pid].start /\ new.exec
  BY <1>1, ProcFields DEF IInv, Process
<1> HIDE DEF new
<1>3. TypeOK'
  BY <1>1, <1>2 DEF IInv, TypeOK
<1>4. \A p \in Pids :
        /\ Alive(p)' <=> Alive(p)
        /\ proc'[p].inst = proc[p].inst /\ proc'[p].cmd = proc[p].cmd
        /\ proc'[p].start = proc[p].start /\ (proc[p].exec => proc'[p].exec)
  BY <1>1, <1>2 DEF IInv, TypeOK
<1>5. Holds' /\ AuthOfRec' /\ Marked' /\ Fresh'
  BY <1>1, <1>4 DEF Holds, AuthOfRec, Marked, Fresh, IInv
<1>6. FilesKnown' /\ RecsKnown'
  <2>1. ASSUME NEW t \in Servers, Recorded(t)
        PROVE  file[t].srv = t /\ Known(file[t])'
    <3>1. file[t].pid \in Pids /\ file[t].srv = t /\ Known(file[t])
      BY <2>1, FileFields DEF FilesKnown, IInv
    <3> QED BY <1>1, <1>4, <3>1 DEF Known, StartMatches
  <2>2. ASSUME NEW b \in Actors, pc[b] \in StatePcs
        PROVE  Known(rec[b])'
    <3>1. rec[b].pid \in Pids /\ Known(rec[b])
      BY <2>2, RecFields DEF RecsKnown, IInv
    <3> QED BY <1>1, <1>4, <3>1 DEF Known, StartMatches
  <2> QED BY <1>1, <2>1, <2>2 DEF FilesKnown, RecsKnown
<1>7. \A t \in Servers : Owned(t)' <=> Owned(t)
  BY <1>1, <1>4, FileFields DEF IInv
<1>8. FileOfRec' /\ SignalsVerified'
  <2>1. FileOfRec'
    BY <1>1, <1>4, RecFields DEF FileOfRec, SameMount, IInv
  <2>2. SignalsVerified'
    BY <1>1, <1>4, RecFields DEF SignalsVerified, IInv
  <2> QED BY <2>1, <2>2
<1>9. Young'
  BY <1>1, <1>4, <1>7, FileFields DEF Young, IInv
<1>10. Cleared' /\ ExclusiveMountpoint' /\ AuthMatchesRecord'
  BY <1>1, <1>7 DEF Cleared, ExclusiveMountpoint, AuthMatchesRecord, IInv
<1>11. Accounted'
  BY <1>1, <1>4 DEF Accounted, IInv
<1> QED BY <1>3, <1>5, <1>6, <1>8, <1>9, <1>10, <1>11 DEF IInv

\* Every other variable of the invariant is unchanged.
LEMMA ClockInv ==
  ASSUME IInv, TypeOK',
         UNCHANGED <<file, auth, proc, mlock, alock, pc, caller, rec, mark,
                     nextInst, abandoned>>
  PROVE  IInv'
<1>1. Holds' /\ Fresh' /\ AuthOfRec' /\ Marked'
  BY DEF Holds, Fresh, AuthOfRec, Marked, IInv
<1>2. FilesKnown' /\ RecsKnown'
  <2>1. FilesKnown'
    BY DEF FilesKnown, Known, StartMatches, IInv
  <2>2. RecsKnown'
    BY DEF RecsKnown, Known, StartMatches, IInv
  <2> QED BY <2>1, <2>2
<1>3. FileOfRec' /\ Young' /\ Cleared'
  <2>1. FileOfRec'
    BY DEF FileOfRec, SameMount, IInv
  <2>2. Young'
    BY DEF Young, IInv
  <2>3. Cleared'
    BY DEF Cleared, IInv
  <2> QED BY <2>1, <2>2, <2>3
<1>4. Accounted' /\ ExclusiveMountpoint' /\ SignalsVerified' /\ AuthMatchesRecord'
  <2>1. Accounted'
    BY DEF Accounted, IInv
  <2>2. ExclusiveMountpoint' /\ SignalsVerified' /\ AuthMatchesRecord'
    BY DEF ExclusiveMountpoint, SignalsVerified, AuthMatchesRecord, IInv
  <2> QED BY <2>1, <2>2
<1> QED BY <1>1, <1>2, <1>3, <1>4 DEF IInv

-----------------------------------------------------------------------------
(* The theorems                                                            *)

LEMMA InitInv == Init => IInv
<1> SUFFICES ASSUME Init PROVE IInv
  OBVIOUS
<1>1. TypeOK
  BY DEF Init, TypeOK, Insts, Starts
<1> QED
  BY <1>1 DEF Init, IInv, Holds, Fresh, FilesKnown, RecsKnown, FileOfRec, Young,
    Cleared, AuthOfRec, Accounted, Marked, ExclusiveMountpoint, SignalsVerified,
    AuthMatchesRecord

LEMMA NextInv == IInv /\ [Next]_vars => IInv'
<1> SUFFICES ASSUME IInv, [Next]_vars PROVE IInv'
  OBVIOUS
<1>1. ASSUME NEW a \in Actors, Begin(a) PROVE IInv'
  BY <1>1, MountInv, UnmountInv, CleanupStaleStateInv DEF Begin
<1>2. ASSUME NEW a \in Actors, Step(a) PROVE IInv'
  <2>1. CASE \/ MountCheck(a) \/ MountAllocate(a) \/ MountReserve(a)
             \/ MountSpawn(a) \/ MountSnapshot(a) \/ MountSave(a)
             \/ MountWait(a) \/ MountCommit(a)
    BY <2>1, MountCheckInv, MountAllocateInv, MountReserveInv, MountSpawnInv,
      MountSnapshotInv, MountSaveInv, MountWaitInv, MountCommitInv
  <2>2. CASE \/ StopCheck(a) \/ StopVerify(a) \/ StopSignal(a)
             \/ StopRecheck(a) \/ StopFinal(a)
    BY <2>2, StopCheckInv, StopVerifyInv, StopSignalInv, StopRecheckInv,
      StopFinalInv
  <2>3. CASE \/ UnmountCheck(a) \/ UnmountWait(a) \/ UnmountExit(a)
             \/ UnmountMountpoint(a) \/ CleanupCheck(a)
    BY <2>3, UnmountCheckInv, UnmountWaitInv, UnmountExitInv,
      UnmountMountpointInv, CleanupCheckInv
  <2> QED BY <1>2, <2>1, <2>2, <2>3 DEF Step
<1>3. ASSUME NEW a \in Actors, Crash(a) PROVE IInv'
  BY <1>3, CrashInv
<1>4. ASSUME NEW pid \in Pids, System(pid) PROVE IInv'
  BY <1>4, ExecInv, ExitInv, StartForeignInv DEF System
<1>5. CASE Tick
  <2>1. TypeOK'
    BY <1>5 DEF Tick, Starts, IInv, TypeOK
  <2> QED BY <1>5, <2>1, ClockInv DEF Tick
<1>6. CASE UNCHANGED vars
  <2>1. TypeOK'
    BY <1>6 DEF vars, IInv, TypeOK
  <2> QED BY <1>6, <2>1, ClockInv DEF vars
<1> QED BY <1>1, <1>2, <1>3, <1>4, <1>5, <1>6 DEF Next

LEMMA Invariance == Spec => []IInv
BY InitInv, NextInv, PTL DEF Spec

\* The variables of the runtime keep their types.
THEOREM TypeCorrect == Spec => []TypeOK
<1>1. IInv => TypeOK
  BY DEF IInv
<1> QED BY <1>1, Invariance, PTL

\* Two connections never both own a running mount on one mountpoint: neither
\* crashes nor reused PIDs get past the allocation lock and the reservation.
THEOREM Exclusive == Spec => []ExclusiveMountpoint
<1>1. IInv => ExclusiveMountpoint
  BY DEF IInv
<1> QED BY <1>1, Invariance, PTL

\* Every rclone process that no crash or failed write gave up is recorded, or
\* is about to be by the actor that spawned it.
THEOREM NothingLost == Spec => []NoUnrecordedProcess
<1>1. IInv => NoUnrecordedProcess
  BY DEF IInv, Accounted, NoUnrecordedProcess
<1> QED BY <1>1, Invariance, PTL

\* A connection never runs two rclone processes that nobody gave up: two of
\* them would be the process of one record, of one actor that holds the lock,
\* or of a record and of an actor that found none.
THEOREM OneProcess == Spec => []SingleInstance
<1>1. ASSUME IInv PROVE SingleInstance
  <2> SUFFICES ASSUME NEW p \in Pids, NEW q \in Pids, Alive(p), Alive(q),
                      proc[p].cmd # Foreign, proc[q].cmd # Foreign,
                      proc[p].cmd[1] = proc[q].cmd[1],
                      proc[p].inst \notin abandoned, proc[q].inst \notin abandoned
               PROVE  p = q
    BY DEF SingleInstance
  <2>1. PICK s \in Servers : s = proc[p].cmd[1]
    BY <1>1, ProcFields DEF IInv
  <2> DEFINE InFile(x) == Recorded(s) /\ file[s].inst = proc[x].inst /\ file[s].pid = x
             With(x, b) == /\ InFlight(b) /\ rec[b].inst = proc[x].inst
                           /\ rec[b].pid = x /\ rec[b].srv = s
  <2>2. InFile(p) \/ \E b \in Actors : With(p, b)
    BY <1>1, <2>1 DEF IInv, Accounted
  <2>3. InFile(q) \/ \E b \in Actors : With(q, b)
    BY <1>1, <2>1 DEF IInv, Accounted
  <2>4. \A b, c \in Actors : With(p, b) /\ With(q, c) => p = q
    BY <1>1 DEF IInv, Holds
  <2>5. ASSUME NEW x \in {p, q}, NEW y \in {p, q}, NEW b \in Actors,
               InFile(x), With(y, b)
        PROVE  x = y
    <3>1. Recorded(s) /\ rec[b].srv = s /\ InFlight(b)
      BY <2>5
    <3>2. SameMount(file[s], rec[b])
      BY <1>1, <3>1 DEF IInv, FileOfRec
    <3> QED BY <2>5, <3>2 DEF SameMount
  <2> QED BY <2>2, <2>3, <2>4, <2>5
<1> QED BY <1>1, Invariance, PTL

\* Whatever signal_verified signals is the recorded instance, or took the PID
\* after the check made for that very signal.
THEOREM Verification == Spec => []SignalsVerified
<1>1. IInv => SignalsVerified
  BY DEF IInv
<1> QED BY <1>1, Invariance, PTL

\* The RC credential of a running recorded mount is the one on disk.
THEOREM Credential == Spec => []AuthMatchesRecord
<1>1. IInv => AuthMatchesRecord
  BY DEF IInv
<1> QED BY <1>1, Invariance, PTL
=============================================================================
