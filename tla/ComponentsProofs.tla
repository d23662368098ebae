--------------------------- MODULE ComponentsProofs ---------------------------
(***************************************************************************)
(* What MCComponents checks of StartUp, ProfileMigration, RcloneBinary and *)
(* MountComponent, proved for any number of connections, files, processes  *)
(* and programs, and for any bounds.  The parts share no state, so a step  *)
(* of one is a step of its module and leaves the others out (OfOnePart);   *)
(* each has an inductive invariant of its own.                             *)
(***************************************************************************)
EXTENDS MCComponents, TLAPS

\* A behaviour stays with its part, and a step of it is one of its module.
LEMMA OfOnePart ==
  ASSUME [AllNext]_allVars
  PROVE  /\ part' = part
         /\ part = "start" => [S!Next]_(S!vars)
         /\ part = "profile" => [P!Next]_(P!vars)
         /\ part = "rclone" => [B!Next]_(B!vars)
         /\ part = "component" => [G!Next]_(G!vars)
<1>1. CASE AllNext
  BY <1>1 DEF AllNext, Only
<1>2. CASE UNCHANGED allVars
  BY <1>2 DEF allVars, startUp, profileMigration, rcloneBinary, mountComponent,
              S!vars, P!vars, B!vars, G!vars
<1>. QED  BY <1>1, <1>2

\* Each part begins where its module begins.
LEMMA BeginsAsPart ==
  ASSUME AllInit
  PROVE  /\ part = "start" => S!Init
         /\ part = "profile" => P!Init
         /\ part = "rclone" => B!Init
         /\ part = "component" => G!Init
BY DEF AllInit

-----------------------------------------------------------------------------
(* StartUp                                                                   *)

\* In the part of the start-up its recovery loses no settings and tells the truth about
\* them, and the next login starts what was selected: StartUpProofs, where it is run.
THEOREM StartAlwaysRecovers == AllSpec => []StartRecovers
<1>. DEFINE Inv == part = "start" => S!IInv
<1>1. AllInit => Inv
  BY BeginsAsPart, S!InitHolds, PartsAssumption
<1>2. Inv /\ [AllNext]_allVars => Inv'
  <2>. SUFFICES ASSUME Inv, [AllNext]_allVars, part' = "start"
                PROVE  S!IInv'
    OBVIOUS
  <2>1. S!IInv /\ [S!Next]_(S!vars)
    BY OfOnePart
  <2>. QED  BY <2>1, S!StepKeeps, PartsAssumption
<1>3. Inv => StartRecovers
  BY DEF StartRecovers, S!IInv
<1>. HIDE DEF Inv
<1>. QED  BY <1>1, <1>2, <1>3, PTL DEF AllSpec

-----------------------------------------------------------------------------
(* ProfileMigration                                                          *)

\* The lock of the old profile is taken before its processes are looked for again, and
\* held until the move is over; so neither the old release nor a mount of it begins then.
Alone ==
  /\ P!TypeOK
  /\ p_phase \in {"inspect", "merge"} => p_mutex = "new"
  /\ P!NotInUse

\* The file that is moved next is one of the files.
LEMMA NextFile ==
  ASSUME P!TypeOK, p_moved < Len(Order)
  PROVE  Order[p_moved + 1] \in P!Files /\ p_moved + 1 \in 0 .. Len(Order)
<1>1. Len(Order) \in Nat /\ DOMAIN Order = 1 .. Len(Order)
  BY PartsAssumption DEF P!Assumption
<1>2. p_moved \in 0 .. Len(Order)
  BY DEF P!TypeOK
<1>. QED  BY <1>1, <1>2 DEF P!Files

\* Every step of the move, of the old release and of its mounts keeps it.
LEMMA AloneKept ==
  ASSUME Alone, [P!Next]_(P!vars)
  PROVE  Alone'
<1>0. 0 \in 0 .. Len(Order)
  BY PartsAssumption DEF P!Assumption
<1>. USE DEF Alone, P!NotInUse, P!Profile, P!Stopped, P!Spend
<1>1. CASE P!OldStarts \/ P!OldMounts \/ P!OldEnds \/ P!MountEnds
  BY <1>1 DEF P!OldStarts, P!OldMounts, P!OldEnds, P!MountEnds, P!TypeOK
<1>2. ASSUME NEW f \in P!Files, P!OldWrites(f)  PROVE Alone'
  BY <1>2 DEF P!OldWrites, P!TypeOK
<1>3. CASE P!Begin \/ P!Guard \/ P!Inspect
  BY <1>0, <1>3 DEF P!Begin, P!Guard, P!Inspect, P!NoProcess, P!TypeOK
<1>4. CASE P!Merge
  <2>1. Order[p_moved + 1] \in P!Files /\ p_moved + 1 \in 0 .. Len(Order)
    BY <1>4, NextFile DEF P!Merge
  <2>2. p_there' \in [P!Files -> {Nil, 1, 3}] /\ p_here' \in [P!Files -> {Nil, 1, 2, 3}]
    BY <1>4, <2>1 DEF P!Merge, P!TypeOK
  <2>3. p_moved' \in 0 .. Len(Order) /\ p_phase' \in {"merge", "off"}
    BY <1>0, <1>4, <2>1 DEF P!Merge, P!TypeOK
  <2>4. /\ p_mutex' \in {"free", "old", "new"} /\ (p_phase' = "merge" => p_mutex' = p_mutex)
        /\ p_mounted' = p_mounted /\ p_root' = p_root
    BY <1>4 DEF P!Merge, P!TypeOK
  <2>. QED  BY <1>4, <2>2, <2>3, <2>4 DEF P!TypeOK, P!Merge
<1>5. CASE P!Rebase \/ P!Stop
  BY <1>0, <1>5 DEF P!Rebase, P!Stop, P!TypeOK
<1>6. CASE UNCHANGED P!vars
  BY <1>6 DEF P!vars, P!TypeOK
<1>. QED  BY <1>1, <1>2, <1>3, <1>4, <1>5, <1>6 DEF P!Next

\* No step of them takes a version of a file away.
LEMMA NothingTaken ==
  ASSUME Alone, [P!Next]_(P!vars)
  PROVE  P!NothingReplaced
<1>. USE DEF P!Profile, P!NothingReplaced
<1>1. ASSUME NEW f \in P!Files, P!OldWrites(f)  PROVE P!NothingReplaced
  BY <1>1 DEF P!OldWrites, Alone, P!TypeOK
<1>2. CASE P!Merge
  <2>1. Order[p_moved + 1] \in P!Files
    BY <1>2, NextFile DEF P!Merge, Alone
  <2>. QED  BY <1>2, <2>1 DEF P!Merge, P!NotThere, Alone, P!TypeOK
<1>3. CASE UNCHANGED <<p_there, p_here>>
  BY <1>3
<1>4. QED
  BY <1>1, <1>2, <1>3
     DEF P!Next, P!OldStarts, P!OldMounts, P!OldEnds, P!MountEnds, P!Begin, P!Guard,
         P!Inspect, P!Rebase, P!Stop, P!vars

\* A profile is moved only while neither the old release nor a process of it runs, and no
\* step, of the move or of the old release started again, loses a version of a file.
THEOREM ProfileMovedWhole == AllSpec => MovedWhole
<1>. DEFINE Inv == part = "profile" => Alone
<1>1. AllInit => Inv
  <2>. SUFFICES ASSUME P!Init  PROVE Alone
    BY BeginsAsPart
  <2>1. 0 \in 0 .. Len(Order)
    BY PartsAssumption DEF P!Assumption
  <2>. QED  BY <2>1 DEF P!Init, Alone, P!TypeOK, P!NotInUse
<1>2. Inv /\ [AllNext]_allVars => Inv'
  BY OfOnePart, AloneKept
<1>3. Inv /\ [AllNext]_allVars => (part = "profile" => P!NothingReplaced)
  BY OfOnePart, NothingTaken
<1>4. Inv => (part = "profile" => P!NotInUse)
  BY DEF Alone
<1>. HIDE DEF Inv
<1>. QED  BY <1>1, <1>2, <1>3, <1>4, PTL DEF AllSpec, MovedWhole

-----------------------------------------------------------------------------
(* RcloneBinary                                                              *)

\* Steps under the lock of the directory, and steps of a search for a known digest.
Inside == {"check", "remove", "write", "verify"}
Searching == Inside \cup {"lock"}

\* What is left of the bounds; the damages are counted.
Counted ==
  /\ b_left \in [faults : Nat, crashes : Nat, damages : Nat, updates : Nat]
  /\ b_left.damages <= MaxChanges

Searches ==
  [step : {"idle", "lock", "check", "remove", "write", "verify", "found", "failed"},
   digest : Digests \cup {Nil}, temporary : B!Contents \cup {Nil},
   from : {"none", "bundle", "embedded", "managed", "elsewhere"}]

\* A process inside holds the lock and knows the digest it is about; what it removes is
\* not the program of that digest, so nobody has found it; and what it found is there.
Sound(p) ==
  /\ b_proc[p].step \in Inside => b_lock = p
  /\ b_proc[p].step \in Searching => b_proc[p].digest \in Digests
  /\ b_proc[p].step = "remove" => b_managed[b_proc[p].digest] # b_proc[p].digest
  /\ b_proc[p].step = "found" /\ b_proc[p].digest # Nil =>
       b_managed[b_proc[p].digest] = b_proc[p].digest

Managed ==
  /\ b_bundle \in B!Bundles
  /\ b_managed \in [Digests -> B!Contents \cup {Nil}]
  /\ b_lock \in Procs \cup {Nil}
  /\ b_proc \in [Procs -> Searches]
  /\ Counted
  /\ \A p \in Procs : Sound(p)
  /\ B!NamesTellTruth

\* The steps of a process.
OwnStep(p) ==
  \/ B!Resolve(p) \/ B!Lock(p) \/ B!Check(p) \/ B!Remove(p) \/ B!Write(p) \/ B!Rename(p)
  \/ B!Again(p) \/ B!Crash(p)

\* A step of a process has one of these effects on the files: none, its file removed, or
\* its file written whole; and what it uses up is not a damage.
LEMMA OwnEffect ==
  ASSUME Managed, NEW p \in Procs, OwnStep(p)
  PROVE  /\ b_bundle' = b_bundle
         /\ b_left' = b_left
              \/ \E w \in {"faults", "crashes"} :
                   b_left[w] > 0 /\ b_left' = [b_left EXCEPT ![w] = @ - 1]
         /\ \/ b_managed' = b_managed
            \/ /\ b_proc[p].step = "remove"
               /\ b_managed' = [b_managed EXCEPT ![b_proc[p].digest] = Nil]
            \/ /\ b_proc[p].step = "verify"
               /\ b_managed' = [b_managed EXCEPT ![b_proc[p].digest] = b_proc[p].digest]
         /\ \/ b_lock' = b_lock
            \/ b_lock = Nil /\ b_lock' = p
            \/ b_lock = p /\ b_lock' = Nil
<1>. USE DEF OwnStep, B!Use, B!Release
<1>1. b_bundle' = b_bundle
  BY DEF B!Resolve, B!Lock, B!Check, B!Remove, B!Write, B!Rename, B!Again, B!Crash
<1>2. b_left' = b_left
        \/ \E w \in {"faults", "crashes"} :
             b_left[w] > 0 /\ b_left' = [b_left EXCEPT ![w] = @ - 1]
  BY DEF B!Resolve, B!Lock, B!Check, B!Remove, B!Write, B!Rename, B!Again, B!Crash
<1>3. \/ b_managed' = b_managed
      \/ /\ b_proc[p].step = "remove"
         /\ b_managed' = [b_managed EXCEPT ![b_proc[p].digest] = Nil]
      \/ /\ b_proc[p].step = "verify"
         /\ b_managed' = [b_managed EXCEPT ![b_proc[p].digest] = b_proc[p].digest]
  BY DEF B!Resolve, B!Lock, B!Check, B!Remove, B!Write, B!Rename, B!Again, B!Crash, B!Exact
<1>4. b_lock' = b_lock \/ (b_lock = Nil /\ b_lock' = p) \/ (b_lock = p /\ b_lock' = Nil)
  BY DEF B!Resolve, B!Lock, B!Check, B!Remove, B!Write, B!Rename, B!Again, B!Crash, B!Free
<1>. QED  BY <1>1, <1>2, <1>3, <1>4

\* A step of a process changes its own search only, and leaves it sound.
LEMMA OwnSearch ==
  ASSUME Managed, NEW p \in Procs, OwnStep(p)
  PROVE  /\ \E r \in Searches : b_proc' = [b_proc EXCEPT ![p] = r]
         /\ Sound(p)'
<1>. USE DEF Inside, Searching
<1>0. /\ b_proc \in [Procs -> Searches]
      /\ b_proc[p] \in Searches
      /\ Sound(p)
      /\ b_managed \in [Digests -> B!Contents \cup {Nil}]
      /\ b_bundle \in B!Bundles
  BY DEF Managed
<1>1. ASSUME NEW r, r \in Searches, B!Become(p, r)
      PROVE  b_proc'[p] = r /\ \E x \in Searches : b_proc' = [b_proc EXCEPT ![p] = x]
  BY <1>0, <1>1 DEF B!Become
<1>2. ASSUME B!Fail(p)
      PROVE  (\E r \in Searches : b_proc' = [b_proc EXCEPT ![p] = r]) /\ Sound(p)'
  <2>. DEFINE r == [step |-> "failed", digest |-> Nil, temporary |-> Nil, from |-> "none"]
  <2>1. r \in Searches /\ B!Become(p, r)
    BY <1>2 DEF Searches, B!Fail, B!Idle
  <2>2. b_proc'[p] = r /\ \E x \in Searches : b_proc' = [b_proc EXCEPT ![p] = x]
    BY <2>1, <1>1
  <2>3. b_proc'[p].step = "failed"
    BY <2>2
  <2>. QED  BY <2>2, <2>3 DEF Sound
<1>3. ASSUME NEW d \in Digests \cup {Nil},
             NEW from \in {"none", "bundle", "embedded", "managed", "elsewhere"},
             B!Found(p, d, from), d = Nil \/ b_managed'[d] = d
      PROVE  (\E r \in Searches : b_proc' = [b_proc EXCEPT ![p] = r]) /\ Sound(p)'
  <2>. DEFINE r == [B!Idle EXCEPT !.step = "found", !.digest = d, !.from = from]
  <2>1. r \in Searches /\ r.step = "found" /\ r.digest = d
    BY <1>3 DEF Searches, B!Idle
  <2>2. B!Become(p, r)
    BY <1>3 DEF B!Found
  <2>. HIDE DEF r
  <2>3. b_proc'[p] = r /\ \E x \in Searches : b_proc' = [b_proc EXCEPT ![p] = x]
    BY <2>1, <2>2, <1>1
  <2>. QED  BY <1>3, <2>1, <2>3 DEF Sound
<1>4. ASSUME NEW d \in Digests, NEW from \in {"bundle", "embedded"},
             B!Become(p, [B!Idle EXCEPT !.step = "lock", !.digest = d, !.from = from])
      PROVE  (\E r \in Searches : b_proc' = [b_proc EXCEPT ![p] = r]) /\ Sound(p)'
  <2>. DEFINE r == [B!Idle EXCEPT !.step = "lock", !.digest = d, !.from = from]
  <2>1. r \in Searches /\ r.step = "lock" /\ r.digest = d
    BY DEF Searches, B!Idle
  <2>2. B!Become(p, r)
    BY <1>4
  <2>. HIDE DEF r
  <2>3. b_proc'[p] = r /\ \E x \in Searches : b_proc' = [b_proc EXCEPT ![p] = x]
    BY <2>1, <2>2, <1>1
  <2>. QED  BY <2>1, <2>3 DEF Sound
<1>5. ASSUME NEW step \in Inside, NEW t \in B!Contents \cup {Nil},
             B!Become(p, [b_proc[p] EXCEPT !.step = step, !.temporary = t]),
             b_proc[p].step \in Searching, b_lock' = p,
             step = "remove" => b_managed'[b_proc[p].digest] # b_proc[p].digest
      PROVE  (\E r \in Searches : b_proc' = [b_proc EXCEPT ![p] = r]) /\ Sound(p)'
  <2>. DEFINE r == [b_proc[p] EXCEPT !.step = step, !.temporary = t]
  <2>1. r \in Searches /\ r.step = step /\ r.digest = b_proc[p].digest
    BY <1>0, <1>5 DEF Searches
  <2>2. b_proc'[p] = r /\ \E x \in Searches : b_proc' = [b_proc EXCEPT ![p] = x]
    BY <1>5, <2>1, <1>1
  <2>. QED  BY <1>0, <1>5, <2>1, <2>2 DEF Sound
<1>6. CASE B!Resolve(p)
  <2>1. CASE \E d \in Digests : B!Become(p, [B!Idle EXCEPT !.step = "lock", !.digest = d,
                                                           !.from = "bundle"])
    BY <2>1, <1>4
  <2>2. CASE \E d \in Digests : B!Become(p, [B!Idle EXCEPT !.step = "lock", !.digest = d,
                                                           !.from = "embedded"])
    BY <2>2, <1>4
  <2>3. CASE B!Found(p, Nil, "elsewhere")
    BY <2>3, <1>3
  <2>4. CASE \E d \in B!Valid : B!Found(p, d, "managed")
    <3>1. b_managed' = b_managed
      BY <1>6 DEF B!Resolve
    <3>. QED  BY <2>4, <3>1, <1>3 DEF B!Valid
  <2>5. CASE B!Fail(p)
    BY <2>5, <1>2
  <2>6. B!Verified => b_bundle.file \in Digests
    BY <1>0 DEF B!Verified, B!Bundles
  <2>7. Embedded # Nil => Embedded \in Digests
    BY PartsAssumption DEF B!Assumption
  <2>. QED  BY <1>6, <2>1, <2>2, <2>3, <2>4, <2>5, <2>6, <2>7 DEF B!Resolve
<1>7. CASE B!Lock(p)
  <2>1. CASE B!Become(p, [b_proc[p] EXCEPT !.step = "check"]) /\ b_lock' = p
    <3>1. [b_proc[p] EXCEPT !.step = "check"]
            = [b_proc[p] EXCEPT !.step = "check", !.temporary = b_proc[p].temporary]
      BY <1>0 DEF Searches
    <3>. QED  BY <1>0, <1>5, <1>7, <2>1, <3>1 DEF B!Lock, Searches
  <2>. QED  BY <1>2, <1>7, <2>1 DEF B!Lock
<1>8. CASE B!Check(p)
  <2>1. CASE B!Found(p, b_proc[p].digest, b_proc[p].from)
               /\ b_managed[b_proc[p].digest] = b_proc[p].digest /\ b_managed' = b_managed
    BY <1>0, <1>3, <1>8, <2>1 DEF B!Check, Searches, Sound
  <2>2. CASE /\ B!Become(p, [b_proc[p] EXCEPT !.step = "remove"]) /\ b_lock' = b_lock
             /\ b_managed[b_proc[p].digest] # b_proc[p].digest /\ b_managed' = b_managed
    <3>1. [b_proc[p] EXCEPT !.step = "remove"]
            = [b_proc[p] EXCEPT !.step = "remove", !.temporary = b_proc[p].temporary]
      BY <1>0 DEF Searches
    <3>. QED  BY <1>0, <1>5, <1>8, <2>2, <3>1 DEF B!Check, Searches, Sound
  <2>. QED  BY <1>2, <1>8, <2>1, <2>2 DEF B!Check
<1>9. CASE B!Remove(p)
  <2>1. CASE B!Become(p, [b_proc[p] EXCEPT !.step = "write"]) /\ b_lock' = b_lock
    <3>1. [b_proc[p] EXCEPT !.step = "write"]
            = [b_proc[p] EXCEPT !.step = "write", !.temporary = b_proc[p].temporary]
      BY <1>0 DEF Searches
    <3>. QED  BY <1>0, <1>5, <1>9, <2>1, <3>1 DEF B!Remove, Searches, Sound
  <2>. QED  BY <1>2, <1>9, <2>1 DEF B!Remove
<1>10. CASE B!Write(p)
  <2>1. B!Source(p) \in B!Contents \cup {Nil}
    BY <1>0, PartsAssumption DEF B!Source, B!Bundles, B!Contents, B!Assumption
  <2>2. CASE /\ b_lock' = b_lock
             /\ B!Become(p, [b_proc[p] EXCEPT !.step = "verify", !.temporary = B!Source(p)])
    BY <1>0, <1>5, <1>10, <2>1, <2>2 DEF B!Write, Sound
  <2>. QED  BY <1>2, <1>10, <2>2 DEF B!Write
<1>11. CASE B!Rename(p)
  <2>1. CASE /\ B!Found(p, b_proc[p].digest, b_proc[p].from) /\ B!Exact(p)
             /\ b_managed' = [b_managed EXCEPT ![b_proc[p].digest] = b_proc[p].temporary]
    BY <1>0, <1>3, <1>11, <2>1 DEF B!Rename, B!Exact, Searches, Sound
  <2>. QED  BY <1>2, <1>11, <2>1 DEF B!Rename
<1>12. CASE B!Again(p) \/ B!Crash(p)
  <2>1. B!Idle \in Searches /\ B!Idle.step = "idle"
    BY DEF B!Idle, Searches
  <2>2. B!Become(p, B!Idle)
    BY <1>12 DEF B!Again, B!Crash
  <2>3. b_proc'[p] = B!Idle /\ \E x \in Searches : b_proc' = [b_proc EXCEPT ![p] = x]
    BY <1>1, <2>1, <2>2
  <2>. QED  BY <2>1, <2>3 DEF Sound
<1>. QED  BY <1>6, <1>7, <1>8, <1>9, <1>10, <1>11, <1>12 DEF OwnStep

\* A damage, an update and every step of a process keep what is managed.
LEMMA ManagedKept ==
  ASSUME Managed, [B!Next]_(B!vars)
  PROVE  Managed'
<1>0. /\ b_managed \in [Digests -> B!Contents \cup {Nil}] /\ b_proc \in [Procs -> Searches]
      /\ b_bundle \in B!Bundles /\ b_lock \in Procs \cup {Nil} /\ Counted
      /\ B!NamesTellTruth /\ \A p \in Procs : Sound(p)
  BY DEF Managed
<1>1. ASSUME NEW p \in Procs, OwnStep(p)  PROVE Managed'
  <2>1. /\ b_bundle' = b_bundle
        /\ b_left' = b_left
             \/ \E w \in {"faults", "crashes"} :
                  b_left[w] > 0 /\ b_left' = [b_left EXCEPT ![w] = @ - 1]
        /\ b_lock' = b_lock \/ (b_lock = Nil /\ b_lock' = p) \/ (b_lock = p /\ b_lock' = Nil)
    BY <1>1, OwnEffect
  <2>2. \/ b_managed' = b_managed
        \/ /\ b_proc[p].step = "remove"
           /\ b_managed' = [b_managed EXCEPT ![b_proc[p].digest] = Nil]
        \/ /\ b_proc[p].step = "verify"
           /\ b_managed' = [b_managed EXCEPT ![b_proc[p].digest] = b_proc[p].digest]
    BY <1>1, OwnEffect
  <2>3. (\E r \in Searches : b_proc' = [b_proc EXCEPT ![p] = r]) /\ Sound(p)'
    BY <1>1, OwnSearch
  <2>4. /\ b_proc' \in [Procs -> Searches]
        /\ b_lock' \in Procs \cup {Nil} /\ b_bundle' \in B!Bundles
    BY <1>0, <2>1, <2>3
  <2>5. Counted' /\ b_left'.damages = b_left.damages
    BY <1>0, <2>1 DEF Counted
  <2>6. /\ b_proc[p].step \in {"remove", "verify"} => b_proc[p].digest \in Digests /\ b_lock = p
        /\ b_proc[p].step = "remove" => b_managed[b_proc[p].digest] # b_proc[p].digest
    BY <1>0 DEF Sound, Inside, Searching
  <2>7. b_managed' \in [Digests -> B!Contents \cup {Nil}] /\ B!NamesTellTruth'
    BY <1>0, <2>2, <2>5, <2>6 DEF B!NamesTellTruth, B!Contents
  <2>8. ASSUME NEW q \in Procs, q # p  PROVE Sound(q)'
    <3>1. b_proc'[q] = b_proc[q] /\ Sound(q) /\ b_proc[q] \in Searches /\ q # Nil
      BY <1>0, <2>3, <2>8, PartsAssumption DEF B!Assumption
    <3>2. b_proc[q].step \in Inside => b_lock = q /\ b_lock' = q /\ b_managed' = b_managed
      BY <2>1, <2>2, <2>6, <2>8, <3>1 DEF Sound
    <3>3. b_proc[q].step = "found" /\ b_proc[q].digest # Nil =>
            b_managed'[b_proc[q].digest] = b_proc[q].digest
      BY <1>0, <2>2, <2>6, <3>1 DEF Sound, Searches
    <3>. QED  BY <3>1, <3>2, <3>3 DEF Sound, Inside
  <2>. QED  BY <2>3, <2>4, <2>5, <2>7, <2>8 DEF Managed
<1>2. ASSUME NEW d \in Digests, B!Damage(d)  PROVE Managed'
  <2>1. /\ b_managed' = [b_managed EXCEPT ![d] = Damaged]
        /\ b_left' = [b_left EXCEPT !["damages"] = @ - 1] /\ b_left["damages"] > 0
        /\ b_bundle' = b_bundle /\ b_lock' = b_lock
        /\ b_proc' = [p \in Procs |-> IF b_proc[p].step = "found" /\ b_proc[p].digest = d
                                      THEN B!Idle ELSE b_proc[p]]
    BY <1>2 DEF B!Damage, B!Use
  <2>2. Counted' /\ b_left'.damages < MaxChanges
    BY <1>0, <2>1, PartsAssumption DEF Counted, B!Assumption
  <2>3. B!Idle \in Searches /\ B!Idle.step = "idle"
    BY DEF B!Idle, Searches
  <2>4. b_proc' \in [Procs -> Searches]
    BY <1>0, <2>1, <2>3
  <2>5. b_managed' \in [Digests -> B!Contents \cup {Nil}] /\ B!NamesTellTruth'
    BY <1>0, <2>1, <2>2 DEF B!Contents, B!NamesTellTruth
  <2>6. ASSUME NEW q \in Procs  PROVE Sound(q)'
    <3>1. CASE b_proc'[q] = B!Idle
      BY <2>3, <3>1 DEF Sound, Inside, Searching
    <3>2. CASE b_proc'[q] = b_proc[q] /\ ~(b_proc[q].step = "found" /\ b_proc[q].digest = d)
      <4>1. Sound(q) /\ b_proc[q] \in Searches /\ Damaged \notin Digests
        BY <1>0, PartsAssumption DEF B!Assumption
      <4>2. b_proc[q].step = "remove" => b_managed'[b_proc[q].digest] # b_proc[q].digest
        BY <1>0, <2>1, <4>1 DEF Sound, Searching, Inside
      <4>3. b_proc[q].step = "found" /\ b_proc[q].digest # Nil =>
              b_managed'[b_proc[q].digest] = b_proc[q].digest
        BY <1>0, <2>1, <3>2, <4>1 DEF Sound, Searches
      <4>. QED  BY <2>1, <3>2, <4>1, <4>2, <4>3 DEF Sound
    <3>. QED  BY <2>1, <3>1, <3>2
  <2>. QED  BY <1>0, <2>1, <2>2, <2>4, <2>5, <2>6 DEF Managed
<1>3. CASE B!Update
  <2>1. b_bundle' \in B!Bundles
    BY <1>3 DEF B!Update, B!Bundles, B!Contents
  <2>2. Counted' /\ b_left'.damages = b_left.damages
    BY <1>0, <1>3 DEF B!Update, B!Use, Counted
  <2>3. UNCHANGED <<b_managed, b_lock, b_proc>>
    BY <1>3 DEF B!Update
  <2>. QED  BY <1>0, <2>1, <2>2, <2>3 DEF Managed, Sound, B!NamesTellTruth
<1>4. CASE UNCHANGED B!vars
  BY <1>0, <1>4 DEF B!vars, Managed, Sound, B!NamesTellTruth, Counted
<1>. QED  BY <1>1, <1>2, <1>3, <1>4 DEF B!Next, OwnStep

\* A program that was found with a digest is there, whole, until it is started or damaged;
\* and no file has the name of a digest and another content, unless it was damaged.
THEOREM ProgramFoundStays ==
  AllSpec => [](part = "rclone" => B!FoundStays /\ B!NamesTellTruth)
<1>. DEFINE Inv == part = "rclone" => Managed
<1>1. AllInit => Inv
  <2>. SUFFICES ASSUME B!Init  PROVE Managed
    BY BeginsAsPart
  <2>1. B!Idle \in Searches /\ B!Idle.step = "idle"
    BY DEF B!Idle, Searches
  <2>2. \A p \in Procs : Sound(p)
    BY <2>1 DEF B!Init, Sound, Inside, Searching
  <2>3. Counted
    BY PartsAssumption DEF B!Init, Counted, B!Assumption
  <2>. QED  BY <2>1, <2>2, <2>3 DEF B!Init, Managed, B!NamesTellTruth
<1>2. Inv /\ [AllNext]_allVars => Inv'
  BY OfOnePart, ManagedKept
<1>3. Inv => (part = "rclone" => B!FoundStays /\ B!NamesTellTruth)
  BY DEF Managed, Sound, B!FoundStays
<1>. HIDE DEF Inv
<1>. QED  BY <1>1, <1>2, <1>3, PTL DEF AllSpec

-----------------------------------------------------------------------------
(* MountComponent                                                            *)

Windows ==
  [pending : BOOLEAN, dialogs : Nat, waiting : SUBSET Ids, started : SUBSET Ids,
   excused : BOOLEAN, checking : BOOLEAN, saving : BOOLEAN]

\* An installation and how it ended.
InstallTasks ==
  [step : {"idle", "begin", "lock", "check", "verify", "open", "recheck", "run", "over"},
   outcome : {"none", "installed", "restart", "cancelled", "failed"}]

\* The installations the window has begun and not yet heard of: none or one.
Begun == IF g_task["window"] = G!Idle THEN 0 ELSE 1

\* A window that remembers exactly one question or installation, or none.
Agrees(n, w) == n + w.dialogs = IF w.pending THEN 1 ELSE 0
Waits(w) == w.waiting # {} => w.pending

\* Who has checked the open installer keeps others from writing it.
Guarded == \A w \in G!Workers : g_task[w].step \in {"recheck", "run"} => w \in g_held

Asked ==
  /\ g_window \in Windows /\ g_task \in [G!Workers -> InstallTasks]
  /\ Agrees(Begun, g_window) /\ Waits(g_window)
Opened == g_task \in [G!Workers -> InstallTasks] /\ Guarded /\ G!RunsTheWhole

\* The question: it is open already, it is opened, or nothing waits and the line says why.
LEMMA PromptAgrees ==
  ASSUME NEW w \in Windows, NEW n \in Nat, Agrees(n, w)
  PROVE  LET r == G!Prompt(w)
         IN /\ r \in Windows /\ Agrees(n, r) /\ Waits(r)
            /\ r.started = w.started
            /\ r.waiting = w.waiting \/ r.excused
<1>. DEFINE r == G!Prompt(w)
<1>1. CASE w.pending
  BY <1>1 DEF G!Prompt, Waits
<1>2. CASE ~w.pending /\ ~g_embedded
  <2>1. r = [w EXCEPT !.waiting = {}, !.excused = TRUE]
    BY <1>2 DEF G!Prompt
  <2>. QED  BY <1>2, <2>1 DEF Windows, Agrees, Waits
<1>3. CASE ~w.pending /\ g_embedded
  <2>1. r = [w EXCEPT !.pending = TRUE, !.dialogs = w.dialogs + 1]
    BY <1>3 DEF G!Prompt, Windows
  <2>2. w.dialogs \in Nat /\ n + w.dialogs = 0
    BY <1>3 DEF Windows, Agrees
  <2>3. \A d \in Nat : d + 1 \in Nat
    OBVIOUS
  <2>. HIDE DEF r
  <2>4. r \in Windows
    BY <2>1, <2>3 DEF Windows
  <2>5. /\ r.pending = TRUE /\ r.dialogs = w.dialogs + 1
        /\ r.started = w.started /\ r.waiting = w.waiting
    BY <2>1 DEF Windows
  <2>6. Agrees(n, r) /\ Waits(r)
    BY <2>2, <2>5 DEF Agrees, Waits
  <2>. QED  BY <2>4, <2>5, <2>6 DEF r
<1>. QED  BY <1>1, <1>2, <1>3

\* Mounts asked for are begun, wait for an answer, are refused with a word of the line, or
\* meet an editor that saves; and those that waited still do, or the line says why not.
LEMMA StartAgrees ==
  ASSUME NEW w \in Windows, NEW n \in Nat, Agrees(n, w), Waits(w), NEW ids \in SUBSET Ids
  PROVE  LET r == G!StartEach(w, ids)
         IN /\ r \in Windows /\ Agrees(n, r) /\ Waits(r)
            /\ r.excused \/ w.waiting \subseteq r.waiting
            /\ \A id \in ids : id \in r.waiting \/ id \in r.started \/ r.excused \/ w.saving
<1>. DEFINE r == G!StartEach(w, ids)
<1>1. CASE w.saving \/ ids = {}
  BY <1>1 DEF G!StartEach
<1>2. CASE ~(w.saving \/ ids = {}) /\ g_component
  <2>1. r = [w EXCEPT !.started = w.started \cup ids]
    BY <1>2 DEF G!StartEach, Windows
  <2>. QED  BY <2>1 DEF Windows, Agrees, Waits
<1>3. CASE ~(w.saving \/ ids = {}) /\ ~g_component
  <2>. DEFINE v == [w EXCEPT !.waiting = w.waiting \cup ids]
  <2>1. r = G!Prompt(v)
    BY <1>3 DEF G!StartEach, Windows
  <2>2. v \in Windows /\ Agrees(n, v) /\ v.waiting = w.waiting \cup ids
    BY DEF Windows, Agrees
  <2>. HIDE DEF v
  <2>3. r \in Windows /\ Agrees(n, r) /\ Waits(r) /\ (r.waiting = v.waiting \/ r.excused)
    BY <2>1, <2>2, PromptAgrees
  <2>. QED  BY <2>2, <2>3
<1>. QED  BY <1>1, <1>2, <1>3

\* A step of an installation, of the window's or of the command line, but for an end of
\* its process: the window hears of it later, and still has an installation if it had one.
LEMMA InstallerUnheard ==
  ASSUME g_task \in [G!Workers -> InstallTasks], NEW w \in G!Workers,
         G!InstallStep(w), ~G!Crash(w)
  PROVE  /\ g_task' \in [G!Workers -> InstallTasks]
         /\ Begun' = Begun /\ g_window' = g_window
<1>. USE DEF G!Workers
<1>1. g_task[w] \in InstallTasks /\ DOMAIN g_task = {"window", "command"}
  OBVIOUS
<1>2. G!Idle \in InstallTasks /\ G!Idle.step = "idle"
  BY DEF G!Idle, InstallTasks
<1>3. ASSUME NEW step \in {"lock", "check", "verify", "open", "recheck", "run"},
             G!Goes(w, step), g_task[w].step # "idle"
      PROVE  g_task' \in [G!Workers -> InstallTasks] /\ Begun' = Begun
  <2>1. g_task' = [g_task EXCEPT ![w] = [g_task[w] EXCEPT !.step = step]]
    BY <1>1, <1>3 DEF G!Goes
  <2>2. /\ [g_task[w] EXCEPT !.step = step] \in InstallTasks
        /\ [g_task[w] EXCEPT !.step = step].step = step
    BY <1>1 DEF InstallTasks
  <2>3. g_task' \in [G!Workers -> InstallTasks]
    BY <2>1, <2>2
  <2>4. g_task'[w].step = step
    BY <1>1, <2>1, <2>2
  <2>5. CASE w = "window"
    <3>1. g_task["window"] # G!Idle /\ g_task'["window"] # G!Idle
      BY <1>2, <1>3, <2>4, <2>5
    <3>. QED  BY <2>3, <3>1 DEF Begun
  <2>6. CASE w = "command"
    <3>1. g_task'["window"] = g_task["window"]
      BY <1>1, <2>1, <2>6
    <3>. QED  BY <2>3, <3>1 DEF Begun
  <2>. QED  BY <2>5, <2>6
<1>4. ASSUME NEW outcome \in {"installed", "restart", "cancelled", "failed"},
             G!Returns(w, outcome), g_task[w].step # "idle"
      PROVE  g_task' \in [G!Workers -> InstallTasks] /\ Begun' = Begun
  <2>1. [step |-> "over", outcome |-> outcome] \in InstallTasks
    BY DEF InstallTasks
  <2>2. g_task' \in [G!Workers -> InstallTasks]
    BY <1>2, <1>4, <2>1 DEF G!Returns
  <2>3. CASE w = "window"
    <3>1. g_task'["window"] = [step |-> "over", outcome |-> outcome]
      BY <1>1, <1>4, <2>3 DEF G!Returns
    <3>2. g_task["window"] # G!Idle /\ g_task'["window"] # G!Idle
      BY <1>2, <1>4, <2>3, <3>1
    <3>. QED  BY <2>2, <3>2 DEF Begun
  <2>4. CASE w = "command"
    <3>1. g_task'["window"] = g_task["window"]
      BY <1>1, <1>4, <2>4 DEF G!Returns
    <3>. QED  BY <2>2, <3>1 DEF Begun
  <2>. QED  BY <2>3, <2>4
<1>5. g_window' = g_window
  BY DEF G!InstallStep, G!Begin, G!Locked, G!Check, G!Verify, G!Open, G!Recheck, G!Run,
         G!Fault
<1>6. CASE G!Begin(w)
  BY <1>3, <1>4, <1>6 DEF G!Begin
<1>7. CASE G!Locked(w)
  BY <1>3, <1>7 DEF G!Locked
<1>8. CASE G!Check(w)
  BY <1>3, <1>4, <1>8 DEF G!Check
<1>9. CASE G!Verify(w)
  BY <1>3, <1>4, <1>9 DEF G!Verify
<1>10. CASE G!Open(w)
  BY <1>3, <1>4, <1>10 DEF G!Open
<1>11. CASE G!Recheck(w)
  BY <1>3, <1>4, <1>11 DEF G!Recheck
<1>12. ASSUME NEW outcome \in {"installed", "restart", "cancelled", "failed"},
              NEW there \in BOOLEAN, G!Run(w, outcome, there)
       PROVE  g_task' \in [G!Workers -> InstallTasks] /\ Begun' = Begun
  BY <1>4, <1>12 DEF G!Run, G!Detected
<1>13. CASE G!Fault(w)
  BY <1>4, <1>13 DEF G!Fault
<1>. QED
  BY <1>5, <1>6, <1>7, <1>8, <1>9, <1>10, <1>11, <1>12, <1>13 DEF G!InstallStep

\* What a step does to a window that agrees with its installation: the window agrees
\* again, and a mount that waited goes on waiting, is begun, or is explained.
Heard ==
  /\ g_window' \in Windows /\ g_task' \in [G!Workers -> InstallTasks]
  /\ Agrees(Begun', g_window') /\ Waits(g_window')
  /\ G!WaitedGoOn

\* A mount is asked for, ends, or meets an editor that saves.
LEMMA MountHeard ==
  ASSUME Asked,
         (\E id \in Ids : G!AskMount(id) \/ G!MountOver(id)) \/ G!EditorSaves
  PROVE  Heard
<1>1. Begun \in Nat /\ Begun' = Begun /\ g_task' = g_task
  BY DEF Begun, G!AskMount, G!MountOver, G!EditorSaves, G!outside
<1>2. ASSUME NEW id \in Ids, G!AskMount(id)  PROVE Heard
  <2>. DEFINE w == [g_window EXCEPT !.excused = FALSE]
  <2>1. /\ w \in Windows /\ Agrees(Begun, w) /\ Waits(w)
        /\ w.waiting = g_window.waiting
    BY DEF Asked, Windows, Agrees, Waits
  <2>2. g_window' = G!StartEach(w, {id})
    BY <1>2 DEF G!AskMount
  <2>. HIDE DEF w
  <2>3. /\ g_window' \in Windows /\ Agrees(Begun, g_window') /\ Waits(g_window')
        /\ g_window'.excused \/ w.waiting \subseteq g_window'.waiting
    BY <1>1, <2>1, <2>2, StartAgrees
  <2>. QED  BY <1>1, <2>1, <2>3 DEF Heard, Asked, G!WaitedGoOn
<1>3. ASSUME NEW id \in Ids, G!MountOver(id)  PROVE Heard
  <2>1. g_window' = [g_window EXCEPT !.started = g_window.started \ {id}]
    BY <1>3 DEF G!MountOver, Asked, Windows
  <2>. QED  BY <1>1, <2>1 DEF Heard, Asked, Windows, Agrees, Waits, G!WaitedGoOn
<1>4. CASE G!EditorSaves
  <2>1. g_window' = [g_window EXCEPT !.saving = ~g_window.saving]
    BY <1>4 DEF G!EditorSaves, Asked, Windows
  <2>2. /\ g_window' \in Windows
        /\ UNCHANGED <<g_window.waiting, g_window.pending, g_window.dialogs>>
    BY <2>1 DEF Asked, Windows
  <2>. QED  BY <1>1, <2>2 DEF Heard, Asked, Agrees, Waits, G!WaitedGoOn
<1>. QED  BY <1>2, <1>3, <1>4

\* The question is answered: the one installation begins, or the mounts are given up.
LEMMA DecisionHeard ==
  ASSUME Asked, NEW install \in BOOLEAN, G!Decide(install)
  PROVE  Heard
<1>. USE DEF G!Workers
<1>0. /\ g_window.dialogs \in Nat /\ g_window.dialogs > 0 /\ g_window.pending \in BOOLEAN
      /\ Begun \in {0, 1} /\ g_window \in Windows
  BY DEF Asked, Windows, G!Decide, Begun
<1>1. g_window.dialogs = 1 /\ g_window.pending = TRUE /\ Begun = 0
  BY <1>0 DEF Asked, Agrees
<1>2. CASE install
  <2>1. /\ g_task["window"] = G!Idle
        /\ g_task' = [g_task EXCEPT !["window"] = [G!Idle EXCEPT !.step = "begin"]]
        /\ g_window' = [g_window EXCEPT !.dialogs = 0]
    BY <1>1, <1>2 DEF G!Decide, Asked, Windows
  <2>2. /\ [G!Idle EXCEPT !.step = "begin"] \in InstallTasks
        /\ [G!Idle EXCEPT !.step = "begin"] # G!Idle
    BY DEF G!Idle, InstallTasks
  <2>3. g_task' \in [G!Workers -> InstallTasks] /\ g_task'["window"] # G!Idle
    BY <2>1, <2>2 DEF Asked
  <2>4. Begun' = 1
    BY <2>3 DEF Begun
  <2>5. /\ g_window' \in Windows /\ g_window'.pending = TRUE /\ g_window'.dialogs = 0
        /\ g_window'.waiting = g_window.waiting
    BY <1>0, <1>1, <2>1 DEF Windows
  <2>. QED  BY <2>3, <2>4, <2>5 DEF Heard, Agrees, Waits, G!WaitedGoOn
<1>3. CASE ~install
  <2>1. /\ UNCHANGED g_task
        /\ g_window' = G!Postponed([g_window EXCEPT !.dialogs = 0])
    BY <1>1, <1>3 DEF G!Decide, Asked, Windows
  <2>2. /\ g_window' \in Windows /\ g_window'.pending = FALSE /\ g_window'.dialogs = 0
        /\ g_window'.waiting = {} /\ g_window'.excused = TRUE
    BY <1>0, <2>1 DEF Windows, G!Postponed
  <2>3. Begun' = 0
    BY <1>1, <2>1 DEF Begun
  <2>. QED  BY <2>1, <2>2, <2>3 DEF Heard, Asked, Agrees, Waits, G!WaitedGoOn
<1>. QED  BY <1>2, <1>3

\* The installation ends: every mount that waited is begun, waits for a new question, or is
\* explained; or the editor saves.
LEMMA InstalledHeard ==
  ASSUME Asked, G!InstallFinished
  PROVE  Heard
<1>. USE DEF G!Workers
<1>. DEFINE outcome == g_task["window"].outcome
            taken == [g_window EXCEPT !.pending = FALSE, !.waiting = {},
                                      !.excused = outcome # "installed"]
<1>1. /\ g_task["window"].step = "over" /\ g_task' = [g_task EXCEPT !["window"] = G!Idle]
      /\ G!Idle.step = "idle" /\ G!Idle \in InstallTasks
      /\ g_task \in [G!Workers -> InstallTasks] /\ g_window \in Windows
  BY DEF G!InstallFinished, G!Idle, InstallTasks, Asked
<1>2. g_task' \in [G!Workers -> InstallTasks] /\ g_task'["window"] = G!Idle
  BY <1>1
<1>3. g_task["window"] # G!Idle
  BY <1>1
<1>4. Begun = 1 /\ Begun' = 0
  BY <1>2, <1>3 DEF Begun
<1>5. g_window.dialogs = 0 /\ g_window.pending = TRUE
  <2>1. g_window.dialogs \in Nat /\ g_window.pending \in BOOLEAN
    BY <1>1 DEF Windows
  <2>. QED  BY <1>4, <2>1 DEF Asked, Agrees
<1>6. /\ taken \in Windows /\ taken.dialogs = 0 /\ taken.pending = FALSE /\ taken.waiting = {}
      /\ taken.saving = g_window.saving /\ taken.excused = (outcome # "installed")
  BY <1>1, <1>5 DEF Windows
<1>7. CASE outcome = "installed"
  <2>. DEFINE w == [taken EXCEPT !.checking = TRUE]
  <2>1. g_window' = G!StartEach(w, g_window.waiting)
    BY <1>7 DEF G!InstallFinished, G!GoOn
  <2>. HIDE DEF taken
  <2>2. /\ w \in Windows /\ w.dialogs = 0 /\ w.pending = FALSE /\ w.waiting = {}
        /\ w.saving = g_window.saving
    BY <1>6 DEF Windows
  <2>. HIDE DEF w
  <2>3. Agrees(0, w) /\ Waits(w) /\ g_window.waiting \in SUBSET Ids /\ 0 \in Nat
    BY <1>1, <2>2 DEF Agrees, Waits, Windows
  <2>4. /\ g_window' \in Windows /\ Agrees(0, g_window') /\ Waits(g_window')
        /\ \A id \in g_window.waiting :
             \/ id \in g_window'.waiting \/ id \in g_window'.started
             \/ g_window'.excused \/ g_window.saving
    BY <2>1, <2>2, <2>3, StartAgrees
  <2>. QED  BY <1>2, <1>4, <2>4 DEF Heard, G!WaitedGoOn
<1>8. CASE outcome # "installed"
  <2>1. g_window' = taken
    BY <1>8 DEF G!InstallFinished
  <2>. HIDE DEF taken, outcome
  <2>2. /\ g_window' \in Windows /\ g_window'.dialogs = 0 /\ g_window'.pending = FALSE
        /\ g_window'.waiting = {} /\ g_window'.excused = TRUE
    BY <1>6, <1>8, <2>1
  <2>3. Agrees(0, g_window') /\ Waits(g_window')
    BY <2>2 DEF Agrees, Waits
  <2>. QED  BY <1>2, <1>4, <2>2, <2>3 DEF Heard, G!WaitedGoOn
<1>. QED  BY <1>7, <1>8

\* A check of the dependencies begins, looks or ends; only the first may open the question.
LEMMA CheckHeard ==
  ASSUME Asked,
         \/ \E opening \in BOOLEAN : G!CheckDependencies(opening)
         \/ \E i \in DOMAIN g_checks : G!Checked(i) \/ \E ok \in BOOLEAN : G!Look(i, ok)
  PROVE  Heard
<1>1. Begun \in Nat /\ Begun' = Begun /\ g_task' = g_task /\ g_window \in Windows
  BY DEF Begun, G!CheckDependencies, G!Checked, G!Look, G!outside, Asked
<1>2. ASSUME NEW c \in BOOLEAN
      PROVE  LET w == [g_window EXCEPT !.checking = c]
             IN /\ w \in Windows /\ Agrees(Begun, w) /\ Waits(w)
                /\ w.waiting = g_window.waiting
  BY DEF Asked, Windows, Agrees, Waits
<1>3. CASE \E c \in BOOLEAN : g_window' = [g_window EXCEPT !.checking = c]
  BY <1>1, <1>2, <1>3 DEF Heard, Asked, G!WaitedGoOn
<1>4. CASE g_window' = G!Prompt([g_window EXCEPT !.checking = FALSE])
  <2>. DEFINE w == [g_window EXCEPT !.checking = FALSE]
  <2>1. w \in Windows /\ Agrees(Begun, w) /\ Waits(w) /\ w.waiting = g_window.waiting
    BY <1>2
  <2>2. g_window' = G!Prompt(w)
    BY <1>4
  <2>. HIDE DEF w
  <2>3. /\ g_window' \in Windows /\ Agrees(Begun, g_window') /\ Waits(g_window')
        /\ g_window'.waiting = w.waiting \/ g_window'.excused
    BY <1>1, <2>1, <2>2, PromptAgrees
  <2>. QED  BY <1>1, <2>1, <2>3 DEF Heard, Asked, G!WaitedGoOn
<1>5. CASE g_window' = g_window
  BY <1>1, <1>5 DEF Heard, Asked, G!WaitedGoOn
<1>. QED  BY <1>3, <1>4, <1>5 DEF G!CheckDependencies, G!Checked, G!Look

\* A process ends: the window begins anew, without a question and without an installation.
LEMMA CrashHeard ==
  ASSUME Asked, NEW w \in G!Workers, G!Crash(w)
  PROVE  Heard
<1>. USE DEF G!Workers
<1>1. G!Idle \in InstallTasks
  BY DEF G!Idle, InstallTasks
<1>2. g_task' = [g_task EXCEPT ![w] = G!Idle] /\ g_task' \in [G!Workers -> InstallTasks]
  BY <1>1 DEF Asked, G!Crash
<1>3. CASE w = "window"
  <2>1. g_task'["window"] = G!Idle
    BY <1>2, <1>3 DEF Asked
  <2>2. Begun' = 0
    BY <2>1 DEF Begun
  <2>3. g_window' = G!NewWindow
    BY <1>3 DEF G!Crash
  <2>4. G!NewWindow \in Windows /\ Agrees(0, G!NewWindow) /\ Waits(G!NewWindow)
    BY DEF G!NewWindow, Windows, Agrees, Waits
  <2>. QED  BY <1>2, <2>2, <2>3, <2>4 DEF Heard, G!WaitedGoOn
<1>4. CASE w = "command"
  <2>1. g_task'["window"] = g_task["window"]
    BY <1>2, <1>4 DEF Asked
  <2>2. Begun' = Begun
    BY <2>1 DEF Begun
  <2>3. g_window' = g_window
    BY <1>4 DEF G!Crash
  <2>. QED  BY <1>2, <2>2, <2>3 DEF Heard, Asked, G!WaitedGoOn
<1>. QED  BY <1>3, <1>4

\* So does every step.
LEMMA StepHeard ==
  ASSUME Asked, [G!Next]_(G!vars)
  PROVE  Heard
<1>. USE DEF G!Workers
<1>1. CASE (\E id \in Ids : G!AskMount(id) \/ G!MountOver(id)) \/ G!EditorSaves
  BY <1>1, MountHeard
<1>2. CASE \E install \in BOOLEAN : G!Decide(install)
  BY <1>2, DecisionHeard
<1>3. CASE G!InstallFinished
  BY <1>3, InstalledHeard
<1>4. CASE \/ \E opening \in BOOLEAN : G!CheckDependencies(opening)
           \/ \E i \in DOMAIN g_checks : G!Checked(i) \/ \E ok \in BOOLEAN : G!Look(i, ok)
  BY <1>4, CheckHeard
<1>5. CASE G!Install
  <2>1. /\ [G!Idle EXCEPT !.step = "begin"] \in InstallTasks
        /\ g_task' = [g_task EXCEPT !["command"] = [G!Idle EXCEPT !.step = "begin"]]
        /\ g_window' = g_window
    BY <1>5 DEF G!Install, G!Idle, InstallTasks
  <2>2. g_task' \in [G!Workers -> InstallTasks] /\ g_task'["window"] = g_task["window"]
    BY <2>1 DEF Asked
  <2>3. Begun' = Begun
    BY <2>2 DEF Begun
  <2>. QED  BY <2>1, <2>2, <2>3 DEF Heard, Asked, G!WaitedGoOn
<1>6. ASSUME NEW w \in G!Workers, G!InstallStep(w)  PROVE Heard
  <2>1. CASE G!Crash(w)
    BY <1>6, <2>1, CrashHeard
  <2>2. CASE ~G!Crash(w)
    <3>1. /\ g_task' \in [G!Workers -> InstallTasks]
          /\ Begun' = Begun /\ g_window' = g_window
      BY <1>6, <2>2, InstallerUnheard DEF Asked
    <3>. QED  BY <3>1 DEF Heard, Asked, G!WaitedGoOn
  <2>. QED  BY <2>1, <2>2
<1>7. CASE UNCHANGED <<g_task, g_window>>
  <2>1. Begun' = Begun
    BY <1>7 DEF Begun
  <2>. QED  BY <1>7, <2>1 DEF Heard, Asked, G!WaitedGoOn
<1>8. CASE G!Other \/ (\E content \in {Nil, Damaged} : G!Touch(content)) \/ UNCHANGED G!vars
  BY <1>7, <1>8 DEF G!Other, G!Touch, G!vars
<1>. QED  BY <1>1, <1>2, <1>3, <1>4, <1>5, <1>6, <1>8 DEF G!Next

\* The installer that runs with an administrator's rights was checked after it was opened
\* for readers only: until the process gives it back, nobody writes another one.
LEMMA OpenedKept ==
  ASSUME Asked, Opened, [G!Next]_(G!vars)
  PROVE  Opened'
<1>. USE DEF G!Workers
<1>0. g_task \in [G!Workers -> InstallTasks] /\ g_task' \in [G!Workers -> InstallTasks]
  BY StepHeard DEF Opened, Heard
\* A process that is not at it, and another that is untouched.
<1>1. ASSUME NEW w \in G!Workers,
             \A v \in G!Workers \ {w} :
               g_task'[v] = g_task[v] /\ (v \in g_held => v \in g_held'),
             g_task'[w].step \notin {"recheck", "run"},
             g_msi' = g_msi \/ g_held = {} \/ g_msi' = "whole"
      PROVE  Opened'
  <2>1. ASSUME NEW v \in G!Workers, g_task'[v].step \in {"recheck", "run"}
        PROVE  v \in g_held' /\ (g_task'[v].step = "run" => g_msi' = "whole")
    <3>1. v # w /\ g_task'[v] = g_task[v] /\ v \in g_held /\ v \in g_held'
      BY <1>1, <2>1 DEF Opened, Guarded
    <3>. QED  BY <1>1, <2>1, <3>1 DEF Opened, G!RunsTheWhole
  <2>. QED  BY <1>0, <2>1 DEF Opened, Guarded, G!RunsTheWhole
<1>2. ASSUME NEW w \in G!Workers, NEW outcome, G!Returns(w, outcome), g_msi' = g_msi
      PROVE  Opened'
  <2>1. g_task'[w].step \in {"over", "idle"} /\ g_held' = g_held \ {w}
    BY <1>0, <1>2 DEF G!Returns, G!Idle
  <2>2. \A v \in G!Workers \ {w} : g_task'[v] = g_task[v] /\ (v \in g_held => v \in g_held')
    BY <1>0, <1>2, <2>1 DEF G!Returns
  <2>. QED  BY <1>1, <1>2, <2>1, <2>2
<1>3. ASSUME NEW w \in G!Workers, NEW step, G!Goes(w, step), g_held' = g_held,
             step \notin {"recheck", "run"}, g_msi' = g_msi \/ g_held = {} \/ g_msi' = "whole"
      PROVE  Opened'
  <2>1. /\ g_task'[w].step = step
        /\ \A v \in G!Workers \ {w} : g_task'[v] = g_task[v]
    BY <1>0, <1>3 DEF G!Goes, InstallTasks
  <2>. QED  BY <1>1, <1>3, <2>1
<1>4. ASSUME NEW w \in G!Workers, G!InstallStep(w)  PROVE Opened'
  <2>1. CASE G!Begin(w)
    BY <1>2, <1>3, <2>1 DEF G!Begin
  <2>2. CASE G!Locked(w)
    BY <1>3, <2>2 DEF G!Locked
  <2>3. CASE G!Check(w)
    BY <1>2, <1>3, <2>3 DEF G!Check
  <2>4. CASE G!Verify(w)
    BY <1>2, <1>3, <2>4 DEF G!Verify
  <2>5. CASE G!Open(w)
    <3>1. CASE \E outcome : G!Returns(w, outcome)
      BY <1>2, <2>5, <3>1 DEF G!Open
    <3>2. CASE G!Goes(w, "recheck") /\ g_held' = g_held \cup {w} /\ g_msi' = g_msi
      <4>1. /\ g_task'[w].step = "recheck" /\ w \in g_held'
            /\ \A v \in G!Workers \ {w} :
                 g_task'[v] = g_task[v] /\ (v \in g_held => v \in g_held')
        BY <1>0, <3>2 DEF G!Goes, InstallTasks
      <4>. QED  BY <1>0, <3>2, <4>1 DEF Opened, Guarded, G!RunsTheWhole
    <3>. QED  BY <2>5, <3>1, <3>2 DEF G!Open, G!Keep
  <2>6. CASE G!Recheck(w)
    <3>1. CASE G!Returns(w, "failed")
      BY <1>2, <2>6, <3>1 DEF G!Recheck
    <3>2. CASE G!Goes(w, "run") /\ g_held' = g_held /\ g_msi = "whole"
      <4>1. /\ g_task'[w].step = "run" /\ g_task[w].step = "recheck" /\ g_msi' = "whole"
            /\ \A v \in G!Workers \ {w} : g_task'[v] = g_task[v]
        BY <1>0, <2>6, <3>2 DEF G!Recheck, G!Goes, InstallTasks
      <4>. QED  BY <1>0, <3>2, <4>1 DEF Opened, Guarded, G!RunsTheWhole
    <3>. QED  BY <2>6, <3>1, <3>2 DEF G!Recheck, G!Official
  <2>7. CASE \E outcome \in {"installed", "restart", "cancelled", "failed"},
                there \in BOOLEAN : G!Run(w, outcome, there)
    BY <1>2, <2>7 DEF G!Run
  <2>8. CASE G!Fault(w)
    BY <1>2, <2>8 DEF G!Fault
  <2>9. CASE G!Crash(w)
    <3>1. /\ g_task'[w].step = "idle" /\ g_msi' = g_msi
          /\ \A v \in G!Workers \ {w} :
               g_task'[v] = g_task[v] /\ (v \in g_held => v \in g_held')
      BY <1>0, <2>9 DEF G!Crash, G!Idle
    <3>. QED  BY <1>1, <3>1
  <2>. QED
    BY <1>4, <2>1, <2>2, <2>3, <2>4, <2>5, <2>6, <2>7, <2>8, <2>9 DEF G!InstallStep
<1>5. ASSUME NEW w \in G!Workers, NEW r \in InstallTasks,
             g_task' = [g_task EXCEPT ![w] = r], r.step \notin {"recheck", "run"},
             UNCHANGED <<g_held, g_msi>>
      PROVE  Opened'
  BY <1>0, <1>1, <1>5
<1>6. CASE UNCHANGED <<g_task, g_held, g_msi>>
  BY <1>6 DEF Opened, Guarded, G!RunsTheWhole
<1>7. CASE \E install \in BOOLEAN : G!Decide(install)
  <2>1. CASE UNCHANGED g_task
    BY <1>6, <1>7, <2>1 DEF G!Decide
  <2>2. CASE /\ g_task["window"] = G!Idle
             /\ g_task' = [g_task EXCEPT !["window"].step = "begin"]
    <3>1. g_task'["window"].step = "begin" /\ g_task'["command"] = g_task["command"]
      BY <1>0, <2>2 DEF G!Idle
    <3>2. UNCHANGED <<g_held, g_msi>>
      BY <1>7 DEF G!Decide
    <3>. QED  BY <1>1, <3>1, <3>2
  <2>. QED  BY <1>7, <2>1, <2>2 DEF G!Decide
<1>8. CASE G!InstallFinished
  BY <1>5, <1>8 DEF G!InstallFinished, G!Idle, InstallTasks
<1>9. CASE G!Install
  BY <1>5, <1>9 DEF G!Install, G!Idle, InstallTasks
<1>10. CASE \E content \in {Nil, Damaged} : G!Touch(content)
  BY <1>10 DEF G!Touch, Opened, Guarded, G!RunsTheWhole
<1>11. CASE \/ \E id \in Ids : G!AskMount(id) \/ G!MountOver(id)
            \/ G!EditorSaves \/ G!Other \/ UNCHANGED G!vars
            \/ \E opening \in BOOLEAN : G!CheckDependencies(opening)
            \/ \E i \in DOMAIN g_checks : G!Checked(i) \/ \E ok \in BOOLEAN : G!Look(i, ok)
  BY <1>6, <1>11
     DEF G!AskMount, G!MountOver, G!EditorSaves, G!Other, G!CheckDependencies, G!Checked,
         G!Look, G!outside, G!vars
<1>. QED  BY <1>4, <1>7, <1>8, <1>9, <1>10, <1>11 DEF G!Next

\* What was released is what runs: a program that was found stays there, the installer that
\* runs with an administrator's rights is the application's; there is one installation at a
\* time, no mount waits for nothing, and one that waited goes on or is explained.
THEOREM ProgramsStayWhole == AllSpec => ProgramsWhole
<1>. DEFINE Inv == part = "component" => Asked /\ Opened
<1>1. AllInit => Inv
  <2>. SUFFICES ASSUME G!Init  PROVE Asked /\ Opened
    BY BeginsAsPart
  <2>. USE DEF G!Workers
  <2>1. G!Idle \in InstallTasks /\ G!Idle.step = "idle"
    BY DEF G!Idle, InstallTasks
  <2>2. G!NewWindow \in Windows /\ Agrees(0, G!NewWindow) /\ Waits(G!NewWindow)
    BY DEF G!NewWindow, Windows, Agrees, Waits
  <2>3. g_task \in [G!Workers -> InstallTasks] /\ \A w \in G!Workers : g_task[w] = G!Idle
    BY <2>1 DEF G!Init
  <2>4. Begun = 0
    BY <2>3 DEF Begun
  <2>5. Asked
    BY <2>2, <2>3, <2>4 DEF G!Init, Asked
  <2>6. Opened
    BY <2>1, <2>3 DEF Opened, Guarded, G!RunsTheWhole
  <2>. QED  BY <2>5, <2>6
<1>2. Inv /\ [AllNext]_allVars => Inv' /\ (part = "component" => G!WaitedGoOn)
  BY OfOnePart, StepHeard, OpenedKept DEF Heard, Asked
<1>3. Inv => (part = "component" => G!OneInstallation /\ G!WaitsForAnswer /\ G!RunsTheWhole)
  BY DEF Asked, Opened, Agrees, Waits, Begun, G!OneInstallation, G!WaitsForAnswer
<1>. HIDE DEF Inv
<1>. QED  BY <1>1, <1>2, <1>3, ProgramFoundStays, PTL DEF AllSpec, ProgramsWhole

=============================================================================
