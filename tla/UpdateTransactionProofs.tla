---------------------- MODULE UpdateTransactionProofs -----------------------
(***************************************************************************)
(* Proofs about UpdateTransaction, for every set of profiles and releases, *)
(* with and without versioned names, with and without faults.              *)
(***************************************************************************)
EXTENDS UpdateTransaction, TLAPS

-----------------------------------------------------------------------------
(* The invariants                                                          *)

\* Within a profile: while an update is prepared its lock is held and no helper runs, and
\* the helper commits only after the marker was written.
Local ==
  \A u \in Profiles :
    /\ prep[u] # "idle" => pc[u] = "none" /\ lock[u] = "prepare"
    /\ prep[u] = "ready" \/ pc[u] = "load" => planFile[u]
    /\ pc[u] = "commit" => marker[u]

\* What a helper is about to put in place was looked at.
Verified ==
  \A u \in Profiles : pc[u] \in {"swap_out", "swap_in"} => staged[u] \in Versions

\* A helper that has taken the installation away and may put one there.
Filler(u) == pc[u] \in {"swap_in", "unswap", "rb_in", "rb_undo"}

\* One installation, or one helper that may put one there.
OneOrFiller ==
  /\ OneName
  /\ \A u \in Profiles : Filler(u) => \A n \in Names : app[n] = Nothing
  /\ \A u, w \in Profiles : Filler(u) /\ Filler(w) => u = w

\* As long as no release was set aside as a recovered copy ...
Recovered == saved \cap Versions # {}

\* ... what is installed is whole,
Whole ==
  /\ \A n \in Names : app[n] \in Versions \cup {Nothing}
  /\ \A u \in Profiles : pc[u] \in {"rb_in", "rb_undo"} => staged[u] \in Versions

\* the backup of each helper after its swap is there, and is no other helper's,
HoldsBackup ==
  /\ \A u \in Profiles : pc[u] \in AfterSwap => bak[T(u)] \in Versions
  /\ \A u, w \in Profiles :
       pc[u] \in AfterSwap /\ pc[w] \in AfterSwap /\ T(u) = T(w) => u = w

\* and a release is installed, or a helper will put one there, or there is a backup that
\* no helper can delete.
Remains ==
  \/ \E n \in Names : app[n] \in Versions
  \/ \E u \in Profiles : Filler(u)
  \/ \E n \in Names : /\ bak[n] \in Versions
                      /\ \A u \in Profiles : pc[u] \in AfterSwap => T(u) # n

SharedSafe == Recovered \/ (Whole /\ HoldsBackup /\ Remains)

\* One data directory: whoever starts the application works on the same one.
OneProfile == \A u, w \in Profiles : u = w

\* With one profile the backup is what its helper moved away.
Alone ==
  /\ \A n \in Names : app[n] # Damaged
  /\ \A u \in Profiles :
       /\ pc[u] \in AfterSwap => bak[T(u)] = moved[u] /\ moved[u] # Damaged
       /\ pc[u] \in {"rb_in", "rb_undo"} => staged[u] # Damaged

USE UpdateAssumption DEF Nothing, Damaged, Original

\* The fields of typed values, as the proofs need them.
LEMMA Fields ==
  ASSUME TypeOK, NEW u \in Profiles
  PROVE  /\ T(u) \in Names /\ Destination(u) \in Names /\ at[u] \in Names
         /\ plan[u].ver \in Versions /\ plan[u].digest \in Contents
         /\ gui[u].name \in Names /\ gui[u].ver \in Versions \cup {Nothing}
         /\ staged[u] \in Contents
         /\ \A n \in Names : app[n] \in Contents /\ bak[n] \in Contents
<1>1. /\ plan[u] \in Plan /\ gui[u] \in Gui /\ at[u] \in Names /\ staged[u] \in Contents
      /\ \A n \in Names : app[n] \in Contents /\ bak[n] \in Contents
  BY DEF TypeOK
<1>2. /\ plan[u].name \in Names /\ plan[u].ver \in Versions /\ plan[u].digest \in Contents
      /\ gui[u].name \in Names /\ gui[u].ver \in Versions \cup {Nothing}
  BY <1>1 DEF Plan, Gui
<1>3. T(u) \in Names /\ Destination(u) \in Names
  BY <1>2 DEF T, Destination, Names
<1>4. QED
  BY <1>1, <1>2, <1>3

\* What the steps make of the records of a profile.
LEMMA Records ==
  ASSUME TypeOK, NEW u \in Profiles
  PROVE  /\ NoGui \in Gui
         /\ \A n \in Names : app[n] \in Versions => Running(n) \in Gui
         /\ [gui EXCEPT ![u].parent = TRUE] \in [Profiles -> Gui]
         /\ \A c \in {"pending", "done"} : [gui EXCEPT ![u].clean = c] \in [Profiles -> Gui]
         /\ \A x \in Contents : [plan EXCEPT ![u].helper = x] \in [Profiles -> Plan]
         /\ \A n \in Names, v \in Versions, x \in Contents :
              [name |-> n, ver |-> v, digest |-> x, helper |-> Nothing] \in Plan
<1>1. NoGui \in Gui
  BY DEF NoGui, Gui, Names
<1>2. \A n \in Names : app[n] \in Versions => Running(n) \in Gui
  BY DEF Running, NoGui, Gui
<1>3. /\ gui[u] \in Gui /\ gui \in [Profiles -> Gui]
      /\ plan[u] \in Plan /\ plan \in [Profiles -> Plan]
  BY DEF TypeOK
<1>4. [gui[u] EXCEPT !.parent = TRUE] \in Gui
  BY <1>3 DEF Gui
<1>5. \A c \in {"pending", "done"} : [gui[u] EXCEPT !.clean = c] \in Gui
  BY <1>3 DEF Gui
<1>6. \A x \in Contents : [plan[u] EXCEPT !.helper = x] \in Plan
  BY <1>3 DEF Plan
<1>7. \A n \in Names, v \in Versions, x \in Contents :
        [name |-> n, ver |-> v, digest |-> x, helper |-> Nothing] \in Plan
  BY DEF Plan, Contents
<1>8. QED
  BY <1>1, <1>2, <1>3, <1>4, <1>5, <1>6, <1>7

\* The steps of the helper and what it reports.
Steps == {"none", "load", "wait", "authorize", "validate", "swap_out", "swap_in", "unswap",
          "recheck", "version", "preapply", "launch", "health", "terminate", "commit",
          "rb_out", "rb_in", "rb_undo", "relaunch"}
Results == {"none", "failed", "rolled_back", "committed", "commit_failed",
            "rollback_failed", "relaunch_failed", "crashed"}

\* Every step keeps the types.
LEMMA TypeStep ==
  ASSUME TypeOK, NEW u \in Profiles,
         GuiStep(u) \/ HelperStep(u) \/ Damage(u) \/ Crash(u)
  PROVE  TypeOK'
<1>1. /\ T(u) \in Names /\ Destination(u) \in Names /\ at[u] \in Names
      /\ plan[u].ver \in Versions /\ gui[u].name \in Names /\ staged[u] \in Contents
      /\ \A n \in Names : app[n] \in Contents /\ bak[n] \in Contents
  BY Fields
<1>2. /\ NoGui \in Gui
      /\ \A n \in Names : app[n] \in Versions => Running(n) \in Gui
      /\ [gui EXCEPT ![u].parent = TRUE] \in [Profiles -> Gui]
      /\ \A c \in {"pending", "done"} : [gui EXCEPT ![u].clean = c] \in [Profiles -> Gui]
      /\ \A x \in Contents : [plan EXCEPT ![u].helper = x] \in [Profiles -> Plan]
      /\ \A n \in Names, v \in Versions, x \in Contents :
           [name |-> n, ver |-> v, digest |-> x, helper |-> Nothing] \in Plan
  BY Records
<1>3. /\ saved \subseteq Contents \ {Nothing}
      /\ app \in [Names -> Contents]
      /\ bak \in [Names -> Contents]
      /\ staged \in [Profiles -> Contents]
      /\ gui \in [Profiles -> Gui]
      /\ lock \in [Profiles -> {"free", "prepare", "cleanup"}]
      /\ prep \in [Profiles -> {"idle", "capture", "materialize", "stage", "ready"}]
      /\ plan \in [Profiles -> Plan]
      /\ planFile \in [Profiles -> BOOLEAN]
      /\ pc \in [Profiles -> Steps]
      /\ cur \in [Profiles -> Contents]
      /\ at \in [Profiles -> Names]
      /\ back \in [Profiles -> {"preapply", "relaunch"}]
      /\ child \in [Profiles -> {"none", "starting", "running", "exited"}]
      /\ marker \in [Profiles -> BOOLEAN]
      /\ moved \in [Profiles -> Contents]
      /\ result \in [Profiles -> Results]
      /\ plans \in 0 .. MaxPlans
      /\ reinstalls \in 0 .. MaxReinstalls
  BY DEF TypeOK, Steps, Results
<1>4. CASE Start(u)
  BY <1>4, <1>1, <1>2 DEF Start, TypeOK, disk, helper, bounds
<1>5. CASE Exit(u)
  BY <1>5, <1>1, <1>2 DEF Exit, TypeOK, disk, helper, bounds
<1>6. CASE Launch(u)
  BY <1>6, <1>1, <1>2 DEF Launch, Fail, Go, TypeOK, disk, helper, bounds
<1>7. CASE OpenWindow(u)
  <2>1. UNCHANGED <<app, bak, staged, saved, lock, prep, plan, planFile, pc, cur, at, back,
        child, moved, result, plans, reinstalls>>
    BY <1>7 DEF OpenWindow, disk, helper, bounds
  <2>2. gui' \in [Profiles -> Gui]
    <3>1. \/ gui' = [gui EXCEPT ![u].clean = "pending"]
          \/ gui' = [gui EXCEPT ![u].clean = "done"]
      BY <1>7, Zenon DEF OpenWindow
    <3> QED  BY <1>2, <3>1
  <2>3. marker' \in [Profiles -> BOOLEAN]
    <3>1. marker' = [marker EXCEPT ![u] = @ \/ child[u] = "running"] \/ UNCHANGED marker
      BY <1>7, Zenon DEF OpenWindow
    <3> QED  BY <1>3, <3>1
  <2>4. QED
    BY <1>3, <2>1, <2>2, <2>3 DEF TypeOK, Steps, Results
<1>8. CASE CleanFiles(u)
  <2>1. UNCHANGED <<app, bak, staged, saved, prep, plan, pc, cur, at, back, child, moved,
        result, plans, reinstalls>>
    BY <1>8 DEF CleanFiles, disk, helper, bounds
  <2>2. /\ gui' = [gui EXCEPT ![u].clean = "done"]
        /\ lock' = [lock EXCEPT ![u] = "free"]
    BY <1>8, Zenon DEF CleanFiles
  <2>3. planFile' = [planFile EXCEPT ![u] = FALSE] \/ UNCHANGED planFile
    BY <1>8, Zenon DEF CleanFiles
  <2>4. marker' = [marker EXCEPT ![u] = FALSE] \/ UNCHANGED marker
    BY <1>8, Zenon DEF CleanFiles
  <2>5. /\ gui' \in [Profiles -> Gui] /\ planFile' \in [Profiles -> BOOLEAN]
        /\ lock' \in [Profiles -> {"free", "prepare", "cleanup"}]
        /\ marker' \in [Profiles -> BOOLEAN]
    BY <1>2, <1>3, <2>2, <2>3, <2>4
  <2>6. QED
    BY <1>3, <2>1, <2>5 DEF TypeOK, Steps, Results
<1>9. CASE ChildStarts(u)
  <2>1. UNCHANGED <<disk, lock, prep, plan, planFile, helper, marker, bounds>>
    BY <1>9 DEF ChildStarts
  <2>2. gui' \in [Profiles -> Gui]
    <3>1. \/ UNCHANGED gui
          \/ gui' = [gui EXCEPT ![u] = Running(at[u])] /\ app[at[u]] \in Versions
      BY <1>9, Zenon DEF ChildStarts
    <3> QED  BY <1>1, <1>2, <1>3, <3>1
  <2>3. child' \in [Profiles -> {"none", "starting", "running", "exited"}]
    <3>1. \E c \in {"running", "exited"} : child' = [child EXCEPT ![u] = c]
      BY <1>9 DEF ChildStarts
    <3> QED  BY <1>3, <3>1
  <2> QED  BY <2>1, <2>2, <2>3 DEF TypeOK, disk, helper, bounds
<1>10. CASE Recover(u)
  <2>1. UNCHANGED <<app, staged, gui, plan, planFile, pc, cur, at, back, child, marker,
        moved, result, plans, reinstalls>>
    BY <1>10 DEF Recover, disk, helper, bounds
  <2>2. bak' \in [Names -> Contents]
    BY <1>10, <1>1, <1>2, <1>3 DEF Recover, UpdaterIsRunning, Preserved, Contents
  <2>3. saved' \subseteq Contents \ {Nothing}
    BY <1>10, <1>1, <1>2, <1>3 DEF Recover, UpdaterIsRunning, Preserved
  <2>4. lock' \in [Profiles -> {"free", "prepare", "cleanup"}]
    BY <1>10, <1>1, <1>2, <1>3 DEF Recover, UpdaterIsRunning, Preserved
  <2>5. prep' \in [Profiles -> {"idle", "capture", "materialize", "stage", "ready"}]
    BY <1>10, <1>1, <1>2, <1>3 DEF Recover, UpdaterIsRunning, Preserved
  <2>6. QED
    BY <1>3, <2>1, <2>2, <2>3, <2>4, <2>5 DEF TypeOK, Steps, Results
<1>11. CASE Capture(u)
  <2>1. UNCHANGED <<app, bak, staged, saved, gui, planFile, pc, cur, at, back, child,
        marker, moved, result, reinstalls>>
    BY <1>11 DEF Capture, disk, helper, bounds
  <2>2. plans' \in 0 .. MaxPlans
    BY <1>11, <1>1, <1>2, <1>3 DEF Capture, Fail
  <2>3. prep' \in [Profiles -> {"idle", "capture", "materialize", "stage", "ready"}]
    <3>1. \/ prep' = [prep EXCEPT ![u] = "idle"]
          \/ prep' = [prep EXCEPT ![u] = "materialize"]
      BY <1>11, Zenon DEF Capture, Fail
    <3> QED  BY <1>3, <3>1
  <2>4. lock' \in [Profiles -> {"free", "prepare", "cleanup"}]
    BY <1>11, <1>1, <1>2, <1>3 DEF Capture, Fail
  <2>5. plan' \in [Profiles -> Plan]
    <3>1. \/ UNCHANGED plan
          \/ \E v \in Versions :
               plan' = [plan EXCEPT ![u] = [name |-> gui[u].name, ver |-> v,
                                            digest |-> app[gui[u].name], helper |-> Nothing]]
      BY <1>11, Zenon DEF Capture
    <3> QED  BY <1>1, <1>2, <1>3, <3>1
  <2>6. QED
    BY <1>3, <2>1, <2>2, <2>3, <2>4, <2>5 DEF TypeOK, Steps, Results
<1>12. CASE Materialize(u)
  <2>1. UNCHANGED <<app, bak, staged, saved, gui, planFile, pc, cur, at, back, child,
        marker, moved, result, plans, reinstalls>>
    BY <1>12 DEF Materialize, disk, helper, bounds
  <2>2. prep' \in [Profiles -> {"idle", "capture", "materialize", "stage", "ready"}]
    BY <1>12, <1>1, <1>2, <1>3 DEF Materialize, Fail
  <2>3. lock' \in [Profiles -> {"free", "prepare", "cleanup"}]
    BY <1>12, <1>1, <1>2, <1>3 DEF Materialize, Fail
  <2>4. plan' \in [Profiles -> Plan]
    <3>1. UNCHANGED plan \/ plan' = [plan EXCEPT ![u].helper = app[T(u)]]
      BY <1>12, Zenon DEF Materialize
    <3> QED  BY <1>1, <1>2, <1>3, <3>1
  <2>5. QED
    BY <1>3, <2>1, <2>2, <2>3, <2>4 DEF TypeOK, Steps, Results
<1>13. CASE Stage(u)
  <2>1. UNCHANGED <<app, bak, saved, gui, plan, pc, cur, at, back, moved, result, plans,
        reinstalls>>
    BY <1>13 DEF Stage, disk, helper, bounds
  <2>2. staged' \in [Profiles -> Contents]
    BY <1>13, <1>1, <1>2, <1>3 DEF Stage, Fail, Contents
  <2>3. planFile' \in [Profiles -> BOOLEAN]
    <3>1. planFile' = [planFile EXCEPT ![u] = TRUE] \/ UNCHANGED planFile
      BY <1>13, Zenon DEF Stage
    <3> QED  BY <1>3, <3>1
  <2>4. marker' \in [Profiles -> BOOLEAN]
    <3>1. marker' = [marker EXCEPT ![u] = FALSE] \/ UNCHANGED marker
      BY <1>13, Zenon DEF Stage
    <3> QED  BY <1>3, <3>1
  <2>5. child' \in [Profiles -> {"none", "starting", "running", "exited"}]
    BY <1>13, <1>1, <1>2, <1>3 DEF Stage, Fail
  <2>6. prep' \in [Profiles -> {"idle", "capture", "materialize", "stage", "ready"}]
    BY <1>13, <1>1, <1>2, <1>3 DEF Stage, Fail
  <2>7. lock' \in [Profiles -> {"free", "prepare", "cleanup"}]
    BY <1>13, <1>1, <1>2, <1>3 DEF Stage, Fail
  <2>8. QED
    BY <1>3, <2>1, <2>2, <2>3, <2>4, <2>5, <2>6, <2>7 DEF TypeOK, Steps, Results
<1>14. CASE Load(u)
  <2>1. UNCHANGED <<app, bak, staged, saved, gui, lock, prep, plan, cur, at, back, child,
        marker, moved, plans, reinstalls>>
    BY <1>14 DEF Load, disk, helper, bounds
  <2>2. planFile' \in [Profiles -> BOOLEAN]
    <3>1. planFile' = [planFile EXCEPT ![u] = FALSE] \/ UNCHANGED planFile
      BY <1>14, Zenon DEF Load
    <3> QED  BY <1>3, <3>1
  <2>3. pc' \in [Profiles -> Steps]
    BY <1>14, <1>1, <1>2, <1>3 DEF Load, Go, Report, Steps
  <2>4. result' \in [Profiles -> Results]
    BY <1>14, <1>1, <1>2, <1>3 DEF Load, Go, Report, Results
  <2>5. QED
    BY <1>3, <2>1, <2>2, <2>3, <2>4 DEF TypeOK, Steps, Results
<1>15. CASE Validate(u)
  <2>1. UNCHANGED <<app, bak, staged, saved, gui, lock, prep, plan, planFile, child, marker,
        moved, result, plans, reinstalls>>
    BY <1>15 DEF Validate, disk, helper, bounds
  <2>2. cur' \in [Profiles -> Contents]
    <3>1. cur' = [cur EXCEPT ![u] = app[T(u)]] \/ UNCHANGED cur
      BY <1>15, Zenon DEF Validate
    <3> QED  BY <1>1, <1>3, <3>1
  <2>3. at' \in [Profiles -> Names]
    BY <1>15, <1>1, <1>2, <1>3 DEF Validate, Go, StagedValid
  <2>4. back' \in [Profiles -> {"preapply", "relaunch"}]
    BY <1>15, <1>1, <1>2, <1>3 DEF Validate, Go, StagedValid
  <2>5. pc' \in [Profiles -> Steps]
    <3>1. Go(u, "swap_out") \/ Go(u, "preapply")
      BY <1>15, Zenon DEF Validate
    <3> QED  BY <1>3, <3>1 DEF Go, Steps
  <2>6. QED
    BY <1>3, <2>1, <2>2, <2>3, <2>4, <2>5 DEF TypeOK, Steps, Results
<1>16. CASE SwapOut(u)
  <2>1. UNCHANGED <<staged, saved, gui, lock, prep, plan, planFile, cur, at, back, child,
        marker, result, plans, reinstalls>>
    BY <1>16 DEF SwapOut, disk, helper, bounds
  <2>2. app' \in [Names -> Contents]
    BY <1>16, <1>1, <1>2, <1>3 DEF SwapOut, Go, Contents
  <2>3. bak' \in [Names -> Contents]
    BY <1>16, <1>1, <1>2, <1>3 DEF SwapOut, Go, Contents
  <2>4. moved' \in [Profiles -> Contents]
    BY <1>16, <1>1, <1>2, <1>3 DEF SwapOut, Go
  <2>5. pc' \in [Profiles -> Steps]
    <3>1. Go(u, "swap_in") \/ Go(u, "preapply")
      BY <1>16, Zenon DEF SwapOut
    <3> QED  BY <1>3, <3>1 DEF Go, Steps
  <2>6. QED
    BY <1>3, <2>1, <2>2, <2>3, <2>4, <2>5 DEF TypeOK, Steps, Results
<1>17. CASE Version(u)
  <2>1. UNCHANGED <<bak, staged, saved, gui, lock, prep, plan, planFile, cur, back, child,
        marker, moved, result, plans, reinstalls>>
    BY <1>17 DEF Version, disk, helper, bounds
  <2>2. app' \in [Names -> Contents]
    BY <1>17, <1>1, <1>2, <1>3 DEF Version, Go, Contents
  <2>3. at' \in [Profiles -> Names]
    <3>1. at' = [at EXCEPT ![u] = Destination(u)] \/ UNCHANGED at
      BY <1>17, Zenon DEF Version
    <3> QED  BY <1>1, <1>3, <3>1
  <2>4. pc' \in [Profiles -> Steps]
    BY <1>17, <1>1, <1>2, <1>3 DEF Version, Go, Steps
  <2>5. QED
    BY <1>3, <2>1, <2>2, <2>3, <2>4 DEF TypeOK, Steps, Results
<1>18. CASE Preapply(u)
  <2>1. UNCHANGED <<app, bak, staged, saved, lock, prep, plan, planFile, cur, at, back,
        child, marker, moved, plans, reinstalls>>
    BY <1>18 DEF Preapply, disk, helper, bounds
  <2>2. gui' \in [Profiles -> Gui]
    BY <1>18, <1>1, <1>2, <1>3 DEF Preapply, Report, StartPrevious
  <2>3. pc' \in [Profiles -> Steps]
    BY <1>18, <1>1, <1>2, <1>3 DEF Preapply, Report, StartPrevious, Steps
  <2>4. result' \in [Profiles -> Results]
    BY <1>18, <1>1, <1>2, <1>3 DEF Preapply, Report, StartPrevious, Results
  <2>5. QED
    BY <1>3, <2>1, <2>2, <2>3, <2>4 DEF TypeOK, Steps, Results
<1>19. CASE Terminate(u)
  <2>1. UNCHANGED <<app, bak, staged, saved, plan, planFile, cur, at, back, marker, moved,
        result, plans, reinstalls>>
    BY <1>19 DEF Terminate, disk, helper, bounds
  <2>2. pc' \in [Profiles -> Steps]
    BY <1>19, <1>1, <1>2, <1>3 DEF Terminate, Go, Steps
  <2>3. gui' \in [Profiles -> Gui]
    BY <1>19, <1>1, <1>2, <1>3 DEF Terminate, Go
  <2>4. lock' \in [Profiles -> {"free", "prepare", "cleanup"}]
    BY <1>19, <1>1, <1>2, <1>3 DEF Terminate, Go
  <2>5. prep' \in [Profiles -> {"idle", "capture", "materialize", "stage", "ready"}]
    BY <1>19, <1>1, <1>2, <1>3 DEF Terminate, Go
  <2>6. child' \in [Profiles -> {"none", "starting", "running", "exited"}]
    BY <1>19, <1>1, <1>2, <1>3 DEF Terminate, Go
  <2>7. QED
    BY <1>3, <2>1, <2>2, <2>3, <2>4, <2>5, <2>6 DEF TypeOK, Steps, Results
<1>20. CASE Commit(u)
  <2>1. UNCHANGED <<app, staged, saved, gui, lock, prep, plan, planFile, cur, at, back,
        child, moved, plans, reinstalls>>
    BY <1>20 DEF Commit, disk, helper, bounds
  <2>2. bak' \in [Names -> Contents]
    <3>1. \/ UNCHANGED bak
          \/ bak' = [bak EXCEPT ![T(u)] = Nothing]
          \/ bak' = [bak EXCEPT ![T(u)] = Damaged]
      BY <1>20, Zenon DEF Commit
    <3> QED  BY <1>1, <1>3, <3>1 DEF Contents
  <2>3. marker' \in [Profiles -> BOOLEAN]
    <3>1. marker' = [marker EXCEPT ![u] = FALSE] \/ UNCHANGED marker
      BY <1>20, Zenon DEF Commit
    <3> QED  BY <1>3, <3>1
  <2>4. pc' \in [Profiles -> Steps]
    BY <1>20, <1>1, <1>2, <1>3 DEF Commit, Report, Steps
  <2>5. result' \in [Profiles -> Results]
    BY <1>20, <1>1, <1>2, <1>3 DEF Commit, Report, Results
  <2>6. QED
    BY <1>3, <2>1, <2>2, <2>3, <2>4, <2>5 DEF TypeOK, Steps, Results
<1>21. CASE RollbackOut(u)
  <2>1. UNCHANGED <<bak, saved, gui, lock, prep, plan, planFile, cur, at, back, child,
        marker, moved, plans, reinstalls>>
    BY <1>21 DEF RollbackOut, disk, helper, bounds
  <2>2. app' \in [Names -> Contents]
    BY <1>21, <1>1, <1>2, <1>3 DEF RollbackOut, Go, Report, Contents
  <2>3. staged' \in [Profiles -> Contents]
    BY <1>21, <1>1, <1>2, <1>3 DEF RollbackOut, Go, Report, Contents
  <2>4. pc' \in [Profiles -> Steps]
    BY <1>21, <1>1, <1>2, <1>3 DEF RollbackOut, Go, Report, Steps
  <2>5. result' \in [Profiles -> Results]
    BY <1>21, <1>1, <1>2, <1>3 DEF RollbackOut, Go, Report, Results
  <2>6. QED
    BY <1>3, <2>1, <2>2, <2>3, <2>4, <2>5 DEF TypeOK, Steps, Results
<1>22. CASE Relaunch(u)
  <2>1. UNCHANGED <<app, bak, saved, lock, prep, plan, planFile, cur, at, back, child,
        marker, moved, plans, reinstalls>>
    BY <1>22 DEF Relaunch, disk, helper, bounds
  <2>2. staged' \in [Profiles -> Contents]
    <3>1. UNCHANGED staged \/ staged' = [staged EXCEPT ![u] = Nothing]
      BY <1>22, Zenon DEF Relaunch
    <3> QED  BY <1>3, <3>1 DEF Contents
  <2>3. gui' \in [Profiles -> Gui]
    BY <1>22, <1>1, <1>2, <1>3 DEF Relaunch, Report, StartPrevious
  <2>4. pc' \in [Profiles -> Steps]
    BY <1>22, <1>1, <1>2, <1>3 DEF Relaunch, Report, StartPrevious, Steps
  <2>5. result' \in [Profiles -> Results]
    BY <1>22, <1>1, <1>2, <1>3 DEF Relaunch, Report, StartPrevious, Results
  <2>6. QED
    BY <1>3, <2>1, <2>2, <2>3, <2>4, <2>5 DEF TypeOK, Steps, Results
<1>23. CASE Cancel(u)
  <2>1. UNCHANGED <<app, bak, saved, gui, plan, pc, cur, at, back, child, marker, moved,
        result, plans, reinstalls>>
    BY <1>23 DEF Cancel, disk, helper, bounds
  <2>2. planFile' \in [Profiles -> BOOLEAN]
    BY <1>23, <1>1, <1>2, <1>3 DEF Cancel, Fail
  <2>3. staged' \in [Profiles -> Contents]
    BY <1>23, <1>1, <1>2, <1>3 DEF Cancel, Fail, Contents
  <2>4. prep' \in [Profiles -> {"idle", "capture", "materialize", "stage", "ready"}]
    BY <1>23, <1>1, <1>2, <1>3 DEF Cancel, Fail
  <2>5. lock' \in [Profiles -> {"free", "prepare", "cleanup"}]
    BY <1>23, <1>1, <1>2, <1>3 DEF Cancel, Fail
  <2>6. QED
    BY <1>3, <2>1, <2>2, <2>3, <2>4, <2>5 DEF TypeOK, Steps, Results
<1>24. CASE SwapIn(u)
  <2>1. UNCHANGED <<bak, saved, gui, lock, prep, plan, planFile, cur, at, back, child,
        marker, moved, result, plans, reinstalls>>
    BY <1>24 DEF SwapIn, disk, helper, bounds
  <2>2. app' \in [Names -> Contents]
    BY <1>24, <1>1, <1>2, <1>3 DEF SwapIn, Go, Contents
  <2>3. staged' \in [Profiles -> Contents]
    BY <1>24, <1>1, <1>2, <1>3 DEF SwapIn, Go, Contents
  <2>4. pc' \in [Profiles -> Steps]
    BY <1>24, <1>1, <1>2, <1>3 DEF SwapIn, Go, Steps
  <2>5. QED
    BY <1>3, <2>1, <2>2, <2>3, <2>4 DEF TypeOK, Steps, Results
<1>25. CASE Damage(u)
  <2>1. UNCHANGED <<app, bak, saved, gui, lock, prep, plan, planFile, pc, cur, at, back,
        child, marker, moved, result, plans, reinstalls>>
    BY <1>25 DEF Damage, disk, helper, bounds
  <2>2. staged' \in [Profiles -> Contents]
    BY <1>25, <1>1, <1>2, <1>3 DEF Damage, Contents
  <2>3. QED
    BY <1>3, <2>1, <2>2 DEF TypeOK, Steps, Results
<1>26. CASE CleanStart(u)
  BY <1>26 DEF TypeOK, disk, helper, bounds, CleanStart
<1>27. CASE WaitParent(u)
  BY <1>27 DEF TypeOK, disk, helper, bounds, WaitParent, Go, Report
<1>28. CASE Authorize(u)
  BY <1>28 DEF TypeOK, disk, helper, bounds, Authorize, Go
<1>29. CASE Unswap(u)
  BY <1>29 DEF TypeOK, disk, helper, bounds, Unswap, Go, Restored, NotRestored
<1>30. CASE Recheck(u)
  BY <1>30 DEF TypeOK, disk, helper, bounds, Recheck, Go
<1>31. CASE LaunchNew(u)
  BY <1>31 DEF TypeOK, disk, helper, bounds, LaunchNew, Go
<1>32. CASE Health(u)
  BY <1>32 DEF TypeOK, disk, helper, bounds, Health, Go
<1>33. CASE RollbackIn(u)
  BY <1>33 DEF TypeOK, disk, helper, bounds, RollbackIn, Go, Restored, NotRestored
<1>34. CASE RollbackUndo(u)
  BY <1>34 DEF TypeOK, disk, helper, bounds, RollbackUndo, Go, Report
<1>35. CASE Crash(u)
  BY <1>35 DEF TypeOK, disk, helper, bounds, Crash, Report
<1>36. QED
  BY <1>4, <1>5, <1>6, <1>7, <1>8, <1>9, <1>10, <1>11, <1>12, <1>13, <1>14, <1>15, <1>16,
    <1>17, <1>18, <1>19, <1>20, <1>21, <1>22, <1>23, <1>24, <1>25, <1>26, <1>27, <1>28,
    <1>29, <1>30, <1>31, <1>32, <1>33, <1>34, <1>35 DEF GuiStep, HelperStep

\* The locks of a profile and the states of its helper exclude each other.
LEMMA LocalStep ==
  ASSUME TypeOK, Local, NEW u \in Profiles,
         GuiStep(u) \/ HelperStep(u) \/ Damage(u) \/ Crash(u)
  PROVE  Local'
<1> USE DEF TypeOK, Local, disk, helper, bounds
<1>1. /\ T(u) \in Names /\ Destination(u) \in Names /\ at[u] \in Names
      /\ plan[u].ver \in Versions /\ gui[u].name \in Names /\ staged[u] \in Contents
      /\ \A n \in Names : app[n] \in Contents /\ bak[n] \in Contents
  BY Fields
<1>2. CASE Health(u)
  BY <1>2, <1>1 DEF Health, Go, Healthy
<1>3. CASE Start(u)
  BY <1>3 DEF Start, Running
<1>4. CASE Exit(u)
  BY <1>4 DEF Exit
<1>5. CASE Recover(u)
  BY <1>5 DEF Recover, UpdaterIsRunning, Preserved
<1>6. CASE Capture(u)
  BY <1>6 DEF Capture, Fail
<1>7. CASE Materialize(u)
  BY <1>7 DEF Materialize, Fail
<1>8. CASE Stage(u)
  BY <1>8 DEF Stage, Fail
<1>9. CASE Cancel(u)
  BY <1>9 DEF Cancel, Fail
<1>10. CASE Launch(u)
  BY <1>10 DEF Launch, Fail, Go
<1>11. CASE OpenWindow(u)
  BY <1>11 DEF OpenWindow
<1>12. CASE CleanStart(u)
  BY <1>12 DEF CleanStart
<1>13. CASE CleanFiles(u)
  BY <1>13 DEF CleanFiles, UpdaterIsRunning, Uncommitted
<1>14. CASE ChildStarts(u)
  BY <1>14 DEF ChildStarts, Running
<1>15. CASE Load(u)
  BY <1>15 DEF Load, Go, Report
<1>16. CASE WaitParent(u)
  BY <1>16 DEF WaitParent, Go, Report
<1>17. CASE Authorize(u)
  BY <1>17 DEF Authorize, Go
<1>18. CASE Validate(u)
  BY <1>18 DEF Validate, Go, StagedValid
<1>19. CASE SwapOut(u)
  BY <1>19 DEF SwapOut, Go
<1>20. CASE SwapIn(u)
  BY <1>20 DEF SwapIn, Go
<1>21. CASE Unswap(u)
  BY <1>21 DEF Unswap, Go, Restored, NotRestored
<1>22. CASE Recheck(u)
  BY <1>22 DEF Recheck, Go
<1>23. CASE Version(u)
  BY <1>23 DEF Version, Go
<1>24. CASE Preapply(u)
  BY <1>24 DEF Preapply, Report, StartPrevious, Running
<1>25. CASE LaunchNew(u)
  BY <1>25 DEF LaunchNew, Go
<1>26. CASE Terminate(u)
  BY <1>26 DEF Terminate, Go
<1>27. CASE Commit(u)
  BY <1>27 DEF Commit, Report
<1>28. CASE RollbackOut(u)
  BY <1>28 DEF RollbackOut, Go, Report
<1>29. CASE RollbackIn(u)
  BY <1>29 DEF RollbackIn, Go, Restored, NotRestored
<1>30. CASE RollbackUndo(u)
  BY <1>30 DEF RollbackUndo, Go, Report
<1>31. CASE Relaunch(u)
  BY <1>31 DEF Relaunch, Report, StartPrevious, Running
<1>32. CASE Damage(u)
  BY <1>32 DEF Damage
<1>33. CASE Crash(u)
  BY <1>33 DEF Crash, Report
<1>34. QED
  BY <1>2, <1>3, <1>4, <1>5, <1>6, <1>7, <1>8, <1>9, <1>10, <1>11, <1>12, <1>13, <1>14,
    <1>15, <1>16, <1>17, <1>18, <1>19, <1>20, <1>21, <1>22, <1>23, <1>24, <1>25, <1>26,
    <1>27, <1>28, <1>29, <1>30, <1>31, <1>32, <1>33 DEF GuiStep, HelperStep

\* A copy is damaged only before it is looked at.
LEMMA VerifiedStep ==
  ASSUME TypeOK, Local, Verified, NEW u \in Profiles,
         GuiStep(u) \/ HelperStep(u) \/ Damage(u) \/ Crash(u)
  PROVE  Verified'
<1> USE DEF TypeOK, Local, Verified, disk, helper, bounds
<1>1. CASE Start(u)
  BY <1>1 DEF Start, Running
<1>2. CASE Exit(u)
  BY <1>2 DEF Exit
<1>3. CASE Recover(u)
  BY <1>3 DEF Recover, UpdaterIsRunning, Preserved
<1>4. CASE Capture(u)
  BY <1>4 DEF Capture, Fail
<1>5. CASE Materialize(u)
  BY <1>5 DEF Materialize, Fail
<1>6. CASE Stage(u)
  BY <1>6 DEF Stage, Fail
<1>7. CASE Cancel(u)
  BY <1>7 DEF Cancel, Fail
<1>8. CASE Launch(u)
  BY <1>8 DEF Launch, Fail, Go
<1>9. CASE OpenWindow(u)
  BY <1>9 DEF OpenWindow
<1>10. CASE CleanStart(u)
  BY <1>10 DEF CleanStart
<1>11. CASE CleanFiles(u)
  BY <1>11 DEF CleanFiles, UpdaterIsRunning, Uncommitted
<1>12. CASE ChildStarts(u)
  BY <1>12 DEF ChildStarts, Running
<1>13. CASE Load(u)
  BY <1>13 DEF Load, Go, Report
<1>14. CASE WaitParent(u)
  BY <1>14 DEF WaitParent, Go, Report
<1>15. CASE Authorize(u)
  BY <1>15 DEF Authorize, Go
<1>16. CASE Validate(u)
  BY <1>16 DEF Validate, Go, StagedValid
<1>17. CASE SwapOut(u)
  BY <1>17 DEF SwapOut, Go
<1>18. CASE SwapIn(u)
  BY <1>18 DEF SwapIn, Go
<1>19. CASE Unswap(u)
  BY <1>19 DEF Unswap, Go, Restored, NotRestored
<1>20. CASE Recheck(u)
  BY <1>20 DEF Recheck, Go
<1>21. CASE Version(u)
  BY <1>21 DEF Version, Go
<1>22. CASE Preapply(u)
  BY <1>22 DEF Preapply, Report, StartPrevious, Running
<1>23. CASE LaunchNew(u)
  BY <1>23 DEF LaunchNew, Go
<1>24. CASE Health(u)
  BY <1>24 DEF Health, Go
<1>25. CASE Terminate(u)
  BY <1>25 DEF Terminate, Go
<1>26. CASE Commit(u)
  BY <1>26 DEF Commit, Report
<1>27. CASE RollbackOut(u)
  BY <1>27 DEF RollbackOut, Go, Report
<1>28. CASE RollbackIn(u)
  BY <1>28 DEF RollbackIn, Go, Restored, NotRestored
<1>29. CASE RollbackUndo(u)
  BY <1>29 DEF RollbackUndo, Go, Report
<1>30. CASE Relaunch(u)
  BY <1>30 DEF Relaunch, Report, StartPrevious, Running
<1>31. CASE Damage(u)
  BY <1>31 DEF Damage
<1>32. CASE Crash(u)
  BY <1>32 DEF Crash, Report
<1>33. QED
  BY <1>1, <1>2, <1>3, <1>4, <1>5, <1>6, <1>7, <1>8, <1>9, <1>10, <1>11, <1>12, <1>13,
    <1>14, <1>15, <1>16, <1>17, <1>18, <1>19, <1>20, <1>21, <1>22, <1>23, <1>24, <1>25,
    <1>26, <1>27, <1>28, <1>29, <1>30, <1>31, <1>32 DEF GuiStep, HelperStep

\* A step that moves no installation and hands no right to put one there.
LEMMA OneKept ==
  ASSUME OneOrFiller, UNCHANGED app,
         \A w \in Profiles : Filler(w)' => Filler(w)
  PROVE  OneOrFiller'
BY DEF OneOrFiller, OneName

\* A helper takes the installation away: nothing is left.
LEMMA OneTaken ==
  ASSUME TypeOK, OneOrFiller, NEW u \in Profiles, NEW n \in Names, app[n] # Nothing,
         app' = [app EXCEPT ![n] = Nothing], \A w \in Profiles \ {u} : pc'[w] = pc[w]
  PROVE  OneOrFiller'
<1>1. \A m \in Names : app[m] # Nothing => m = n
  BY DEF OneOrFiller, OneName
<1>2. \A m \in Names : app'[m] = Nothing
  BY <1>1 DEF TypeOK
<1>3. \A w \in Profiles : Filler(w)' => w = u
  BY DEF OneOrFiller, Filler
<1>4. QED
  BY <1>2, <1>3 DEF OneOrFiller, OneName

\* A helper that has taken the installation away puts one there, and is done.
LEMMA OnePut ==
  ASSUME TypeOK, OneOrFiller, NEW u \in Profiles, Filler(u), NEW n \in Names, NEW x,
         app' = [app EXCEPT ![n] = x], ~Filler(u)', \A w \in Profiles \ {u} : pc'[w] = pc[w]
  PROVE  OneOrFiller'
<1>1. \A m \in Names : m # n => app'[m] = Nothing
  BY DEF OneOrFiller, TypeOK
<1>2. \A w \in Profiles : ~Filler(w)'
  BY DEF OneOrFiller, Filler
<1>3. QED
  BY <1>1, <1>2 DEF OneOrFiller, OneName

\* An installation is only put where a helper took one away.
LEMMA OneStep ==
  ASSUME TypeOK, OneOrFiller, NEW u \in Profiles,
         GuiStep(u) \/ HelperStep(u) \/ Damage(u) \/ Crash(u)
  PROVE  OneOrFiller'
<1>1. /\ T(u) \in Names /\ Destination(u) \in Names /\ at[u] \in Names
      /\ pc \in [Profiles -> Steps]
  BY Fields DEF TypeOK, Steps
<1>2. ASSUME NEW step, Go(u, step)
      PROVE  pc'[u] = step /\ \A w \in Profiles \ {u} : pc'[w] = pc[w]
  BY <1>1, <1>2 DEF Go
<1>3. ASSUME UNCHANGED <<app, pc>>
      PROVE  OneOrFiller'
  BY <1>3, OneKept DEF Filler
<1>4. ASSUME UNCHANGED app, NEW step, Go(u, step),
             step \notin {"swap_in", "unswap", "rb_in", "rb_undo"}
      PROVE  OneOrFiller'
  BY <1>2, <1>4, OneKept DEF Filler
<1>5. ASSUME UNCHANGED app, NEW step, Go(u, step), Filler(u)
      PROVE  OneOrFiller'
  BY <1>2, <1>5, OneKept DEF Filler
<1>6. ASSUME NEW n \in Names, app[n] # Nothing, app' = [app EXCEPT ![n] = Nothing],
             NEW step, Go(u, step)
      PROVE  OneOrFiller'
  BY <1>2, <1>6, OneTaken
<1>7. ASSUME Filler(u), NEW n \in Names, NEW x, app' = [app EXCEPT ![n] = x],
             NEW step, Go(u, step), step \notin {"swap_in", "unswap", "rb_in", "rb_undo"}
      PROVE  OneOrFiller'
  BY <1>2, <1>7, OnePut DEF Filler
<1>8. CASE Start(u)
  BY <1>8, <1>3 DEF Start, disk, helper
<1>9. CASE Exit(u)
  BY <1>9, <1>3 DEF Exit, disk, helper
<1>10. CASE Recover(u)
  BY <1>10, <1>3 DEF Recover, disk, helper
<1>11. CASE Capture(u)
  BY <1>11, <1>3 DEF Capture, disk, helper
<1>12. CASE Materialize(u)
  BY <1>12, <1>3 DEF Materialize, disk, helper
<1>13. CASE Stage(u)
  BY <1>13, <1>3 DEF Stage, disk, helper
<1>14. CASE Cancel(u)
  BY <1>14, <1>3 DEF Cancel, disk, helper
<1>15. CASE OpenWindow(u)
  BY <1>15, <1>3 DEF OpenWindow, disk, helper
<1>16. CASE CleanStart(u)
  BY <1>16, <1>3 DEF CleanStart, disk, helper
<1>17. CASE CleanFiles(u)
  BY <1>17, <1>3 DEF CleanFiles, disk, helper
<1>18. CASE ChildStarts(u)
  BY <1>18, <1>3 DEF ChildStarts, disk, helper
<1>19. CASE Damage(u)
  BY <1>19, <1>3 DEF Damage, disk, helper
<1>20. CASE Launch(u)
  <2>1. UNCHANGED app /\ (Go(u, "load"))
    BY <1>20, Zenon DEF Launch, disk
  <2> QED  BY <2>1, <1>4
<1>21. CASE Load(u)
  <2>1. UNCHANGED app /\ (Go(u, "wait") \/ Go(u, "none"))
    BY <1>21, Zenon DEF Load, disk, Report, Go
  <2> QED  BY <2>1, <1>4
<1>22. CASE WaitParent(u)
  <2>1. UNCHANGED app /\ (Go(u, "authorize") \/ Go(u, "none"))
    BY <1>22, Zenon DEF WaitParent, disk, Report, Go
  <2> QED  BY <2>1, <1>4
<1>23. CASE Authorize(u)
  <2>1. UNCHANGED app /\ (Go(u, "validate") \/ Go(u, "preapply"))
    BY <1>23, Zenon DEF Authorize, disk
  <2> QED  BY <2>1, <1>4
<1>24. CASE Validate(u)
  <2>1. UNCHANGED app /\ (Go(u, "swap_out") \/ Go(u, "preapply"))
    BY <1>24, Zenon DEF Validate, disk
  <2> QED  BY <2>1, <1>4
<1>25. CASE Recheck(u)
  <2>1. UNCHANGED app /\ (Go(u, "version") \/ Go(u, "rb_out"))
    BY <1>25, Zenon DEF Recheck, disk
  <2> QED  BY <2>1, <1>4
<1>26. CASE Preapply(u)
  <2>1. UNCHANGED app /\ (Go(u, "none"))
    BY <1>26, Zenon DEF Preapply, disk, Report, Go
  <2> QED  BY <2>1, <1>4
<1>27. CASE LaunchNew(u)
  <2>1. UNCHANGED app /\ (Go(u, "health") \/ Go(u, "rb_out"))
    BY <1>27, Zenon DEF LaunchNew, disk
  <2> QED  BY <2>1, <1>4
<1>28. CASE Health(u)
  <2>1. UNCHANGED app /\ (Go(u, "commit") \/ Go(u, "terminate") \/ Go(u, "rb_out"))
    BY <1>28, Zenon DEF Health, disk
  <2> QED  BY <2>1, <1>4
<1>29. CASE Terminate(u)
  <2>1. UNCHANGED app /\ (Go(u, "rb_out"))
    BY <1>29, Zenon DEF Terminate, disk
  <2> QED  BY <2>1, <1>4
<1>30. CASE Commit(u)
  <2>1. UNCHANGED app /\ (Go(u, "none"))
    BY <1>30, Zenon DEF Commit, disk, Report, Go
  <2> QED  BY <2>1, <1>4
<1>31. CASE Relaunch(u)
  <2>1. UNCHANGED app /\ (Go(u, "none"))
    BY <1>31, Zenon DEF Relaunch, disk, Report, Go
  <2> QED  BY <2>1, <1>4
<1>32. CASE Crash(u)
  <2>1. UNCHANGED app /\ (Go(u, "none"))
    BY <1>32, Zenon DEF Crash, disk, Report, Go
  <2> QED  BY <2>1, <1>4
<1>33. CASE SwapOut(u)
  <2>1. CASE app[T(u)] # Nothing /\ app' = [app EXCEPT ![T(u)] = Nothing] /\ Go(u, "swap_in")
    BY <2>1, <1>1, <1>6
  <2>2. CASE UNCHANGED app /\ Go(u, "preapply")
    BY <2>2, <1>4
  <2> QED  BY <1>33, <2>1, <2>2, Zenon DEF SwapOut
<1>34. CASE SwapIn(u)
  <2>1. Filler(u)
    BY <1>34 DEF SwapIn, Filler
  <2>2. CASE app' = [app EXCEPT ![T(u)] = staged[u]] /\ Go(u, "recheck")
    BY <2>1, <2>2, <1>1, <1>7
  <2>3. CASE UNCHANGED app /\ Go(u, "unswap")
    BY <2>1, <2>3, <1>5
  <2> QED  BY <1>34, <2>2, <2>3, Zenon DEF SwapIn
<1>35. CASE Unswap(u)
  <2>1. Filler(u)
    BY <1>35 DEF Unswap, Filler
  <2>2. CASE app' = [app EXCEPT ![T(u)] = bak[T(u)]] /\ Go(u, "preapply")
    BY <2>1, <2>2, <1>1, <1>7
  <2>3. CASE UNCHANGED app /\ Go(u, "preapply")
    BY <2>3, <1>4
  <2> QED  BY <1>35, <2>2, <2>3, Zenon DEF Unswap, Restored, NotRestored
<1>36. CASE Version(u)
  <2> DEFINE d == Destination(u)
  <2>1. CASE UNCHANGED app /\ (Go(u, "launch") \/ Go(u, "rb_out"))
    BY <2>1, <1>4
  <2>2. CASE /\ d # T(u) /\ app[T(u)] # Nothing
             /\ app' = [app EXCEPT ![d] = app[T(u)], ![T(u)] = Nothing]
             /\ Go(u, "launch")
    <3>1. /\ \A w \in Profiles : ~Filler(w) /\ ~Filler(w)'
          /\ \A n \in Names : app[n] # Nothing => n = T(u)
      BY <2>2, <1>1, <1>2 DEF OneOrFiller, OneName, Filler
    <3>2. \A n \in Names : app'[n] # Nothing => n = d
      BY <2>2, <3>1, <1>1 DEF TypeOK
    <3> QED  BY <3>1, <3>2 DEF OneOrFiller, OneName
  <2> QED  BY <1>36, <2>1, <2>2, Zenon DEF Version
<1>37. CASE RollbackOut(u)
  <2>1. CASE app[at[u]] # Nothing /\ app' = [app EXCEPT ![at[u]] = Nothing] /\ Go(u, "rb_in")
    BY <2>1, <1>1, <1>6
  <2>2. CASE UNCHANGED app /\ (Go(u, "preapply") \/ Go(u, "none"))
    BY <2>2, <1>4
  <2> QED  BY <1>37, <2>1, <2>2, Zenon DEF RollbackOut, Report, Go
<1>38. CASE RollbackIn(u)
  <2>1. Filler(u) /\ pc[u] = "rb_in"
    BY <1>38 DEF RollbackIn, Filler
  <2>2. CASE app' = [app EXCEPT ![T(u)] = bak[T(u)]] /\ Go(u, back[u])
    <3>1. back[u] \in {"preapply", "relaunch"}
      BY DEF TypeOK
    <3> QED  BY <2>1, <2>2, <3>1, <1>1, <1>7
  <2>3. CASE UNCHANGED app /\ Go(u, "rb_undo")
    BY <2>1, <2>3, <1>5
  <2> QED  BY <1>38, <2>2, <2>3, Zenon DEF RollbackIn, Restored, NotRestored
<1>39. CASE RollbackUndo(u)
  <2>1. Filler(u)
    BY <1>39 DEF RollbackUndo, Filler
  <2>2. Go(u, "preapply") \/ Go(u, "none")
    BY <1>39, Zenon DEF RollbackUndo, Report, Go
  <2>3. CASE app' = [app EXCEPT ![at[u]] = staged[u]]
    BY <2>1, <2>2, <2>3, <1>1, <1>7
  <2>4. CASE UNCHANGED app
    BY <2>2, <2>4, <1>4
  <2> QED  BY <1>39, <2>3, <2>4, Zenon DEF RollbackUndo
<1>40. QED
  BY <1>8, <1>9, <1>10, <1>11, <1>12, <1>13, <1>14, <1>15, <1>16, <1>17, <1>18, <1>19,
    <1>20, <1>21, <1>22, <1>23, <1>24, <1>25, <1>26, <1>27, <1>28, <1>29, <1>30, <1>31,
    <1>32, <1>33, <1>34, <1>35, <1>36, <1>37, <1>38, <1>39 DEF GuiStep, HelperStep

-----------------------------------------------------------------------------
(* What a step of a profile does to the installation, seen by the others   *)

\* The other profiles, and an installation or a copy that was set aside, stay.
Others(u) ==
  /\ \A w \in Profiles \ {u} :
       pc'[w] = pc[w] /\ T(w)' = T(w) /\ staged'[w] = staged[w] /\ moved'[w] = moved[w]
  /\ pc[u] # "none" => T(u)' = T(u)
  /\ pc[u] \in AfterSwap => moved'[u] = moved[u]
  /\ saved \subseteq saved'

\* Nothing is moved, and the helper keeps what it has to answer for,
Quiet(u) ==
  /\ app' = app /\ bak' = bak
  /\ pc'[u] \in AfterSwap <=> pc[u] \in AfterSwap
  /\ Filler(u)' <=> Filler(u)
  /\ pc'[u] \in {"rb_in", "rb_undo"} =>
       pc[u] \in {"rb_in", "rb_undo"} /\ staged'[u] = staged[u]
\* or the helper ends and leaves its backup behind.
Leaves(u) ==
  /\ app' = app /\ bak' = bak
  /\ pc'[u] \notin AfterSwap
  /\ pc[u] = "rb_in" => pc'[u] = "none"
\* The installation is moved away,
Takes(u) ==
  /\ pc[u] = "swap_out" /\ pc'[u] = "swap_in"
  /\ app[T(u)] # Nothing /\ bak[T(u)] = Nothing
  /\ app' = [app EXCEPT ![T(u)] = Nothing]
  /\ bak' = [bak EXCEPT ![T(u)] = app[T(u)]]
  /\ moved'[u] = app[T(u)]
\* a release is put where there is none,
Puts(u) ==
  /\ \/ pc[u] = "swap_in" /\ staged[u] \in Versions
     \/ pc[u] = "rb_undo"
  /\ pc'[u] \notin {"swap_in", "unswap", "rb_in", "rb_undo"}
  /\ bak' = bak
  /\ \E n \in Names : app' = [app EXCEPT ![n] = staged[u]]
\* the backup is put back,
Restores(u) ==
  /\ pc[u] \in AfterSwap /\ pc'[u] \notin AfterSwap
  /\ app' = [app EXCEPT ![T(u)] = bak[T(u)]]
  /\ bak' = [bak EXCEPT ![T(u)] = Nothing]
\* the new one gets its own name,
Renames(u) ==
  /\ pc[u] = "version" /\ pc'[u] = "launch" /\ bak' = bak
  /\ Destination(u) # T(u) /\ app[Destination(u)] = Nothing
  /\ app' = [app EXCEPT ![Destination(u)] = app[T(u)], ![T(u)] = Nothing]
\* or is set aside,
SetsAside(u) ==
  /\ pc[u] = "rb_out" /\ pc'[u] = "rb_in" /\ bak' = bak
  /\ app[at[u]] # Nothing /\ staged'[u] = app[at[u]]
  /\ app' = [app EXCEPT ![at[u]] = Nothing]
\* the backup is deleted, or a part of it,
Deletes(u) ==
  /\ pc[u] = "commit" /\ pc'[u] = "none" /\ app' = app
  /\ \E x \in {Nothing, Damaged} : bak' = [bak EXCEPT ![T(u)] = x]
\* or a leftover backup is preserved.
Preserves(u) ==
  /\ pc[u] = "none" /\ pc'[u] = "none" /\ app' = app
  /\ \E n \in Names : /\ bak' = [bak EXCEPT ![n] = Nothing]
                      /\ {bak[n]} \ {Nothing} \subseteq saved'

Effect(u) == \/ Quiet(u) \/ Leaves(u) \/ Takes(u) \/ Puts(u) \/ Restores(u) \/ Renames(u)
             \/ SetsAside(u) \/ Deletes(u) \/ Preserves(u)

\* A step does one of these, and each of the actions only what it is for.
LEMMA EffectStep ==
  ASSUME TypeOK, Local, Verified, NEW u \in Profiles,
         GuiStep(u) \/ HelperStep(u) \/ Damage(u) \/ Crash(u)
  PROVE  Others(u) /\ Effect(u)
<1> USE DEF TypeOK, Local, Verified, disk, helper, bounds
<1>1. /\ T(u) \in Names /\ Destination(u) \in Names /\ at[u] \in Names
      /\ plan[u].ver \in Versions /\ gui[u].name \in Names /\ staged[u] \in Contents
      /\ \A n \in Names : app[n] \in Contents /\ bak[n] \in Contents
  BY Fields
<1>2. CASE Start(u)
  <2>1. Others(u)
    BY <1>2, <1>1 DEF Others, AfterSwap, T, Start, Running
  <2>2. Quiet(u)
    BY <1>2, <1>1 DEF Quiet, AfterSwap, Filler, Start, Running
  <2>3. QED
    BY <2>1, <2>2 DEF Effect
<1>3. CASE Exit(u)
  <2>1. Others(u)
    BY <1>3, <1>1 DEF Others, AfterSwap, T, Exit
  <2>2. Quiet(u)
    BY <1>3, <1>1 DEF Quiet, AfterSwap, Filler, Exit
  <2>3. QED
    BY <2>1, <2>2 DEF Effect
<1>4. CASE Recover(u)
  <2>1. Others(u)
    BY <1>4, <1>1 DEF Others, AfterSwap, T, Recover, UpdaterIsRunning, Preserved
  <2>2. Quiet(u) \/ Preserves(u)
    BY <1>4, <1>1 DEF Quiet, Preserves, AfterSwap, Filler, Recover, UpdaterIsRunning, Preserved
  <2>3. QED
    BY <2>1, <2>2 DEF Effect
<1>5. CASE Capture(u)
  <2>1. Others(u)
    BY <1>5, <1>1 DEF Others, AfterSwap, T, Capture, Fail
  <2>2. Quiet(u)
    BY <1>5, <1>1 DEF Quiet, AfterSwap, Filler, Capture, Fail
  <2>3. QED
    BY <2>1, <2>2 DEF Effect
<1>6. CASE Materialize(u)
  <2>1. Others(u)
    BY <1>6, <1>1 DEF Others, AfterSwap, T, Materialize, Fail
  <2>2. Quiet(u)
    BY <1>6, <1>1 DEF Quiet, AfterSwap, Filler, Materialize, Fail
  <2>3. QED
    BY <2>1, <2>2 DEF Effect
<1>7. CASE Stage(u)
  <2>1. Others(u)
    BY <1>7, <1>1 DEF Others, AfterSwap, T, Stage, Fail
  <2>2. Quiet(u)
    BY <1>7, <1>1 DEF Quiet, AfterSwap, Filler, Stage, Fail
  <2>3. QED
    BY <2>1, <2>2 DEF Effect
<1>8. CASE Cancel(u)
  <2>1. Others(u)
    BY <1>8, <1>1 DEF Others, AfterSwap, T, Cancel, Fail
  <2>2. Quiet(u)
    BY <1>8, <1>1 DEF Quiet, AfterSwap, Filler, Cancel, Fail
  <2>3. QED
    BY <2>1, <2>2 DEF Effect
<1>9. CASE Launch(u)
  <2>1. Others(u)
    BY <1>9, <1>1 DEF Others, AfterSwap, T, Launch, Fail, Go
  <2>2. Quiet(u)
    BY <1>9, <1>1 DEF Quiet, AfterSwap, Filler, Launch, Fail, Go
  <2>3. QED
    BY <2>1, <2>2 DEF Effect
<1>10. CASE OpenWindow(u)
  <2>1. Others(u)
    BY <1>10, <1>1 DEF Others, AfterSwap, T, OpenWindow
  <2>2. Quiet(u)
    BY <1>10, <1>1 DEF Quiet, AfterSwap, Filler, OpenWindow
  <2>3. QED
    BY <2>1, <2>2 DEF Effect
<1>11. CASE CleanStart(u)
  <2>1. Others(u)
    BY <1>11, <1>1 DEF Others, AfterSwap, T, CleanStart
  <2>2. Quiet(u)
    BY <1>11, <1>1 DEF Quiet, AfterSwap, Filler, CleanStart
  <2>3. QED
    BY <2>1, <2>2 DEF Effect
<1>12. CASE CleanFiles(u)
  <2>1. Others(u)
    BY <1>12, <1>1 DEF Others, AfterSwap, T, CleanFiles, UpdaterIsRunning, Uncommitted
  <2>2. Quiet(u)
    BY <1>12, <1>1 DEF Quiet, AfterSwap, Filler, CleanFiles, UpdaterIsRunning, Uncommitted
  <2>3. QED
    BY <2>1, <2>2 DEF Effect
<1>13. CASE ChildStarts(u)
  <2>1. Others(u)
    BY <1>13, <1>1 DEF Others, AfterSwap, T, ChildStarts, Running
  <2>2. Quiet(u)
    BY <1>13, <1>1 DEF Quiet, AfterSwap, Filler, ChildStarts, Running
  <2>3. QED
    BY <2>1, <2>2 DEF Effect
<1>14. CASE Load(u)
  <2>1. Others(u)
    BY <1>14, <1>1 DEF Others, AfterSwap, T, Load, Go, Report
  <2>2. Quiet(u)
    BY <1>14, <1>1 DEF Quiet, AfterSwap, Filler, Load, Go, Report
  <2>3. QED
    BY <2>1, <2>2 DEF Effect
<1>15. CASE WaitParent(u)
  <2>1. Others(u)
    BY <1>15, <1>1 DEF Others, AfterSwap, T, WaitParent, Go, Report
  <2>2. Quiet(u)
    BY <1>15, <1>1 DEF Quiet, AfterSwap, Filler, WaitParent, Go, Report
  <2>3. QED
    BY <2>1, <2>2 DEF Effect
<1>16. CASE Authorize(u)
  <2>1. Others(u)
    BY <1>16, <1>1 DEF Others, AfterSwap, T, Authorize, Go
  <2>2. Quiet(u)
    BY <1>16, <1>1 DEF Quiet, AfterSwap, Filler, Authorize, Go
  <2>3. QED
    BY <2>1, <2>2 DEF Effect
<1>17. CASE Validate(u)
  <2>1. Others(u)
    BY <1>17, <1>1 DEF Others, AfterSwap, T, Validate, Go, StagedValid
  <2>2. Quiet(u)
    BY <1>17, <1>1 DEF Quiet, AfterSwap, Filler, Validate, Go, StagedValid
  <2>3. QED
    BY <2>1, <2>2 DEF Effect
<1>18. CASE SwapOut(u)
  <2>1. Others(u)
    BY <1>18, <1>1 DEF Others, AfterSwap, T, SwapOut, Go
  <2>2. Quiet(u) \/ Takes(u)
    BY <1>18, <1>1 DEF Quiet, Takes, AfterSwap, Filler, SwapOut, Go
  <2>3. QED
    BY <2>1, <2>2 DEF Effect
<1>19. CASE SwapIn(u)
  <2>1. Others(u)
    BY <1>19, <1>1 DEF Others, AfterSwap, T, SwapIn, Go
  <2>2. Quiet(u) \/ Puts(u)
    BY <1>19, <1>1 DEF Quiet, Puts, AfterSwap, Filler, SwapIn, Go
  <2>3. QED
    BY <2>1, <2>2 DEF Effect
<1>20. CASE Unswap(u)
  <2>1. Others(u)
    BY <1>20, <1>1 DEF Others, AfterSwap, T, Unswap, Go, Restored, NotRestored
  <2>2. Leaves(u) \/ Restores(u)
    BY <1>20, <1>1 DEF Leaves, Restores, AfterSwap, Filler, Unswap, Go, Restored, NotRestored
  <2>3. QED
    BY <2>1, <2>2 DEF Effect
<1>21. CASE Recheck(u)
  <2>1. Others(u)
    BY <1>21, <1>1 DEF Others, AfterSwap, T, Recheck, Go
  <2>2. Quiet(u)
    BY <1>21, <1>1 DEF Quiet, AfterSwap, Filler, Recheck, Go
  <2>3. QED
    BY <2>1, <2>2 DEF Effect
<1>22. CASE Version(u)
  <2>1. Others(u)
    BY <1>22, <1>1 DEF Others, AfterSwap, T, Version, Go
  <2>2. Quiet(u) \/ Renames(u)
    BY <1>22, <1>1 DEF Quiet, Renames, AfterSwap, Filler, Version, Go
  <2>3. QED
    BY <2>1, <2>2 DEF Effect
<1>23. CASE Preapply(u)
  <2>1. Others(u)
    BY <1>23, <1>1 DEF Others, AfterSwap, T, Preapply, Report, StartPrevious, Running
  <2>2. Quiet(u)
    BY <1>23, <1>1 DEF Quiet, AfterSwap, Filler, Preapply, Report, StartPrevious, Running
  <2>3. QED
    BY <2>1, <2>2 DEF Effect
<1>24. CASE LaunchNew(u)
  <2>1. Others(u)
    BY <1>24, <1>1 DEF Others, AfterSwap, T, LaunchNew, Go
  <2>2. Quiet(u)
    BY <1>24, <1>1 DEF Quiet, AfterSwap, Filler, LaunchNew, Go
  <2>3. QED
    BY <2>1, <2>2 DEF Effect
<1>25. CASE Health(u)
  <2>1. Others(u)
    BY <1>25, <1>1 DEF Others, AfterSwap, T, Health, Go
  <2>2. Quiet(u)
    BY <1>25, <1>1 DEF Quiet, AfterSwap, Filler, Health, Go
  <2>3. QED
    BY <2>1, <2>2 DEF Effect
<1>26. CASE Terminate(u)
  <2>1. Others(u)
    BY <1>26, <1>1 DEF Others, AfterSwap, T, Terminate, Go
  <2>2. Quiet(u)
    BY <1>26, <1>1 DEF Quiet, AfterSwap, Filler, Terminate, Go
  <2>3. QED
    BY <2>1, <2>2 DEF Effect
<1>27. CASE Commit(u)
  <2>1. Others(u)
    BY <1>27, <1>1 DEF Others, AfterSwap, T, Commit, Report
  <2>2. Leaves(u) \/ Deletes(u)
    BY <1>27, <1>1 DEF Leaves, Deletes, AfterSwap, Filler, Commit, Report
  <2>3. QED
    BY <2>1, <2>2 DEF Effect
<1>28. CASE RollbackOut(u)
  <2>1. Others(u)
    BY <1>28, <1>1 DEF Others, AfterSwap, T, RollbackOut, Go, Report
  <2>2. Leaves(u) \/ SetsAside(u)
    BY <1>28, <1>1 DEF Leaves, SetsAside, AfterSwap, Filler, RollbackOut, Go, Report
  <2>3. QED
    BY <2>1, <2>2 DEF Effect
<1>29. CASE RollbackIn(u)
  <2>1. Others(u)
    BY <1>29, <1>1 DEF Others, AfterSwap, T, RollbackIn, Go, Restored, NotRestored
  <2>2. Quiet(u) \/ Restores(u)
    BY <1>29, <1>1 DEF Quiet, Restores, AfterSwap, Filler, RollbackIn, Go, Restored, NotRestored
  <2>3. QED
    BY <2>1, <2>2 DEF Effect
<1>30. CASE RollbackUndo(u)
  <2>1. Others(u)
    BY <1>30, <1>1 DEF Others, AfterSwap, T, RollbackUndo, Go, Report
  <2>2. Leaves(u) \/ Puts(u)
    BY <1>30, <1>1 DEF Leaves, Puts, AfterSwap, Filler, RollbackUndo, Go, Report
  <2>3. QED
    BY <2>1, <2>2 DEF Effect
<1>31. CASE Relaunch(u)
  <2>1. Others(u)
    BY <1>31, <1>1 DEF Others, AfterSwap, T, Relaunch, Report, StartPrevious, Running
  <2>2. Quiet(u)
    BY <1>31, <1>1 DEF Quiet, AfterSwap, Filler, Relaunch, Report, StartPrevious, Running
  <2>3. QED
    BY <2>1, <2>2 DEF Effect
<1>32. CASE Damage(u)
  <2>1. Others(u)
    BY <1>32, <1>1 DEF Others, AfterSwap, T, Damage
  <2>2. Quiet(u)
    BY <1>32, <1>1 DEF Quiet, AfterSwap, Filler, Damage
  <2>3. QED
    BY <2>1, <2>2 DEF Effect
<1>33. CASE Crash(u)
  <2>1. Others(u)
    BY <1>33, <1>1 DEF Others, AfterSwap, T, Crash, Report
  <2>2. Leaves(u)
    BY <1>33, <1>1 DEF Leaves, AfterSwap, Filler, Crash, Report
  <2>3. QED
    BY <2>1, <2>2 DEF Effect
<1>34. QED
  BY <1>2, <1>3, <1>4, <1>5, <1>6, <1>7, <1>8, <1>9, <1>10, <1>11, <1>12, <1>13, <1>14,
    <1>15, <1>16, <1>17, <1>18, <1>19, <1>20, <1>21, <1>22, <1>23, <1>24, <1>25, <1>26,
    <1>27, <1>28, <1>29, <1>30, <1>31, <1>32, <1>33 DEF GuiStep, HelperStep

\* What is put in place is whole.
LEMMA WholeStep ==
  ASSUME TypeOK, Whole, HoldsBackup, NEW u \in Profiles, Others(u), Effect(u)
  PROVE  Whole'
<1> USE DEF Whole, HoldsBackup, AfterSwap, Contents
<1>1. /\ T(u) \in Names /\ Destination(u) \in Names /\ at[u] \in Names
      /\ staged[u] \in Contents
      /\ \A n \in Names : app[n] \in Contents /\ bak[n] \in Contents
  BY Fields
<1>2. app \in [Names -> Contents] /\ bak \in [Names -> Contents]
  BY DEF TypeOK
<1>3. /\ \A w \in Profiles \ {u} :
           /\ pc'[w] = pc[w] /\ T(w)' = T(w) /\ staged'[w] = staged[w]
           /\ moved'[w] = moved[w]
      /\ pc[u] # "none" => T(u)' = T(u)
      /\ pc[u] \in AfterSwap => moved'[u] = moved[u]
      /\ saved \subseteq saved'
  BY DEF Others
<1>4. CASE Quiet(u)
  BY <1>4, <1>1, <1>2, <1>3 DEF Quiet, Filler
<1>5. CASE Leaves(u)
  BY <1>5, <1>1, <1>2, <1>3 DEF Leaves, Filler
<1>6. CASE Takes(u)
  BY <1>6, <1>1, <1>2, <1>3 DEF Takes, Filler
<1>7. CASE Puts(u)
  BY <1>7, <1>1, <1>2, <1>3 DEF Puts, Filler
<1>8. CASE Restores(u)
  BY <1>8, <1>1, <1>2, <1>3 DEF Restores, Filler
<1>9. CASE Renames(u)
  BY <1>9, <1>1, <1>2, <1>3 DEF Renames, Filler
<1>10. CASE SetsAside(u)
  BY <1>10, <1>1, <1>2, <1>3 DEF SetsAside, Filler
<1>11. CASE Deletes(u)
  BY <1>11, <1>1, <1>2, <1>3 DEF Deletes, Filler
<1>12. CASE Preserves(u)
  BY <1>12, <1>1, <1>2, <1>3 DEF Preserves, Filler
<1>13. QED
  BY <1>4, <1>5, <1>6, <1>7, <1>8, <1>9, <1>10, <1>11, <1>12 DEF Effect

\* A backup is taken away by the helper that made it, or is set aside.
LEMMA HoldsStep ==
  ASSUME TypeOK, Whole, HoldsBackup, ~Recovered', NEW u \in Profiles, Others(u), Effect(u)
  PROVE  HoldsBackup'
<1> USE DEF Whole, HoldsBackup, Recovered, AfterSwap, Contents
<1>1. /\ T(u) \in Names /\ Destination(u) \in Names /\ at[u] \in Names
      /\ staged[u] \in Contents
      /\ \A n \in Names : app[n] \in Contents /\ bak[n] \in Contents
  BY Fields
<1>2. app \in [Names -> Contents] /\ bak \in [Names -> Contents]
  BY DEF TypeOK
<1>3. /\ \A w \in Profiles \ {u} :
           /\ pc'[w] = pc[w] /\ T(w)' = T(w) /\ staged'[w] = staged[w]
           /\ moved'[w] = moved[w]
      /\ pc[u] # "none" => T(u)' = T(u)
      /\ pc[u] \in AfterSwap => moved'[u] = moved[u]
      /\ saved \subseteq saved'
  BY DEF Others
<1>4. CASE Quiet(u)
  BY <1>4, <1>1, <1>2, <1>3 DEF Quiet, Filler
<1>5. CASE Leaves(u)
  BY <1>5, <1>1, <1>2, <1>3 DEF Leaves, Filler
<1>6. CASE Takes(u)
  BY <1>6, <1>1, <1>2, <1>3 DEF Takes, Filler
<1>7. CASE Puts(u)
  BY <1>7, <1>1, <1>2, <1>3 DEF Puts, Filler
<1>8. CASE Restores(u)
  BY <1>8, <1>1, <1>2, <1>3 DEF Restores, Filler
<1>9. CASE Renames(u)
  BY <1>9, <1>1, <1>2, <1>3 DEF Renames, Filler
<1>10. CASE SetsAside(u)
  BY <1>10, <1>1, <1>2, <1>3 DEF SetsAside, Filler
<1>11. CASE Deletes(u)
  BY <1>11, <1>1, <1>2, <1>3 DEF Deletes, Filler
<1>12. CASE Preserves(u)
  BY <1>12, <1>1, <1>2, <1>3 DEF Preserves, Filler
<1>13. QED
  BY <1>4, <1>5, <1>6, <1>7, <1>8, <1>9, <1>10, <1>11, <1>12 DEF Effect

\* Whatever a step takes away, a release remains.
LEMMA RemainsStep ==
  ASSUME TypeOK, Whole, HoldsBackup, Remains, ~Recovered', NEW u \in Profiles, Others(u), Effect(u)
  PROVE  Remains'
<1> USE DEF Whole, HoldsBackup, Remains, Recovered, AfterSwap, Contents
<1>1. /\ T(u) \in Names /\ Destination(u) \in Names /\ at[u] \in Names
      /\ staged[u] \in Contents
      /\ \A n \in Names : app[n] \in Contents /\ bak[n] \in Contents
  BY Fields
<1>2. app \in [Names -> Contents] /\ bak \in [Names -> Contents]
  BY DEF TypeOK
<1>3. /\ \A w \in Profiles \ {u} :
           /\ pc'[w] = pc[w] /\ T(w)' = T(w) /\ staged'[w] = staged[w]
           /\ moved'[w] = moved[w]
      /\ pc[u] # "none" => T(u)' = T(u)
      /\ pc[u] \in AfterSwap => moved'[u] = moved[u]
      /\ saved \subseteq saved'
  BY DEF Others
<1>4. CASE Quiet(u)
  BY <1>4, <1>1, <1>2, <1>3 DEF Quiet, Filler
<1>5. CASE Leaves(u)
  BY <1>5, <1>1, <1>2, <1>3 DEF Leaves, Filler
<1>6. CASE Takes(u)
  BY <1>6, <1>1, <1>2, <1>3 DEF Takes, Filler
<1>7. CASE Puts(u)
  BY <1>7, <1>1, <1>2, <1>3 DEF Puts, Filler
<1>8. CASE Restores(u)
  BY <1>8, <1>1, <1>2, <1>3 DEF Restores, Filler
<1>9. CASE Renames(u)
  BY <1>9, <1>1, <1>2, <1>3 DEF Renames, Filler
<1>10. CASE SetsAside(u)
  BY <1>10, <1>1, <1>2, <1>3 DEF SetsAside, Filler
<1>11. CASE Deletes(u)
  BY <1>11, <1>1, <1>2, <1>3 DEF Deletes, Filler
<1>12. CASE Preserves(u)
  BY <1>12, <1>1, <1>2, <1>3 DEF Preserves, Filler
<1>13. QED
  BY <1>4, <1>5, <1>6, <1>7, <1>8, <1>9, <1>10, <1>11, <1>12 DEF Effect

\* Nobody else touches the backup of the only helper.
LEMMA AloneStep ==
  ASSUME TypeOK, Alone, OneProfile, NEW u \in Profiles, Others(u), Effect(u)
  PROVE  Alone'
<1> USE DEF Alone, OneProfile, AfterSwap, Contents
<1>1. /\ T(u) \in Names /\ Destination(u) \in Names /\ at[u] \in Names
      /\ staged[u] \in Contents
      /\ \A n \in Names : app[n] \in Contents /\ bak[n] \in Contents
  BY Fields
<1>2. app \in [Names -> Contents] /\ bak \in [Names -> Contents]
  BY DEF TypeOK
<1>3. /\ \A w \in Profiles \ {u} :
           /\ pc'[w] = pc[w] /\ T(w)' = T(w) /\ staged'[w] = staged[w]
           /\ moved'[w] = moved[w]
      /\ pc[u] # "none" => T(u)' = T(u)
      /\ pc[u] \in AfterSwap => moved'[u] = moved[u]
      /\ saved \subseteq saved'
  BY DEF Others
<1>4. CASE Quiet(u)
  BY <1>4, <1>1, <1>2, <1>3 DEF Quiet, Filler
<1>5. CASE Leaves(u)
  BY <1>5, <1>1, <1>2, <1>3 DEF Leaves, Filler
<1>6. CASE Takes(u)
  BY <1>6, <1>1, <1>2, <1>3 DEF Takes, Filler
<1>7. CASE Puts(u)
  BY <1>7, <1>1, <1>2, <1>3 DEF Puts, Filler
<1>8. CASE Restores(u)
  BY <1>8, <1>1, <1>2, <1>3 DEF Restores, Filler
<1>9. CASE Renames(u)
  BY <1>9, <1>1, <1>2, <1>3 DEF Renames, Filler
<1>10. CASE SetsAside(u)
  BY <1>10, <1>1, <1>2, <1>3 DEF SetsAside, Filler
<1>11. CASE Deletes(u)
  BY <1>11, <1>1, <1>2, <1>3 DEF Deletes, Filler
<1>12. CASE Preserves(u)
  BY <1>12, <1>1, <1>2, <1>3 DEF Preserves, Filler
<1>13. QED
  BY <1>4, <1>5, <1>6, <1>7, <1>8, <1>9, <1>10, <1>11, <1>12 DEF Effect

-----------------------------------------------------------------------------
(* The theorems                                                            *)

Sound == TypeOK /\ Local /\ Verified

\* The application is installed, and nothing else is there.
LEMMA Beginning ==
  ASSUME Init
  PROVE  Sound /\ OneOrFiller /\ SharedSafe /\ Alone
<1>1. PICK v \in Versions :
        /\ app = [n \in Names |-> IF n = Original THEN v ELSE Nothing]
        /\ plan = [u \in Profiles |-> [name |-> Original, ver |-> v,
                                       digest |-> Nothing, helper |-> Nothing]]
  BY DEF Init
<1>2. /\ bak = [n \in Names |-> Nothing] /\ staged = [u \in Profiles |-> Nothing]
      /\ saved = {} /\ gui = [u \in Profiles |-> NoGui]
      /\ lock = [u \in Profiles |-> "free"] /\ prep = [u \in Profiles |-> "idle"]
      /\ planFile = [u \in Profiles |-> FALSE] /\ pc = [u \in Profiles |-> "none"]
      /\ cur = [u \in Profiles |-> Nothing] /\ at = [u \in Profiles |-> Original]
      /\ back = [u \in Profiles |-> "preapply"] /\ child = [u \in Profiles |-> "none"]
      /\ marker = [u \in Profiles |-> FALSE] /\ moved = [u \in Profiles |-> Nothing]
      /\ result = [u \in Profiles |-> "none"] /\ plans = 0 /\ reinstalls = 0
  BY DEF Init
<1>3. Original \in Names /\ NoGui \in Gui
  BY DEF Names, NoGui, Gui
<1>4. plan \in [Profiles -> Plan]
  BY <1>1, <1>3 DEF Plan, Contents
<1>5. TypeOK
  BY <1>1, <1>2, <1>3, <1>4 DEF TypeOK, Contents
<1>6. Local /\ Verified /\ OneOrFiller
  BY <1>1, <1>2 DEF Local, Verified, OneOrFiller, OneName, Filler
<1>7. SharedSafe /\ Alone
  BY <1>1, <1>2, <1>3 DEF SharedSafe, Whole, HoldsBackup, Remains, Alone, AfterSwap, Filler
<1>8. QED
  BY <1>5, <1>6, <1>7 DEF Sound

\* A release that is copied over the installation disturbs no update.
LEMMA ReinstallStep ==
  ASSUME Sound, Reinstall
  PROVE  /\ Sound' /\ (SharedSafe => SharedSafe') /\ (Alone => Alone')
         /\ UNCHANGED <<bak, saved, pc, marker>>
<1>1. PICK n \in Names, v \in Versions :
        /\ app' = [app EXCEPT ![n] = v]
        /\ reinstalls < MaxReinstalls /\ reinstalls' = reinstalls + 1
  BY DEF Reinstall
<1>2. UNCHANGED <<bak, staged, saved, gui, lock, prep, plan, planFile, pc, cur, at, back,
                  moved, result, child, marker, plans>>
  BY DEF Reinstall, helper
<1>3. app' \in [Names -> Contents] /\ reinstalls' \in 0 .. MaxReinstalls
  BY <1>1 DEF Sound, TypeOK, Contents
<1>4. TypeOK'
  BY <1>2, <1>3 DEF Sound, TypeOK
<1>5. Local' /\ Verified'
  BY <1>2 DEF Sound, Local, Verified
<1>6. v # Nothing /\ v # Damaged /\ app'[n] = v /\ \A m \in Names : app'[m] \in {v, app[m]}
  BY <1>1 DEF Sound, TypeOK
<1>7. ASSUME SharedSafe PROVE SharedSafe'
  <2>1. CASE Recovered
    BY <1>2, <2>1 DEF SharedSafe, Recovered
  <2>2. CASE Whole /\ HoldsBackup
    <3>1. Whole' /\ HoldsBackup'
      BY <1>2, <1>6, <2>2 DEF Whole, HoldsBackup, T
    <3>2. Remains'
      BY <1>6 DEF Remains
    <3>3. QED
      BY <3>1, <3>2 DEF SharedSafe
  <2>3. QED
    BY <1>7, <2>1, <2>2 DEF SharedSafe
<1>8. ASSUME Alone PROVE Alone'
  BY <1>2, <1>6, <1>8 DEF Alone, T
<1>9. QED
  BY <1>2, <1>4, <1>5, <1>7, <1>8 DEF Sound

\* The invariants speak of the state only.
LEMMA Stutter ==
  ASSUME UNCHANGED vars
  PROVE  /\ (Sound => Sound') /\ (OneOrFiller => OneOrFiller')
         /\ (SharedSafe => SharedSafe') /\ (Alone => Alone')
<1> USE DEF vars, disk, helper, bounds
<1>1. Sound => Sound'
  BY DEF Sound, TypeOK, Local, Verified
<1>2. OneOrFiller => OneOrFiller'
  BY DEF OneOrFiller, OneName, Filler
<1>3. SharedSafe => SharedSafe'
  BY DEF SharedSafe, Recovered, Whole, HoldsBackup, Remains, Filler, T
<1>4. Alone => Alone'
  BY DEF Alone, T
<1>5. QED
  BY <1>1, <1>2, <1>3, <1>4

\* A step of a profile keeps every one of them.
LEMMA ProfileStep ==
  ASSUME Sound, NEW u \in Profiles,
         GuiStep(u) \/ HelperStep(u) \/ Damage(u) \/ Crash(u)
  PROVE  /\ Sound' /\ (OneOrFiller => OneOrFiller')
         /\ (SharedSafe => SharedSafe') /\ (OneProfile /\ Alone => Alone')
         /\ Others(u) /\ Effect(u)
<1>1. TypeOK /\ Local /\ Verified
  BY DEF Sound
<1>2. Sound'
  BY <1>1, TypeStep, LocalStep, VerifiedStep DEF Sound
<1>3. Others(u) /\ Effect(u)
  BY <1>1, EffectStep
<1>4. OneOrFiller => OneOrFiller'
  BY <1>1, OneStep
<1>5. OneProfile /\ Alone => Alone'
  BY <1>1, <1>3, AloneStep
<1>6. ASSUME SharedSafe PROVE SharedSafe'
  <2>1. CASE Recovered'
    BY <2>1 DEF SharedSafe
  <2>2. CASE ~Recovered'
    <3>1. ~Recovered
      BY <1>3, <2>2 DEF Recovered, Others
    <3>2. Whole /\ HoldsBackup /\ Remains
      BY <1>6, <3>1 DEF SharedSafe
    <3>3. Whole' /\ HoldsBackup' /\ Remains'
      BY <1>1, <1>3, <2>2, <3>2, WholeStep, HoldsStep, RemainsStep
    <3>4. QED
      BY <3>3 DEF SharedSafe
  <2>3. QED
    BY <2>1, <2>2
<1>7. QED
  BY <1>2, <1>3, <1>4, <1>5, <1>6

\* For every set of data directories that update the same installation, every fault, crash
\* and reinstallation: the types, the locks of a profile, what is verified before a swap.
THEOREM Inductive == Spec => []Sound
<1>1. Sound /\ [Next]_vars => Sound'
  BY ProfileStep, ReinstallStep, Stutter DEF Next
<1>2. QED
  BY <1>1, Beginning, PTL DEF Spec

\* Every variable keeps its type (UpdateTransaction.tla).
THEOREM TypeCorrect == Spec => []TypeOK
<1>1. Sound => TypeOK
  BY DEF Sound
<1>2. QED
  BY <1>1, Inductive, PTL

\* maintenance locks of update_install.rs and update_cleanup.rs: a GUI that starts while a
\* helper of its profile works prepares nothing, and its clean-up leaves the plan alone.
THEOREM Undisturbed == Spec => []HelperUndisturbed
<1>1. Sound => HelperUndisturbed
  BY DEF Sound, Local, HelperUndisturbed
<1>2. QED
  BY <1>1, Inductive, PTL

\* commit_applied_update: whoever updates, a backup is deleted only after the new
\* application has opened its window and said so.
THEOREM Commits == Spec => CommitOnlyHealthy
<1> DEFINE A == \A u \in Profiles : \A n \in Names :
                  (/\ bak[n] # Nothing
                   /\ bak'[n] # bak[n]
                   /\ bak[n] \notin {app'[n]} \cup saved') => \E w \in Profiles : marker[w]
<1>1. ASSUME Sound, NEW u \in Profiles,
             GuiStep(u) \/ HelperStep(u) \/ Damage(u) \/ Crash(u)
      PROVE  A
  <2>1. Others(u) /\ Effect(u)
    BY <1>1, ProfileStep
  <2>2. /\ app \in [Names -> Contents] /\ bak \in [Names -> Contents]
        /\ pc[u] = "commit" => marker[u]
    BY <1>1 DEF Sound, TypeOK, Local
  <2>3. CASE \/ Quiet(u) \/ Leaves(u) \/ Takes(u) \/ Puts(u) \/ Renames(u) \/ SetsAside(u)
    BY <2>2, <2>3 DEF Quiet, Leaves, Takes, Puts, Renames, SetsAside
  <2>4. CASE Restores(u)
    BY <2>2, <2>4 DEF Restores
  <2>5. CASE Deletes(u)
    BY <2>2, <2>5 DEF Deletes
  <2>6. CASE Preserves(u)
    BY <2>2, <2>6 DEF Preserves
  <2>7. QED
    BY <2>1, <2>3, <2>4, <2>5, <2>6 DEF Effect
<1>2. Sound /\ Reinstall => A
  BY ReinstallStep
<1>3. UNCHANGED vars => A
  BY DEF vars, disk
<1>4. Sound /\ [Next]_vars => [A]_vars
  BY <1>1, <1>2 DEF Next
<1>5. QED
  BY <1>4, Inductive, PTL DEF Spec, CommitOnlyHealthy

\* Whatever renames, helpers, crashes and reinstallations do to each other, a release is
\* at its path, at the backup path or preserved (recover_previous_update).
THEOREM Something == Spec => []SomethingInstalled
<1>1. Sound /\ SharedSafe /\ [Next]_vars => SharedSafe'
  BY ProfileStep, ReinstallStep, Stutter DEF Next
<1>2. Sound /\ SharedSafe => SomethingInstalled
  <2>1. SUFFICES ASSUME Sound, SharedSafe, ~Recovered
                 PROVE  \E n \in Names : app[n] \in Versions \/ bak[n] \in Versions
    BY DEF SomethingInstalled, Recovered
  <2>2. HoldsBackup /\ Remains
    BY <2>1 DEF SharedSafe
  <2>3. CASE \E u \in Profiles : Filler(u)
    <3>1. PICK u \in Profiles : Filler(u)
      BY <2>3
    <3>2. bak[T(u)] \in Versions /\ T(u) \in Names
      BY <2>1, <2>2, <3>1, Fields DEF HoldsBackup, Filler, AfterSwap, Sound
    <3>3. QED
      BY <3>2
  <2>4. QED
    BY <2>2, <2>3 DEF Remains
<1>3. QED
  BY <1>1, <1>2, Inductive, Beginning, PTL DEF Spec

\* Profiles that share an installation which nobody replaces by hand: there always is one,
\* and a versioned release never sits beside the one it replaces.
THEOREM OneThere == SharedSpec => []OneInstalled
<1> DEFINE I == Sound /\ OneOrFiller
<1>1. SharedSpec => Spec
  <2>1. [SharedNext]_vars => [Next]_vars
    BY DEF SharedNext, Next
  <2>2. QED
    BY <2>1, PTL DEF SharedSpec, Spec
<1>2. Init => I
  BY Beginning
<1>3. I /\ [SharedNext]_vars => I'
  BY ProfileStep, Stutter DEF SharedNext
<1>4. SomethingInstalled /\ I => OneInstalled
  BY DEF OneInstalled, OneOrFiller
<1> HIDE DEF I
<1>5. QED
  BY <1>1, <1>2, <1>3, <1>4, Something, PTL DEF SharedSpec

\* One data directory: what the swap moves away stays at its path, at the backup path or
\* preserved until the commit, nothing damaged is installed, the helper is left alone.
THEOREM Kept == ASSUME OneProfile PROVE Spec => []InstallationKept
<1>1. Sound /\ Alone /\ [Next]_vars => Alone'
  BY OneProfile, ProfileStep, ReinstallStep, Stutter DEF Next
<1>2. Sound /\ Alone => InstallationKept
  BY DEF InstallationKept, PreviousKept, NeverDamaged, HelperUndisturbed, Sound, Local, Alone
<1>3. QED
  BY <1>1, <1>2, Inductive, Beginning, PTL DEF Spec

\* rollback_applied_update: a rollback that counts as done has put back what this update
\* had moved away, and only a healthy application is committed.
THEOREM Decided == ASSUME OneProfile PROVE Spec => UpdateDecided
<1> DEFINE A == \A u \in Profiles :
                  pc[u] = "rb_in" /\ pc'[u] = back[u] => app'[T(u)] = moved[u]
<1>1. Sound /\ Alone /\ [Next]_vars => Alone'
  BY OneProfile, ProfileStep, ReinstallStep, Stutter DEF Next
<1>2. ASSUME Sound, Alone, NEW u \in Profiles,
             GuiStep(u) \/ HelperStep(u) \/ Damage(u) \/ Crash(u)
      PROVE  A
  <2>1. SUFFICES ASSUME pc[u] = "rb_in", pc'[u] = back[u]
                 PROVE  app'[T(u)] = moved[u]
    BY OneProfile DEF OneProfile
  <2>2. /\ app \in [Names -> Contents] /\ bak \in [Names -> Contents] /\ T(u) \in Names
        /\ back[u] \in {"preapply", "relaunch"} /\ bak[T(u)] = moved[u]
    BY <1>2, <2>1, Fields DEF Sound, TypeOK, Alone, AfterSwap
  <2>3. Effect(u)
    BY <1>2, ProfileStep
  <2>4. Restores(u)
    BY <2>1, <2>2, <2>3
       DEF Effect, Quiet, Leaves, Takes, Puts, Renames, SetsAside, Deletes, Preserves, AfterSwap
  <2>5. QED
    BY <2>2, <2>4 DEF Restores
<1>3. Sound /\ Reinstall => A
  <2>1. SUFFICES ASSUME Sound, Reinstall
                 PROVE  \A u \in Profiles : pc'[u] = pc[u] /\ back[u] # "rb_in"
    OBVIOUS
  <2>2. QED
    BY <2>1, ReinstallStep DEF Sound, TypeOK
<1>4. Sound /\ Alone /\ [Next]_vars => [A]_vars
  BY <1>2, <1>3 DEF Next
<1>5. Spec => RestoresPrevious
  BY <1>1, <1>4, Inductive, Beginning, PTL DEF Spec, RestoresPrevious
<1>6. QED
  BY <1>5, Commits DEF UpdateDecided
=============================================================================
