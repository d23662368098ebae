------------------------- MODULE UpdateTransaction -------------------------
(***************************************************************************)
(* The in-place update (crates/mountmate-core/src/update_workflow.rs,      *)
(* update_install.rs, update_helper.rs, update_cleanup.rs).  The GUI       *)
(* stages a copy of the new release beside the installation, writes a plan *)
(* and exits; a detached helper swaps the two by rename, starts the new    *)
(* application, and commits when it reports healthy or rolls back.         *)
(*                                                                         *)
(* A profile is a data directory with its locks: one GUI and one helper at *)
(* a time are meant to work on it.  Several profiles may run the same      *)
(* installation.  The helper and the GUI crash at any step, renames fail,  *)
(* users start, quit and reinstall the application at any moment.          *)
(***************************************************************************)
EXTENDS Integers

CONSTANTS
  Profiles,      \* data directories
  Versions,      \* releases, as numbers
  Versioned,     \* Windows: a release is installed under a name of its own
  Faults,        \* may a rename, a removal or a spawn fail
  MaxPlans,      \* bound: updates that are prepared during a behaviour
  MaxReinstalls  \* bound: manual reinstallations during a behaviour

Nothing == 0                            \* no entry at this path
Damaged == -1                           \* an incomplete or altered copy
Original == 0                           \* the name the application came with
Names == {Original} \cup (IF Versioned THEN Versions ELSE {})
Contents == Versions \cup {Nothing, Damaged}

ASSUME UpdateAssumption ==
  /\ Versions \subseteq Nat \ {0}
  /\ Versioned \in BOOLEAN
  /\ Faults \in BOOLEAN
  /\ MaxPlans \in Nat
  /\ MaxReinstalls \in Nat

VARIABLES
  app, bak,    \* what the installation path and its backup path hold, per name
  staged,      \* the prepared copy, later the failed payload, per profile
  saved,       \* versions preserved as "recovered-<token>"
  gui,         \* the running application of a profile
  lock,        \* update-maintenance.lock: "free", "prepare" or "cleanup"
  prep,        \* step of prepare_update_install in the GUI
  plan,        \* UpdateHelperPlan, or what prepare knows of it so far
  planFile,    \* plan-<id>.json and the helper executable are on disk
  pc,          \* step of the helper, "none" when no helper runs
  cur,         \* digest of the executable when apply began
  at,          \* AppliedUpdate.target
  back,        \* where apply's rollback returns to
  child,       \* the application the helper started and watches
  marker,      \* the health marker is on disk
  moved,       \* ghost: the installation that the swap moved away
  result,      \* what the helper reported last
  plans, reinstalls

disk == <<app, bak, staged, saved>>
helper == <<pc, cur, at, back, moved, result>>
bounds == <<plans, reinstalls>>
vars == <<disk, gui, lock, prep, plan, planFile, helper, child, marker,
          bounds>>

\* parent: has launched a helper; clean: the clean-up of this GUI
Gui == [ver: Versions \cup {Nothing}, name: Names, parent: BOOLEAN,
        clean: {"todo", "pending", "done"}]
NoGui == [ver |-> Nothing, name |-> Original, parent |-> FALSE, clean |-> "todo"]
\* A GUI that has just been started from a path.
Running(n) == [NoGui EXCEPT !.ver = app[n], !.name = n]
Plan == [name: Names, ver: Versions, digest: Contents, helper: Contents]

T(u) == plan[u].name
\* The path a release is installed at: with_file_name(installed_name).
Destination(u) == IF Versioned THEN plan[u].ver ELSE T(u)

Go(u, step) == pc' = [pc EXCEPT ![u] = step]
Report(u, outcome) ==
  /\ pc' = [pc EXCEPT ![u] = "none"]
  /\ result' = [result EXCEPT ![u] = outcome]

Init ==
  \E v \in Versions :
    /\ app = [n \in Names |-> IF n = Original THEN v ELSE Nothing]
    /\ bak = [n \in Names |-> Nothing]
    /\ staged = [u \in Profiles |-> Nothing]
    /\ saved = {}
    /\ gui = [u \in Profiles |-> NoGui]
    /\ lock = [u \in Profiles |-> "free"]
    /\ prep = [u \in Profiles |-> "idle"]
    /\ plan = [u \in Profiles |-> [name |-> Original, ver |-> v,
                                   digest |-> Nothing, helper |-> Nothing]]
    /\ planFile = [u \in Profiles |-> FALSE]
    /\ pc = [u \in Profiles |-> "none"]
    /\ cur = [u \in Profiles |-> Nothing]
    /\ at = [u \in Profiles |-> Original]
    /\ back = [u \in Profiles |-> "preapply"]
    /\ child = [u \in Profiles |-> "none"]
    /\ marker = [u \in Profiles |-> FALSE]
    /\ moved = [u \in Profiles |-> Nothing]
    /\ result = [u \in Profiles |-> "none"]
    /\ plans = 0
    /\ reinstalls = 0

-----------------------------------------------------------------------------
(* The application of a profile, started by its user.                      *)

\* The instance lock admits one GUI per profile.
Start(u) ==
  \E n \in Names :
    /\ gui[u] = NoGui
    /\ app[n] \in Versions
    /\ gui' = [gui EXCEPT ![u] = Running(n)]
    /\ UNCHANGED <<disk, lock, prep, plan, planFile, helper, child, marker,
                   bounds>>

\* The application exits or crashes; its locks go with it, its files stay.
Exit(u) ==
  /\ gui[u] # NoGui
  /\ gui' = [gui EXCEPT ![u] = NoGui]
  /\ lock' = [lock EXCEPT ![u] = "free"]
  /\ prep' = [prep EXCEPT ![u] = "idle"]
  /\ child' = [child EXCEPT ![u] = IF @ = "running" THEN "exited" ELSE @]
  /\ UNCHANGED <<disk, plan, planFile, helper, marker, bounds>>

\* Somebody copies a release over the installation, or over a missing one.
Reinstall ==
  \E n \in Names, v \in Versions :
    /\ reinstalls < MaxReinstalls
    /\ app[n] # v
    /\ app' = [app EXCEPT ![n] = v]
    /\ reinstalls' = reinstalls + 1
    /\ UNCHANGED plans
    /\ UNCHANGED <<bak, staged, saved, gui, lock, prep, plan, planFile, helper,
                   child, marker>>

-----------------------------------------------------------------------------
(* prepare_update_install, in the GUI and under the maintenance lock       *)

\* Mutant: other processes are not looked at.
NeverRunning(u) == FALSE
UpdaterIsRunning(u) == pc[u] # "none"

\* Mutants: a leftover backup is deleted; a missing one is renamed.
PreservedNothing(n) == {}
PreservedAnything(n) == {bak[n]}
Preserved(n) == {bak[n]} \ {Nothing}

Fail(u) ==
  /\ prep' = [prep EXCEPT ![u] = "idle"]
  /\ lock' = [lock EXCEPT ![u] = "free"]

\* recover_previous_update: a leftover backup is renamed, never deleted.  DownloadUpdate
\* starts it only once update_cleanup_pending is cleared: the clean-up is over, or left out.
Recover(u) ==
  /\ gui[u].clean = "done"
  /\ prep[u] = "idle"
  /\ lock[u] = "free"
  /\ ~UpdaterIsRunning(u)
  /\ LET n == gui[u].name IN
     \/ /\ app[n] # Nothing
        /\ bak' = [bak EXCEPT ![n] = Nothing]
        /\ saved' = saved \cup Preserved(n)
        /\ lock' = [lock EXCEPT ![u] = "prepare"]
        /\ prep' = [prep EXCEPT ![u] = "capture"]
     \/ /\ app[n] = Nothing \/ Faults
        /\ UNCHANGED <<bak, saved, lock, prep>>
  /\ UNCHANGED <<app, staged, gui, plan, planFile, helper, child, marker,
                 bounds>>

\* capture_current_process_identity hashes the executable at the path the
\* process was started from.
Capture(u) ==
  LET n == gui[u].name IN
  /\ prep[u] = "capture"
  /\ plans < MaxPlans
  /\ plans' = plans + 1
  /\ IF app[n] = Nothing
     THEN Fail(u) /\ UNCHANGED plan
     ELSE /\ \E v \in Versions :
               /\ v > gui[u].ver
               /\ plan' = [plan EXCEPT ![u] = [name |-> n, ver |-> v,
                             digest |-> app[n], helper |-> Nothing]]
          /\ prep' = [prep EXCEPT ![u] = "materialize"]
          /\ UNCHANGED lock
  /\ UNCHANGED <<disk, gui, planFile, helper, child, marker,
                 reinstalls>>

\* materialize_update_helper copies the executable, reading it again.
Materialize(u) ==
  /\ prep[u] = "materialize"
  /\ IF app[T(u)] = Nothing
     THEN Fail(u) /\ UNCHANGED plan
     ELSE /\ plan' = [plan EXCEPT ![u].helper = app[T(u)]]
          /\ prep' = [prep EXCEPT ![u] = "stage"]
          /\ UNCHANGED lock
  /\ UNCHANGED <<disk, gui, planFile, helper, child, marker, bounds>>

\* download, extract, plan_transaction_paths, prepare_directory_payload and
\* write_update_plan, with a health marker of its own; every failure removes
\* the copy again.
Stage(u) ==
  /\ prep[u] = "stage"
  /\ \/ /\ bak[T(u)] = Nothing
        /\ staged' = [staged EXCEPT ![u] = plan[u].ver]
        /\ planFile' = [planFile EXCEPT ![u] = TRUE]
        /\ marker' = [marker EXCEPT ![u] = FALSE]
        /\ child' = [child EXCEPT ![u] = "none"]
        /\ prep' = [prep EXCEPT ![u] = "ready"]
        /\ UNCHANGED lock
     \/ /\ bak[T(u)] # Nothing \/ Faults
        /\ staged' = [staged EXCEPT ![u] = Nothing]
        /\ Fail(u)
        /\ UNCHANGED <<planFile, marker, child>>
  /\ UNCHANGED <<app, bak, saved, gui, plan, helper, bounds>>

\* PreparedUpdateLaunch::cancel, and launch when the helper does not start.
Cancel(u) ==
  /\ prep[u] = "ready"
  /\ planFile' = [planFile EXCEPT ![u] = FALSE]
  /\ staged' = [staged EXCEPT ![u] = Nothing]
  /\ Fail(u)
  /\ UNCHANGED <<app, bak, saved, gui, plan, helper, child, marker, bounds>>

\* PreparedUpdateLaunch::launch consumes the lock; the GUI then exits.
Launch(u) ==
  /\ prep[u] = "ready"
  /\ Fail(u)
  /\ gui' = [gui EXCEPT ![u].parent = TRUE]
  /\ Go(u, "load")
  /\ result' = [result EXCEPT ![u] = "none"]
  /\ UNCHANGED <<disk, plan, planFile, cur, at, back, moved, child, marker,
                 bounds>>

\* The copy is damaged on disk while nobody looks.
Damage(u) ==
  /\ Faults
  /\ prep[u] = "ready" \/ pc[u] = "wait"
  /\ staged[u] \in Versions
  /\ staged' = [staged EXCEPT ![u] = Damaged]
  /\ UNCHANGED <<app, bak, saved, gui, lock, prep, plan, planFile, helper,
                 child, marker, bounds>>

-----------------------------------------------------------------------------
(* cleanup_update_files, in a GUI that has opened its window               *)

\* The main window opens: the application that carries an authorization
\* writes the health marker (write_update_health_marker).
OpenWindow(u) ==
  /\ gui[u] # NoGui
  /\ gui[u].clean = "todo"
  /\ \/ /\ gui' = [gui EXCEPT ![u].clean = "pending"]
        /\ marker' = [marker EXCEPT ![u] = @ \/ child[u] = "running"]
     \/ /\ Faults
        /\ child[u] = "running"
        /\ gui' = [gui EXCEPT ![u].clean = "done"]
        /\ UNCHANGED marker
  /\ UNCHANGED <<disk, lock, prep, plan, planFile, helper, child, bounds>>

CleanStart(u) ==
  /\ gui[u].clean = "pending"
  /\ lock[u] = "free"
  /\ lock' = [lock EXCEPT ![u] = "cleanup"]
  /\ UNCHANGED <<disk, gui, prep, plan, planFile, helper, child, marker,
                 bounds>>

\* The GUI that carries a health marker waits until the helper has removed it.
Uncommitted(u) == child[u] = "running" /\ marker[u]

CleanFiles(u) ==
  /\ lock[u] = "cleanup"
  /\ lock' = [lock EXCEPT ![u] = "free"]
  /\ gui' = [gui EXCEPT ![u].clean = "done"]
  /\ IF UpdaterIsRunning(u) \/ Uncommitted(u)
     THEN UNCHANGED <<planFile, marker>>     \* the deadline: deferred
     ELSE /\ planFile' = [planFile EXCEPT ![u] = FALSE]
          /\ marker' = [marker EXCEPT ![u] = FALSE]
  /\ UNCHANGED <<disk, prep, plan, helper, child, bounds>>

-----------------------------------------------------------------------------
(* run_update_helper: from the plan to the swap                            *)

\* load_authenticated_plan, verify_running_helper, removal of the plan.
Load(u) ==
  /\ pc[u] = "load"
  /\ IF planFile[u] /\ plan[u].helper = plan[u].digest
     THEN \/ /\ planFile' = [planFile EXCEPT ![u] = FALSE]
             /\ Go(u, "wait")
             /\ UNCHANGED result
          \/ Faults /\ Report(u, "failed") /\ UNCHANGED planFile
     ELSE Report(u, "failed") /\ UNCHANGED planFile
  /\ UNCHANGED <<disk, gui, lock, prep, plan, cur, at, back, moved, child,
                 marker, bounds>>

\* Mutant: the wait has no deadline.
WaitParentForever(u) ==
  /\ pc[u] = "wait"
  /\ ~gui[u].parent
  /\ Go(u, "authorize")
  /\ UNCHANGED <<disk, gui, lock, prep, plan, planFile, cur, at, back, moved,
                 result, child, marker, bounds>>

\* wait_for_parent_exit; the timeout ends the helper, the copy stays.
WaitParent(u) ==
  /\ pc[u] = "wait"
  /\ IF gui[u].parent THEN Report(u, "failed")
                      ELSE Go(u, "authorize") /\ UNCHANGED result
  /\ UNCHANGED <<disk, gui, lock, prep, plan, planFile, cur, at, back, moved,
                 child, marker, bounds>>

\* verify_authorized_installation
Authorize(u) ==
  /\ pc[u] = "authorize"
  /\ Go(u, IF app[T(u)] = plan[u].digest THEN "validate" ELSE "preapply")
  /\ UNCHANGED <<disk, gui, lock, prep, plan, planFile, cur, at, back, moved,
                 result, child, marker, bounds>>

\* validate_prepared_payload.  Mutant: only the path is looked at.
StagedExists(u) == staged[u] # Nothing
StagedValid(u) == staged[u] \in Versions

\* apply_prepared_update_for up to the swap.
Validate(u) ==
  /\ pc[u] = "validate"
  /\ IF /\ StagedValid(u)
        /\ app[T(u)] # Nothing
        /\ Destination(u) # T(u) => app[Destination(u)] = Nothing
     THEN /\ cur' = [cur EXCEPT ![u] = app[T(u)]]
          /\ at' = [at EXCEPT ![u] = T(u)]
          /\ back' = [back EXCEPT ![u] = "preapply"]
          /\ Go(u, "swap_out")
     ELSE Go(u, "preapply") /\ UNCHANGED <<cur, at, back>>
  /\ UNCHANGED <<disk, gui, lock, prep, plan, planFile, moved, result, child,
                 marker, bounds>>

\* Mutant: the old installation is deleted to make room.
SwapOutDeletes(u) ==
  /\ pc[u] = "swap_out"
  /\ app' = [app EXCEPT ![T(u)] = Nothing]
  /\ moved' = [moved EXCEPT ![u] = app[T(u)]]
  /\ Go(u, "swap_in")
  /\ UNCHANGED <<bak, staged, saved, gui, lock, prep, plan, planFile, cur, at,
                 back, result, child, marker, bounds>>

\* rename_no_replace(target, backup)
SwapOut(u) ==
  /\ pc[u] = "swap_out"
  /\ \/ /\ app[T(u)] # Nothing
        /\ bak[T(u)] = Nothing
        /\ bak' = [bak EXCEPT ![T(u)] = app[T(u)]]
        /\ app' = [app EXCEPT ![T(u)] = Nothing]
        /\ moved' = [moved EXCEPT ![u] = app[T(u)]]
        /\ Go(u, "swap_in")
     \/ /\ app[T(u)] = Nothing \/ bak[T(u)] # Nothing \/ Faults
        /\ Go(u, "preapply")
        /\ UNCHANGED <<app, bak, moved>>
  /\ UNCHANGED <<staged, saved, gui, lock, prep, plan, planFile, cur, at, back,
                 result, child, marker, bounds>>

\* rename_no_replace(prepared, target)
SwapIn(u) ==
  /\ pc[u] = "swap_in"
  /\ \/ /\ app[T(u)] = Nothing
        /\ app' = [app EXCEPT ![T(u)] = staged[u]]
        /\ staged' = [staged EXCEPT ![u] = Nothing]
        /\ Go(u, "recheck")
     \/ /\ app[T(u)] # Nothing \/ Faults
        /\ Go(u, "unswap")
        /\ UNCHANGED <<app, staged>>
  /\ UNCHANGED <<bak, saved, gui, lock, prep, plan, planFile, cur, at, back,
                 moved, result, child, marker, bounds>>

\* Moving the backup to where it came from; where to go when it worked.
Restored(u, step) ==
  /\ app[T(u)] = Nothing
  /\ bak[T(u)] # Nothing
  /\ app' = [app EXCEPT ![T(u)] = bak[T(u)]]
  /\ bak' = [bak EXCEPT ![T(u)] = Nothing]
  /\ Go(u, step)

NotRestored(u, step) ==
  /\ app[T(u)] # Nothing \/ bak[T(u)] = Nothing \/ Faults
  /\ Go(u, step)
  /\ UNCHANGED <<app, bak>>

\* swap_paths puts the previous installation back; RestoreFailed otherwise.
Unswap(u) ==
  /\ pc[u] = "unswap"
  /\ Restored(u, "preapply") \/ NotRestored(u, "preapply")
  /\ UNCHANGED <<staged, saved, gui, lock, prep, plan, planFile, cur, at, back,
                 moved, result, child, marker, bounds>>

\* The digest of the backup must be the one read before the swap.
Recheck(u) ==
  /\ pc[u] = "recheck"
  /\ \/ bak[T(u)] = cur[u] /\ Go(u, "version")
     \/ (bak[T(u)] # cur[u] \/ Faults) /\ Go(u, "rb_out")
  /\ UNCHANGED <<disk, gui, lock, prep, plan, planFile, cur, at, back, moved,
                 result, child, marker, bounds>>

\* Mutant: the executable is copied to its versioned name.
VersionCopies(u) ==
  /\ pc[u] = "version"
  /\ app' = [app EXCEPT ![Destination(u)] = app[T(u)]]
  /\ at' = [at EXCEPT ![u] = Destination(u)]
  /\ Go(u, "launch")
  /\ UNCHANGED <<bak, staged, saved, gui, lock, prep, plan, planFile, cur, back,
                 moved, result, child, marker, bounds>>

\* rename_no_replace(target, destination) for a versioned executable
Version(u) ==
  LET d == Destination(u) IN
  /\ pc[u] = "version"
  /\ \/ d = T(u) /\ Go(u, "launch") /\ UNCHANGED <<app, at>>
     \/ /\ d # T(u)
        /\ app[T(u)] # Nothing
        /\ app[d] = Nothing
        /\ app' = [app EXCEPT ![d] = app[T(u)], ![T(u)] = Nothing]
        /\ at' = [at EXCEPT ![u] = d]
        /\ Go(u, "launch")
     \/ /\ d # T(u)
        /\ app[T(u)] = Nothing \/ app[d] # Nothing \/ Faults
        /\ Go(u, "rb_out")
        /\ UNCHANGED <<app, at>>
  /\ UNCHANGED <<bak, staged, saved, gui, lock, prep, plan, planFile, cur, back,
                 moved, result, child, marker, bounds>>

\* launcher.launch of the previous application, which takes the instance lock or
\* hands over to the GUI that has it.  Mutant: it is not started.
StartNothing(u, n) == UNCHANGED gui
StartPrevious(u, n) ==
  gui' = [gui EXCEPT ![u] = IF @ = NoGui THEN Running(n) ELSE @]

\* relaunch_after_preapply_failure: only the authorized installation is started, when
\* it can be.
Preapply(u) ==
  /\ pc[u] = "preapply"
  /\ \/ /\ app[T(u)] = plan[u].digest
        /\ app[T(u)] \in Versions
        /\ StartPrevious(u, T(u))
        /\ Report(u, "rolled_back")
     \/ /\ app[T(u)] # plan[u].digest \/ app[T(u)] \notin Versions \/ Faults
        /\ Report(u, "failed")
        /\ UNCHANGED gui
  /\ UNCHANGED <<disk, lock, prep, plan, planFile, cur, at, back, moved, child,
                 marker, bounds>>

-----------------------------------------------------------------------------
(* complete_applied_update, rollback and commit                            *)

\* A spawn that fails is rolled back like an unhealthy application.
LaunchNew(u) ==
  /\ pc[u] = "launch"
  /\ back' = [back EXCEPT ![u] = "relaunch"]
  /\ \/ Go(u, "health") /\ child' = [child EXCEPT ![u] = "starting"]
     \/ Faults /\ Go(u, "rb_out") /\ UNCHANGED child
  /\ UNCHANGED <<disk, gui, lock, prep, plan, planFile, cur, at, moved, result,
                 marker, bounds>>

\* The new application takes the instance lock, or hands over to the GUI that
\* has it and exits.
ChildStarts(u) ==
  /\ child[u] = "starting"
  /\ \/ /\ gui[u] = NoGui
        /\ app[at[u]] \in Versions
        /\ gui' = [gui EXCEPT ![u] = Running(at[u])]
        /\ child' = [child EXCEPT ![u] = "running"]
     \/ /\ child' = [child EXCEPT ![u] = "exited"]
        /\ UNCHANGED gui
  /\ UNCHANGED <<disk, lock, prep, plan, planFile, helper, marker, bounds>>

\* validate_health_marker.  Mutant: a running application counts as healthy.
Alive(u) == child[u] = "running"
Healthy(u) == marker[u]

\* One iteration of the loop.  The marker is looked for before the exit status
\* is read and the deadline after both, so it may appear in between.
Health(u) ==
  /\ pc[u] = "health"
  /\ \/ child[u] = "exited" /\ Go(u, "rb_out")
     \/ child[u] # "exited" /\ Healthy(u) /\ Go(u, "commit")
     \/ child[u] # "exited" /\ Go(u, "terminate")
  /\ UNCHANGED <<disk, gui, lock, prep, plan, planFile, cur, at, back, moved,
                 result, child, marker, bounds>>

\* The deadline has passed; a termination that fails is ignored.
Terminate(u) ==
  /\ pc[u] = "terminate"
  /\ Go(u, "rb_out")
  /\ \/ /\ child[u] \in {"starting", "running"}
        /\ gui' = [gui EXCEPT ![u] = IF child[u] = "running" THEN NoGui ELSE @]
        /\ lock' = [lock EXCEPT ![u] = IF child[u] = "running" THEN "free" ELSE @]
        /\ prep' = [prep EXCEPT ![u] = IF child[u] = "running" THEN "idle" ELSE @]
        /\ child' = [child EXCEPT ![u] = "exited"]
     \/ /\ child[u] = "exited" \/ Faults
        /\ UNCHANGED <<gui, lock, prep, child>>
  /\ UNCHANGED <<disk, plan, planFile, cur, at, back, moved, result, marker,
                 bounds>>

\* commit_applied_update: a failed removal may have removed a part.
Commit(u) ==
  /\ pc[u] = "commit"
  /\ \/ /\ bak[T(u)] # Nothing
        /\ bak' = [bak EXCEPT ![T(u)] = Nothing]
        /\ marker' = [marker EXCEPT ![u] = FALSE]
        /\ Report(u, "committed")
     \/ /\ bak[T(u)] = Nothing
        /\ Report(u, "commit_failed")
        /\ UNCHANGED <<bak, marker>>
     \/ /\ Faults
        /\ bak[T(u)] # Nothing
        /\ bak' \in {bak, [bak EXCEPT ![T(u)] = Damaged]}
        /\ Report(u, "commit_failed")
        /\ UNCHANGED marker
  /\ UNCHANGED <<app, staged, saved, gui, lock, prep, plan, planFile, cur, at,
                 back, moved, child, bounds>>

\* rollback_applied_update: the new installation becomes the failed payload.
RollbackOut(u) ==
  /\ pc[u] = "rb_out"
  /\ \/ /\ app[at[u]] # Nothing
        /\ staged[u] = Nothing
        /\ staged' = [staged EXCEPT ![u] = app[at[u]]]
        /\ app' = [app EXCEPT ![at[u]] = Nothing]
        /\ Go(u, "rb_in")
        /\ UNCHANGED result
     \/ /\ app[at[u]] = Nothing \/ Faults
        /\ IF back[u] = "preapply"
           THEN Go(u, "preapply") /\ UNCHANGED result
           ELSE Report(u, "rollback_failed")
        /\ UNCHANGED <<app, staged>>
  /\ UNCHANGED <<bak, saved, gui, lock, prep, plan, planFile, cur, at, back,
                 moved, child, marker, bounds>>

\* Mutant: the result of the second rename is ignored.
RollbackInUnchecked(u) ==
  /\ pc[u] = "rb_in"
  /\ Restored(u, back[u]) \/ NotRestored(u, back[u])
  /\ UNCHANGED <<staged, saved, gui, lock, prep, plan, planFile, cur, at, back,
                 moved, result, child, marker, bounds>>

RollbackIn(u) ==
  /\ pc[u] = "rb_in"
  /\ Restored(u, back[u]) \/ NotRestored(u, "rb_undo")
  /\ UNCHANGED <<staged, saved, gui, lock, prep, plan, planFile, cur, at, back,
                 moved, result, child, marker, bounds>>

\* The backup did not come back: the new installation is put back instead.
RollbackUndo(u) ==
  /\ pc[u] = "rb_undo"
  /\ \/ /\ app[at[u]] = Nothing
        /\ app' = [app EXCEPT ![at[u]] = staged[u]]
        /\ staged' = [staged EXCEPT ![u] = Nothing]
     \/ /\ app[at[u]] # Nothing \/ Faults
        /\ UNCHANGED <<app, staged>>
  /\ IF back[u] = "preapply" THEN Go(u, "preapply") /\ UNCHANGED result
                             ELSE Report(u, "rollback_failed")
  /\ UNCHANGED <<bak, saved, gui, lock, prep, plan, planFile, cur, at, back,
                 moved, child, marker, bounds>>

\* rollback_and_relaunch: the failed payload goes, the previous version starts.
Relaunch(u) ==
  /\ pc[u] = "relaunch"
  /\ staged' \in {[staged EXCEPT ![u] = Nothing]} \cup IF Faults THEN {staged} ELSE {}
  /\ \/ /\ app[T(u)] \in Versions
        /\ StartPrevious(u, T(u))
        /\ Report(u, "rolled_back")
     \/ /\ app[T(u)] \notin Versions \/ Faults
        /\ Report(u, "relaunch_failed")
        /\ UNCHANGED gui
  /\ UNCHANGED <<app, bak, saved, lock, prep, plan, planFile, cur, at, back,
                 moved, child, marker, bounds>>

\* The helper or the machine dies.
Crash(u) ==
  /\ Faults
  /\ pc[u] # "none"
  /\ Report(u, "crashed")
  /\ UNCHANGED <<disk, gui, lock, prep, plan, planFile, cur, at, back, moved,
                 child, marker, bounds>>

HelperStep(u) ==
  \/ Load(u) \/ WaitParent(u) \/ Authorize(u) \/ Validate(u)
  \/ SwapOut(u) \/ SwapIn(u) \/ Unswap(u) \/ Recheck(u) \/ Version(u)
  \/ Preapply(u) \/ LaunchNew(u) \/ Health(u) \/ Terminate(u) \/ Commit(u)
  \/ RollbackOut(u) \/ RollbackIn(u) \/ RollbackUndo(u) \/ Relaunch(u)

GuiStep(u) ==
  \/ Start(u) \/ Exit(u) \/ Recover(u) \/ Capture(u) \/ Materialize(u)
  \/ Stage(u) \/ Cancel(u) \/ Launch(u) \/ OpenWindow(u)
  \/ CleanStart(u) \/ CleanFiles(u) \/ ChildStarts(u)

Next ==
  \/ \E u \in Profiles : GuiStep(u) \/ HelperStep(u) \/ Damage(u) \/ Crash(u)
  \/ Reinstall

Spec == Init /\ [][Next]_vars

\* Nobody replaces a shared installation by hand, which OneInstalled cannot survive.
SharedNext ==
  \E u \in Profiles : GuiStep(u) \/ HelperStep(u) \/ Damage(u) \/ Crash(u)

SharedSpec == Init /\ [][SharedNext]_vars

\* The helper is a running process whose waits all have a deadline.
Fairness == \A u \in Profiles : WF_vars(HelperStep(u))

FairSpec == Spec /\ Fairness

-----------------------------------------------------------------------------
TypeOK ==
  /\ app \in [Names -> Contents]
  /\ bak \in [Names -> Contents]
  /\ staged \in [Profiles -> Contents]
  /\ saved \subseteq Contents \ {Nothing}
  /\ gui \in [Profiles -> Gui]
  /\ lock \in [Profiles -> {"free", "prepare", "cleanup"}]
  /\ prep \in [Profiles -> {"idle", "capture", "materialize", "stage", "ready"}]
  /\ plan \in [Profiles -> Plan]
  /\ planFile \in [Profiles -> BOOLEAN]
  /\ pc \in [Profiles -> {"none", "load", "wait", "authorize", "validate",
       "swap_out", "swap_in", "unswap", "recheck", "version", "preapply",
       "launch", "health", "terminate", "commit", "rb_out", "rb_in", "rb_undo",
       "relaunch"}]
  /\ cur \in [Profiles -> Contents]
  /\ at \in [Profiles -> Names]
  /\ back \in [Profiles -> {"preapply", "relaunch"}]
  /\ child \in [Profiles -> {"none", "starting", "running", "exited"}]
  /\ marker \in [Profiles -> BOOLEAN]
  /\ moved \in [Profiles -> Contents]
  /\ result \in [Profiles -> {"none", "failed", "rolled_back", "committed",
       "commit_failed", "rollback_failed", "relaunch_failed", "crashed"}]
  /\ plans \in 0 .. MaxPlans
  /\ reinstalls \in 0 .. MaxReinstalls

\* Where a helper has moved the installation away and neither put it back nor committed.
AfterSwap == {"swap_in", "unswap", "recheck", "version", "launch", "health", "terminate",
              "commit", "rb_out", "rb_in", "rb_undo"}

\* The installation an update replaces exists until the new one is committed:
\* at its path, at the backup path or preserved as a recovered copy.
PreviousKept ==
  \A u \in Profiles :
    pc[u] \in AfterSwap => moved[u] \in {bak[T(u)], app[T(u)]} \cup saved

\* The previous installation is deleted only when the new application has
\* opened its window and said so: whatever backup a helper removes, the
\* health marker of its transaction was there.
CommitOnlyHealthy ==
  [][\A u \in Profiles : \A n \in Names :
       (/\ bak[n] # Nothing
        /\ bak'[n] # bak[n]
        /\ bak[n] \notin {app'[n]} \cup saved') => \E w \in Profiles : marker[w]]_vars

\* A copy that is not the verified release is never installed.
NeverDamaged == \A n \in Names : app[n] # Damaged

\* A rollback that counts as done has put back the installation that this
\* update moved away: "the previous version was restored".
RestoresPrevious ==
  [][\A u \in Profiles :
       pc[u] = "rb_in" /\ pc'[u] = back[u] => app'[T(u)] = moved[u]]_vars

\* A GUI that starts while a helper of its profile is at work prepares no update, and
\* its clean-up leaves the plan of a live update alone.
HelperUndisturbed ==
  \A u \in Profiles :
    /\ prep[u] # "idle" => pc[u] = "none"
    /\ prep[u] = "ready" \/ pc[u] = "load" => planFile[u]

\* Whatever helpers, crashes and failing renames do to each other, a version
\* that was installed is there to be started or put back by hand.
SomethingInstalled ==
  \/ \E n \in Names : app[n] \in Versions \/ bak[n] \in Versions
  \/ saved \cap Versions # {}

\* A versioned release never sits beside the one it replaces.
OneName == \A n, m \in Names : app[n] # Nothing /\ app[m] # Nothing => n = m

\* What one profile that updates an installation can rely on: it is there and whole
\* whatever fails, and the helper works while nobody else touches it.
InstallationKept == PreviousKept /\ NeverDamaged /\ HelperUndisturbed
\* It commits what has proved healthy and puts back what was there otherwise.
UpdateDecided == CommitOnlyHealthy /\ RestoresPrevious

\* What several profiles that update the same installation can: there is one, under one
\* name.
OneInstalled == SomethingInstalled /\ OneName

\* Every helper comes to an end: no wait is without a deadline.
HelperEnds == \A u \in Profiles : pc[u] = "load" ~> pc[u] = "none"
\* Once the GUI has made way for the helper an application runs again, unless
\* the helper dies or ends with the error that it could not restore or start one.
AppReturns ==
  \A u \in Profiles :
    pc[u] = "authorize" ~> \/ gui[u] # NoGui
                           \/ result[u] \in {"crashed", "failed", "rollback_failed",
                                            "relaunch_failed"}

\* Two profiles change places: none of them is distinguished, which TLC makes use of.
Interchangeable ==
  {[u \in Profiles |-> IF u = v THEN w ELSE IF u = w THEN v ELSE u] : v, w \in Profiles}
=============================================================================
