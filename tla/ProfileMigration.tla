-------------------------- MODULE ProfileMigration --------------------------
(***************************************************************************)
(* The move of a Windows profile into one directory: prepare_windows_-     *)
(* profile of crates/mountmate-app/src/main.rs, data_migration.rs and      *)
(* application_data.rs of crates/mountmate-core/src.  A start of the new   *)
(* release moves the files of the old one, unless the old release or one   *)
(* of its mounts still runs.  Moves fail, and the machine stops between    *)
(* any two of them; the old release may be started again at any time.      *)
(***************************************************************************)
EXTENDS Naturals, Sequences

CONSTANTS
  Order,      \* the files in the order in which they are moved
  Settings,   \* the one of them that names the cache directory
  Nothing,    \* no file
  MaxEdits,   \* bound: files that the old release writes anew
  MaxFaults,  \* bound: moves that fail
  MaxStops    \* bound: ends of the new application

Files == {Order[i] : i \in DOMAIN Order}

Assumption ==
  /\ Order \in Seq(Files)
  /\ {MaxEdits, MaxFaults, MaxStops} \subseteq Nat

VARIABLES
  there,    \* there[f]: its version in the old directories
  here,     \* here[f]: its version in the new one
  phase,    \* of the start of the new release
  moved,    \* how many files merge has been through
  mutex,    \* who holds the instance lock of the old profile
  mounted,  \* a process of the old profile runs
  root,     \* the cache directory of the settings: of the old profile or the new
  budget    \* edits, faults and stops that are left

vars == <<there, here, phase, moved, mutex, mounted, root, budget>>

Init ==
  /\ there \in [Files -> {Nothing, 1}]
  /\ here \in [Files -> {Nothing, 2}]
  /\ (\E f \in Files : there[f] = 1) \/ (\E f \in Files : here[f] = 2)
  /\ phase = "off"
  /\ moved = 0
  /\ mutex = "free"
  /\ mounted \in BOOLEAN
  /\ root = IF there[Settings] = 1 THEN "old" ELSE "new"
  /\ budget = [edits |-> MaxEdits, faults |-> MaxFaults, stops |-> MaxStops]

Profile == <<there, here, root>>
Spend(what) == budget[what] > 0 /\ budget' = [budget EXCEPT ![what] = @ - 1]
LegacyExists == \E f \in Files : there[f] # Nothing

\* The start is over: an error is shown, or the window opens.
Stopped == phase' = "off" /\ mutex' = (IF mutex = "new" THEN "free" ELSE mutex) /\ moved' = 0

-----------------------------------------------------------------------------
(* The old release                                                         *)

OldStarts ==
  /\ mutex = "free"
  /\ mutex' = "old"
  /\ UNCHANGED <<Profile, phase, moved, mounted, budget>>

OldMounts ==
  /\ mutex = "old"
  /\ mounted' = TRUE
  /\ UNCHANGED <<Profile, phase, moved, mutex, budget>>

\* Its mounts outlive it.
OldEnds ==
  /\ mutex = "old"
  /\ mutex' = "free"
  /\ UNCHANGED <<Profile, phase, moved, mounted, budget>>

MountEnds ==
  /\ mounted
  /\ mounted' = FALSE
  /\ UNCHANGED <<Profile, phase, moved, mutex, budget>>

\* A file of its own that it does not have.
OldWrites(f) ==
  /\ mutex = "old" /\ there[f] = Nothing
  /\ Spend("edits")
  /\ there' = [there EXCEPT ![f] = 3]
  /\ root' = IF f = Settings THEN "old" ELSE root
  /\ UNCHANGED <<here, phase, moved, mutex, mounted>>

-----------------------------------------------------------------------------
(* The start of the new release                                            *)

\* The old profile stays in use while its application or a process of it runs.
Begin ==
  /\ phase = "off"
  /\ LegacyExists
  /\ mutex = "free" /\ ~mounted
  /\ phase' = "lock"
  /\ UNCHANGED <<Profile, moved, mutex, mounted, budget>>

Guard ==
  /\ phase = "lock"
  /\ IF mutex = "free" THEN mutex' = "new" /\ phase' = "inspect"
                       ELSE phase' = "off" /\ UNCHANGED mutex
  /\ UNCHANGED <<Profile, moved, mounted, budget>>

\* Mutant: what was seen before is believed.
Believed == TRUE

\* ensure_no_profile_processes, once more with the lock held.
NoProcess == ~mounted

\* Mutant: what lies at the destination is not looked at, and a rename replaces it.
Replaceable(f) == TRUE

\* Nothing of that name is at the destination.
NotThere(f) == here[f] = Nothing

\* preflight of every tree, before anything is moved.
Conflict(f) == there[f] # Nothing /\ ~NotThere(f)

Inspect ==
  /\ phase = "inspect"
  /\ IF NoProcess /\ \A f \in Files : ~Conflict(f)
     THEN phase' = "merge" /\ UNCHANGED <<mutex, moved>>
     ELSE Stopped
  /\ UNCHANGED <<Profile, mounted, budget>>

\* merge: one file is renamed, unless there is one of its name.
Merge ==
  /\ phase = "merge" /\ moved < Len(Order)
  /\ LET f == Order[moved + 1] IN
     \/ /\ there[f] = Nothing
        /\ moved' = moved + 1
        /\ UNCHANGED <<there, here, phase, mutex, budget>>
     \/ /\ there[f] # Nothing /\ NotThere(f)
        /\ there' = [there EXCEPT ![f] = Nothing]
        /\ here' = [here EXCEPT ![f] = there[f]]
        /\ moved' = moved + 1
        /\ UNCHANGED <<phase, mutex, budget>>
     \/ /\ there[f] # Nothing
        /\ Spend("faults")
        /\ Stopped
        /\ UNCHANGED <<there, here>>
  /\ UNCHANGED <<root, mounted>>

\* The settings name the new cache directory, in the last step.
Rebase ==
  /\ phase = "merge" /\ moved = Len(Order)
  /\ \/ root' = "new" /\ UNCHANGED budget
     \/ Spend("faults") /\ UNCHANGED root
  /\ Stopped
  /\ UNCHANGED <<there, here, mounted>>

Stop ==
  /\ phase # "off"
  /\ Spend("stops")
  /\ Stopped
  /\ UNCHANGED <<Profile, mounted>>

Next ==
  \/ OldStarts \/ OldMounts \/ OldEnds \/ MountEnds
  \/ \E f \in Files : OldWrites(f)
  \/ Begin \/ Guard \/ Inspect \/ Merge \/ Rebase \/ Stop

Spec == Init /\ [][Next]_vars

-----------------------------------------------------------------------------
\* Every variable holds what its declaration says.
TypeOK ==
  /\ there \in [Files -> {Nothing, 1, 3}]
  /\ here \in [Files -> {Nothing, 1, 2, 3}]
  /\ phase \in {"off", "lock", "inspect", "merge"}
  /\ moved \in 0 .. Len(Order)
  /\ mutex \in {"free", "old", "new"}
  /\ mounted \in BOOLEAN
  /\ root \in {"old", "new"}

\* Nothing is moved from under the old release or a process of its profile, although
\* both were looked for before the lock was taken.
NotInUse == phase = "merge" => mutex = "new" /\ ~mounted

\* A version of a file that either profile has is there after every step, whatever
\* fails, stops or is started again in between: files are moved, never replaced.
\* (Every step.)
NothingReplaced ==
  \A f \in Files : {there[f], here[f]} \ {Nothing} \subseteq {there'[f], here'[f]}
=============================================================================
