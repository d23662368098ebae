---------------------------- MODULE RcloneBinary ----------------------------
(***************************************************************************)
(* Which rclone the application starts:                                    *)
(* crates/mountmate-core/src/rclone_binary.rs.                             *)
(*                                                                         *)
(* What comes with the application, beside it or inside it, is copied to   *)
(* the directory of managed programs under a name made of its digest, by   *)
(* whichever process needs it first.  Processes of several releases do so  *)
(* at once, an update replaces what comes with the application meanwhile,  *)
(* processes end in the middle, and files are damaged.                     *)
(*                                                                         *)
(* A file is the digest of its content.                                    *)
(***************************************************************************)
EXTENDS Naturals, FiniteSets

CONSTANTS
  Procs,       \* processes that look for rclone
  Digests,     \* of the programs that were released
  Embedded,    \* the digest of the one inside the application, or Nothing
  Elsewhere,   \* a program without a digest: "managed", "path" or Nothing
  Nothing,     \* no file
  Damaged,     \* the content of a file that is none of them
  MaxFaults,   \* bound: reads and writes that fail
  MaxCrashes,  \* bound: processes that end in the middle
  MaxDamages,  \* bound: files that are damaged
  MaxUpdates   \* bound: updates of what is beside the application

Assumption ==
  /\ Nothing \notin Procs \cup Digests
  /\ Damaged \notin Digests
  /\ Embedded \in Digests \cup {Nothing}
  /\ {MaxFaults, MaxCrashes, MaxDamages, MaxUpdates} \subseteq Nat

VARIABLES
  bundle,   \* the program beside the application and the digest in its manifest
  managed,  \* the file under the name of each digest
  lock,     \* who holds the lock of the directory
  proc,     \* how far each process is
  left      \* the bounds not used up

vars == <<bundle, managed, lock, proc, left>>

Contents == Digests \cup {Damaged}
Idle == [step |-> "idle", digest |-> Nothing, temporary |-> Nothing, from |-> "none"]
Bundles == [file : Contents \cup {Nothing}, manifest : Digests \cup {Nothing}]

Init ==
  /\ bundle \in Bundles
  /\ managed = [d \in Digests |-> Nothing]
  /\ lock = Nothing
  /\ proc = [p \in Procs |-> Idle]
  /\ left = [faults |-> MaxFaults, crashes |-> MaxCrashes, damages |-> MaxDamages,
             updates |-> MaxUpdates]

Use(what) == left[what] > 0 /\ left' = [left EXCEPT ![what] = @ - 1]
Become(p, r) == proc' = [proc EXCEPT ![p] = r]

\* The search ends: with an error, or with a program that is started.
Fail(p) == Become(p, [Idle EXCEPT !.step = "failed"])
Found(p, digest, from) == Become(p, [Idle EXCEPT !.step = "found", !.digest = digest, !.from = from])
Again(p) ==
  /\ proc[p].step \in {"found", "failed"}
  /\ Become(p, Idle)
  /\ UNCHANGED <<bundle, managed, lock, left>>

\* verify_bundled: what the manifest says is what the program is.
Verified == bundle.manifest # Nothing /\ bundle.file = bundle.manifest

\* newest_valid_materialized: the newest file whose name is the digest of its content.
Valid == {d \in Digests : managed[d] = d}

\* find_in_path, common_paths
OnPath == Elsewhere = "path"

\* resolve_rclone: beside the application, inside it, managed without a digest, managed
\* with one, anywhere on the path.
Resolve(p) ==
  /\ proc[p].step = "idle"
  /\ IF bundle.file # Nothing
     THEN IF Verified
          THEN Become(p, [Idle EXCEPT !.step = "lock", !.digest = bundle.file, !.from = "bundle"])
          ELSE Fail(p)
     ELSE IF Embedded # Nothing
     THEN Become(p, [Idle EXCEPT !.step = "lock", !.digest = Embedded, !.from = "embedded"])
     ELSE IF Elsewhere = "managed" THEN Found(p, Nothing, "elsewhere")
     ELSE IF Valid # {} THEN \E d \in Valid : Found(p, d, "managed")
     ELSE IF OnPath THEN Found(p, Nothing, "elsewhere")
     ELSE Fail(p)
  /\ UNCHANGED <<bundle, managed, lock, left>>

\* Mutant: whoever comes is let in.
Unlocked(p) == TRUE

\* FileLock::acquire, or the time is over.
Free(p) == lock = Nothing
Lock(p) ==
  /\ proc[p].step = "lock"
  /\ \/ Free(p) /\ lock' = p /\ Become(p, [proc[p] EXCEPT !.step = "check"]) /\ UNCHANGED left
     \/ ~Free(p) /\ Use("faults") /\ Fail(p) /\ UNCHANGED lock
  /\ UNCHANGED <<bundle, managed>>

Release(p) == lock' = IF lock = p THEN Nothing ELSE lock

\* materialize_verified: what is there already is hashed again.
Check(p) ==
  /\ proc[p].step = "check" /\ UNCHANGED <<bundle, managed>>
  /\ \/ /\ UNCHANGED left
        /\ IF managed[proc[p].digest] = proc[p].digest
           THEN Found(p, proc[p].digest, proc[p].from) /\ Release(p)
           ELSE Become(p, [proc[p] EXCEPT !.step = "remove"]) /\ UNCHANGED lock
     \/ Use("faults") /\ Fail(p) /\ Release(p)

\* What is not it is removed.
Remove(p) ==
  /\ proc[p].step = "remove" /\ UNCHANGED bundle
  /\ \/ /\ UNCHANGED <<lock, left>>
        /\ managed' = [managed EXCEPT ![proc[p].digest] = Nothing]
        /\ Become(p, [proc[p] EXCEPT !.step = "write"])
     \/ Use("faults") /\ Fail(p) /\ Release(p) /\ UNCHANGED managed

\* copy_executable and write_executable_bytes, to a name of their own: the program beside
\* the application is what it is by now.
Source(p) == IF proc[p].from = "embedded" THEN Embedded ELSE bundle.file
Write(p) ==
  /\ proc[p].step = "write" /\ UNCHANGED <<bundle, managed>>
  /\ \/ /\ Source(p) # Nothing /\ UNCHANGED <<lock, left>>
        /\ Become(p, [proc[p] EXCEPT !.step = "verify", !.temporary = Source(p)])
     \/ /\ IF Source(p) = Nothing THEN UNCHANGED left ELSE Use("faults")
        /\ Fail(p) /\ Release(p)

\* Mutant: what was verified before the copy is not verified again.
BelievedCopy(p) == TRUE

\* verify_exact_digest
Exact(p) == proc[p].temporary = proc[p].digest

\* The copy takes the name, or is removed.
Rename(p) ==
  /\ proc[p].step = "verify" /\ UNCHANGED bundle
  /\ Release(p)
  /\ \/ /\ Exact(p) /\ UNCHANGED left
        /\ managed' = [managed EXCEPT ![proc[p].digest] = proc[p].temporary]
        /\ Found(p, proc[p].digest, proc[p].from)
     \/ /\ IF Exact(p) THEN Use("faults") ELSE UNCHANGED left
        /\ Fail(p) /\ UNCHANGED managed

\* A process ends: its lock is free and its copy stays under a name nobody looks for.
Crash(p) ==
  /\ proc[p].step \in {"check", "remove", "write", "verify"} /\ Use("crashes")
  /\ Become(p, Idle) /\ Release(p)
  /\ UNCHANGED <<bundle, managed>>

\* A file is damaged.
Damage(d) ==
  /\ managed[d] \notin {Nothing, Damaged} /\ Use("damages")
  /\ managed' = [managed EXCEPT ![d] = Damaged]
  /\ proc' = [p \in Procs |-> IF proc[p].step = "found" /\ proc[p].digest = d THEN Idle
                              ELSE proc[p]]
  /\ UNCHANGED <<bundle, lock>>

\* The application is updated, or moved away.
Update ==
  /\ Use("updates")
  /\ bundle' \in {[file |-> d, manifest |-> d] : d \in Digests}
                   \cup {[file |-> Nothing, manifest |-> Nothing]}
  /\ UNCHANGED <<managed, lock, proc>>

Next ==
  \/ \E p \in Procs : \/ Resolve(p) \/ Lock(p) \/ Check(p) \/ Remove(p) \/ Write(p) \/ Rename(p)
                      \/ Again(p) \/ Crash(p)
  \/ \E d \in Digests : Damage(d)
  \/ Update

Spec == Init /\ [][Next]_vars

----------------------------------------------------------------------------
TypeOK ==
  /\ bundle \in Bundles
  /\ managed \in [Digests -> Contents \cup {Nothing}]
  /\ lock \in Procs \cup {Nothing}
  /\ proc \in [Procs -> [step : {"idle", "lock", "check", "remove", "write", "verify", "found",
                                 "failed"},
                         digest : Digests \cup {Nothing}, temporary : Contents \cup {Nothing},
                         from : {"none", "bundle", "embedded", "managed", "elsewhere"}]]

\* A program that was found with a digest is there, whole, until it is started or damaged:
\* nobody who looks for another one, or for the same, takes it away or replaces it.
FoundStays ==
  \A p \in Procs :
    proc[p].step = "found" /\ proc[p].digest # Nothing
      => managed[proc[p].digest] = proc[p].digest

\* Under the name of a digest there is never a part of a program or another one, unless the
\* file was damaged.
NamesTellTruth ==
  \A d \in Digests : managed[d] \in {Nothing, d} \/ left.damages < MaxDamages
=============================================================================
