------------------------------ MODULE Capacity ------------------------------
(***************************************************************************)
(* The capacity that is shown of a mount: what                             *)
(* crates/mountmate-core/src/capacity.rs makes of the answers of the       *)
(* server, in which order its sources are asked, and when the application  *)
(* asks (capacity_task and CapacitiesLoaded of                             *)
(* crates/mountmate-app/src/main.rs).                                      *)
(*                                                                         *)
(* One probe asks about all mounts at once; a request for another one      *)
(* while it runs is remembered.  Mounts come and go in the meantime.       *)
(* Numbers are those of a u64 that ends at Top.                            *)
(***************************************************************************)
EXTENDS Naturals, FiniteSets, Sequences

CONSTANTS
  Mounts,      \* the mount targets
  Native,      \* those whose rclone asks by itself
  Patched,     \* those whose rclone knows quotas
  Shell,       \* those whose server answers commands
  Disks,       \* what df, statfs and rclone may find: see Disk
  Quotas,      \* what lfs may find: see Quota
  Top,         \* the largest number
  Kib,         \* what a block counts
  None,
  MaxFaults,   \* bound: sources that fail
  MaxChanges,  \* bound: mount operations, mounts that die, and changes of a disk
  MaxTicks     \* bound: requests of the timer

VARIABLES
  world,    \* per mount: the disk, the quota or None, which mounting is there (0: none)
  app,      \* the application's view
  owed,     \* a request was made while a probe was running, and none began since
  left      \* the bounds not used up

vars == <<world, app, owed, left>>

----------------------------------------------------------------------------
(* Numbers                                                                 *)

Saturated(n) == IF n > Top THEN Top ELSE n
Least(m, n) == IF m < n THEN m ELSE n
Minus(m, n) == IF n > m THEN 0 ELSE m - n

\* A disk as df counts it, and the fields of rclone about, of which any may be missing.
Disk(total, used, free) == [total |-> total, used |-> used, free |-> free]

\* Mutant: a quota is cut off like a disk.
CutOff(total, used, source) ==
  IF total = 0 THEN None
  ELSE [total |-> total, used |-> Least(used, total), source |-> source, soft |-> None,
        percent |-> Least((used * 100 + total \div 2) \div total, 100)]

\* capacity_from_usage: a quota may be exceeded, a disk may not.
FromUsage(total, used, source) ==
  LET shown == IF source = "quota" THEN used ELSE Least(used, total) IN
  IF total = 0 THEN None
  ELSE [total |-> total, used |-> shown, source |-> source, soft |-> None,
        percent |-> Least((shown * 100 + total \div 2) \div total, 100)]

\* parse_quota_limit_token: no limit is zero or a dash.
Limit(n) == IF n = 0 THEN None ELSE n

\* parse_lustre_quota: blocks; a soft limit counts up to the hard one.
FromQuota(row) ==
  IF row = None \/ Limit(row.hard) = None THEN None
  ELSE LET c == FromUsage(Saturated(row.hard * Kib), Saturated(row.used * Kib), "quota") IN
       IF c # None /\ Limit(row.soft) # None /\ row.soft <= row.hard
       THEN [c EXCEPT !.soft = Saturated(row.soft * Kib)] ELSE c

\* parse_filesystem_capacity: blocks; what is reserved for root is part of neither.
FromDf(disk) ==
  LET all == Saturated(disk.used + disk.free) IN
  FromUsage(Saturated((IF disk.total < all THEN all ELSE disk.total) * Kib),
            Saturated(disk.used * Kib), "filesystem")

\* local_mount_capacity
FromStatfs(disk) == FromUsage(disk.total, Minus(disk.total, disk.free), "mountpoint")

\* What lfs counts in blocks.
Bytes(row) == [used |-> Saturated(row.used * Kib), soft |-> Saturated(row.soft * Kib),
               hard |-> Saturated(row.hard * Kib)]

\* capacity_from_about: a field that is missing follows from the others.
FromAbout(about, row) ==
  LET sum == IF about.used # None /\ about.free # None
             THEN Saturated(about.used + about.free) ELSE 0
      total == IF about.total # None THEN about.total ELSE sum
      used == IF about.used # None THEN about.used
              ELSE IF about.free # None THEN Minus(total, about.free) ELSE 0
      c == FromUsage(total, used, IF row = None THEN "about" ELSE "quota")
  IN IF row # None /\ c # None /\ Limit(row.soft) # None /\ row.soft <= total
     THEN [c EXCEPT !.soft = row.soft] ELSE c

----------------------------------------------------------------------------
(* One mount                                                               *)

\* Mutant: the mountpoint, which answers at once, is asked first.
LocalFirst(m) == <<"local", "session", "project", "about", "remote">>

\* MountService::capacity and mounted_capacity: the rclone of the mount where it can ask by
\* itself, the quota of the project, the mountpoint, rclone about, df on the server.
SourcesOf(m) ==
  (IF m \in Native THEN <<"session">> ELSE <<>>) \o <<"project", "local", "about", "remote">>

\* LUSTRE_CAPACITY_SCRIPT and lustre_project_capacity
Lfs(m) == FromQuota(world[m].quota)

\* FILESYSTEM_CAPACITY_SCRIPT and remote_filesystem_capacity: df prints three numbers or
\* none.
Df(m) == LET d == world[m].disk IN
  IF None \in {d.total, d.used, d.free} THEN None ELSE FromDf(d)

\* What a source says of a mount: None is no answer.  ssh_capacity_output asks nothing
\* where the server cannot be asked.
Says(m, source) ==
  LET w == world[m] IN
  CASE source = "session" ->
         IF m \in Patched /\ w.quota # None /\ Limit(w.quota.hard) # None
         THEN LET q == Bytes(w.quota) IN FromAbout(Disk(q.hard, q.used, None), q)
         ELSE FromAbout(w.disk, None)
    [] source = "project" -> IF m \in Shell THEN Lfs(m) ELSE None
    [] source = "local"   -> IF w.disk.total = None \/ w.disk.free = None THEN None
                             ELSE FromStatfs(w.disk)
    [] source = "about"   -> FromAbout(w.disk, None)
    [] source = "remote"  -> IF m \in Shell THEN Df(m) ELSE None

\* Of these a failure is reported if nothing answers.
Reported == {"project", "about", "remote"}

----------------------------------------------------------------------------
(* The application                                                         *)

NoRequest == [generation |-> 0, next |-> 0, failed |-> FALSE, answer |-> None, of |-> 0,
              undisturbed |-> TRUE]
NoFeedback == [generation |-> 0, capacity |-> None, failed |-> FALSE, of |-> 0]

Init ==
  /\ \E disk \in [Mounts -> Disks], quota \in [Mounts -> Quotas] :
       world = [m \in Mounts |-> [disk |-> disk[m], quota |-> quota[m], mounting |-> 0]]
  /\ app = [mounted |-> {}, busy |-> {}, feedback |-> [m \in Mounts |-> NoFeedback],
            generation |-> 0, probe |-> [m \in Mounts |-> NoRequest],
            refreshing |-> FALSE, pending |-> FALSE, mountings |-> 0]
  /\ owed = FALSE
  /\ left = [faults |-> MaxFaults, changes |-> MaxChanges, ticks |-> MaxTicks]

Use(what) == left[what] > 0 /\ left' = [left EXCEPT ![what] = @ - 1]

\* MountFeedbacks::start_read: one generation for each entry it makes.
Entries(a) ==
  LET new == {m \in a.mounted \ a.busy : a.feedback[m].generation = 0}
      number == CHOOSE n \in [new -> a.generation + 1 .. a.generation + Cardinality(new)] :
                  \A i, j \in new : i # j => n[i] # n[j]
  IN [a EXCEPT !.generation = @ + Cardinality(new),
               !.feedback = [m \in Mounts |->
                  IF m \in new THEN [NoFeedback EXCEPT !.generation = number[m]] ELSE @[m]]]

\* capacity_task
Asked(a) ==
  LET asked == a.mounted \ a.busy IN
  IF a.refreshing THEN [a EXCEPT !.pending = TRUE]
  ELSE IF asked = {} THEN [a EXCEPT !.pending = FALSE]
  ELSE [Entries(a) EXCEPT
         !.refreshing = TRUE,
         !.probe = [m \in Mounts |->
            IF m \in asked
            THEN [NoRequest EXCEPT !.generation = Entries(a).feedback[m].generation, !.next = 1]
            ELSE NoRequest]]

Owes(a) == owed' = (a.refreshing /\ a.mounted \ a.busy # {})

\* CapacityTick
Tick ==
  /\ Use("ticks")
  /\ app' = Asked(app) /\ Owes(app)
  /\ UNCHANGED world

\* transfer_task, which keeps its results in the same entries.
PollTransfers ==
  /\ app' = Entries(app)
  /\ UNCHANGED <<world, owed, left>>

\* The next source is asked; the last one may be none at all.  A mount that is gone, or is
\* another one by now, is asked about as it is.
Ask(m) ==
  LET p == app.probe[m]
      source == SourcesOf(m)[p.next]
      Answered(answer) == [p EXCEPT !.next = 0, !.answer = answer, !.of = world[m].mounting]
      Over(failed) == IF p.next < Len(SourcesOf(m))
                      THEN [p EXCEPT !.next = @ + 1, !.failed = failed]
                      ELSE [p EXCEPT !.next = 0, !.failed = failed]
  IN /\ p.next > 0
     /\ \/ /\ world[m].mounting = 0 /\ UNCHANGED left
           /\ app' = [app EXCEPT !.probe[m].next = 0]
        \/ /\ world[m].mounting # 0 /\ UNCHANGED left
           /\ app' = [app EXCEPT !.probe[m] = IF Says(m, source) # None
                                              THEN Answered(Says(m, source)) ELSE Over(p.failed)]
        \/ /\ world[m].mounting # 0 /\ Use("faults")
           /\ app' = [app EXCEPT !.probe[m] =
                        [Over(p.failed \/ source \in Reported) EXCEPT !.undisturbed = FALSE]]
     /\ UNCHANGED <<world, owed>>

\* Mutant: an answer is taken whichever mounting it is about.
AnyAnswer(a, m) == a.probe[m].generation # 0 /\ a.feedback[m].generation # 0

\* MountFeedbacks::accept
Accept(a, m) ==
  a.probe[m].generation # 0 /\ a.feedback[m].generation = a.probe[m].generation

\* A failure leaves what was shown, no answer at all takes it away.
Shown(a, m) ==
  LET p == a.probe[m] IN
  CASE p.answer # None -> [a.feedback[m] EXCEPT !.capacity = p.answer, !.of = p.of, !.failed = FALSE]
    [] p.failed -> [a.feedback[m] EXCEPT !.failed = TRUE]
    [] OTHER -> [a.feedback[m] EXCEPT !.capacity = None, !.of = 0, !.failed = TRUE]

\* Mutant: what was asked for meanwhile is forgotten.
NotAgain(a) == [a EXCEPT !.pending = FALSE]

\* capacity_refresh_pending: ask again.
Again(a) == IF a.pending THEN Asked([a EXCEPT !.pending = FALSE]) ELSE a

\* CapacitiesLoaded: the mounts without an answer are looked at (Look).
Loaded ==
  /\ app.refreshing /\ \A m \in Mounts : app.probe[m].next = 0
  /\ app' = Again([app EXCEPT
       !.refreshing = FALSE,
       !.feedback = [m \in Mounts |-> IF Accept(app, m) THEN Shown(app, m) ELSE @[m]],
       !.probe = [m \in Mounts |-> NoRequest]])
  /\ owed' = (owed /\ ~app'.refreshing /\ app.mounted \ app.busy # {})
  /\ UNCHANGED <<world, left>>

\* clear_mount_feedback
Cleared(a, m) == [a EXCEPT !.feedback[m] = NoFeedback]

\* start_mount_operation
Begin(m) ==
  /\ m \notin app.busy /\ Use("changes")
  /\ app' = Cleared([app EXCEPT !.busy = @ \cup {m}, !.mounted = @ \ {m}], m)
  /\ UNCHANGED <<world, owed>>

\* MountFinished: of a mount, or of an unmount.
End(m) ==
  /\ m \in app.busy
  /\ \E up \in BOOLEAN :
       LET a == [app EXCEPT !.busy = @ \ {m},
                            !.mounted = IF up THEN @ \cup {m} ELSE @,
                            !.mountings = IF up THEN @ + 1 ELSE @] IN
       /\ world' = [world EXCEPT ![m].mounting = IF up THEN a.mountings ELSE 0]
       /\ app' = IF up THEN Asked(a) ELSE Cleared(a, m)
       /\ IF up THEN Owes(a) ELSE UNCHANGED owed
  /\ UNCHANGED left

\* The mount dies.
Die(m) ==
  /\ world[m].mounting # 0 /\ m \notin app.busy
  /\ world' = [world EXCEPT ![m].mounting = 0]
  /\ Use("changes")
  /\ UNCHANGED <<app, owed>>

\* StatusesLoaded finds it unmounted.
Look(m) ==
  /\ m \in app.mounted /\ world[m].mounting = 0
  /\ LET a == Cleared([app EXCEPT !.mounted = @ \ {m}], m) IN app' = Asked(a) /\ Owes(a)
  /\ UNCHANGED <<world, left>>

\* The disk fills or the quota changes.
Change(m) ==
  /\ Use("changes")
  /\ \E disk \in Disks, quota \in Quotas :
       world' = [world EXCEPT ![m].disk = disk, ![m].quota = quota]
  /\ app' = [app EXCEPT !.probe[m].undisturbed = app.probe[m] = NoRequest]
  /\ UNCHANGED owed

Next ==
  \/ Tick \/ PollTransfers \/ Loaded
  \/ \E m \in Mounts : Ask(m) \/ Begin(m) \/ End(m) \/ Die(m) \/ Look(m) \/ Change(m)

Spec == Init /\ [][Next]_vars

----------------------------------------------------------------------------
Number == 0 .. Top
Capacities ==
  [total : Number, used : Number, soft : Number \cup {None}, percent : 0 .. 100,
   source : {"quota", "filesystem", "mountpoint", "about"}]
TypeOK ==
  /\ \A m \in Mounts : /\ app.feedback[m].capacity \in Capacities \cup {None}
                       /\ app.probe[m].answer \in Capacities \cup {None}
                       /\ app.probe[m].next \in 0 .. Len(SourcesOf(m))
  /\ app.mounted \subseteq Mounts /\ app.busy \subseteq Mounts
  /\ app.refreshing \in BOOLEAN /\ app.pending \in BOOLEAN /\ owed \in BOOLEAN

\* What is shown of a mount that is there was measured on this mounting, not on one before
\* it, whenever the probe began and ended (mount_feedback.rs:1).
OfThisMounting ==
  \A m \in app.mounted :
    app.feedback[m].capacity # None /\ world[m].mounting # 0
      => app.feedback[m].of = world[m].mounting

\* A request made while a probe runs is made up for (capacity_refresh_pending).
AskedAgain == owed => app.refreshing

\* A disk is never more than full and its bar never longer than its row; a quota that is
\* exceeded says so, and its soft limit is one.
Plausible ==
  \A m \in Mounts : LET c == app.feedback[m].capacity IN
    c # None =>
      /\ c.total > 0
      /\ c.source # "quota" => c.used <= c.total /\ c.soft = None
      /\ c.soft # None => c.soft \in 1 .. c.total
      /\ c.used >= c.total => c.percent = 100

\* capacity.rs:215, "Project quotas describe the directory's actual allowance": a directory
\* that exceeds its quota is seen to, unless the quota could not be asked for.
OverQuotaSeen ==
  \A m \in Mounts :
    LET p == app.probe[m]
        q == world[m].quota IN
    (/\ p.answer # None /\ p.undisturbed
     /\ m \in IF m \in Native THEN Patched ELSE Shell
     /\ q # None /\ q.hard > 0 /\ q.used > q.hard /\ q.hard * Kib < Top)
       => p.answer.used > p.answer.total
=============================================================================
