---------------------------- MODULE StartUpProofs -----------------------------
(***************************************************************************)
(* What StartUp promises of the settings and of the login item, proved for *)
(* any set of connections and any number of failed calls, ends of the      *)
(* application and saves.                                                  *)
(*                                                                         *)
(* None of the four properties is inductive: a write that is safe at one   *)
(* step of the recovery loses the original at another, so IInv says for    *)
(* every step where the originals are (Kept, Waiting, MovedAway), what the *)
(* file holds (Emptied, Readable), how the settings in memory relate to it *)
(* (Memory), and what a task has read that has not set the item (Read).    *)
(***************************************************************************)
EXTENDS StartUp, SequenceTheorems, TLAPS

Opening == {"infer", "mark", "unset", "unmark", "open", "run"}
Migrating == {"mark", "unset", "unmark"}
Moved == {"defaults", "remove", "restore"}

\* A file is among the backups.
Backed(o) == \E i \in DOMAIN backups : backups[i] = o

\* What is left of the bounds, and the tasks they allow.
Budget ==
  /\ left \in [faults : Nat, crashes : Nat, saves : 0 .. MaxSaves]
  /\ old \subseteq Servers
  /\ at = "run" => tasks + left.saves <= MaxSaves + 1
  /\ at # "run" => tasks = 0 /\ seen = "free"
  /\ seen # "free" => tasks > 0

\* Before it is moved, the file that could not be read is in its place.
Waiting == at \in {"lock", "backup"} => report = "none" /\ file \in originals

\* A recovery starts from the defaults; a file that was accepted is what memory holds,
\* and only then is there a switch to migrate.
Memory ==
  /\ at \in {"lock", "backup"} \cup Moved => mem = Defaults
  /\ at = "infer" /\ report = "none" => mem = Value(file)
  /\ at = "infer" /\ mem.all => report = "none"
  /\ at \in {"mark", "unset"} => mem.all

\* Wherever the application may write over the file, no original is only there.
Kept ==
  at \in Moved \/ (at \in Opening /\ report \in {"none", "backup"}) =>
    \A o \in originals : Backed(o)

\* The latest backup can be put back: it is an original, and if it is the only one, it
\* selects what the user wanted.
MovedAway ==
  at \in Moved =>
    /\ backups # <<>> /\ Latest \in originals
    /\ Len(backups) = 1 /\ Latest # Damaged => Selected(Latest, marks) = wanted

\* After the backup nothing but the defaults is in the place of the file.
Emptied ==
  /\ at = "defaults" => file = Gone
  /\ at \in {"remove", "restore"} => file \in {Gone, Defaults}

\* What is migrated is a file that was read, with the switch set until the marks are.
Readable ==
  /\ at = "infer" /\ report = "none" => file # Damaged
  /\ at \in Migrating => report = "none" /\ file \in Settings /\ file.all
  /\ at = "unset" => marks = Servers \ Interactive

\* The last task has read what the files say now: a save would have added a task.
Read ==
  at = "run" /\ seen # "free" /\ tasks = 1 => file # Damaged /\ (seen = "on") = Reading

IInv ==
  /\ TypeOK /\ Budget
  /\ OriginalKept /\ ReportTrue /\ SelectionKept /\ ItemFollows
  /\ Waiting /\ Memory /\ Kept /\ MovedAway /\ Emptied /\ Readable /\ Read

-----------------------------------------------------------------------------
(* Sequences and records                                                     *)

\* A backup that is added is the latest, and the earlier ones remain.
LEMMA Pushed ==
  ASSUME NEW S, NEW s \in Seq(S), NEW e \in S
  PROVE  /\ Append(s, e) \in Seq(S)
         /\ Append(s, e) # <<>>
         /\ Append(s, e)[Len(Append(s, e))] = e
         /\ Len(Append(s, e)) = 1 => s = <<>>
         /\ \A o : (\E i \in DOMAIN s : s[i] = o) \/ o = e =>
              \E i \in DOMAIN Append(s, e) : Append(s, e)[i] = o
<1>1. /\ Append(s, e) \in Seq(S)
      /\ Append(s, e) # <<>>
      /\ Append(s, e)[Len(Append(s, e))] = e
      /\ Len(Append(s, e)) = 1 => s = <<>>
  OBVIOUS
<1>2. ASSUME NEW i \in DOMAIN s  PROVE i \in DOMAIN Append(s, e) /\ Append(s, e)[i] = s[i]
  OBVIOUS
<1>3. Len(Append(s, e)) \in DOMAIN Append(s, e)
  OBVIOUS
<1>4. QED  BY <1>1, <1>2, <1>3

\* Without its last member a sequence holds all the others.
LEMMA Popped ==
  ASSUME NEW S, NEW s \in Seq(S), s # <<>>
  PROVE  /\ SubSeq(s, 1, Len(s) - 1) \in Seq(S)
         /\ s[Len(s)] \in S
         /\ SubSeq(s, 1, Len(s) - 1) = <<>> => Len(s) = 1
         /\ \A o : (\E i \in DOMAIN s : s[i] = o) =>
              o = s[Len(s)] \/ \E i \in DOMAIN SubSeq(s, 1, Len(s) - 1) :
                                 SubSeq(s, 1, Len(s) - 1)[i] = o
<1>. DEFINE n == Len(s) - 1
            t == SubSeq(s, 1, n)
<1>1. n \in Nat /\ Len(s) = n + 1 /\ Len(s) \in DOMAIN s /\ \A i \in DOMAIN s : s[i] \in S
  OBVIOUS
<1>2. \A i \in 1 .. n : i \in DOMAIN s
  OBVIOUS
<1>3. /\ t \in Seq(S)
      /\ Len(t) = IF 1 <= n THEN n - 1 + 1 ELSE 0
      /\ \A i \in 1 .. n - 1 + 1 : t[i] = s[1 + i - 1]
  <2>. HIDE DEF n
  <2>. QED  BY <1>1, <1>2, SubSeqProperties
<1>. HIDE DEF t
<1>4. Len(t) = n /\ DOMAIN t = 1 .. n /\ \A i \in 1 .. n : t[i] = s[i]
  <2>. HIDE DEF n
  <2>. QED  BY <1>1, <1>3
<1>5. ASSUME NEW i \in DOMAIN s, i # Len(s)  PROVE i \in 1 .. n
  <2>1. i \in 1 .. Len(s) /\ Len(s) \in Nat
    OBVIOUS
  <2>. HIDE DEF n
  <2>. QED  BY <1>1, <1>5, <2>1
<1>6. t = <<>> => n = 0
  BY <1>1, <1>4
<1>7. s[Len(s)] \in S
  BY <1>1
<1>8. t = <<>> => Len(s) = 1
  <2>. HIDE DEF n
  <2>. QED  BY <1>1, <1>6
<1>9. ASSUME NEW i \in DOMAIN s  PROVE s[i] = s[Len(s)] \/ \E j \in DOMAIN t : t[j] = s[i]
  BY <1>4, <1>5
<1>10. QED  BY <1>3, <1>7, <1>8, <1>9 DEF t

\* A record of settings with a field set is one.
LEMMA Changed ==
  ASSUME NEW r \in Settings
  PROVE  /\ [r EXCEPT !.vault = TRUE] \in Settings
         /\ [r EXCEPT !.all = FALSE] \in Settings
         /\ [r EXCEPT !.mine = TRUE] \in Settings
BY DEF Settings

\* What is left after a call that failed.
LEMMA Spent ==
  ASSUME NEW l \in [faults : Nat, crashes : Nat, saves : 0 .. MaxSaves], l.faults > 0
  PROVE  [l EXCEPT !.faults = @ - 1] \in [faults : Nat, crashes : Nat,
     saves : 0 .. MaxSaves]
OBVIOUS

\* The defaults are settings; a file that can be read has settings.
LEMMA Values ==
  ASSUME Assumption
  PROVE  /\ Defaults \in Settings
         /\ \A f \in Settings \cup {Gone} : Value(f) \in Settings
         /\ {MaxFaults, MaxCrashes, MaxSaves} \subseteq Nat
BY DEF Settings, Defaults, Value, Assumption

\* A save adds a task, within the bound.
LEMMA TaskAdded ==
  ASSUME Assumption, IInv, at = "run", left.saves > 0, tasks' = tasks + 1
  PROVE  tasks' \in 0 .. MaxSaves + 1
<1>1. MaxSaves \in Nat /\ tasks \in Nat /\ left.saves \in Nat
  BY Values DEF IInv, TypeOK, Budget
<1>2. tasks + left.saves <= MaxSaves + 1
  BY DEF IInv, Budget
<1>3. tasks + 1 <= MaxSaves + 1
  BY <1>1, <1>2
<1>. QED  BY <1>1, <1>3

\* The save is one less, so that what is left of the saves and the tasks stay bounded.
LEMMA SaveSpent ==
  ASSUME Assumption, IInv, at = "run", left.saves > 0, tasks' = tasks + 1,
         left' = [left EXCEPT !.saves = left.saves - 1]
  PROVE  /\ left' \in [faults : Nat, crashes : Nat, saves : 0 .. MaxSaves]
         /\ tasks' + left'.saves <= MaxSaves + 1 /\ tasks' > 0
<1>1. MaxSaves \in Nat /\ tasks \in Nat /\ left.saves \in 0 .. MaxSaves
  BY Values DEF IInv, TypeOK, Budget
<1>2. left.saves - 1 \in 0 .. MaxSaves
  BY <1>1
<1>3. /\ left' \in [faults : Nat, crashes : Nat, saves : 0 .. MaxSaves]
      /\ left'.saves = left.saves - 1
  BY <1>2 DEF IInv, Budget
<1>4. tasks + left.saves <= MaxSaves + 1
  BY DEF IInv, Budget
<1>5. tasks' + left'.saves <= MaxSaves + 1 /\ tasks' > 0
  BY <1>1, <1>3, <1>4
<1>. QED  BY <1>3, <1>5

\* A task that ends is one less.
LEMMA TaskOver ==
  ASSUME Assumption, IInv, tasks' = tasks \/ (tasks > 0 /\ tasks' = tasks - 1)
  PROVE  tasks' \in 0 .. MaxSaves + 1
<1>1. MaxSaves \in Nat /\ tasks \in 0 .. MaxSaves + 1
  BY Values DEF IInv, TypeOK
<1>. QED  BY <1>1

\* The file that is moved away is an original, and the latest of the backups.
LEMMA BackedUp ==
  ASSUME IInv, BackUp, backups' = Append(backups, file)
  PROVE  /\ file \in Settings \cup {Damaged} /\ file \in originals
         /\ backups' \in Seq(Settings \cup {Damaged}) /\ backups' # <<>>
         /\ Latest' = file
         /\ Len(backups') = 1 => backups = <<>>
         /\ \A o : Backed(o) \/ o = file => Backed(o)'
<1>1. /\ file \in Settings \cup {Damaged} /\ file \in originals
      /\ backups \in Seq(Settings \cup {Damaged})
  BY DEF IInv, TypeOK, Waiting, BackUp
<1>2. /\ Append(backups, file) \in Seq(Settings \cup {Damaged})
      /\ Append(backups, file) # <<>>
      /\ Append(backups, file)[Len(Append(backups, file))] = file
      /\ Len(Append(backups, file)) = 1 => backups = <<>>
  BY <1>1, Pushed
<1>3. \A o : (\E i \in DOMAIN backups : backups[i] = o) \/ o = file =>
              \E i \in DOMAIN Append(backups, file) : Append(backups, file)[i] = o
  BY <1>1, Pushed
<1>4. Latest' = backups'[Len(backups')]
  BY DEF Latest
<1>. QED  BY <1>1, <1>2, <1>3, <1>4 DEF Backed

\* When the latest backup is to return, there is one, and the earlier ones are the others.
LEMMA Restorable ==
  ASSUME IInv, at = "restore"
  PROVE  /\ Earlier \in Seq(Settings \cup {Damaged})
         /\ Latest \in Settings \cup {Damaged} /\ Latest \in originals
         /\ Earlier = <<>> => Len(backups) = 1
         /\ \A o : Backed(o) => o = Latest \/ \E i \in DOMAIN Earlier : Earlier[i] = o
<1>1. backups \in Seq(Settings \cup {Damaged}) /\ backups # <<>> /\ Latest \in originals
  BY DEF IInv, TypeOK, MovedAway, Moved
<1>. QED  BY <1>1, Popped DEF Latest, Earlier, Backed

-----------------------------------------------------------------------------
(* One lemma per action: each keeps every part of the invariant              *)

\* A file that is refused becomes an original where it is; one that is accepted is none.
LEMMA LoadKeeps ==
  ASSUME Assumption, IInv, Load
  PROVE  IInv'
<1>. USE DEF Goto, Fails, Works, disk, login, Load, Accept, Refuse
<1>1. TypeOK'
  <2>1. mem' \in Settings
    BY Values DEF IInv, TypeOK
  <2>2. originals' \subseteq Settings \cup {Damaged}
    BY DEF IInv, TypeOK
  <2>. QED  BY <2>1, <2>2 DEF IInv, TypeOK, Steps, Reports
<1>2. Budget'
  BY DEF IInv, Budget, TypeOK, Assumption
<1>3. OriginalKept'
  BY DEF IInv, OriginalKept, Backed
<1>4. ReportTrue'
  BY DEF IInv, ReportTrue, Latest
<1>5. SelectionKept'
  BY DEF IInv, SelectionKept
<1>6. ItemFollows'
  BY DEF IInv, ItemFollows, Reading
<1>7. Waiting'
  BY DEF IInv, Waiting
<1>8. Memory'
  BY DEF IInv, Memory, Moved, Value, Defaults
<1>9. Kept'
  BY DEF IInv, Kept, Backed, Moved, Opening, OriginalKept, Assumption
<1>10. MovedAway'
  BY DEF IInv, MovedAway, Latest, Moved
<1>11. Emptied'
  BY DEF IInv, Emptied
<1>12. Readable'
  BY DEF IInv, Readable, Migrating
<1>13. Read'
  BY DEF IInv, Read, Reading
<1>14. QED  BY <1>1, <1>2, <1>3, <1>4, <1>5, <1>6, <1>7, <1>8, <1>9, <1>10, <1>11,
   <1>12, <1>13 DEF IInv

\* The second look under the lock gives up, accepts the file or goes on to move it.
LEMMA AgainKeeps ==
  ASSUME Assumption, IInv, Again
  PROVE  IInv'
<1>. USE DEF Goto, Fails, Works, disk, login, Again, Accept
<1>1. TypeOK'
  <2>1. mem' \in Settings
    BY Values DEF IInv, TypeOK
  <2>2. originals' \subseteq Settings \cup {Damaged}
    BY DEF IInv, TypeOK
  <2>. QED  BY <2>1, <2>2 DEF IInv, TypeOK, Steps, Reports
<1>2. Budget'
  BY DEF IInv, Budget, TypeOK, Assumption
<1>3. OriginalKept'
  BY DEF IInv, OriginalKept, Backed
<1>4. ReportTrue'
  BY DEF IInv, ReportTrue, Latest, Waiting
<1>5. SelectionKept'
  BY DEF IInv, SelectionKept
<1>6. ItemFollows'
  BY DEF IInv, ItemFollows, Reading
<1>7. Waiting'
  BY DEF IInv, Waiting
<1>8. Memory'
  BY DEF IInv, Memory, Moved, Waiting, Defaults
<1>9. Kept'
  BY DEF IInv, Kept, Backed, Moved, Opening, OriginalKept, Waiting
<1>10. MovedAway'
  BY DEF IInv, MovedAway, Latest, Moved
<1>11. Emptied'
  BY DEF IInv, Emptied
<1>12. Readable'
  BY DEF IInv, Readable, Migrating, Waiting
<1>13. Read'
  BY DEF IInv, Read, Reading
<1>14. QED  BY <1>1, <1>2, <1>3, <1>4, <1>5, <1>6, <1>7, <1>8, <1>9, <1>10, <1>11,
   <1>12, <1>13 DEF IInv

\* The original leaves its place for the end of the backups.
LEMMA BackUpKeeps ==
  ASSUME Assumption, IInv, BackUp
  PROVE  IInv'
<1>. USE DEF Goto, Fails, Works, disk, login, BackUp
<1>1. TypeOK'
  BY BackedUp DEF IInv, TypeOK, Steps, Reports
<1>2. Budget'
  BY DEF IInv, Budget, TypeOK, Assumption
<1>3. OriginalKept'
  BY BackedUp DEF IInv, OriginalKept
<1>4. ReportTrue'
  BY BackedUp DEF IInv, ReportTrue, Waiting
<1>5. SelectionKept'
  BY BackedUp DEF IInv, SelectionKept
<1>6. ItemFollows'
  BY DEF IInv, ItemFollows, Reading
<1>7. Waiting'
  BY DEF IInv, Waiting
<1>8. Memory'
  BY DEF IInv, Memory, Moved, Defaults
<1>9. Kept'
  <2>1. CASE backups' = Append(backups, file) /\ originals' = originals
    <3>1. \A o \in originals : Backed(o) \/ o = file
      BY DEF IInv, OriginalKept, Backed
    <3>. QED  BY <2>1, <3>1, BackedUp DEF Kept
  <2>2. CASE at' = "infer" /\ report' = "unchanged"
    BY <2>2 DEF Kept, Moved
  <2>. QED  BY <2>1, <2>2
<1>10. MovedAway'
  BY BackedUp DEF IInv, MovedAway, Moved, SelectionKept, Value, Assumption
<1>11. Emptied'
  BY DEF IInv, Emptied
<1>12. Readable'
  BY DEF IInv, Readable, Migrating
<1>13. Read'
  BY DEF IInv, Read, Reading
<1>14. QED  BY <1>1, <1>2, <1>3, <1>4, <1>5, <1>6, <1>7, <1>8, <1>9, <1>10, <1>11,
   <1>12, <1>13 DEF IInv

\* The defaults go where nothing is.
LEMMA WriteDefaultsKeeps ==
  ASSUME Assumption, IInv, WriteDefaults
  PROVE  IInv'
<1>. USE DEF Goto, Fails, Works, disk, login, WriteDefaults
<1>1. TypeOK'
  <2>1. file' \in Settings \cup {Gone, Damaged}
    BY Values DEF IInv, TypeOK
  <2>. QED  BY <2>1 DEF IInv, TypeOK, Steps, Reports
<1>2. Budget'
  BY DEF IInv, Budget, TypeOK, Assumption
<1>3. OriginalKept'
  BY DEF IInv, OriginalKept, Backed, Emptied, Assumption, TypeOK
<1>4. ReportTrue'
  BY DEF IInv, ReportTrue, Latest, MovedAway, Moved
<1>5. SelectionKept'
  BY DEF IInv, SelectionKept, MovedAway, Moved
<1>6. ItemFollows'
  BY DEF IInv, ItemFollows, Reading
<1>7. Waiting'
  BY DEF IInv, Waiting
<1>8. Memory'
  BY DEF IInv, Memory, Moved, Defaults
<1>9. Kept'
  BY DEF IInv, Kept, Backed, Moved, Opening, TypeOK
<1>10. MovedAway'
  BY DEF IInv, MovedAway, Latest, Moved
<1>11. Emptied'
  BY DEF IInv, Emptied
<1>12. Readable'
  BY DEF IInv, Readable, Migrating
<1>13. Read'
  BY DEF IInv, Read, Reading
<1>14. QED  BY <1>1, <1>2, <1>3, <1>4, <1>5, <1>6, <1>7, <1>8, <1>9, <1>10, <1>11,
   <1>12, <1>13 DEF IInv

\* Only defaults can be removed.
LEMMA RemoveDefaultsKeeps ==
  ASSUME Assumption, IInv, RemoveDefaults
  PROVE  IInv'
<1>. USE DEF Goto, Fails, Works, disk, login, RemoveDefaults
<1>1. TypeOK'
  BY DEF IInv, TypeOK, Steps, Reports
<1>2. Budget'
  BY DEF IInv, Budget, TypeOK, Assumption
<1>3. OriginalKept'
  BY DEF IInv, OriginalKept, Backed, Kept, Moved
<1>4. ReportTrue'
  BY DEF IInv, ReportTrue, Latest
<1>5. SelectionKept'
  BY DEF IInv, SelectionKept, MovedAway, Moved
<1>6. ItemFollows'
  BY DEF IInv, ItemFollows, Reading
<1>7. Waiting'
  BY DEF IInv, Waiting
<1>8. Memory'
  BY DEF IInv, Memory, Moved
<1>9. Kept'
  BY DEF IInv, Kept, Backed, Moved, Opening
<1>10. MovedAway'
  BY DEF IInv, MovedAway, Latest, Moved
<1>11. Emptied'
  BY DEF IInv, Emptied
<1>12. Readable'
  BY DEF IInv, Readable, Migrating
<1>13. Read'
  BY DEF IInv, Read, Reading
<1>14. QED  BY <1>1, <1>2, <1>3, <1>4, <1>5, <1>6, <1>7, <1>8, <1>9, <1>10, <1>11,
   <1>12, <1>13 DEF IInv

\* The latest backup returns over nothing, or over defaults.
LEMMA PutBackKeeps ==
  ASSUME Assumption, IInv, PutBack
  PROVE  IInv'
<1>. USE DEF Goto, Fails, Works, disk, login, PutBack
<1>1. TypeOK'
  BY Restorable DEF IInv, TypeOK, Steps, Reports
<1>2. Budget'
  <2>0. left' = left \/ (left.faults > 0 /\ left' = [left EXCEPT !.faults = @ - 1])
    BY Zenon DEF Fails, Works
  <2>1. left' \in [faults : Nat, crashes : Nat, saves : 0 .. MaxSaves]
    BY <2>0, Spent DEF IInv, Budget
  <2>. QED  BY <2>1 DEF IInv, Budget
<1>3. OriginalKept'
  BY Restorable DEF IInv, OriginalKept, Kept, Moved, Backed
<1>4. ReportTrue'
  BY Restorable DEF IInv, ReportTrue, MovedAway, Moved, Latest
<1>5. SelectionKept'
  BY Restorable DEF IInv, SelectionKept, MovedAway, Moved, Value, Assumption
<1>6. ItemFollows'
  BY DEF IInv, ItemFollows, Reading
<1>7. Waiting'
  BY DEF IInv, Waiting
<1>8. Memory'
  <2>1. mem = Defaults /\ ~Defaults.all
    BY DEF IInv, Memory, Moved, Defaults
  <2>2. report' # "none" /\ at' = "infer" /\ mem' = mem
    OBVIOUS
  <2>. QED  BY <2>1, <2>2 DEF Memory, Moved
<1>9. Kept'
  BY DEF IInv, Kept, Moved, Opening, Backed
<1>10. MovedAway'
  BY DEF IInv, MovedAway, Latest, Moved
<1>11. Emptied'
  BY DEF IInv, Emptied
<1>12. Readable'
  BY DEF IInv, Readable, Migrating
<1>13. Read'
  BY DEF IInv, Read, Reading
<1>14. QED  BY <1>1, <1>2, <1>3, <1>4, <1>5, <1>6, <1>7, <1>8, <1>9, <1>10, <1>11,
   <1>12, <1>13 DEF IInv

\* The settings are written back only where no original is.
LEMMA InferKeeps ==
  ASSUME Assumption, IInv, Infer
  PROVE  IInv'
<1>. USE DEF Goto, Fails, Works, disk, login, Infer
<1>1. TypeOK'
  <2>1. mem' \in Settings
    BY Changed DEF IInv, TypeOK
  <2>2. file' \in Settings \cup {Gone, Damaged}
    BY <2>1 DEF IInv, TypeOK
  <2>. QED  BY <2>1, <2>2 DEF IInv, TypeOK, Steps, Reports
<1>2. Budget'
  BY DEF IInv, Budget, TypeOK, Assumption
<1>3. OriginalKept'
  BY DEF IInv, OriginalKept, Backed, Kept, Opening, Incomplete, TypeOK, Reports
<1>4. ReportTrue'
  BY DEF IInv, ReportTrue, Latest, Incomplete
<1>5. SelectionKept'
  <2>1. CASE file' = file
    BY <2>1 DEF IInv, SelectionKept
  <2>2. CASE report = "none" /\ file' = [mem EXCEPT !.vault = TRUE]
    <3>1. file # Damaged /\ mem = Value(file) /\ mem \in Settings
      BY <2>2 DEF IInv, Readable, Memory, TypeOK
    <3>2. file'.all = mem.all /\ file' \in Settings
      BY <2>2, <3>1, Changed DEF Settings
    <3>3. Value(file') = file'
      BY <3>2, Values DEF Value, Assumption
    <3>4. Selected(Value(file'), marks') = Selected(Value(file), marks)
      BY <3>1, <3>2, <3>3 DEF Selected
    <3>. QED  BY <3>1, <3>4 DEF IInv, SelectionKept
  <2>3. CASE report = "backup"
    BY <2>3 DEF IInv, SelectionKept, ReportTrue
  <2>. QED  BY <2>1, <2>2, <2>3 DEF IInv, TypeOK, Reports, Incomplete
<1>6. ItemFollows'
  BY DEF IInv, ItemFollows, Reading
<1>7. Waiting'
  BY DEF IInv, Waiting
<1>8. Memory'
  BY DEF IInv, Memory, Moved, TypeOK, Settings
<1>9. Kept'
  BY DEF IInv, Kept, Backed, Moved, Opening
<1>10. MovedAway'
  BY DEF IInv, MovedAway, Latest, Moved
<1>11. Emptied'
  BY DEF IInv, Emptied
<1>12. Readable'
  <2>1. CASE ~mem.all
    BY <2>1 DEF Readable, Migrating
  <2>2. CASE mem.all
    <3>1. report = "none" /\ mem = Value(file) /\ file # Damaged /\ mem \in Settings
      BY <2>2 DEF IInv, Memory, Readable, TypeOK
    <3>2. file \in Settings /\ file.all
      BY <2>2, <3>1 DEF IInv, TypeOK, Value, Defaults
    <3>3. file' = file \/ file' = [mem EXCEPT !.vault = TRUE]
      OBVIOUS
    <3>4. file' \in Settings
      BY <3>1, <3>2, <3>3, Changed
    <3>5. file'.all
      BY <2>2, <3>1, <3>2, <3>3 DEF Settings
    <3>. QED  BY <2>2, <3>1, <3>4, <3>5 DEF Readable, Migrating
  <2>. QED  BY <2>1, <2>2
<1>13. Read'
  BY DEF IInv, Read, Reading
<1>14. QED  BY <1>1, <1>2, <1>3, <1>4, <1>5, <1>6, <1>7, <1>8, <1>9, <1>10, <1>11,
   <1>12, <1>13 DEF IInv

\* With the switch set, the marks select nothing that was not selected.
LEMMA MarkKeeps ==
  ASSUME Assumption, IInv, Mark
  PROVE  IInv'
<1>. USE DEF Goto, Fails, Works, disk, login, Mark
<1>1. TypeOK'
  BY DEF IInv, TypeOK, Assumption, Steps, Reports
<1>2. Budget'
  BY DEF IInv, Budget, TypeOK, Assumption
<1>3. OriginalKept'
  BY DEF IInv, OriginalKept, Backed
<1>4. ReportTrue'
  BY DEF IInv, ReportTrue, Latest
<1>5. SelectionKept'
  BY DEF IInv, SelectionKept, Selected, Value, Readable, Migrating, Assumption
<1>6. ItemFollows'
  BY DEF IInv, ItemFollows, Reading
<1>7. Waiting'
  BY DEF IInv, Waiting
<1>8. Memory'
  BY DEF IInv, Memory, Moved
<1>9. Kept'
  BY DEF IInv, Kept, Backed, Moved, Opening
<1>10. MovedAway'
  BY DEF IInv, MovedAway, Latest, Moved
<1>11. Emptied'
  BY DEF IInv, Emptied
<1>12. Readable'
  BY DEF IInv, Readable, Migrating
<1>13. Read'
  BY DEF IInv, Read, Reading
<1>14. QED  BY <1>1, <1>2, <1>3, <1>4, <1>5, <1>6, <1>7, <1>8, <1>9, <1>10, <1>11,
   <1>12, <1>13 DEF IInv

\* With the marks set, the switch selects nothing that they do not.
LEMMA UnsetKeeps ==
  ASSUME Assumption, IInv, Unset
  PROVE  IInv'
<1>. USE DEF Goto, Fails, Works, disk, login, Unset
<1>1. TypeOK'
  BY DEF IInv, TypeOK, Settings, Steps, Reports
<1>2. Budget'
  BY DEF IInv, Budget, TypeOK, Assumption
<1>3. OriginalKept'
  BY DEF IInv, OriginalKept, Backed, Kept, Readable, Migrating, Opening
<1>4. ReportTrue'
  BY DEF IInv, ReportTrue, Latest, Readable, Migrating
<1>5. SelectionKept'
  BY DEF IInv, SelectionKept, Selected, Value, Readable, Migrating, Assumption
<1>6. ItemFollows'
  BY DEF IInv, ItemFollows, Reading
<1>7. Waiting'
  BY DEF IInv, Waiting
<1>8. Memory'
  BY DEF IInv, Memory, Moved
<1>9. Kept'
  BY DEF IInv, Kept, Backed, Moved, Opening
<1>10. MovedAway'
  BY DEF IInv, MovedAway, Latest, Moved
<1>11. Emptied'
  BY DEF IInv, Emptied
<1>12. Readable'
  BY DEF IInv, Readable, Migrating
<1>13. Read'
  BY DEF IInv, Read, Reading
<1>14. QED  BY <1>1, <1>2, <1>3, <1>4, <1>5, <1>6, <1>7, <1>8, <1>9, <1>10, <1>11,
   <1>12, <1>13 DEF IInv

\* The switch is still set, so the marks of before may return.
LEMMA UnmarkKeeps ==
  ASSUME Assumption, IInv, Unmark
  PROVE  IInv'
<1>. USE DEF Goto, Fails, Works, disk, login, Unmark
<1>1. TypeOK'
  BY DEF IInv, TypeOK, Budget, Steps, Reports
<1>2. Budget'
  BY DEF IInv, Budget, TypeOK, Assumption
<1>3. OriginalKept'
  BY DEF IInv, OriginalKept, Backed
<1>4. ReportTrue'
  BY DEF IInv, ReportTrue, Latest
<1>5. SelectionKept'
  BY DEF IInv, SelectionKept, Selected, Value, Readable, Migrating, Assumption
<1>6. ItemFollows'
  BY DEF IInv, ItemFollows, Reading
<1>7. Waiting'
  BY DEF IInv, Waiting
<1>8. Memory'
  BY DEF IInv, Memory, Moved
<1>9. Kept'
  BY DEF IInv, Kept, Backed, Moved, Opening
<1>10. MovedAway'
  BY DEF IInv, MovedAway, Latest, Moved
<1>11. Emptied'
  BY DEF IInv, Emptied
<1>12. Readable'
  BY DEF IInv, Readable, Migrating
<1>13. Read'
  BY DEF IInv, Read, Reading
<1>14. QED  BY <1>1, <1>2, <1>3, <1>4, <1>5, <1>6, <1>7, <1>8, <1>9, <1>10, <1>11,
   <1>12, <1>13 DEF IInv

\* The first task begins.
LEMMA OpenKeeps ==
  ASSUME Assumption, IInv, Open
  PROVE  IInv'
<1>. USE DEF Goto, Fails, Works, disk, login, Open
<1>1. TypeOK'
  <2>1. tasks' \in 0 .. MaxSaves + 1
    BY Values DEF IInv, TypeOK, Budget
  <2>. QED  BY <2>1 DEF IInv, TypeOK, Steps, Reports
<1>2. Budget'
  BY DEF IInv, Budget, TypeOK, Assumption
<1>3. OriginalKept'
  BY DEF IInv, OriginalKept, Backed
<1>4. ReportTrue'
  BY DEF IInv, ReportTrue, Latest
<1>5. SelectionKept'
  BY DEF IInv, SelectionKept
<1>6. ItemFollows'
  BY DEF IInv, ItemFollows, Reading
<1>7. Waiting'
  BY DEF IInv, Waiting
<1>8. Memory'
  BY DEF IInv, Memory, Moved
<1>9. Kept'
  BY DEF IInv, Kept, Backed, Moved, Opening
<1>10. MovedAway'
  BY DEF IInv, MovedAway, Latest, Moved
<1>11. Emptied'
  BY DEF IInv, Emptied
<1>12. Readable'
  BY DEF IInv, Readable, Migrating
<1>13. Read'
  BY DEF IInv, Read, Reading, Budget
<1>14. QED  BY <1>1, <1>2, <1>3, <1>4, <1>5, <1>6, <1>7, <1>8, <1>9, <1>10, <1>11,
   <1>12, <1>13 DEF IInv

\* A save of marks adds a task that will read them.
LEMMA SaveMarksKeeps ==
  ASSUME Assumption, IInv, NEW S \in SUBSET (Servers \ Interactive), SaveMarks(S)
  PROVE  IInv'
<1>. USE DEF Goto, Fails, Works, disk, login, SaveMarks
<1>1. TypeOK'
  <2>1. tasks' \in 0 .. MaxSaves + 1
    BY TaskAdded
  <2>2. wanted' \subseteq Servers /\ marks' \subseteq Servers
    BY DEF IInv, TypeOK, Selected
  <2>. QED  BY <2>1, <2>2 DEF IInv, TypeOK
<1>2. Budget'
  <2>1. /\ left' \in [faults : Nat, crashes : Nat, saves : 0 .. MaxSaves]
        /\ tasks' + left'.saves <= MaxSaves + 1 /\ tasks' > 0
    BY SaveSpent DEF IInv, Budget
  <2>. QED  BY <2>1 DEF IInv, Budget
<1>3. OriginalKept'
  BY DEF IInv, OriginalKept, Backed
<1>4. ReportTrue'
  BY DEF IInv, ReportTrue, Latest
<1>5. SelectionKept'
  BY DEF IInv, SelectionKept
<1>6. ItemFollows'
  BY DEF IInv, ItemFollows, Reading, TypeOK
<1>7. Waiting'
  BY DEF IInv, Waiting
<1>8. Memory'
  BY DEF IInv, Memory, Moved
<1>9. Kept'
  BY DEF IInv, Kept, Backed, Moved, Opening
<1>10. MovedAway'
  BY DEF IInv, MovedAway, Latest, Moved
<1>11. Emptied'
  BY DEF IInv, Emptied
<1>12. Readable'
  BY DEF IInv, Readable, Migrating
<1>13. Read'
  BY DEF IInv, Read, Reading, Budget, TypeOK
<1>14. QED  BY <1>1, <1>2, <1>3, <1>4, <1>5, <1>6, <1>7, <1>8, <1>9, <1>10, <1>11,
   <1>12, <1>13 DEF IInv

\* A save of the settings adds a task that will read them.
LEMMA SaveSettingsKeeps ==
  ASSUME Assumption, IInv, SaveSettings
  PROVE  IInv'
<1>. USE DEF Goto, Fails, Works, disk, login, SaveSettings
<1>1. TypeOK'
  <2>1. mem' \in Settings
    BY Changed DEF IInv, TypeOK
  <2>2. tasks' \in 0 .. MaxSaves + 1
    BY TaskAdded
  <2>3. wanted' \subseteq Servers /\ originals' \subseteq Settings \cup {Damaged}
    BY DEF IInv, TypeOK, Selected
  <2>. QED  BY <2>1, <2>2, <2>3 DEF IInv, TypeOK, Steps, Reports
<1>2. Budget'
  <2>1. /\ left' \in [faults : Nat, crashes : Nat, saves : 0 .. MaxSaves]
        /\ tasks' + left'.saves <= MaxSaves + 1 /\ tasks' > 0
    BY SaveSpent DEF IInv, Budget
  <2>. QED  BY <2>1 DEF IInv, Budget
<1>3. OriginalKept'
  BY DEF IInv, OriginalKept, Backed
<1>4. ReportTrue'
  BY DEF IInv, ReportTrue, Latest
<1>5. SelectionKept'
  BY DEF IInv, SelectionKept, Selected, Value, TypeOK, Settings, Assumption
<1>6. ItemFollows'
  BY DEF IInv, ItemFollows, Reading, TypeOK
<1>7. Waiting'
  BY DEF IInv, Waiting
<1>8. Memory'
  BY DEF IInv, Memory, Moved
<1>9. Kept'
  BY DEF IInv, Kept, Backed, Moved, Opening, OriginalKept
<1>10. MovedAway'
  BY DEF IInv, MovedAway, Latest, Moved
<1>11. Emptied'
  BY DEF IInv, Emptied
<1>12. Readable'
  BY DEF IInv, Readable, Migrating
<1>13. Read'
  BY DEF IInv, Read, Reading, Budget, TypeOK
<1>14. QED  BY <1>1, <1>2, <1>3, <1>4, <1>5, <1>6, <1>7, <1>8, <1>9, <1>10, <1>11,
   <1>12, <1>13 DEF IInv

\* The last task reads what the files say.
LEMMA LookKeeps ==
  ASSUME Assumption, IInv, Look
  PROVE  IInv'
<1>. USE DEF Goto, Fails, Works, disk, login, Look, Reading
<1>1. TypeOK'
  <2>1. tasks' \in 0 .. MaxSaves + 1
    BY TaskOver
  <2>. QED  BY <2>1 DEF IInv, TypeOK, Steps, Reports
<1>2. Budget'
  <2>1. /\ left' \in [faults : Nat, crashes : Nat, saves : 0 .. MaxSaves]
        /\ left'.saves = left.saves
    BY DEF IInv, Budget
  <2>2. /\ tasks \in Nat /\ left.saves \in Nat /\ MaxSaves \in Nat
        /\ tasks + left.saves <= MaxSaves + 1 /\ at = "run"
    BY Values DEF IInv, Budget, TypeOK
  <2>3. tasks' = tasks \/ tasks' = tasks - 1
    OBVIOUS
  <2>4. tasks' + left'.saves <= MaxSaves + 1
    BY <2>1, <2>2, <2>3
  <2>5. seen' # "free" => tasks' > 0
    BY DEF IInv, Budget
  <2>. QED  BY <2>1, <2>2, <2>4, <2>5 DEF IInv, Budget
<1>3. OriginalKept'
  BY DEF IInv, OriginalKept, Backed
<1>4. ReportTrue'
  BY DEF IInv, ReportTrue, Latest
<1>5. SelectionKept'
  BY DEF IInv, SelectionKept
<1>6. ItemFollows'
  BY DEF IInv, ItemFollows, Reading, TypeOK
<1>7. Waiting'
  BY DEF IInv, Waiting
<1>8. Memory'
  BY DEF IInv, Memory, Moved
<1>9. Kept'
  BY DEF IInv, Kept, Backed, Moved, Opening
<1>10. MovedAway'
  BY DEF IInv, MovedAway, Latest, Moved
<1>11. Emptied'
  BY DEF IInv, Emptied
<1>12. Readable'
  BY DEF IInv, Readable, Migrating
<1>13. Read'
  BY DEF IInv, Read, Reading
<1>14. QED  BY <1>1, <1>2, <1>3, <1>4, <1>5, <1>6, <1>7, <1>8, <1>9, <1>10, <1>11,
   <1>12, <1>13 DEF IInv

\* The last task sets what it has read.
LEMMA SetItemKeeps ==
  ASSUME Assumption, IInv, SetItem
  PROVE  IInv'
<1>. USE DEF Goto, Fails, Works, disk, login, SetItem
<1>1. TypeOK'
  <2>1. tasks' \in 0 .. MaxSaves + 1
    BY TaskOver DEF IInv, Budget
  <2>. QED  BY <2>1 DEF IInv, TypeOK, Steps, Reports
<1>2. Budget'
  <2>1. /\ left' \in [faults : Nat, crashes : Nat, saves : 0 .. MaxSaves]
        /\ left'.saves = left.saves
    BY DEF IInv, Budget
  <2>2. /\ tasks \in Nat /\ left.saves \in Nat /\ MaxSaves \in Nat
        /\ tasks + left.saves <= MaxSaves + 1 /\ at = "run"
    BY Values DEF IInv, Budget, TypeOK
  <2>3. tasks' = tasks \/ tasks' = tasks - 1
    OBVIOUS
  <2>4. tasks' + left'.saves <= MaxSaves + 1
    BY <2>1, <2>2, <2>3
  <2>5. seen' # "free" => tasks' > 0
    BY DEF IInv, Budget
  <2>. QED  BY <2>1, <2>2, <2>4, <2>5 DEF IInv, Budget
<1>3. OriginalKept'
  BY DEF IInv, OriginalKept, Backed
<1>4. ReportTrue'
  BY DEF IInv, ReportTrue, Latest
<1>5. SelectionKept'
  BY DEF IInv, SelectionKept
<1>6. ItemFollows'
  BY DEF IInv, ItemFollows, Reading, Read, TypeOK, Budget
<1>7. Waiting'
  BY DEF IInv, Waiting
<1>8. Memory'
  BY DEF IInv, Memory, Moved
<1>9. Kept'
  BY DEF IInv, Kept, Backed, Moved, Opening
<1>10. MovedAway'
  BY DEF IInv, MovedAway, Latest, Moved
<1>11. Emptied'
  BY DEF IInv, Emptied
<1>12. Readable'
  BY DEF IInv, Readable, Migrating
<1>13. Read'
  BY DEF IInv, Read, Reading
<1>14. QED  BY <1>1, <1>2, <1>3, <1>4, <1>5, <1>6, <1>7, <1>8, <1>9, <1>10, <1>11,
   <1>12, <1>13 DEF IInv

\* What is on disk survives the end of the application.
LEMMA EndKeeps ==
  ASSUME Assumption, IInv, End
  PROVE  IInv'
<1>. USE DEF Goto, Fails, Works, disk, login, End
<1>1. TypeOK'
  <2>1. tasks' \in 0 .. MaxSaves + 1
    BY Values DEF IInv, TypeOK, Budget
  <2>. QED  BY <2>1 DEF IInv, TypeOK, Steps, Reports
<1>2. Budget'
  BY DEF IInv, Budget, TypeOK, Assumption
<1>3. OriginalKept'
  BY DEF IInv, OriginalKept, Backed
<1>4. ReportTrue'
  BY DEF IInv, ReportTrue, Latest
<1>5. SelectionKept'
  BY DEF IInv, SelectionKept
<1>6. ItemFollows'
  BY DEF IInv, ItemFollows, Reading
<1>7. Waiting'
  BY DEF IInv, Waiting
<1>8. Memory'
  BY DEF IInv, Memory, Moved
<1>9. Kept'
  BY DEF IInv, Kept, Backed, Moved, Opening
<1>10. MovedAway'
  BY DEF IInv, MovedAway, Latest, Moved
<1>11. Emptied'
  BY DEF IInv, Emptied
<1>12. Readable'
  BY DEF IInv, Readable, Migrating
<1>13. Read'
  BY DEF IInv, Read, Reading
<1>14. QED  BY <1>1, <1>2, <1>3, <1>4, <1>5, <1>6, <1>7, <1>8, <1>9, <1>10, <1>11,
   <1>12, <1>13 DEF IInv

-----------------------------------------------------------------------------
(* The invariant and what it implies                                         *)

\* A first start keeps everything: nothing has been moved and no task runs.
LEMMA InitHolds ==
  ASSUME Assumption, Init
  PROVE  IInv
<1>1. TypeOK
  <2>1. file \in Settings \cup {Gone, Damaged} /\ marks \subseteq Servers
    BY DEF Init, Settings, Assumption
  <2>2. wanted \subseteq Servers
    BY <2>1 DEF Init, Selected
  <2>3. backups \in Seq(Settings \cup {Damaged})
    BY DEF Init
  <2>. QED  BY <2>1, <2>2, <2>3, Values DEF Init, TypeOK, Steps, Reports
<1>2. Budget
  BY Values DEF Init, Budget
<1>3. SelectionKept
  BY DEF Init, SelectionKept
<1>4. OriginalKept /\ ReportTrue /\ ItemFollows
  BY DEF Init, OriginalKept, ReportTrue, ItemFollows
<1>5. Waiting /\ Memory /\ Kept /\ MovedAway /\ Emptied /\ Readable /\ Read
  BY DEF Init, Waiting, Memory, Kept, MovedAway, Emptied, Readable, Read, Moved, Opening,
         Migrating
<1>. QED  BY <1>1, <1>2, <1>3, <1>4, <1>5 DEF IInv

\* A step of no action changes nothing.
LEMMA StutterKeeps ==
  ASSUME IInv, UNCHANGED vars
  PROVE  IInv'
<1>1. TypeOK' /\ Budget'
  BY DEF vars, IInv, TypeOK, Budget
<1>2. OriginalKept' /\ ReportTrue' /\ Kept' /\ Waiting'
  BY DEF vars, IInv, OriginalKept, ReportTrue, Kept, Waiting, Backed, Latest
<1>3. SelectionKept' /\ MovedAway' /\ Emptied' /\ Readable' /\ Memory'
  BY DEF vars, IInv, SelectionKept, MovedAway, Emptied, Readable, Memory, Latest
<1>4. ItemFollows' /\ Read'
  BY DEF vars, IInv, ItemFollows, Read, Reading
<1>. QED  BY <1>1, <1>2, <1>3, <1>4 DEF IInv

\* IInv is inductive.
LEMMA StepKeeps ==
  ASSUME Assumption, IInv, [Next]_vars
  PROVE  IInv'
BY LoadKeeps, AgainKeeps, BackUpKeeps, WriteDefaultsKeeps, RemoveDefaultsKeeps,
   PutBackKeeps, InferKeeps, MarkKeeps, UnsetKeeps, UnmarkKeeps, OpenKeeps,
      SaveMarksKeeps,
   SaveSettingsKeeps, LookKeeps, SetItemKeeps, EndKeeps, StutterKeeps DEF Next

\* In every reachable state of the start-up and of the saves after it, IInv holds.
THEOREM Invariance ==
  ASSUME Assumption
  PROVE  Spec => []IInv
<1>1. Init => IInv
  BY InitHolds
<1>2. IInv /\ [Next]_vars => IInv'
  BY StepKeeps
<1>. QED  BY <1>1, <1>2, PTL DEF Spec

\* Settings that could not be read stay on disk until the user saves over them, and what
\* the dialog says of them is true, whichever calls of the recovery fail and wherever the
\* application ends.
THEOREM RecoveryLosesNothing ==
  ASSUME Assumption
  PROVE  Spec => [](OriginalKept /\ ReportTrue)
<1>1. IInv => OriginalKept /\ ReportTrue
  BY DEF IInv
<1>. QED  BY <1>1, Invariance, PTL

\* The migration of "start all" never changes what starts at login, and when all tasks
\* have ended the login item agrees with the files, in whatever order they ran.
THEOREM LoginAsSelected ==
  ASSUME Assumption
  PROVE  Spec => [](SelectionKept /\ ItemFollows)
<1>1. IInv => SelectionKept /\ ItemFollows
  BY DEF IInv
<1>. QED  BY <1>1, Invariance, PTL
========================================================================
