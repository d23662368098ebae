---------------------------- MODULE UpdatePayload ----------------------------
(***************************************************************************)
(* From the archive of an update to the prepared copy beside the           *)
(* installation: extraction (crates/mountmate-core/src/update.rs,          *)
(* safe_extract_zip), the search for the payload, the copy, its digest and *)
(* its validation before it is swapped in (update_install.rs).  What the   *)
(* swap does is UpdateTransaction's.                                       *)
(*                                                                         *)
(* A tree is a function from paths to entries.  "res" stands for what a    *)
(* bundle needs besides its executable: its rclone, the digest of it, and  *)
(* the property list of an application.  The data of an entry stand for    *)
(* its contents and permissions.                                           *)
(***************************************************************************)
EXTENDS Naturals, Sequences, FiniteSets, TLC

CONSTANTS
  Archives,       \* sequences of archive entries
  Installations,  \* where the running executable may be: see Detect
  SizeOf,         \* the size of data
  Lower,          \* the lower case of each name
  None,
  MaxEntries,     \* MAX_ARCHIVE_FILES and MAX_PREPARED_ENTRIES
  MaxBytes,       \* MAX_EXTRACTED_SIZE and MAX_PREPARED_BYTES
  MaxFaults,      \* bound: operations of the file system that fail
  MaxChanges      \* bound: changes of the trees by another process

VARIABLES
  archive, installation,
  pc,        \* "extract", "locate", "copy", "verify", "prepared", and how it ended:
             \* "failed", "leftover", "accepted", "refused"
  tree,      \* what was extracted
  at,        \* the entries that were extracted
  payload,   \* the root of the payload, or None
  prepared,  \* the prepared copy
  opened,    \* the file that is being copied and the size it had, or None
  totals,    \* CopyTotals
  result,    \* PreparedPayload: the executable and the digests
  changed,   \* ghost: the trees that were changed before the digest was taken
  left

vars == <<archive, installation, pc, tree, at, payload, prepared, opened, totals, result,
          changed, left>>

Nothing == << >>
Dir == [kind |-> "dir", data |-> None]
File(data) == [kind |-> "file", data |-> data]
Link == [kind |-> "link", data |-> None]

Has(t, p) == p \in DOMAIN t
Regular(t, p) == Has(t, p) /\ t[p].kind = "file"
Within(p, root) == Len(p) >= Len(root) /\ SubSeq(p, 1, Len(root)) = root
Beneath(t, root) == {p \in DOMAIN t : Within(p, root)}
Relative(p, root) == SubSeq(p, Len(root) + 1, Len(p))
Parent(p) == SubSeq(p, 1, Len(p) - 1)
Parents(p) == {SubSeq(p, 1, n) : n \in 0 .. Len(p) - 1}
Fold(p) == [i \in DOMAIN p |-> Lower[p[i]]]

-----------------------------------------------------------------------------
\* Where the running program is, and what is replaced as a unit.

\* detect_install_layout_for: an installation is
\*   [entry |-> "file", "link" or "dir", os, temporary |-> BOOLEAN,
\*    application |-> "no", "whole" or "malformed", marker |-> "none", "complete" or "broken"]
Detect(i) ==
  IF i.entry # "file" \/ (i.os = "windows" /\ i.temporary) THEN "error"
  ELSE IF i.os = "macos" /\ i.application # "no"
       THEN IF i.application = "whole" THEN "application" ELSE "error"
       ELSE [none |-> "standalone", complete |-> "directory", broken |-> "error"][i.marker]

\* automatic_update_layout_supported
Supported(i) ==
  \/ Detect(i) \in {"standalone", "application"}
  \/ Detect(i) = "directory" /\ i.os = "macos"

Kind == Detect(installation)
IsApplication(root) == Len(root) > 0 /\ Lower[root[Len(root)]] = "app"

\* directory_bundle_status and collect_mac_application_payload
Whole(t, root, names) == \A n \in names : Regular(t, Append(root, n)) /\ t[Append(root, n)].data # "bad"

Status(t, root, named) ==
  IF installation.os = "macos" /\ named
  THEN IF Whole(t, root, {"exe", "res"}) THEN "complete" ELSE "broken"
  ELSE IF ~Has(t, Append(root, "marker")) THEN "none"
       ELSE IF Whole(t, root, {"marker", "exe", "res"}) THEN "complete" ELSE "broken"

Roots(t) == {<< >>} \cup {p \in DOMAIN t : Len(p) = 1 /\ t[p].kind = "dir"}

\* locate_standalone_payload and locate_directory_payload.  named: the root is an application.
Candidates(t, named) ==
  IF Kind = "standalone"
  THEN {r \in Roots(t) : Regular(t, Append(r, "exe"))}
  ELSE {r \in Roots(t) : Status(t, r, IF r = << >> THEN named ELSE IsApplication(r)) = "complete"}

Broken(t, named) ==
  Kind # "standalone"
    /\ \E r \in Roots(t) : Status(t, r, IF r = << >> THEN named ELSE IsApplication(r)) = "broken"

\* Mutant: of several payloads the first one found is taken.
FirstOf(t, named) == IF Candidates(t, named) = {} THEN {} ELSE {CHOOSE r \in Candidates(t, named) : TRUE}

Found(t, named) == IF Broken(t, named) THEN {} ELSE Candidates(t, named)

-----------------------------------------------------------------------------
Init ==
  /\ archive \in Archives /\ installation \in {i \in Installations : Supported(i)}
  /\ pc = "extract" /\ tree = (<< >> :> Dir) /\ at = 0
  /\ payload = None /\ prepared = Nothing /\ opened = None
  /\ totals = [entries |-> 0, bytes |-> 0]
  /\ result = None /\ changed = {}
  /\ left = [faults |-> MaxFaults, changes |-> MaxChanges]

Fault == left.faults > 0 /\ left' = [left EXCEPT !.faults = @ - 1]
Change == left.changes > 0 /\ left' = [left EXCEPT !.changes = @ - 1]

\* extract_zip_contents, of one entry: [path, safe, kind, size, data].
Expanded(n) ==
  LET sum[k \in 0 .. n] == IF k = 0 THEN 0 ELSE sum[k - 1] + archive[k].size IN sum[n]


SameName(e, f) == Fold(e.path) = Fold(f.path)

Extractable(n) ==
  LET e == archive[n]
  IN  /\ Len(archive) <= MaxEntries
      /\ e.safe
      /\ \A k \in 1 .. n - 1 : ~SameName(archive[k], e)
      /\ e.kind \in {"file", "dir"}
      /\ Expanded(n) <= MaxBytes
      /\ \A p \in Parents(e.path) : Has(tree, p) => tree[p].kind = "dir"
      /\ Has(tree, e.path) => tree[e.path].kind = "dir" /\ e.kind = "dir"
      /\ e.kind = "file" => SizeOf[e.data] = e.size

Extracted(e) ==
  (IF e.kind = "dir" THEN e.path :> Dir ELSE e.path :> File(e.data))
    @@ [p \in Parents(e.path) |-> Dir] @@ tree

Extract ==
  /\ pc = "extract" /\ at < Len(archive)
  /\ IF Extractable(at + 1)
     THEN tree' = Extracted(archive[at + 1]) /\ at' = at + 1 /\ UNCHANGED pc
     ELSE tree' = Nothing /\ pc' = "failed" /\ UNCHANGED at
  /\ UNCHANGED <<archive, installation, payload, prepared, opened, totals, result, changed, left>>

EndExtract ==
  /\ pc = "extract" /\ at = Len(archive)
  /\ pc' = "locate"
  /\ UNCHANGED <<archive, installation, tree, at, payload, prepared, opened, totals, result,
                 changed, left>>

\* locate_update_payload
Locate ==
  /\ pc = "locate"
  /\ IF Cardinality(Found(tree, FALSE)) = 1
     THEN payload' \in Found(tree, FALSE) /\ pc' = "copy"
     ELSE pc' = "failed" /\ UNCHANGED payload
  /\ UNCHANGED <<archive, installation, tree, at, prepared, opened, totals, result, changed, left>>

-----------------------------------------------------------------------------
\* prepare_directory_payload.  A walk visits a directory before what is in it.

Executable == Append(payload, "exe")
Source == IF Kind = "standalone" THEN {Executable} ELSE Beneath(tree, payload)
Target(p) == IF Kind = "standalone" THEN << >> ELSE Relative(p, payload)
Named == IF Kind = "standalone" THEN FALSE ELSE IsApplication(payload)

Todo == {p \in Source : /\ ~Has(prepared, Target(p))
                        /\ Target(p) = << >> \/ Has(prepared, Parent(Target(p)))}

Room(entries, bytes) == entries <= MaxEntries /\ bytes <= MaxBytes

\* Mutant: what was copied stays.
KeepCopy(t) == t

Cleaned(t) == Nothing

GiveUp == pc' = "failed" /\ prepared' = Cleaned(prepared) /\ opened' = None

\* safe_source_metadata, and bump_entry: of an entry that is reached by the walk.
Visit(p) ==
  /\ pc = "copy" /\ opened = None /\ p \in Todo
  /\ LET e == tree[p]
         size == IF e.kind = "file" THEN SizeOf[e.data] ELSE 0
         entries == totals.entries + 1
         bytes == totals.bytes + size
     IN  IF e.kind \notin {"file", "dir"} \/ ~Room(entries, bytes)
         THEN GiveUp /\ UNCHANGED totals
         ELSE /\ totals' = [entries |-> entries, bytes |-> bytes]
              /\ IF e.kind = "dir"
                 THEN prepared' = (Target(p) :> Dir) @@ prepared /\ UNCHANGED opened
                 ELSE opened' = [path |-> p, size |-> size] /\ UNCHANGED prepared
              /\ UNCHANGED pc
  /\ UNCHANGED <<archive, installation, tree, at, payload, result, changed, left>>

\* Mutant: a file that changed its size while it was read is copied as far as it was read.
AsFarAsRead(size, data) == TRUE

Exact(size, data) == SizeOf[data] = size

\* copy_regular_file reads one byte more than the file had.
Read(size, data) == IF SizeOf[data] <= size + 1 THEN data ELSE "part"

Copy ==
  /\ pc = "copy" /\ opened # None
  /\ LET data == tree[opened.path].data
     IN  IF Exact(opened.size, data)
         THEN /\ prepared' = (Target(opened.path) :> File(Read(opened.size, data))) @@ prepared
              /\ opened' = None /\ UNCHANGED pc
         ELSE GiveUp
  /\ UNCHANGED <<archive, installation, tree, at, payload, totals, result, changed, left>>

CopyFails ==
  /\ pc = "copy" /\ Fault
  /\ GiveUp
  /\ UNCHANGED <<archive, installation, tree, at, payload, totals, result, changed>>

\* prepared_tree_sha256: every entry below the root by its path, its kind, and its data.
\* Mutant: the digest is over the executable alone.
ExecutableOnly(t) == {<<p, t[p]>> : p \in DOMAIN t \cap {<< >>, <<"exe">>}}

Digest(t) == {<<p, t[p]>> : p \in DOMAIN t}

\* Nothing but files and directories has a digest.
Digestible(t) == \A p \in DOMAIN t : t[p].kind \in {"file", "dir"}

PreparedExecutable == IF Kind = "standalone" THEN << >> ELSE <<"exe">>

\* The copy is itself searched for its payload, which must be all of it.
WholeCopy(t) ==
  \/ Kind = "standalone" /\ Regular(t, << >>)
  \/ Kind # "standalone" /\ Found(t, Named) = {<< >>}

\* verify_copied_executable
SameExecutable ==
  /\ Regular(prepared, PreparedExecutable)
  /\ prepared[PreparedExecutable].data = tree[Executable].data

Verify ==
  /\ pc = "copy" /\ opened = None /\ Todo = {}
  /\ IF WholeCopy(prepared) /\ SameExecutable /\ Digestible(prepared)
     THEN /\ pc' = "prepared"
          /\ result' = [executable |-> prepared[PreparedExecutable].data,
                        digest |-> Digest(prepared), copy |-> prepared]
          /\ UNCHANGED <<prepared, opened>>
     ELSE GiveUp /\ UNCHANGED result
  /\ UNCHANGED <<archive, installation, tree, at, payload, totals, changed, left>>

\* The digest of a single executable fails: the copy stays until the next update cleans it up.
VerifyFails ==
  /\ pc = "copy" /\ opened = None /\ Todo = {}
  /\ Fault
  /\ IF Kind = "standalone" THEN pc' = "leftover" /\ UNCHANGED <<prepared, opened>> ELSE GiveUp
  /\ UNCHANGED <<archive, installation, tree, at, payload, totals, result, changed>>

\* validate_prepared_payload, by the helper that swaps the copy in.
Valid ==
  /\ Has(prepared, << >>)
  /\ prepared[<< >>].kind = IF Kind = "standalone" THEN "file" ELSE "dir"
  /\ Regular(prepared, PreparedExecutable)
  /\ prepared[PreparedExecutable].data = result.executable
  /\ Digestible(prepared) /\ Digest(prepared) = result.digest
  /\ WholeCopy(prepared)

Validate ==
  /\ pc = "prepared"
  /\ pc' = IF Valid THEN "accepted" ELSE "refused"
  /\ UNCHANGED <<archive, installation, tree, at, payload, prepared, opened, totals, result,
                 changed, left>>

-----------------------------------------------------------------------------
\* Another process writes to a file, makes one, or replaces one by a link.
Altered(t) ==
  {[t EXCEPT ![p] = File(d)] : p \in {q \in DOMAIN t : t[q].kind = "file"}, d \in DOMAIN SizeOf}
    \cup {(Append(p, "note") :> File("v1")) @@ t : p \in {q \in DOMAIN t : t[q].kind = "dir"}}

Unlinked(t) ==
  {[t EXCEPT ![p] = Link] : p \in {q \in DOMAIN t : t[q].kind = "file"}}
    \cup {[q \in DOMAIN t \ {p} |-> t[q]] : p \in {q \in DOMAIN t : t[q].kind = "file"}}

ChangeSource ==
  /\ pc = "copy" /\ Change
  /\ tree' \in Altered(tree) \ {tree}
  /\ changed' = changed \cup {"source"}
  /\ UNCHANGED <<archive, installation, pc, at, payload, prepared, opened, totals, result>>

ChangePrepared ==
  /\ pc = "prepared" /\ Change
  /\ prepared' \in (Altered(prepared) \cup Unlinked(prepared)) \ {prepared}
  /\ UNCHANGED <<archive, installation, pc, tree, at, payload, opened, totals, result, changed>>

Next ==
  \/ Extract \/ EndExtract \/ Locate
  \/ \E p \in DOMAIN tree : Visit(p)
  \/ Copy \/ CopyFails \/ Verify \/ VerifyFails \/ Validate
  \/ ChangeSource \/ ChangePrepared

Spec == Init /\ [][Next]_vars

-----------------------------------------------------------------------------
Entry == [kind : {"file", "dir", "link"}, data : DOMAIN SizeOf \cup {"part", None}]

TypeOK ==
  /\ archive \in Archives /\ installation \in Installations
  /\ pc \in {"extract", "locate", "copy", "prepared", "failed", "leftover", "accepted", "refused"}
  /\ \A p \in DOMAIN tree : tree[p] \in Entry
  /\ \A p \in DOMAIN prepared : prepared[p] \in Entry
  /\ at \in 0 .. Len(archive)
  /\ opened = None \/ opened.path \in DOMAIN tree
  /\ changed \subseteq {"source"}

\* Two names of the tree that was extracted never differ in case alone, so that it is the same
\* tree on every file system, and it is no larger than the bounds.
ExtractedWhole ==
  pc \notin {"extract", "failed"} /\ changed = {} =>
    /\ \A p, q \in DOMAIN tree : Fold(p) = Fold(q) => p = q
    /\ \A k \in DOMAIN archive : archive[k].kind = "file" => tree[archive[k].path] = File(archive[k].data)

\* The prepared copy is the payload: nothing is missing, nothing is added, no file is copied in
\* part, and it holds the one bundle, or the one executable, that the installation calls for.
CopyIsPayload ==
  pc = "prepared" /\ prepared = result.copy =>
    /\ \A p \in DOMAIN prepared : prepared[p].kind \in {"file", "dir"} /\ prepared[p].data # "part"
    /\ changed = {} =>
         /\ prepared = [q \in {Target(p) : p \in Source} |->
                          tree[CHOOSE p \in Source : Target(p) = q]]
         /\ Cardinality(Candidates(tree, FALSE)) = 1
    /\ WholeCopy(prepared)

\* What is swapped in is what was prepared: a file that was changed, added, removed or replaced
\* by a link in between is noticed.
SwappedAsPrepared == pc = "accepted" => prepared = result.copy

\* A preparation that fails leaves no copy beside the installation, but for a single executable
\* whose digest cannot be taken.
NothingLeftBehind == pc = "failed" => prepared = Nothing
=============================================================================
