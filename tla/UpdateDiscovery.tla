--------------------------- MODULE UpdateDiscovery ---------------------------
(***************************************************************************)
(* Which release the application offers, downloads and starts to install:  *)
(* crates/mountmate-core/src/update.rs and update_manifest.rs, the         *)
(* preparation of update_workflow.rs, and the handlers of crates/          *)
(* mountmate-app/src/main.rs around them.                                  *)
(*                                                                         *)
(* The releases change while they are read: a release is published before  *)
(* its manifest, its files are replaced, a manifest of another version is  *)
(* attached to it.  Requests fail, and the other way to the tag is taken.  *)
(* What the helper then does is UpdateTransaction.                         *)
(***************************************************************************)
EXTENDS Naturals, FiniteSets

CONSTANTS
  Versions,    \* versions of the program, 1 .. n, in their order
  Pre,         \* those that are pre-releases
  Installed,   \* versions that may be the one that runs
  MaxFaults,   \* bound: requests that fail
  MaxEdits,    \* bound: changes of the releases
  MaxChecks    \* bound: checks and downloads

NONE == 0

VARIABLES
  current,    \* the version that runs
  releases,   \* by tag: shown, the pre-release flag, the version its manifest states, its package
  login,      \* an interactive connection is mounted, busy or waits for its login
  pending,    \* transfers are pending or unknown
  check,      \* the check that runs
  info,       \* update_info
  download,   \* the preparation that runs
  prepared,   \* prepared_update
  dialogs,    \* open questions "Install now?"
  staged,     \* the number of plans and payloads on disk
  launched,   \* the version the helper was started for
  budget      \* faults, edits and checks that are left

vars == <<current, releases, login, pending, check, info, download, prepared, dialogs, staged, launched, budget>>
world == <<current, releases, login, pending>>
window == <<info, download, prepared, dialogs, staged, launched>>

Tag == [shown : BOOLEAN, flag : BOOLEAN, manifest : Versions \cup {NONE}, package : Versions \cup {NONE}]
Found == [tag : Versions \cup {NONE}, asset : Versions \cup {NONE}]
NoCheck == [at |-> "none", tag |-> NONE, left |-> {}, asset |-> NONE]
NoInfo == [tag |-> NONE, asset |-> NONE]

Released(v) == [shown |-> TRUE, flag |-> v \in Pre, manifest |-> v, package |-> v]
Absent == [shown |-> FALSE, flag |-> FALSE, manifest |-> NONE, package |-> NONE]

Init ==
  /\ current \in Installed
  /\ releases = [v \in Versions |-> IF v <= current THEN Released(v) ELSE Absent]
  /\ login = FALSE
  /\ pending \in BOOLEAN
  /\ check = [NoCheck EXCEPT !.at = "api"]
  /\ info = NoInfo
  /\ download = [at |-> "none", asset |-> NONE]
  /\ prepared = NONE
  /\ dialogs = 0
  /\ staged = 0
  /\ launched = NONE
  /\ budget = [faults |-> MaxFaults, edits |-> MaxEdits, checks |-> MaxChecks]

Spend(what) == budget[what] > 0 /\ budget' = [budget EXCEPT ![what] = @ - 1]
Free == UNCHANGED budget
Highest(S) == CHOOSE v \in S : \A w \in S : w <= v

-----------------------------------------------------------------------------
(* The releases on GitHub.                                                 *)

\* A release is shown with its package; its manifest comes with it, later, or never; its
\* flag, its manifest and its package may be those of another release.
Publish(v) ==
  /\ Spend("edits")
  /\ \E f \in BOOLEAN, m \in {NONE, v} \cup Pre, p \in {v} \cup Pre :
       releases' = [releases EXCEPT ![v] = [shown |-> TRUE, flag |-> f, manifest |-> m, package |-> p]]
  /\ UNCHANGED <<current, login, pending, check, window>>

-----------------------------------------------------------------------------
(* update_manifest.rs                                                      *)

\* Mutant: a manifest of any version will do, so long as its signature is good.
AnySigned(tag, flag, manifest) == manifest # NONE

\* verify_release_manifest_identity: a signed manifest of the version of the tag, in the
\* channel of the release.
Identity(tag, flag, manifest) == manifest = tag /\ flag = (tag \in Pre)

\* validate_published_assets: the manifest lists the packages the release has.
Published(manifest, package) == manifest = package

-----------------------------------------------------------------------------
(* update.rs                                                               *)

Shown == {v \in Versions : releases[v].shown}

\* release_candidates_for_channel
Candidates(flagged) ==
  IF current \in Pre THEN Shown ELSE Shown \ (Pre \cup flagged)

Flagged == {v \in Versions : releases[v].flag}

\* The page and the API of GitHub give the last release that is not flagged.
Latest == Highest((Shown \ Flagged) \cup {NONE})

Finish(tag, asset) == check' = [NoCheck EXCEPT !.at = "done", !.tag = tag, !.asset = asset]

\* fetch_releases_retry and select_release_for_channel, or fetch_latest_release.
Api ==
  /\ check.at = "api"
  /\ LET tag == IF current \in Pre THEN Highest(Candidates(Flagged) \cup {NONE}) ELSE Latest IN
     \/ Free /\ tag # NONE /\ check' = [check EXCEPT !.at = "verify", !.tag = tag, !.asset = releases[tag].package]
     \/ Free /\ tag = NONE /\ Finish(NONE, NONE)
     \/ Spend("faults") /\ check' = [check EXCEPT !.at = "feed"]
  /\ UNCHANGED <<world, window>>

\* verified_update_asset: the files the API has listed, unless they were replaced meanwhile.
Verify ==
  /\ check.at = "verify"
  /\ LET r == releases[check.tag]
         good == Identity(check.tag, r.flag, r.manifest) /\ Published(r.manifest, check.asset)
     IN \/ Free /\ Finish(check.tag, IF good THEN r.manifest ELSE NONE)
        \/ Spend("faults") /\ Finish(check.tag, NONE)
  /\ UNCHANGED <<world, window>>

\* fetch_prerelease_from_atom, or fetch_latest_release_redirect: tags and nothing else.
Feed ==
  /\ check.at = "feed"
  /\ LET tags == IF current \in Pre THEN Candidates({}) ELSE {Latest} \ (Pre \cup {NONE}) IN
     \/ Free /\ tags # {} /\ check' = [check EXCEPT !.at = "signed", !.left = tags]
     \/ Free /\ tags = {} /\ Finish(NONE, NONE)
     \/ Spend("faults") /\ Finish(NONE, NONE)
  /\ UNCHANGED <<world, window>>

\* update_info_from_signed_tag, for one candidate after the other, the newest first.
Signed ==
  /\ check.at = "signed"
  /\ LET tag == Highest(check.left)
         next == [check EXCEPT !.left = @ \ {tag}]
         good == Identity(tag, tag \in Pre, releases[tag].manifest)
     IN \/ Free /\ good /\ Finish(tag, releases[tag].manifest)
        \/ /\ (Free /\ ~good) \/ Spend("faults")
           /\ IF next.left = {} THEN Finish(NONE, NONE) ELSE check' = next
  /\ UNCHANGED <<world, window>>

Newer(v) == v > current

\* UpdateChecked; a check that failed leaves what is known.
UpdateChecked ==
  /\ check.at = "done"
  /\ check' = NoCheck
  /\ info' = IF check.tag = NONE THEN info
             ELSE IF Newer(check.tag) THEN [tag |-> check.tag, asset |-> check.asset] ELSE NoInfo
  /\ UNCHANGED <<world, download, prepared, dialogs, staged, launched, budget>>

CheckForUpdates ==
  /\ launched = NONE /\ check.at = "none" /\ download.at = "none" /\ Spend("checks")
  /\ check' = [NoCheck EXCEPT !.at = "api"]
  /\ UNCHANGED <<world, window>>

-----------------------------------------------------------------------------
(* update_workflow.rs, and the handlers                                    *)

\* block_update_for_interactive_mounts: a prepared update is cancelled.
One(v) == IF v = NONE THEN 0 ELSE 1
Cancel == prepared' = NONE /\ staged' = staged - One(prepared)

DownloadUpdate ==
  /\ launched = NONE /\ download.at = "none" /\ info.asset # NONE /\ Spend("checks")
  /\ IF login
     THEN Cancel /\ UNCHANGED download
     ELSE download' = [at |-> "fetch", asset |-> info.asset] /\ UNCHANGED <<prepared, staged>>
  /\ UNCHANGED <<world, check, info, dialogs, launched>>

\* Mutant: an update that is prepared does not keep the lock of the updates.
Unlocked == TRUE
Lockable == prepared = NONE

\* prepare_update_install: lock, download, compare with the digest that was signed, stage.
Prepare ==
  /\ download.at = "fetch"
  /\ \/ Free /\ Lockable /\ releases[download.asset].package = download.asset
        /\ download' = [download EXCEPT !.at = "ready"]
        /\ staged' = staged + 1
     \/ /\ (Free /\ (~Lockable \/ releases[download.asset].package # download.asset)) \/ Spend("faults")
        /\ download' = [download EXCEPT !.at = "failed"]
        /\ UNCHANGED staged
  /\ UNCHANGED <<world, check, info, prepared, dialogs, launched>>

\* Mutant: the logins are looked at when the update is prepared, and then no more.
LaunchAtOnce(v) ==
  /\ prepared' = NONE /\ staged' = staged - One(v) /\ launched' = v

\* launch_prepared_update: logins are looked at again; the helper may not start.
Launch(v) ==
  /\ prepared' = NONE
  /\ staged' = staged - One(v)
  /\ IF login \/ v = NONE THEN UNCHANGED launched ELSE launched' \in {v, NONE}

\* UpdatePrepared and confirm_prepared_update
UpdatePrepared ==
  /\ launched = NONE /\ download.at \in {"ready", "failed"}
  /\ download' = [at |-> "none", asset |-> NONE]
  /\ IF download.at = "failed" THEN UNCHANGED <<prepared, staged, launched, dialogs>>
     ELSE IF login \/ ~pending THEN Launch(download.asset) /\ UNCHANGED dialogs
     ELSE prepared' = download.asset /\ dialogs' = dialogs + 1 /\ UNCHANGED <<staged, launched>>
  /\ UNCHANGED <<world, check, info, budget>>

\* InstallUpdateDecision: about whatever is prepared by now.
Decide(install) ==
  /\ launched = NONE /\ dialogs > 0
  /\ dialogs' = dialogs - 1
  /\ IF install THEN Launch(prepared) ELSE Cancel /\ UNCHANGED launched
  /\ UNCHANGED <<world, check, info, download, budget>>

\* Logins and transfers begin and end.
Others ==
  /\ launched = NONE
  /\ \/ login' = ~login /\ UNCHANGED pending
     \/ pending' = ~pending /\ UNCHANGED login
  /\ UNCHANGED <<current, releases, check, window, budget>>

Next ==
  \/ \E v \in Versions : Publish(v)
  \/ Api \/ Verify \/ Feed \/ Signed \/ UpdateChecked \/ CheckForUpdates
  \/ DownloadUpdate \/ Prepare \/ UpdatePrepared \/ Others
  \/ \E install \in BOOLEAN : Decide(install)

Spec == Init /\ [][Next]_vars

-----------------------------------------------------------------------------
\* Every variable holds what its declaration says.
TypeOK ==
  /\ current \in Installed
  /\ releases \in [Versions -> Tag]
  /\ {login, pending} \subseteq BOOLEAN
  /\ check \in [at : {"none", "api", "verify", "feed", "signed", "done"}, tag : Versions \cup {NONE},
                left : SUBSET Versions, asset : Versions \cup {NONE}]
  /\ info \in Found
  /\ download \in [at : {"none", "fetch", "ready", "failed"}, asset : Versions \cup {NONE}]
  /\ {prepared, launched} \subseteq Versions \cup {NONE}
  /\ dialogs \in 0 .. MaxChecks
  /\ staged \in 0 .. MaxChecks

\* What is launched is newer than what runs and in its channel, whichever way the tag was
\* found and however the releases changed between the requests.
Upgrade == launched # NONE => launched > current /\ (launched \in Pre => current \in Pre)

\* A package whose plan is on disk belongs to an update that is prepared or being
\* prepared: one that is blocked, postponed or fails to start leaves nothing behind, and
\* no preparation takes the place of another.
NothingLeftBehind == staged = One(prepared) + (IF download.at = "ready" THEN 1 ELSE 0)

\* The application never leaves for an update while a login runs or is waited for, although
\* the download and the question take long and others begin meanwhile. (Every step.)
LeavesNoLogin == launched' # launched => ~login
=============================================================================
