------------------------------ MODULE HostKeys ------------------------------
(***************************************************************************)
(* The keys of a server that the application trusts: the review and the    *)
(* confirmation of crates/mountmate-core/src/host_key.rs, the choice of a  *)
(* known_hosts file in service.rs and ssh.rs, and the loop of              *)
(* crates/mountmate-app/src/host_key_dialog.rs that mounts, asks and       *)
(* mounts again.                                                           *)
(*                                                                         *)
(* Several directories of one server are mounted at once.  The server may  *)
(* present another key at any moment, and the user's own known_hosts file  *)
(* may be edited at any moment.                                            *)
(***************************************************************************)
EXTENDS Naturals, Sequences

CONSTANTS
  Mounts,      \* tasks that mount a directory of the server
  Keys,        \* public keys
  MaxFaults,   \* bound: probes, connections and writes that fail
  MaxChanges   \* bound: changes of the server's key and of the user's file

VARIABLES
  host,       \* the key the server presents
  own,        \* the bindings of the server in the user's known_hosts
  managed,    \* the bindings in the known_hosts of the application
  step,       \* how far each mount is
  trust,      \* the file each mount trusts
  review,     \* what each mount asks the user to confirm
  prompts,    \* the dialogs of the window, the one it shows first
  remaining,  \* faults and changes that are left
  agreed      \* ghost: the keys that a user has seen and agreed to

vars == <<host, own, managed, step, trust, review, prompts, remaining, agreed>>
files == <<host, own, managed>>

Nothing == [keys |-> {}, previous |-> {}, before |-> {}, source |-> "none"]

Init ==
  /\ host \in Keys
  /\ own \in {{}} \cup {{k} : k \in Keys}
  /\ managed = {}
  /\ step = [m \in Mounts |-> "mount"]
  /\ trust = [m \in Mounts |-> "none"]
  /\ review = [m \in Mounts |-> Nothing]
  /\ prompts = <<>>
  /\ remaining = [faults |-> MaxFaults, changes |-> MaxChanges]
  /\ agreed = {}

Go(m, s) == step' = [step EXCEPT ![m] = s]
Faulty == remaining.faults > 0 /\ remaining' = [remaining EXCEPT !.faults = @ - 1]
Fine == UNCHANGED remaining

Bindings(source) ==
  CASE source = "managed" -> managed [] source = "own" -> own [] OTHER -> {}

\* fallback_known_hosts: the first file with a binding of the server.
Fallback == IF managed # {} THEN "managed" ELSE IF own # {} THEN "own" ELSE "none"

\* HostKeyReview::new
NewReview(source) ==
  [keys |-> {host}, previous |-> Bindings(source), before |-> managed, source |-> source]

\* known_hosts_for: an existing binding is used without a probe.
Choose(m) ==
  /\ step[m] = "mount"
  /\ trust' = [trust EXCEPT ![m] = Fallback]
  /\ Go(m, IF Fallback = "none" THEN "discover" ELSE "connect")
  /\ UNCHANGED <<files, review, prompts, remaining, agreed>>

\* discover_host_keys: what the server presents now, or nothing.
Discover(m) ==
  /\ step[m] = "discover"
  /\ \/ Fine /\ review' = [review EXCEPT ![m] = NewReview("none")] /\ Go(m, "discovered")
     \/ Faulty /\ Go(m, "unreachable") /\ UNCHANGED review
  /\ UNCHANGED <<files, trust, prompts, agreed>>

\* Another directory may have been confirmed meanwhile.
ChooseAgain(m) ==
  /\ step[m] = "discovered"
  /\ trust' = [trust EXCEPT ![m] = Fallback]
  /\ Go(m, IF Fallback = "none" THEN "wait" ELSE "connect")
  /\ UNCHANGED <<files, review, prompts, remaining, agreed>>

\* rclone connects with the file it was given; a mismatch is found in its log.
Connect(m) ==
  /\ step[m] = "connect"
  /\ \/ host \in Bindings(trust[m]) /\ Fine /\ Go(m, "mounted")
     \/ host \notin Bindings(trust[m]) /\ Fine /\ Go(m, "mismatch")
     \/ Faulty /\ Go(m, "failed")
  /\ UNCHANGED <<files, trust, review, prompts, agreed>>

\* mount, after NotReady: the keys of the server against those of the file.
Review(m) ==
  /\ step[m] = "mismatch"
  /\ LET new == NewReview(trust[m]) IN
     \/ /\ Fine
        /\ review' = [review EXCEPT ![m] = new]
        /\ Go(m, IF new.keys = new.previous THEN "failed" ELSE "wait")
     \/ Faulty /\ Go(m, "unreachable") /\ UNCHANGED review
  /\ UNCHANGED <<files, trust, prompts, agreed>>

\* is_confirmed
Confirmed(r) == managed = r.keys

\* Mutant: the lock is released while the user thinks.
Unserialised == \A m \in Mounts : step[m] # "agreed"

\* The lock of the dialogs is held from the question until the answer is saved.
DialogFree == \A m \in Mounts : step[m] \notin {"asked", "agreed", "asked again"}

\* host_key_dialog::mount: under the lock of the dialogs, unless a sibling was confirmed.
Ask(m) ==
  /\ step[m] = "wait" /\ DialogFree
  /\ IF Confirmed(review[m])
     THEN Go(m, "mount") /\ UNCHANGED prompts
     ELSE Go(m, "asked") /\ prompts' = Append(prompts, m)
  /\ UNCHANGED <<files, trust, review, remaining, agreed>>

\* No key was received: Retry or Cancel.
AskRetry(m) ==
  /\ step[m] = "unreachable" /\ DialogFree
  /\ Go(m, "asked again")
  /\ prompts' = Append(prompts, m)
  /\ UNCHANGED <<files, trust, review, remaining, agreed>>

\* HostKeyDecision answers the dialog in front.
Decide(yes) ==
  /\ prompts # <<>>
  /\ LET m == Head(prompts) IN
     /\ Go(m, IF ~yes THEN "cancelled" ELSE IF step[m] = "asked" THEN "agreed" ELSE "mount")
     /\ agreed' = IF yes /\ step[m] = "asked" THEN agreed \cup review[m].keys ELSE agreed
  /\ prompts' = Tail(prompts)
  /\ UNCHANGED <<files, trust, review, remaining>>

\* Mutant: the files are not compared with those of the review.
NeverChanged(r) == FALSE

\* The files have changed since the review.
Changed(r) ==
  \/ managed # r.before
  \/ r.source # "none" /\ Bindings(r.source) # r.previous

\* Mutant: what the server presents by now is saved.
KeysPresented(r) == {host}

KeysToSave(r) == r.keys

\* HostKeyReview::confirm, under the lock of known_hosts.
Confirm(m) ==
  /\ step[m] = "agreed"
  /\ LET r == review[m] IN
     IF Confirmed(r) THEN Fine /\ Go(m, "mount") /\ UNCHANGED managed
     ELSE IF Changed(r) THEN Fine /\ Go(m, "failed") /\ UNCHANGED managed
     ELSE \/ Fine /\ managed' = KeysToSave(r) /\ Go(m, "mount")
          \/ Faulty /\ Go(m, "failed") /\ UNCHANGED managed
  /\ UNCHANGED <<host, own, trust, review, prompts, agreed>>

\* The user mounts again.
Again(m) ==
  /\ step[m] \in {"failed", "cancelled"} /\ Faulty
  /\ Go(m, "mount")
  /\ trust' = [trust EXCEPT ![m] = "none"]
  /\ review' = [review EXCEPT ![m] = Nothing]
  /\ UNCHANGED <<files, prompts, agreed>>

\* The server gets another key, or the user edits the file of OpenSSH.
World ==
  /\ remaining.changes > 0
  /\ remaining' = [remaining EXCEPT !.changes = @ - 1]
  /\ \/ host' \in Keys \ {host} /\ UNCHANGED own
     \/ own' \in {{}, {host}} \ {own} /\ UNCHANGED host
  /\ UNCHANGED <<managed, step, trust, review, prompts, agreed>>

MountStep(m) ==
  \/ Choose(m) \/ Discover(m) \/ ChooseAgain(m) \/ Connect(m) \/ Review(m)
  \/ Ask(m) \/ AskRetry(m) \/ Confirm(m)

Next ==
  \/ \E m \in Mounts : MountStep(m) \/ Again(m)
  \/ \E yes \in BOOLEAN : Decide(yes)
  \/ World

Spec == Init /\ [][Next]_vars

-----------------------------------------------------------------------------
\* Every variable holds what its declaration says.
TypeOK ==
  /\ host \in Keys /\ own \subseteq Keys /\ managed \subseteq Keys /\ agreed \subseteq Keys
  /\ step \in [Mounts -> {"mount", "discover", "discovered", "connect", "mismatch", "unreachable",
                          "wait", "asked", "asked again", "agreed", "mounted", "failed", "cancelled"}]
  /\ trust \in [Mounts -> {"none", "managed", "own"}]
  /\ review \in [Mounts -> [keys : SUBSET Keys, previous : SUBSET Keys, before : SUBSET Keys,
                            source : {"none", "managed", "own"}]]
  /\ prompts \in Seq(Mounts) /\ Len(prompts) <= 1

\* The application trusts only keys that somebody has been shown and has agreed to: not
\* the one the server presents by the time the answer comes.
OnlyAgreed == managed \subseteq agreed

\* Keys that were confirmed stay until somebody agrees to a review that began from a saved
\* key: the answer to "no saved host key yet", of a mount that found none, never overwrites
\* the confirmation of another directory that came first. (Every step.)
FirstUseReplacesNothing ==
  managed # {} /\ managed' # managed =>
    \E m \in Mounts : step[m] = "agreed" /\ step'[m] # "agreed" /\ review[m].source # "none"
=============================================================================
