------------------------------ MODULE SaiKeys ------------------------------
(***************************************************************************)
(* The keys of one account at one site: the files of                       *)
(* crates/mountmate-sai/src/key.rs, and the registration of a key with the *)
(* service by enroll_key of crates/mountmate-sai/src/lib.rs.               *)
(*                                                                         *)
(* Several attempts run at once (two processes, or one that was cancelled  *)
(* while a blocking call went on); the application may end between any two *)
(* steps, a write may fail before or after its effect, an answer of the    *)
(* service may be lost after the service acted on the request, and the     *)
(* file of the first or of the selected key may be lost.                   *)
(***************************************************************************)
EXTENDS Naturals, FiniteSets

CONSTANTS
  Attempts,    \* enrolments that may run at once
  Keys,        \* the keys that may be generated, each also the request that names it
  None,        \* no key, no file
  MaxFaults,   \* bound: writes and requests that fail, files that are lost
  MaxStops     \* bound: cancellations and ends of the application

VARIABLES
  first,      \* the key in id_ed25519
  renewed,    \* the keys k that have a file id_ed25519.k
  current,    \* the request that current-key selects
  service,    \* what the service says of each key
  attempt,    \* the attempts
  saved,      \* the file names and keys of configured connections
  left,       \* faults and stops that are left
  lost        \* ghost: the keys whose file id_ed25519 was lost

vars == <<first, renewed, current, service, attempt, saved, left, lost>>
files == <<first, renewed, current>>

\* What a service says of a registered key: pending also while the user has to confirm it,
\* retired is revoked or expired, failed also a confirmation that came too late.
Answers == {"pending", "applied", "failed", "retired"}

Idle == [step |-> "idle", key |-> None, file |-> "none", replace |-> FALSE,
         cancelled |-> FALSE, answer |-> "none"]

Init ==
  /\ first = None /\ renewed = {} /\ current = None
  /\ service = [k \in Keys |-> "unknown"]
  /\ attempt = [x \in Attempts |-> Idle]
  /\ saved = {}
  /\ left = [faults |-> MaxFaults, stops |-> MaxStops]
  /\ lost = {}

Fault == left.faults > 0 /\ left' = [left EXCEPT !.faults = @ - 1]
Fine == UNCHANGED left
Stop == left.stops > 0 /\ left' = [left EXCEPT !.stops = @ - 1]

Become(x, r) == attempt' = [attempt EXCEPT ![x] = r]
End(x) == Become(x, Idle)
\* A blocking call is not cancelled; the attempt it belonged to ends with it.
Then(x, r) == IF attempt[x].cancelled THEN End(x) ELSE Become(x, r)

\* Keys that were never generated.
Fresh ==
  Keys \ ({first} \cup renewed \cup lost \cup {k \in Keys : service[k] # "unknown"}
            \cup {attempt[x].key : x \in Attempts})
\* Which of them is generated next does not matter: one of them stands for all.
Generated(k) == k \in Fresh /\ k = CHOOSE j \in Fresh : TRUE

\* enroll_key up to the blocking call; the button of a retired key says replace_retired.
Enroll(x) ==
  /\ attempt[x].step = "idle"
  /\ \E replace \in BOOLEAN : Become(x, [Idle EXCEPT !.step = "load", !.replace = replace])
  /\ UNCHANGED <<files, service, saved, left, lost>>

\* key_directory: one attempt at a time is in the directory, others wait or give up.
Locked == \E x \in Attempts : attempt[x].step = "select"

\* Mutant: a selection without its file falls back to the first key.
FallsBack == IF current \in renewed THEN current ELSE first

\* load_current: the selected key, or the first one.  None: it cannot be read.
Loaded == IF current = None THEN first ELSE IF current \in renewed THEN current ELSE None
FileOf(k) == IF current = None THEN "first" ELSE "renewed"
MayCreate == current = None /\ first = None

\* load_or_create
Load(x) ==
  /\ attempt[x].step = "load" /\ ~Locked
  /\ IF MayCreate
     THEN \E k \in Keys :
            /\ Generated(k) /\ Fine
            /\ first' = k
            /\ Then(x, [attempt[x] EXCEPT !.step = "register", !.key = k, !.file = "first"])
     ELSE /\ Fine /\ UNCHANGED first
          /\ IF Loaded = None
             THEN End(x)
             ELSE Then(x, [attempt[x] EXCEPT !.step = "register", !.key = Loaded,
                                             !.file = FileOf(Loaded)])
  /\ UNCHANGED <<renewed, current, service, saved, lost>>

\* The lock is not had in time, or write_key fails: before its rename, or after it.
LoadFails(x) ==
  /\ attempt[x].step = "load" /\ Fault /\ End(x)
  /\ \/ UNCHANGED first
     \/ ~Locked /\ MayCreate /\ \E k \in Keys : Generated(k) /\ first' = k
  /\ UNCHANGED <<renewed, current, service, saved, lost>>

\* The service registers a key, or says what it knows of it; a failed one is tried again.
Accepted(k) ==
  IF service[k] \in {"unknown", "failed"}
  THEN "pending" ELSE service[k]

\* What is done with an answer to the registration: see enroll_key.
Answered(x, s) ==
  [attempt[x] EXCEPT !.answer = s,
     !.step = IF attempt[x].step = "register" /\ attempt[x].replace /\ s = "retired"
              THEN "renew" ELSE "wait"]

\* register_key; an answer may be lost after the service acted.
Register(x) ==
  /\ attempt[x].step \in {"register", "register again"}
  /\ LET k == attempt[x].key IN
     /\ service' = [service EXCEPT ![k] = Accepted(k)]
     /\ \/ Fine /\ Become(x, Answered(x, Accepted(k)))
        \/ Fault /\ End(x)
  /\ UNCHANGED <<files, saved, lost>>

\* Mutant: every confirmed attempt replaces the key it finds.
AlwaysReplaces(x) == TRUE

\* renew: the retired key is still the selected one.
MayReplace(x) == Loaded = attempt[x].key

\* renew up to write_key of a key with a new name.  It loads the key anew, and makes another
\* first one where that was lost: then there is nothing to replace.
Renew(x) ==
  /\ attempt[x].step = "renew" /\ ~Locked
  /\ \/ /\ MayCreate
        /\ \E k \in Keys :
             /\ Generated(k)
             /\ first' = k
             /\ Then(x, [attempt[x] EXCEPT !.step = "register again", !.key = k,
                                           !.file = "first"])
        /\ UNCHANGED renewed
     \/ /\ ~MayCreate /\ Loaded = None
        /\ End(x) /\ UNCHANGED <<first, renewed>>
     \/ /\ Loaded # None /\ MayReplace(x)
        /\ \E k \in Keys :
             /\ Generated(k)
             /\ renewed' = renewed \cup {k}
             /\ Become(x, [attempt[x] EXCEPT !.step = "select", !.key = k, !.file = "renewed"])
        /\ UNCHANGED first
     \/ /\ Loaded # None /\ ~MayReplace(x)
        /\ Then(x, [attempt[x] EXCEPT !.step = "register again", !.key = Loaded,
                                      !.file = FileOf(Loaded)])
        /\ UNCHANGED <<first, renewed>>
  /\ UNCHANGED <<current, service, saved, left, lost>>

\* renew from the selector on.
Select(x) ==
  /\ attempt[x].step = "select" /\ Fine
  /\ current' = attempt[x].key
  /\ Then(x, [attempt[x] EXCEPT !.step = "register again"])
  /\ UNCHANGED <<first, renewed, service, saved, lost>>

\* The lock is not had, or one of the writes fails, before its rename or after it.
RenewFails(x) ==
  /\ Fault /\ End(x)
  /\ \/ /\ attempt[x].step = "renew"
        /\ \/ UNCHANGED <<first, renewed>>
           \/ /\ ~Locked /\ MayCreate
              /\ \E k \in Keys : Generated(k) /\ first' = k
              /\ UNCHANGED renewed
           \/ /\ ~Locked /\ Loaded # None /\ MayReplace(x)
              /\ \E k \in Keys : Generated(k) /\ renewed' = renewed \cup {k}
              /\ UNCHANGED first
        /\ UNCHANGED current
     \/ /\ attempt[x].step = "select"
        /\ current' \in {current, attempt[x].key}
        /\ UNCHANGED <<first, renewed>>
  /\ UNCHANGED <<service, saved, lost>>

\* wait_for_key: one answer is judged, and the next one asked for.
Wait(x) ==
  /\ attempt[x].step = "wait"
  /\ LET t == attempt[x] IN
     CASE t.answer = "applied" ->
            /\ saved' = saved \cup {[file |-> t.file, key |-> t.key]}
            /\ End(x)
       [] t.answer = "pending" ->
            /\ Become(x, [t EXCEPT !.answer = service[t.key]])
            /\ UNCHANGED saved
       [] OTHER -> End(x) /\ UNCHANGED saved
  /\ UNCHANGED <<files, service, left, lost>>

\* The limit of wait_for_key, the end of the session, or a lost answer.
GiveUp(x) ==
  /\ attempt[x].step \in {"register", "register again", "wait"} /\ Fault /\ End(x)
  /\ UNCHANGED <<files, service, saved, lost>>

\* The task of an attempt is aborted: what runs in a blocking thread goes on.
Cancel(x) ==
  /\ attempt[x].step # "idle" /\ ~attempt[x].cancelled /\ Stop
  /\ IF attempt[x].step \in {"load", "renew", "select"}
     THEN Become(x, [attempt[x] EXCEPT !.cancelled = TRUE]) ELSE End(x)
  /\ UNCHANGED <<files, service, saved, lost>>

\* The process of an attempt ends, and its lock with it.
Crash(x) ==
  /\ attempt[x].step # "idle" /\ Stop /\ End(x)
  /\ UNCHANGED <<files, service, saved, lost>>

\* The user confirms, the site applies, and the service retires keys.
Decided(s) ==
  CASE s = "pending" -> {"applied", "failed"}
    [] s = "applied" -> {"retired"}
    [] OTHER -> {}
Decide(k) ==
  /\ \E s \in Decided(service[k]) : service' = [service EXCEPT ![k] = s]
  /\ UNCHANGED <<files, attempt, saved, left, lost>>

\* The file of the first key, or that of a selected renewed one, is lost.
Lose ==
  /\ Fault
  /\ \/ /\ first # None
        /\ first' = None /\ lost' = lost \cup {first}
        /\ UNCHANGED renewed
     \/ /\ current \in renewed
        /\ renewed' = renewed \ {current}
        /\ UNCHANGED <<first, lost>>
  /\ UNCHANGED <<current, service, attempt, saved>>

Next ==
  \/ \E x \in Attempts :
       \/ Enroll(x) \/ Load(x) \/ LoadFails(x) \/ Register(x) \/ Renew(x) \/ Select(x)
       \/ RenewFails(x) \/ Wait(x) \/ GiveUp(x) \/ Cancel(x) \/ Crash(x)
  \/ \E k \in Keys : Decide(k)
  \/ Lose

Spec == Init /\ [][Next]_vars

----------------------------------------------------------------------------
TypeOK ==
  /\ first \in Keys \cup {None}
  /\ renewed \subseteq Keys /\ current \in Keys \cup {None}
  /\ service \in [Keys -> Answers \cup {"unknown"}]
  /\ attempt \in [Attempts ->
       [step : {"idle", "load", "register", "renew", "select", "register again", "wait"},
        key : Keys \cup {None}, file : {"none", "first", "renewed"},
        replace : BOOLEAN, cancelled : BOOLEAN, answer : Answers \cup {"none"}]]
  /\ saved \subseteq [file : {"first", "renewed"}, key : Keys]
  /\ left \in [faults : 0 .. MaxFaults, stops : 0 .. MaxStops]
  /\ lost \subseteq Keys \ {first}

\* lib.rs:416, "Persist the key before registration; retries after restart use the same
\* request ID": whatever fails or stops, the service never has two live keys of this
\* account and site, but for one whose file was lost: nothing here can retire that one.
OneLiveKey ==
  Cardinality({k \in Keys \ lost : service[k] \notin {"unknown", "retired"}}) <= 1

\* lib.rs:436, "replace only a currently confirmed revoked or expired key": the selection
\* leaves a key only once the service has retired it, or its file was lost. (Every step.)
ReplacesRetired ==
  LET was == IF current = None THEN first ELSE current IN
  current' # current => was = None \/ service[was] = "retired"

\* docs/sai-account-setup.md:52, "Older private files and saved connection paths stay
\* intact": the file that a configured connection names keeps the key it was configured
\* with, unless that very file was lost. (Every step.)
PathsKeepTheirKey ==
  \A c \in saved :
    c.file = "first" => c.key \in lost' \/ (first = c.key /\ first' = c.key)
=============================================================================
