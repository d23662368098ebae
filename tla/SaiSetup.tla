------------------------------ MODULE SaiSetup ------------------------------
(***************************************************************************)
(* The set-up of a connection with a SAI account in the editor:            *)
(* crates/mountmate-app/src/sai_setup.rs, and what App::update and its     *)
(* handlers in crates/mountmate-app/src/main.rs do around it.  What the    *)
(* service answers is chosen by Client and Session of                      *)
(* crates/mountmate-sai; the keys are in SaiKeys.                          *)
(*                                                                         *)
(* A task that is aborted says nothing any more, but an answer it has      *)
(* already given waits in the queue of the window and is delivered.        *)
(***************************************************************************)
EXTENDS Naturals, Sequences, FiniteSets

CONSTANTS
  Sites,       \* the sites an account may use
  HostOf,      \* the host, port and user of each site
  Listing,     \* the pages of directories that each site lists
  PathOf,      \* the path of each directory
  Saved,       \* the mounts of a saved connection
  None,
  MaxRows,     \* bound: mount rows of a connection (64)
  MaxClicks,   \* bound: what the user does
  MaxChanges   \* bound: mounts and unmounts of the connection, and failures

VARIABLES
  draft,    \* what the editor holds, or None
  busy,     \* the saved connection is mounted or has a task
  setup,    \* sai_setup::State
  task,     \* the task of the set-up
  reading,  \* the task that reads directories
  mail,     \* answers that wait to be delivered
  void,     \* ghost: those among them whose set-up or reading was given up
  left      \* clicks and changes that are left

vars == <<draft, busy, setup, task, reading, mail, void, left>>

Roots == DOMAIN PathOf
Hosts == {HostOf[s] : s \in Sites}
Paths == {PathOf[r] : r \in Roots}
PagesOf(s) == Len(Listing[s])
PageOf(s, n) == Listing[s][n]

\* "blank" is a first row without a path and a place: of a new connection it is unused.
NewDraft == [old |-> FALSE, sai |-> TRUE, host |-> None, primary |-> "blank", rows |-> {}]
OldDrafts ==
  {[old |-> TRUE, sai |-> TRUE, host |-> h, primary |-> "off", rows |-> Saved] : h \in Hosts}

Unused(d) == ~d.old /\ d.primary = "blank"
Count(d) == Cardinality(d.rows) + IF d.primary = "off" THEN 0 ELSE 1
PathsIn(d) == d.rows \cup IF d.primary = "off" THEN {} ELSE {d.primary}

\* ConnectionTarget::from_draft and matches
TargetOf(d) == IF d.sai THEN d.host ELSE None
Matches(target, s) == HostOf[s] = target

\* State::default, of one life of the set-up.
Fresh(life) ==
  [life |-> life, session |-> None, login |-> FALSE, selected |-> None, pending |-> FALSE,
   ready |-> FALSE, error |-> "none", verify |-> FALSE, roots |-> {}, ticked |-> {},
   next |-> 1, loaded |-> FALSE, rpending |-> FALSE, rerror |-> "none", request |-> 0,
   existing |-> {}, slots |-> 0, target |-> None]

Init ==
  /\ draft = None /\ busy = FALSE
  /\ setup = Fresh(0)
  /\ task = None /\ reading = None /\ mail = {} /\ void = {}
  /\ left = [clicks |-> MaxClicks, changes |-> MaxChanges]

Click == left.clicks > 0 /\ left' = [left EXCEPT !.clicks = @ - 1]
Change == left.changes > 0 /\ left' = [left EXCEPT !.changes = @ - 1]

DirectoryOnly(u) == u.target # None
InProgress == setup.pending \/ setup.session # None \/ DirectoryOnly(setup)

\* reset: both tasks are aborted, and answers of this life are no longer taken.
NextLife == Fresh(setup.life + 1)
GiveUp == void' = mail \cap mail'
Reset == setup' = NextLife /\ task' = None /\ reading' = None /\ GiveUp

\* Mutant: the directories of one site stay when another is selected.
KeepsRoots(u) == [u EXCEPT !.next = 1, !.loaded = FALSE, !.request = @ + 1]

WithoutRoots(u) ==
  [u EXCEPT !.roots = {}, !.ticked = {}, !.next = 1, !.loaded = FALSE, !.rpending = FALSE,
            !.rerror = "none", !.request = @ + 1]

GiveUpReading == void' = void \cup {m \in mail : m.kind = "roots"}

\* load_roots: the next page of the selected site, if there is one.
CanLoad(u) == u.session # None /\ u.session.offers /\ u.selected # None /\ (u.loaded => u.next # 0)
Load(u) ==
  IF CanLoad(u)
  THEN /\ setup' = [u EXCEPT !.request = @ + 1, !.rpending = TRUE, !.rerror = "none"]
       /\ reading' = [life |-> u.life, request |-> u.request + 1, site |-> u.selected,
                      page |-> u.next, may |-> "mounts" \in u.session.scopes]
  ELSE setup' = u /\ reading' = IF u.rpending THEN reading ELSE None

\* Mutant: any site of the account is offered for a saved connection.
AnySite(u) == Sites

\* available_connections
Available(u) == {s \in Sites : u.target = None \/ Matches(u.target, s)}
SelectionReady(u) == u.ticked = {} \/ (~u.rpending /\ u.rerror = "none")

\* additional_selections
Additional(u) == Cardinality({PathOf[r] : r \in u.ticked} \ u.existing)

\* Mutant: whoever picks directories may also enrol.
Everything(kind) == TRUE

\* allows_while_mounted
AllowedWhileBusy(kind) ==
  \/ kind = "choose directories"
  \/ DirectoryOnly(setup) /\ kind \notin {"start", "enroll", "finished"}

\* App::update, before the message: the editor is open on a SAI connection, and a mounted
\* connection takes only what the directory picker may do.
Taken(kind) ==
  /\ draft # None /\ draft.sai
  /\ (draft.old /\ busy) => AllowedWhileBusy(kind)

----------------------------------------------------------------------------
\* Edit, AddConnection
Open ==
  /\ draft = None /\ Click
  /\ draft' \in {NewDraft} \cup OldDrafts
  /\ UNCHANGED <<busy, mail>>
  /\ Reset

\* CancelEditor, or the editor is left after a save, which waits for the set-up.
Leave ==
  /\ draft # None /\ Click
  /\ draft' = None
  /\ UNCHANGED <<busy, mail>>
  /\ Reset

\* ConnectionSourceChanged
ChangeSource ==
  /\ draft # None /\ ~(draft.old /\ busy) /\ Click
  /\ draft' = [draft EXCEPT !.sai = ~@]
  /\ UNCHANGED <<busy, mail>>
  /\ Reset

\* The other fields and rows of the editor, while no set-up is under way.
Edit ==
  /\ draft # None /\ ~InProgress /\ Click
  /\ \/ ~(draft.old /\ busy) /\ \E h \in Hosts : draft' = [draft EXCEPT !.host = h]
     \/ /\ Count(draft) < MaxRows
        /\ \E p \in Paths \ PathsIn(draft) : draft' = [draft EXCEPT !.rows = @ \cup {p}]
  /\ UNCHANGED <<busy, setup, task, reading, mail, void>>

\* Start, ChooseDirectories and Restart: the rows and the room of the draft are noted.
Begin(kind) ==
  /\ Taken(kind) /\ ~setup.pending /\ Click
  /\ kind = "choose directories" => TargetOf(draft) # None
  /\ setup' = [NextLife EXCEPT
       !.pending = TRUE,
       !.target = CASE kind = "choose directories" -> TargetOf(draft)
                    [] kind = "restart" -> setup.target
                    [] OTHER -> None,
       !.existing = PathsIn(draft),
       !.slots = (MaxRows - Count(draft)) + IF Unused(draft) THEN 1 ELSE 0]
  /\ task' = [kind |-> "login", life |-> setup.life + 1, site |-> None, session |-> None]
  /\ reading' = None
  /\ UNCHANGED <<draft, busy, mail>>
  /\ GiveUp

Cancel ==
  /\ Taken("cancel") /\ Click
  /\ UNCHANGED <<draft, busy, mail>>
  /\ Reset

Select(s) ==
  /\ Taken("select") /\ ~setup.pending /\ setup.session # None /\ Click
  /\ s \in Available(setup)
  /\ Load([WithoutRoots(setup) EXCEPT !.selected = s, !.error = "none"])
  /\ GiveUpReading
  /\ UNCHANGED <<draft, busy, task, mail>>

\* LoadMountRoots, RestartMountRoots
Read ==
  /\ Taken("read") /\ ~setup.pending /\ ~setup.rpending /\ Click
  /\ \/ CanLoad(setup) /\ Load(setup)
     \/ setup.loaded /\ Load(WithoutRoots(setup))
  /\ GiveUpReading
  /\ UNCHANGED <<draft, busy, task, mail>>

\* Mutant: the room is not looked at.
AnyRoom(u, r) == TRUE

HasRoom(u, r) == PathOf[r] \in u.existing \/ Additional(u) < u.slots

\* ToggleMountRoot
Toggle(r) ==
  /\ Taken("toggle") /\ ~setup.pending /\ Click
  /\ \/ r \in setup.ticked /\ setup' = [setup EXCEPT !.ticked = @ \ {r}]
     \/ /\ r \in setup.roots \ setup.ticked
        /\ setup.rerror # "changed" /\ HasRoom(setup, r)
        /\ setup' = [setup EXCEPT !.ticked = @ \cup {r}]
  /\ UNCHANGED <<draft, busy, task, reading, mail, void>>

\* apply_selected_roots: paths that are there already are passed over, and an unused first
\* row takes one of the others.
WithRoots(d, ticked) ==
  LET new == {PathOf[r] : r \in ticked} \ PathsIn(d) IN
  IF Unused(d) /\ new # {}
  THEN {[d EXCEPT !.primary = p, !.rows = @ \cup (new \ {p})] : p \in new}
  ELSE {[d EXCEPT !.rows = @ \cup new]}

\* UseDirectories, then DirectorySelection::apply_to: only for the host they were asked for.
UseDirectories ==
  /\ Taken("use") /\ DirectoryOnly(setup) /\ setup.session # None /\ ~setup.pending
  /\ SelectionReady(setup) /\ setup.selected # None /\ Click
  /\ IF TargetOf(draft) = setup.target
     THEN draft' \in WithRoots(draft, setup.ticked)
     ELSE UNCHANGED draft
  /\ UNCHANGED <<busy, mail>>
  /\ Reset

\* Enroll, Reauthorize: a life of its own, and the directories are no longer read.
Enroll ==
  /\ Taken("enroll") /\ ~setup.pending /\ ~DirectoryOnly(setup) /\ SelectionReady(setup)
  /\ setup.session # None /\ setup.selected # None /\ Click
  /\ setup' = [setup EXCEPT !.life = @ + 1, !.request = @ + 1, !.rpending = FALSE,
                            !.pending = TRUE, !.error = "none", !.verify = FALSE]
  /\ task' = [kind |-> "enroll", life |-> setup.life + 1, site |-> setup.selected,
              session |-> setup.session]
  /\ reading' = None
  /\ UNCHANGED <<draft, busy, mail>>
  /\ GiveUp

----------------------------------------------------------------------------
Send(m) == mail' = mail \cup {m}
Message(result, session) ==
  [kind |-> task.kind, life |-> task.life, site |-> task.site, result |-> result,
   session |-> session]
Fails == Change /\ \E e \in {"failed", "expired"} : Send(Message(e, None))

\* start_authorization: what a login must grant, and what it asks for besides.
Required == IF DirectoryOnly(setup) THEN {"read", "mounts"} ELSE {"read", "keys"}
Requested(offers) == Required \cup IF offers THEN {"mounts"} ELSE {}

\* Client::discover, start_login and start_directory_login: directories are listed only by
\* a service that offers them.
LogIn(offers) ==
  /\ task.kind = "login"
  /\ IF DirectoryOnly(setup) /\ ~offers
     THEN Send(Message("failed", None))
     ELSE Send(Message("ok", [offers |-> offers, scopes |-> {}]))

\* finish_login: the directories may be refused when they were not all that was asked for.
Authorize ==
  /\ task.kind = "authorize"
  /\ \E scopes \in {Required, Requested(task.session.offers)} :
       /\ Send(Message("ok", [task.session EXCEPT !.scopes = scopes]))
       /\ IF scopes = Requested(task.session.offers) THEN UNCHANGED left ELSE Change

\* enroll_with_progress, reauthorize_with_progress: see SaiKeys.
EnrollKey ==
  /\ task.kind = "enroll" /\ UNCHANGED left
  /\ Send(Message(IF "keys" \in task.session.scopes THEN "ok" ELSE "failed", None))

\* The task ends; Required is that of the set-up whose task it is.
Answer ==
  /\ task # None
  /\ \/ LogIn(TRUE) /\ UNCHANGED left
     \/ LogIn(FALSE) /\ Change
     \/ Authorize \/ EnrollKey \/ Fails
  /\ task' = None
  /\ UNCHANGED <<draft, busy, setup, reading, void>>

\* Session::mount_roots
Listed ==
  /\ reading # None
  /\ \/ UNCHANGED left /\ reading.may
        /\ Send([kind |-> "roots", life |-> reading.life, request |-> reading.request,
                 items |-> PageOf(reading.site, reading.page), result |-> "ok",
                 more |-> IF reading.page < PagesOf(reading.site) THEN reading.page + 1 ELSE 0])
     \/ /\ IF reading.may THEN Change ELSE UNCHANGED left
        /\ \E e \in {"failed"} \cup IF reading.may THEN {"changed"} ELSE {} :
             Send([kind |-> "roots", life |-> reading.life, request |-> reading.request,
                   items |-> {}, result |-> e, more |-> 0])
  /\ reading' = None
  /\ UNCHANGED <<draft, busy, setup, task, void>>

\* Mutant: an answer is taken whenever one is waited for.
Waits(m) == setup.pending

\* The generation of an answer is that of the set-up.
OfThisLife(m) == m.life = setup.life

Ignore == UNCHANGED <<draft, setup, task, reading>>

\* LoginStarted, whose task goes on to wait for the authorization, and Authorized.
LoginAnswered(m) ==
  /\ m.kind \in {"login", "authorize"}
  /\ UNCHANGED draft
  /\ IF m.result # "ok"
     THEN /\ setup' = [setup EXCEPT !.pending = FALSE, !.login = FALSE, !.error = m.result]
          /\ UNCHANGED <<task, reading>>
     ELSE IF m.kind = "login"
     THEN /\ setup' = [setup EXCEPT !.login = TRUE]
          /\ task' = [kind |-> "authorize", life |-> setup.life, site |-> None,
                      session |-> m.session]
          /\ UNCHANGED reading
     ELSE /\ \E s \in Available(setup) \cup {None} :
               /\ (s # None) <=> (Available(setup) # {} /\
                    (DirectoryOnly(setup) => Cardinality(Available(setup)) = 1))
               /\ Load([setup EXCEPT !.pending = FALSE, !.login = FALSE, !.session = m.session,
                                     !.selected = s])
          /\ UNCHANGED task

\* Finished, then ConfiguredConnection::apply_to.
Finished(m) ==
  /\ m.kind = "enroll"
  /\ IF m.result = "ok"
     THEN /\ draft' \in WithRoots([draft EXCEPT !.host = HostOf[m.site]], setup.ticked)
          /\ setup' = [NextLife EXCEPT !.ready = TRUE] /\ task' = None /\ reading' = None
     ELSE /\ setup' = IF m.result = "expired"
                      THEN [NextLife EXCEPT !.error = m.result]
                      ELSE [setup EXCEPT !.pending = FALSE, !.verify = FALSE, !.error = m.result]
          /\ UNCHANGED <<draft, task, reading>>

\* MountRootsLoaded
RootsAnswered(m) ==
  /\ m.kind = "roots"
  /\ setup' =
       IF m.result = "changed"
       THEN [WithoutRoots(setup) EXCEPT !.rerror = "changed"]
       ELSE IF m.result = "ok" /\ m.items \cap setup.roots = {}
       THEN [setup EXCEPT !.rpending = FALSE, !.roots = @ \cup m.items, !.next = m.more,
                          !.loaded = TRUE]
       ELSE [setup EXCEPT !.rpending = FALSE, !.rerror = "failed"]
  /\ UNCHANGED <<draft, task, reading>>

\* The request is the one that is waited for.
OfThisRequest(m) == m.request = setup.request /\ setup.rpending

Kind(m) == IF m.kind = "enroll" THEN "finished" ELSE m.kind
Accepted(m) ==
  /\ Taken(Kind(m)) /\ OfThisLife(m)
  /\ m.kind = "roots" => OfThisRequest(m)
  /\ m.kind = "enroll" => ~DirectoryOnly(setup)

Deliver ==
  \E m \in mail :
    /\ mail' = mail \ {m}
    /\ IF Accepted(m)
       THEN LoginAnswered(m) \/ Finished(m) \/ RootsAnswered(m)
       ELSE Ignore
    /\ void' = void \cap mail'
    /\ UNCHANGED <<busy, left>>

\* EnrollmentProgress: the user has to confirm the key, or has.
Progress ==
  /\ task # None /\ task.kind = "enroll" /\ Taken("progress")
  /\ task.life = setup.life /\ setup.pending /\ Change
  /\ setup' = [setup EXCEPT !.verify = ~@]
  /\ UNCHANGED <<draft, busy, task, reading, mail, void>>

\* The connection is mounted or unmounted by somebody else; the set-up of an account ends.
Mount ==
  /\ Change /\ busy' = ~busy /\ UNCHANGED <<draft, mail>>
  /\ IF busy' /\ draft # None /\ draft.old /\ ~DirectoryOnly(setup)
     THEN Reset ELSE UNCHANGED <<setup, task, reading, void>>

Next ==
  \/ Open \/ Leave \/ ChangeSource \/ Edit \/ Cancel \/ Read \/ UseDirectories \/ Enroll
  \/ \E kind \in {"start", "choose directories", "restart"} : Begin(kind)
  \/ \E s \in Sites : Select(s)
  \/ \E r \in Roots : Toggle(r)
  \/ Answer \/ Listed \/ Deliver \/ Progress \/ Mount

Spec == Init /\ [][Next]_vars
----------------------------------------------------------------------------
TypeOK ==
  /\ draft = None \/ draft \in
       [old : BOOLEAN, sai : BOOLEAN, host : Hosts \cup {None},
        primary : Paths \cup {"off", "blank"}, rows : SUBSET Paths]
  /\ busy \in BOOLEAN
  /\ setup.selected \in Sites \cup {None} /\ setup.target \in Hosts \cup {None}
  /\ setup.ticked \subseteq Roots /\ setup.roots \subseteq Roots /\ setup.slots \in 0 .. MaxRows + 1
  /\ void \subseteq mail
  /\ left \in [clicks : 0 .. MaxClicks, changes : 0 .. MaxChanges]

\* What the user left, cancelled or began anew is over (reset, and the guards of
\* sai_setup.rs:379-573): an answer of it that is still delivered changes nothing.
\* (Every step.)
GivenUpIsOver ==
  \A m \in void : m \notin mail' => UNCHANGED <<draft, setup>>

\* Only directories that the selected site listed can be ticked and added, so that none of
\* one site becomes a mount of another.
TickedAreListed ==
  /\ setup.ticked \subseteq setup.roots
  /\ setup.roots # {} => setup.selected # None /\
       setup.roots \subseteq UNION {PageOf(setup.selected, n) : n \in 1 .. PagesOf(setup.selected)}

\* A connection has at most MaxRows mounts whichever way they are added (main.rs:3389,
\* connection.rs:1116): one with more could not be saved.
RoomKept == draft # None => Count(draft) <= MaxRows

\* docs/sai-account-setup.md:20, "authorized SSH host, port and Unix username must match":
\* while a set-up is under way it alone changes the draft, to the host of the site that
\* the directories were taken from. (Every step.)
SiteOfDirectories ==
  (draft # None /\ draft' \notin {None, draft} /\ draft'.sai = draft.sai /\ InProgress) =>
    setup.selected # None /\ draft'.host = HostOf[setup.selected]

\* docs/sai-account-setup.md:22, "Only selected directory mappings are appended": the
\* account and the mounts of a mounted connection stay as they are. (Every step.)
MountedStays ==
  (draft # None /\ draft.old /\ busy /\ draft' # None) =>
    /\ draft'.host = draft.host /\ draft'.primary = draft.primary
    /\ draft.rows \subseteq draft'.rows
=============================================================================
