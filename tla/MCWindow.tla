----------------------------- MODULE MCWindow ------------------------------
(* What the window does to connections: saving and removing them               *)
(* (ConnectionStore), and the pages, keys, files and mountpoints they come     *)
(* from and go to; parts that share no state with one another, each in a small *)
(* instance.  A behaviour is one of one of them, named by "part"; meanwhile    *)
(* the variables of the others hold Nil, those of ConnectionStore stay.        *)
EXTENDS ConnectionStore, Sequences, TLC

CONSTANTS
  s1, s2, s3,        \* connections of ConnectionStore
  c1, c2,            \* connections, tasks
  Nil,               \* none, in whatever sense
  m1, m2,            \* mounts
  k1, k2             \* keys

\* s1 and s2 exist at the beginning, s3 may be added.
OldOnesAlike == Permutations({s1, s2})

\* The drafts and files of ConnectionImport.
R == INSTANCE ConnectionRules
Host(alias, target) ==
  [R!NoConnection EXCEPT !.name = alias, !.alias = alias, !.target = target,
                         !.source = "ssh_config", !.method = "openssh", !.key = "k1"]
Draft(target, auth, key, place) ==
  [R!NoConnection EXCEPT !.name = "gpu", !.target = target, !.auth = auth, !.key = key,
                         !.place = place]
Hosts == <<Host("gpu", "t2"), Host("web", "t1")>>
Exported == <<[Draft("t1", "key", "k2", "P:") EXCEPT !.name = "web"]>>
Manual == {Draft("t2", "password", R!Unset, R!Auto), Draft("t1", "key", "k1", "P:"),
           Draft("t1", "key", "k2", "P:")}

\* The connections of RemoteUse: a native one, one of OpenSSH, one with a login.
Native == [id |-> "n", method |-> "native", alias |-> "old", imported |-> TRUE,
           complete |-> FALSE, vault |-> TRUE]
Server ==
  [n |-> Native,
   o |-> [Native EXCEPT !.id = "o", !.method = "openssh", !.alias = "gpu",
                        !.complete = TRUE, !.vault = FALSE],
   i |-> [Native EXCEPT !.id = "i", !.method = "interactive", !.alias = "gpu",
                        !.complete = TRUE, !.vault = FALSE]]

\* The lines, drafts and files of ManagedSsh.
HostLine(alias) == [kind |-> "host", arg |-> alias]
Include(what) == [kind |-> "include", arg |-> what]
ByHand(alias, host, managed, copy, key) ==
  [alias |-> alias, host |-> host, managed |-> managed, copy |-> copy, key |-> key]
Outside == <<"outside", 0>>
AsSaved == <<"saved", 0>>
ByHands ==
  {ByHand("gpu", "h1", TRUE, TRUE, Outside), ByHand("gpu", "h2", TRUE, TRUE, AsSaved),
   ByHand("web", "h1", TRUE, FALSE, Nil), ByHand("gpu", "h1", FALSE, FALSE, Nil)}

\* The list of ConnectionList.
Listed(id, tags, login) == [id |-> id, tags |-> tags, login |-> login]

\* What is typed into SettingsPage: a number and what stands after it.
Text(n, rest) == [n |-> n, rest |-> rest]
NoText == Text(Nil, "")
Texts ==
  {NoText, Text(9, ""), Text(4, ""), Text(5, "white space"), Text(5, "G")}

VARIABLES
  part,   \* the part this behaviour is about
  k_host, k_own, k_managed, k_step, k_trust, k_review, k_prompts, k_remaining, k_agreed,
  m_choice, m_record, m_process, m_up, m_foreign, m_task, m_taken, m_remaining,
  i_servers, i_busy, i_editor, i_loading, i_plan, i_actions, i_last, i_left,
  e_saved, e_draft, e_buffer, e_preflight, e_queue, e_timers, e_probe, e_saving, e_record,
  e_seen, e_usable, e_verdict, e_left,
  l_file, l_shown, l_mode, l_original, l_selected, l_asking, l_task, l_saving, l_mounted,
  l_busy, l_login, l_seen, l_left,
  v_disk, v_window, v_draft, v_custom, v_questions, v_work, v_listed, v_agreed, v_edits,
  v_saves, v_faults,
  w_conf, w_work, w_mounted, w_session, w_known, w_left,
  h_saved, h_conf, h_files, h_keys, h_task, h_clean, h_left

hostKeys ==
  <<k_host, k_own, k_managed, k_step, k_trust, k_review, k_prompts, k_remaining, k_agreed>>
mountpointAllocation ==
  <<m_choice, m_record, m_process, m_up, m_foreign, m_task, m_taken, m_remaining>>
connectionImport ==
  <<i_servers, i_busy, i_editor, i_loading, i_plan, i_actions, i_last, i_left>>
connectionEditor ==
  <<e_saved, e_draft, e_buffer, e_preflight, e_queue, e_timers, e_probe, e_saving, e_record,
    e_seen, e_usable, e_verdict, e_left>>
connectionList ==
  <<l_file, l_shown, l_mode, l_original, l_selected, l_asking, l_task, l_saving, l_mounted,
    l_busy, l_login, l_seen, l_left>>
settingsPage ==
  <<v_disk, v_window, v_draft, v_custom, v_questions, v_work, v_listed, v_agreed, v_edits,
    v_saves, v_faults>>
remoteUse ==
  <<w_conf, w_work, w_mounted, w_session, w_known, w_left>>
managedSsh ==
  <<h_saved, h_conf, h_files, h_keys, h_task, h_clean, h_left>>

K == INSTANCE HostKeys WITH
  Mounts <- {m1, m2}, Keys <- {k1, k2}, MaxFaults <- 1, MaxChanges <- 2, host <- k_host,
  own <- k_own, managed <- k_managed, step <- k_step, trust <- k_trust, review <- k_review,
  prompts <- k_prompts, remaining <- k_remaining, agreed <- k_agreed

M == INSTANCE MountpointAllocation WITH
  Servers <- {c1, c2}, Drives <- <<"P:", "Q:">>, Folders <- {"F"}, MaxChanges <- 1,
  MaxLosses <- 1, MaxMounts <- 2, choice <- m_choice, record <- m_record,
  process <- m_process, up <- m_up, foreign <- m_foreign, task <- m_task, taken <- m_taken,
  remaining <- m_remaining

I == INSTANCE ConnectionImport WITH
  MaxSaves <- 3, servers <- i_servers, busy <- i_busy, editor <- i_editor,
  loading <- i_loading, plan <- i_plan, actions <- i_actions, last <- i_last, left <- i_left

E == INSTANCE ConnectionEditor WITH
  Folders <- {"F"}, MaxEdits <- 4, MaxWorld <- 1, saved <- e_saved, draft <- e_draft,
  buffer <- e_buffer, preflight <- e_preflight, queue <- e_queue, timers <- e_timers,
  probe <- e_probe, saving <- e_saving, record <- e_record, seen <- e_seen,
  usable <- e_usable, verdict <- e_verdict, left <- e_left

L == INSTANCE ConnectionList WITH
  Ids <- {c1, c2}, Tags <- {"t", "u", "v"},
  Saved <- <<Listed(c1, {"t", "u", "v"}, TRUE), Listed(c2, {}, FALSE)>>, None <- Nil,
  MaxTags <- 1, MaxSaves <- 2, MaxOthers <- 1, file <- l_file, shown <- l_shown,
  mode <- l_mode, original <- l_original, selected <- l_selected, asking <- l_asking,
  task <- l_task, saving <- l_saving, mounted <- l_mounted, busy <- l_busy,
  login <- l_login, seen <- l_seen, left <- l_left

V == INSTANCE SettingsPage WITH
  Conns <- {c1, c2}, Interactive <- {c2},
  Presets <- [size |-> {NoText, Text(3, "G")}, uploads |-> {Text(2, "")}],
  SavedSize <- Text(3, "Gi"), MaxUploads <- 8, None <- Nil, MaxEdits <- 3, MaxSaves <- 2,
  MaxFaults <- 1, disk <- v_disk, window <- v_window, draft <- v_draft, custom <- v_custom,
  questions <- v_questions, work <- v_work, listed <- v_listed, agreed <- v_agreed,
  edits <- v_edits, saves <- v_saves, faults <- v_faults

W == INSTANCE RemoteUse WITH
  Workers <- {c1, c2}, Targets <- {"n", "o", "i"}, None <- Nil, MaxFaults <- 1,
  MaxCrashes <- 1, MaxTasks <- 3, conf <- w_conf, work <- w_work, mounted <- w_mounted,
  session <- w_session, known <- w_known, left <- w_left

H == INSTANCE ManagedSsh WITH
  Connections <- {c1}, Drafts <- ByHands, FileOf <- [x \in {"gpu", "web"} |-> x], Own <-
  {<<HostLine("mine"), Include("other")>>, <<Include("other"), HostLine("mine"),
  Include("managed")>>}, Other <- <<Include("config"), HostLine("yours")>>, None <- Nil,
  Copies <- 4, MaxSaves <- 3, MaxFaults <- 1, MaxCrashes <- 1, MaxEdits <- 1,
  saved <- h_saved, conf <- h_conf, files <- h_files, keys <- h_keys, task <- h_task,
  clean <- h_clean, left <- h_left


NoHostKeys ==
  /\ k_host = Nil /\ k_own = Nil /\ k_managed = Nil /\ k_step = Nil /\ k_trust = Nil
  /\ k_review = Nil /\ k_prompts = Nil /\ k_remaining = Nil /\ k_agreed = Nil
NoMountpointAllocation ==
  /\ m_choice = Nil /\ m_record = Nil /\ m_process = Nil /\ m_up = Nil /\ m_foreign = Nil
  /\ m_task = Nil /\ m_taken = Nil /\ m_remaining = Nil
NoConnectionImport ==
  /\ i_servers = Nil /\ i_busy = Nil /\ i_editor = Nil /\ i_loading = Nil /\ i_plan = Nil
  /\ i_actions = Nil /\ i_last = Nil /\ i_left = Nil
NoConnectionEditor ==
  /\ e_saved = Nil /\ e_draft = Nil /\ e_buffer = Nil /\ e_preflight = Nil /\ e_queue = Nil
  /\ e_timers = Nil /\ e_probe = Nil /\ e_saving = Nil /\ e_record = Nil /\ e_seen = Nil
  /\ e_usable = Nil /\ e_verdict = Nil /\ e_left = Nil
NoConnectionList ==
  /\ l_file = Nil /\ l_shown = Nil /\ l_mode = Nil /\ l_original = Nil /\ l_selected = Nil
  /\ l_asking = Nil /\ l_task = Nil /\ l_saving = Nil /\ l_mounted = Nil /\ l_busy = Nil
  /\ l_login = Nil /\ l_seen = Nil /\ l_left = Nil
NoSettingsPage ==
  /\ v_disk = Nil /\ v_window = Nil /\ v_draft = Nil /\ v_custom = Nil /\ v_questions = Nil
  /\ v_work = Nil /\ v_listed = Nil /\ v_agreed = Nil /\ v_edits = Nil /\ v_saves = Nil
  /\ v_faults = Nil
NoRemoteUse ==
  /\ w_conf = Nil /\ w_work = Nil /\ w_mounted = Nil /\ w_session = Nil /\ w_known = Nil
  /\ w_left = Nil
NoManagedSsh ==
  /\ h_saved = Nil /\ h_conf = Nil /\ h_files = Nil /\ h_keys = Nil /\ h_task = Nil /\ h_clean = Nil
  /\ h_left = Nil

AllInit ==
  /\ part \in {"store", "keys", "mountpoints", "import", "editor", "list", "settings",
               "remotes", "ssh"}
  /\ Init
  /\ part = "store" \/ (setting = "obscure" /\ \A id \in Existing : file[id].obscured = 0)
  /\ IF part = "keys" THEN K!Init ELSE NoHostKeys
  /\ IF part = "mountpoints" THEN M!Init ELSE NoMountpointAllocation
  /\ IF part = "import" THEN I!Init ELSE NoConnectionImport
  /\ IF part = "editor" THEN E!Init ELSE NoConnectionEditor
  /\ IF part = "list" THEN L!Init ELSE NoConnectionList
  /\ IF part = "settings" THEN V!Init ELSE NoSettingsPage
  /\ IF part = "remotes" THEN W!Init ELSE NoRemoteUse
  /\ IF part = "ssh" THEN H!Init ELSE NoManagedSsh

\* A step of the part this behaviour is about.
Only(name) == part = name /\ UNCHANGED part

AllNext ==
  \/ /\ Only("store")
     /\ UNCHANGED <<hostKeys, mountpointAllocation, connectionImport, connectionEditor,
                   connectionList, settingsPage, remoteUse, managedSsh>>
     /\ Next
  \/ /\ Only("keys")
     /\ UNCHANGED <<vars, mountpointAllocation, connectionImport, connectionEditor,
                   connectionList, settingsPage, remoteUse, managedSsh>>
     /\ K!Next
  \/ /\ Only("mountpoints")
     /\ UNCHANGED <<vars, hostKeys, connectionImport, connectionEditor, connectionList,
                   settingsPage, remoteUse, managedSsh>>
     /\ M!Next
  \/ /\ Only("import")
     /\ UNCHANGED <<vars, hostKeys, mountpointAllocation, connectionEditor, connectionList,
                   settingsPage, remoteUse, managedSsh>>
     /\ I!Next
  \/ /\ Only("editor")
     /\ UNCHANGED <<vars, hostKeys, mountpointAllocation, connectionImport, connectionList,
                   settingsPage, remoteUse, managedSsh>>
     /\ E!Next
  \/ /\ Only("list")
     /\ UNCHANGED <<vars, hostKeys, mountpointAllocation, connectionImport,
                   connectionEditor, settingsPage, remoteUse, managedSsh>>
     /\ L!Next
  \/ /\ Only("settings")
     /\ UNCHANGED <<vars, hostKeys, mountpointAllocation, connectionImport,
                   connectionEditor, connectionList, remoteUse, managedSsh>>
     /\ V!Next
  \/ /\ Only("remotes")
     /\ UNCHANGED <<vars, hostKeys, mountpointAllocation, connectionImport,
                   connectionEditor, connectionList, settingsPage, managedSsh>>
     /\ W!Next
  \/ /\ Only("ssh")
     /\ UNCHANGED <<vars, hostKeys, mountpointAllocation, connectionImport,
                   connectionEditor, connectionList, settingsPage, remoteUse>>
     /\ H!Next

allVars == <<part, vars, hostKeys, mountpointAllocation, connectionImport, connectionEditor,
             connectionList, settingsPage, remoteUse, managedSsh>>

AllSpec == AllInit /\ [][AllNext]_allVars

\* The types of every part.
AllTypeOK ==
  CASE part = "store" -> TypeOK
    [] part = "keys" -> K!TypeOK
    [] part = "mountpoints" -> M!TypeOK
    [] part = "import" -> I!TypeOK
    [] part = "editor" -> E!TypeOK
    [] part = "list" -> L!TypeOK
    [] part = "settings" -> V!TypeOK
    [] part = "remotes" -> W!TypeOK
    [] part = "ssh" -> H!TypeOK

\* HostKeys: only keys somebody agreed to are trusted, and a confirmed one is not lost.
KeysConfirmed ==
  [](part = "keys" => K!OnlyAgreed) /\ [][part = "keys" => K!FirstUseReplacesNothing]_allVars

\* MountpointAllocation: one process at each place, and no refusal while one is free.
OnePlace == part = "mountpoints" => M!OnePlace /\ M!GivesUpRightly

\* ConnectionImport and ConnectionEditor: secrets stay with their account or key,
\* connections stay distinct and busy ones as they are; only probed folders are saved, and
\* mounted rows stay.
DraftsReviewed ==
  /\ [](part = "import" => I!SecretsOfTarget /\ I!Distinct /\ I!BusySpared)
  /\ [][part = "editor" => E!SavedChecked /\ E!MountedRowsKept]_allVars

\* ConnectionList: what is shown is what is saved, what is saved is what was asked for, and
\* the login item follows; nothing mounted is removed.
ListKept ==
  /\ [](part = "list" => L!ShowsTheSaved /\ L!LoginFollows /\ L!NotWhileMounted)
  /\ [][part = "list" => L!WritesAsAsked]_allVars

\* SettingsPage: what is saved is what is shown and is valid, a failure is undone, and
\* the answers that were given are the ones that are used.
SettingsKept ==
  /\ [](part = "settings" => V!SavedAsShown /\ V!OnlyValid /\ V!FailedUndone)
  /\ [][part = "settings" => V!AskedFirst /\ V!FlagsKept /\ V!CustomKeeps]_allVars

\* RemoteUse: secrets leave rclone's configuration, a directory is mounted over its own
\* connection, and what is written is written whole.  ManagedSsh: the application changes
\* its own files and its own line only, and all it manages is found.
FilesWritten ==
  /\ [](part = "remotes" => W!SecretsRemoved /\ W!OwnConnection)
  /\ [][part = "remotes" => W!WrittenWhole]_allVars
  /\ [](part = "ssh" => H!OwnFile /\ H!IncludeFirst /\ H!AllListed)
  /\ [][part = "ssh" => H!UsersKept]_allVars
=============================================================================
