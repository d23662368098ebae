--------------------------- MODULE MCComponents ----------------------------
(* Mounts as the window drives them (MountOperations), and what surrounds      *)
(* them: start-up, programs, updates, accounts, figures and windows; parts     *)
(* that share no state with one another, each in a small instance.  A          *)
(* behaviour is one of one of them, named by "part"; meanwhile the variables   *)
(* of the others hold Nil, those of MountOperations stay.                      *)
EXTENDS MountOperations, Sequences, TLC

CONSTANTS
  t1,                \* mount of MountOperations
  c1, c2,            \* connections, processes, tasks
  Missing, Damaged,  \* files that are not there, or cannot be read
  f1, f2,            \* files
  Nil,               \* none, in whatever sense
  m1, m2,            \* mounts
  k1, k2, k3         \* keys

\* The parts that ComponentsProofs is about take any values.
CONSTANTS
  Servers, Interactive, VaultRefs,   \* of StartUp
  Order,                             \* of ProfileMigration
  Procs, Digests, Embedded, Elsewhere,  \* of RcloneBinary
  Ids,                               \* of MountComponent
  MaxFaults, MaxStops, MaxChanges    \* bounds of all four

ASSUME MountOperationsAssumption

\* The files that are moved, for TLC.
SettingsFirst == <<f1, f2>>

\* Every target is a connection of its own.
Separate == [t \in Targets |-> t]

\* The executable before and after an update, with what has a meaning in some syntax;
\* "tick" is the backquote.
Paths == {<<"\\", "\"", "%">>, <<"'", "$", "\n", "tick", " ">>}

\* What Capacity finds.
Measured(total, used, free) == [total |-> total, used |-> used, free |-> free]
Total(used, soft, hard) == [used |-> used, soft |-> soft, hard |-> hard]

\* The archives of UpdatePayload: whole ones, with and without a directory around them;
\* with names that differ in case; with two candidates or none; too large, or larger than
\* they say; with a link, a name that leads outside or a marker of their own.
Entry(path, kind, data, size) ==
  [path |-> path, safe |-> TRUE, kind |-> kind, size |-> size, data |-> data]
SizeOf == [v1 |-> 1, v2 |-> 1, long |-> 3, bad |-> 1]
Plain(path, data) == Entry(path, "file", data, SizeOf[data])
Program == <<Plain(<<"app", "exe">>, "v1"), Plain(<<"app", "res">>, "v2")>>
Archives ==
  {<<Entry(<<"app">>, "dir", Nil, 0)>> \o Program \o <<Plain(<<"note">>, "v1")>>,
   Program \o <<Plain(<<"app", "sub", "exe">>, "v1"), Plain(<<"app", "sub", "marker">>, "v1"),
                 Plain(<<"app", "sub", "res">>, "v1")>>,
   Program \o <<Plain(<<"APP", "exe">>, "v1"), Plain(<<"APP", "res">>, "v1")>>,
   <<Plain(<<"app", "exe">>, "v1"), Plain(<<"APP", "exe">>, "v2")>>,
   <<Plain(<<"exe">>, "v1"), Plain(<<"sub", "exe">>, "v2")>>,
   <<Plain(<<"exe">>, "v1"), Plain(<<"marker">>, "v1"), Plain(<<"res">>, "v1"),
     Plain(<<"sub", "note">>, "long")>>,
   <<Plain(<<"exe">>, "v1"), Plain(<<"marker">>, "v1"), Plain(<<"res">>, "bad")>>,
   <<Plain(<<"exe">>, "long"), [Plain(<<"note">>, "v1") EXCEPT !.safe = FALSE]>>,
   <<Plain(<<"exe">>, "long")>>,
   <<Entry(<<"exe">>, "file", "long", 1)>>,
   <<Entry(<<"exe">>, "link", Nil, 0)>>,
   <<Plain(<<"exe">>, "long"), Plain(<<"note">>, "long"), Plain(<<"res">>, "long")>>}
Lower == [n \in {"app", "exe", "res", "marker", "note", "sub"} |-> n] @@ ("APP" :> "app")
Where(entry, system, temporary, application, marker) ==
  [entry |-> entry, os |-> system, temporary |-> temporary, application |-> application,
   marker |-> marker]
Installations ==
  {Where(e, s, FALSE, x, m) : e \in {"file", "link"}, s \in {"macos", "linux"},
                              x \in {"no", "whole", "malformed"}, m \in {"none", "complete"}}
    \cup {Where("file", "windows", TRUE, "no", "none")}

\* The arguments of CommandLine: one of each class.
Words ==
  {"--help", "--refresh-id", "--relative-dir", "--show-main", "--run-update-helper",
   "--update-helper-token", "--update-health-marker", "--update-health-token",
   "--run-ssh-connector", "-psn_1", "", "x", "y"}

\* The mountpoints of StatusLine, and names as Windows compares them.
Nested == m1 :> <<"r">> @@ m2 :> <<"r", "s">>
Earlier == m1 :> [port |-> 1, number |-> 0] @@ m2 :> Nil
Lowered == [r |-> "r", R |-> "r", s |-> "s", a |-> "a"] @@ ("." :> ".")


VARIABLES
  part,   \* the part this behaviour is about
  s_file, s_backups, s_marks, s_item, s_at, s_mem, s_report, s_tasks, s_seen, s_old, s_left,
  s_wanted, s_missed, s_originals,
  p_there, p_here, p_phase, p_moved, p_mutex, p_mounted, p_root, p_budget,
  d_current, d_releases, d_login, d_pending, d_check, d_info, d_download, d_prepared,
  d_dialogs, d_staged, d_launched, d_budget,
  n_rclone, n_app, n_due, n_hidden, n_left,
  t_queue, t_sending, t_answer, t_history, t_shown, t_burst, t_left,
  c_world, c_app, c_owed, c_left,
  b_bundle, b_managed, b_lock, b_proc, b_left,
  u_archive, u_installation, u_pc, u_tree, u_at, u_payload, u_prepared, u_opened, u_totals,
  u_result, u_changed, u_left,
  g_embedded, g_component, g_msi, g_lock, g_held, g_task, g_window, g_checks, g_upsets,
  f_os, f_exe, f_entries, f_staged, f_backup, f_left, f_lock, f_task, f_runs, f_ops,
  f_faults,
  x_words, x_wants, x_action, x_verdict, x_ended, x_told,
  a_draft, a_busy, a_setup, a_task, a_reading, a_mail, a_void, a_left,
  y_first, y_renewed, y_current, y_service, y_attempt, y_saved, y_left, y_lost,
  q_line, q_gen, q_notice, q_tasks, q_files, q_procs, q_spent,
  o_app, o_win, o_reads, o_running, o_wanted, o_asks

startUp ==
  <<s_file, s_backups, s_marks, s_item, s_at, s_mem, s_report, s_tasks, s_seen, s_old,
    s_left, s_wanted, s_missed, s_originals>>
profileMigration ==
  <<p_there, p_here, p_phase, p_moved, p_mutex, p_mounted, p_root, p_budget>>
updateDiscovery ==
  <<d_current, d_releases, d_login, d_pending, d_check, d_info, d_download, d_prepared,
    d_dialogs, d_staged, d_launched, d_budget>>
transferNotices ==
  <<n_rclone, n_app, n_due, n_hidden, n_left>>
transferProgress ==
  <<t_queue, t_sending, t_answer, t_history, t_shown, t_burst, t_left>>
capacity ==
  <<c_world, c_app, c_owed, c_left>>
rcloneBinary ==
  <<b_bundle, b_managed, b_lock, b_proc, b_left>>
updatePayload ==
  <<u_archive, u_installation, u_pc, u_tree, u_at, u_payload, u_prepared, u_opened,
    u_totals, u_result, u_changed, u_left>>
mountComponent ==
  <<g_embedded, g_component, g_msi, g_lock, g_held, g_task, g_window, g_checks, g_upsets>>
desktopEntries ==
  <<f_os, f_exe, f_entries, f_staged, f_backup, f_left, f_lock, f_task, f_runs, f_ops,
    f_faults>>
commandLine ==
  <<x_words, x_wants, x_action, x_verdict, x_ended, x_told>>
saiSetup ==
  <<a_draft, a_busy, a_setup, a_task, a_reading, a_mail, a_void, a_left>>
saiKeys ==
  <<y_first, y_renewed, y_current, y_service, y_attempt, y_saved, y_left, y_lost>>
statusLine ==
  <<q_line, q_gen, q_notice, q_tasks, q_files, q_procs, q_spent>>
appWindows ==
  <<o_app, o_win, o_reads, o_running, o_wanted, o_asks>>

S == INSTANCE StartUpProofs WITH
  Gone <- Missing, MaxCrashes <- MaxStops, MaxSaves <- MaxChanges, file <- s_file,
  backups <- s_backups, marks <- s_marks, item <- s_item, at <- s_at, mem <- s_mem,
  report <- s_report, tasks <- s_tasks, seen <- s_seen, old <- s_old, left <- s_left,
  wanted <- s_wanted, missed <- s_missed, originals <- s_originals

P == INSTANCE ProfileMigration WITH
  Settings <- f1, Nothing <- Nil, MaxEdits <- MaxChanges, there <- p_there, here <- p_here,
  phase <- p_phase, moved <- p_moved, mutex <- p_mutex, mounted <- p_mounted,
  root <- p_root, budget <- p_budget

D == INSTANCE UpdateDiscovery WITH
  Versions <- 1 .. 3, Pre <- {2}, Installed <- {1, 2}, MaxFaults <- 1, MaxEdits <- 1,
  MaxChecks <- 2, current <- d_current, releases <- d_releases, login <- d_login,
  pending <- d_pending, check <- d_check, info <- d_info, download <- d_download,
  prepared <- d_prepared, dialogs <- d_dialogs, staged <- d_staged, launched <- d_launched,
  budget <- d_budget

N == INSTANCE TransferNotices WITH
  Mounts <- {m1}, AutoShow <- TRUE, MaxWrites <- 2, MaxFaults <- 1, MaxChanges <- 3,
  MaxClosings <- 1, rclone <- n_rclone, app <- n_app, due <- n_due, hidden <- n_hidden,
  left <- n_left

T == INSTANCE TransferProgress WITH
  Files <- {f1, f2}, Size <- [x \in {f1, f2} |-> 1], MaxWrites <- 2, MaxRetries <- 1,
  queue <- t_queue, sending <- t_sending, answer <- t_answer, history <- t_history,
  shown <- t_shown, burst <- t_burst, left <- t_left

C == INSTANCE Capacity WITH
  Mounts <- {m1}, Native <- {m1}, Patched <- {m1}, Shell <- {m1}, Disks <- {Measured(6, 3,
  2), Measured(2, 3, 3), Measured(Nil, 2, 1), Measured(0, Nil, Nil)},
  Quotas <- {Nil, Total(3, 1, 2), Total(1, 3, 2), Total(1, 0, 0)}, Top <- 7, Kib <- 2,
  None <- Nil, MaxFaults <- 1, MaxChanges <- 3, MaxTicks <- 1, world <- c_world,
  app <- c_app, owed <- c_owed, left <- c_left

B == INSTANCE RcloneBinary WITH
  Nothing <- Nil, MaxCrashes <- MaxStops, MaxDamages <- MaxChanges,
  MaxUpdates <- MaxChanges, bundle <- b_bundle, managed <- b_managed, lock <- b_lock,
  proc <- b_proc, left <- b_left

U == INSTANCE UpdatePayload WITH
  None <- Nil, MaxEntries <- 7, MaxBytes <- 7, MaxFaults <- 1, MaxChanges <- 1,
  archive <- u_archive, installation <- u_installation, pc <- u_pc, tree <- u_tree,
  at <- u_at, payload <- u_payload, prepared <- u_prepared, opened <- u_opened,
  totals <- u_totals, result <- u_result, changed <- u_changed, left <- u_left

G == INSTANCE MountComponent WITH
  None <- Nil, MaxChecks <- MaxChanges, MaxUpsets <- MaxStops, embedded <- g_embedded,
  component <- g_component, msi <- g_msi, lock <- g_lock, held <- g_held, task <- g_task,
  window <- g_window, checks <- g_checks, upsets <- g_upsets

F == INSTANCE DesktopEntries WITH
  Executables <- Paths, Nothing <- Nil, MaxRuns <- 2, MaxOps <- 2, MaxFaults <- 1,
  os <- f_os, exe <- f_exe, entries <- f_entries, staged <- f_staged, backup <- f_backup,
  left <- f_left, lock <- f_lock, task <- f_task, runs <- f_runs, ops <- f_ops,
  faults <- f_faults

X == INSTANCE CommandLine WITH
  Values <- {"x", "y"}, Empty <- "", Serial <- "-psn_1", None <- Nil, MaxWords <- 6,
  MaxRest <- 1, words <- x_words, wants <- x_wants, action <- x_action,
  verdict <- x_verdict, ended <- x_ended, told <- x_told

A == INSTANCE SaiSetup WITH
  Sites <- {"s1", "s2"}, HostOf <- [s1 |-> "h1", s2 |-> "h2"],
  Listing <- [s1 |-> <<{"r1", "r2"}, {"r3"}>>, s2 |-> <<{"r1"}>>],
  PathOf <- [r1 |-> "q", r2 |-> "z", r3 |-> "p"], Saved <- {"p"}, None <- Nil, MaxRows <- 2,
  MaxClicks <- 5, MaxChanges <- 1, draft <- a_draft, busy <- a_busy, setup <- a_setup,
  task <- a_task, reading <- a_reading, mail <- a_mail, void <- a_void, left <- a_left

Y == INSTANCE SaiKeys WITH
  Attempts <- {c1, c2}, Keys <- {k1, k2, k3}, None <- Nil, MaxFaults <- 1, MaxStops <- 1,
  first <- y_first, renewed <- y_renewed, current <- y_current, service <- y_service,
  attempt <- y_attempt, saved <- y_saved, left <- y_left, lost <- y_lost

Q == INSTANCE StatusLine WITH
  Mounts <- <<m1, m2>>, RootOf <- Nested, Paths <- {<<"R", ".", "s", "a">>},
  Lower <- Lowered, Ports <- {1}, Before <- Earlier, Notice <- TRUE, None <- Nil,
  MaxAsks <- 2, MaxChanges <- 2, MaxUpsets <- 1, line <- q_line, gen <- q_gen,
  notice <- q_notice, tasks <- q_tasks, files <- q_files, procs <- q_procs, spent <- q_spent

O == INSTANCE AppWindows WITH
  Ids <- 1 .. 5, Logins <- {c1}, Mounts <- {m1, m2}, None <- Nil, MaxAsks <- 3,
  app <- o_app, win <- o_win, reads <- o_reads, running <- o_running, wanted <- o_wanted,
  asks <- o_asks


NoStartUp ==
  /\ s_file = Nil /\ s_backups = Nil /\ s_marks = Nil /\ s_item = Nil /\ s_at = Nil /\ s_mem = Nil
  /\ s_report = Nil /\ s_tasks = Nil /\ s_seen = Nil /\ s_old = Nil /\ s_left = Nil /\ s_wanted = Nil
  /\ s_missed = Nil /\ s_originals = Nil
NoProfileMigration ==
  /\ p_there = Nil /\ p_here = Nil /\ p_phase = Nil /\ p_moved = Nil /\ p_mutex = Nil
  /\ p_mounted = Nil /\ p_root = Nil /\ p_budget = Nil
NoUpdateDiscovery ==
  /\ d_current = Nil /\ d_releases = Nil /\ d_login = Nil /\ d_pending = Nil /\ d_check = Nil
  /\ d_info = Nil /\ d_download = Nil /\ d_prepared = Nil /\ d_dialogs = Nil /\ d_staged = Nil
  /\ d_launched = Nil /\ d_budget = Nil
NoTransferNotices ==
  /\ n_rclone = Nil /\ n_app = Nil /\ n_due = Nil /\ n_hidden = Nil /\ n_left = Nil
NoTransferProgress ==
  /\ t_queue = Nil /\ t_sending = Nil /\ t_answer = Nil /\ t_history = Nil /\ t_shown = Nil
  /\ t_burst = Nil /\ t_left = Nil
NoCapacity ==
  /\ c_world = Nil /\ c_app = Nil /\ c_owed = Nil /\ c_left = Nil
NoRcloneBinary ==
  /\ b_bundle = Nil /\ b_managed = Nil /\ b_lock = Nil /\ b_proc = Nil /\ b_left = Nil
NoUpdatePayload ==
  /\ u_archive = Nil /\ u_installation = Nil /\ u_pc = Nil /\ u_tree = Nil /\ u_at = Nil
  /\ u_payload = Nil /\ u_prepared = Nil /\ u_opened = Nil /\ u_totals = Nil /\ u_result = Nil
  /\ u_changed = Nil /\ u_left = Nil
NoMountComponent ==
  /\ g_embedded = Nil /\ g_component = Nil /\ g_msi = Nil /\ g_lock = Nil /\ g_held = Nil
  /\ g_task = Nil /\ g_window = Nil /\ g_checks = Nil /\ g_upsets = Nil
NoDesktopEntries ==
  /\ f_os = Nil /\ f_exe = Nil /\ f_entries = Nil /\ f_staged = Nil /\ f_backup = Nil /\ f_left = Nil
  /\ f_lock = Nil /\ f_task = Nil /\ f_runs = Nil /\ f_ops = Nil /\ f_faults = Nil
NoCommandLine ==
  /\ x_words = Nil /\ x_wants = Nil /\ x_action = Nil /\ x_verdict = Nil /\ x_ended = Nil
  /\ x_told = Nil
NoSaiSetup ==
  /\ a_draft = Nil /\ a_busy = Nil /\ a_setup = Nil /\ a_task = Nil /\ a_reading = Nil
  /\ a_mail = Nil /\ a_void = Nil /\ a_left = Nil
NoSaiKeys ==
  /\ y_first = Nil /\ y_renewed = Nil /\ y_current = Nil /\ y_service = Nil /\ y_attempt = Nil
  /\ y_saved = Nil /\ y_left = Nil /\ y_lost = Nil
NoStatusLine ==
  /\ q_line = Nil /\ q_gen = Nil /\ q_notice = Nil /\ q_tasks = Nil /\ q_files = Nil /\ q_procs = Nil
  /\ q_spent = Nil
NoAppWindows ==
  /\ o_app = Nil /\ o_win = Nil /\ o_reads = Nil /\ o_running = Nil /\ o_wanted = Nil /\ o_asks = Nil

AllInit ==
  /\ part \in {"mounts", "start", "profile", "discovery", "notices", "progress", "capacity",
               "rclone", "payload", "component", "desktop", "arguments", "account",
               "enrolment", "line", "windows"}
  /\ Init
  /\ part = "mounts" \/ alive = {}
  /\ IF part = "start" THEN S!Init ELSE NoStartUp
  /\ IF part = "profile" THEN P!Init ELSE NoProfileMigration
  /\ IF part = "discovery" THEN D!Init ELSE NoUpdateDiscovery
  /\ IF part = "notices" THEN N!Init ELSE NoTransferNotices
  /\ IF part = "progress" THEN T!Init ELSE NoTransferProgress
  /\ IF part = "capacity" THEN C!Init ELSE NoCapacity
  /\ IF part = "rclone" THEN B!Init ELSE NoRcloneBinary
  /\ IF part = "payload" THEN U!Init ELSE NoUpdatePayload
  /\ IF part = "component" THEN G!Init ELSE NoMountComponent
  /\ IF part = "desktop" THEN F!Init ELSE NoDesktopEntries
  /\ IF part = "arguments" THEN X!Init ELSE NoCommandLine
  /\ IF part = "account" THEN A!Init ELSE NoSaiSetup
  /\ IF part = "enrolment" THEN Y!Init ELSE NoSaiKeys
  /\ IF part = "line" THEN Q!Init ELSE NoStatusLine
  /\ IF part = "windows" THEN O!Init ELSE NoAppWindows

\* A step of the part this behaviour is about.
Only(name) == part = name /\ UNCHANGED part

AllNext ==
  \/ /\ Only("mounts")
     /\ UNCHANGED <<startUp, profileMigration, updateDiscovery, transferNotices,
                   transferProgress, capacity, rcloneBinary, updatePayload, mountComponent,
                   desktopEntries, commandLine, saiSetup, saiKeys, statusLine, appWindows>>
     /\ Next
  \/ /\ Only("start")
     /\ UNCHANGED <<vars, profileMigration, updateDiscovery, transferNotices,
                   transferProgress, capacity, rcloneBinary, updatePayload, mountComponent,
                   desktopEntries, commandLine, saiSetup, saiKeys, statusLine, appWindows>>
     /\ S!Next
  \/ /\ Only("profile")
     /\ UNCHANGED <<vars, startUp, updateDiscovery, transferNotices, transferProgress,
                   capacity, rcloneBinary, updatePayload, mountComponent, desktopEntries,
                   commandLine, saiSetup, saiKeys, statusLine, appWindows>>
     /\ P!Next
  \/ /\ Only("discovery")
     /\ UNCHANGED <<vars, startUp, profileMigration, transferNotices, transferProgress,
                   capacity, rcloneBinary, updatePayload, mountComponent, desktopEntries,
                   commandLine, saiSetup, saiKeys, statusLine, appWindows>>
     /\ D!Next
  \/ /\ Only("notices")
     /\ UNCHANGED <<vars, startUp, profileMigration, updateDiscovery, transferProgress,
                   capacity, rcloneBinary, updatePayload, mountComponent, desktopEntries,
                   commandLine, saiSetup, saiKeys, statusLine, appWindows>>
     /\ N!Next
  \/ /\ Only("progress")
     /\ UNCHANGED <<vars, startUp, profileMigration, updateDiscovery, transferNotices,
                   capacity, rcloneBinary, updatePayload, mountComponent, desktopEntries,
                   commandLine, saiSetup, saiKeys, statusLine, appWindows>>
     /\ T!Next
  \/ /\ Only("capacity")
     /\ UNCHANGED <<vars, startUp, profileMigration, updateDiscovery, transferNotices,
                   transferProgress, rcloneBinary, updatePayload, mountComponent,
                   desktopEntries, commandLine, saiSetup, saiKeys, statusLine, appWindows>>
     /\ C!Next
  \/ /\ Only("rclone")
     /\ UNCHANGED <<vars, startUp, profileMigration, updateDiscovery, transferNotices,
                   transferProgress, capacity, updatePayload, mountComponent,
                   desktopEntries, commandLine, saiSetup, saiKeys, statusLine, appWindows>>
     /\ B!Next
  \/ /\ Only("payload")
     /\ UNCHANGED <<vars, startUp, profileMigration, updateDiscovery, transferNotices,
                   transferProgress, capacity, rcloneBinary, mountComponent, desktopEntries,
                   commandLine, saiSetup, saiKeys, statusLine, appWindows>>
     /\ U!Next
  \/ /\ Only("component")
     /\ UNCHANGED <<vars, startUp, profileMigration, updateDiscovery, transferNotices,
                   transferProgress, capacity, rcloneBinary, updatePayload, desktopEntries,
                   commandLine, saiSetup, saiKeys, statusLine, appWindows>>
     /\ G!Next
  \/ /\ Only("desktop")
     /\ UNCHANGED <<vars, startUp, profileMigration, updateDiscovery, transferNotices,
                   transferProgress, capacity, rcloneBinary, updatePayload, mountComponent,
                   commandLine, saiSetup, saiKeys, statusLine, appWindows>>
     /\ F!Next
  \/ /\ Only("arguments")
     /\ UNCHANGED <<vars, startUp, profileMigration, updateDiscovery, transferNotices,
                   transferProgress, capacity, rcloneBinary, updatePayload, mountComponent,
                   desktopEntries, saiSetup, saiKeys, statusLine, appWindows>>
     /\ X!Next
  \/ /\ Only("account")
     /\ UNCHANGED <<vars, startUp, profileMigration, updateDiscovery, transferNotices,
                   transferProgress, capacity, rcloneBinary, updatePayload, mountComponent,
                   desktopEntries, commandLine, saiKeys, statusLine, appWindows>>
     /\ A!Next
  \/ /\ Only("enrolment")
     /\ UNCHANGED <<vars, startUp, profileMigration, updateDiscovery, transferNotices,
                   transferProgress, capacity, rcloneBinary, updatePayload, mountComponent,
                   desktopEntries, commandLine, saiSetup, statusLine, appWindows>>
     /\ Y!Next
  \/ /\ Only("line")
     /\ UNCHANGED <<vars, startUp, profileMigration, updateDiscovery, transferNotices,
                   transferProgress, capacity, rcloneBinary, updatePayload, mountComponent,
                   desktopEntries, commandLine, saiSetup, saiKeys, appWindows>>
     /\ Q!Next
  \/ /\ Only("windows")
     /\ UNCHANGED <<vars, startUp, profileMigration, updateDiscovery, transferNotices,
                   transferProgress, capacity, rcloneBinary, updatePayload, mountComponent,
                   desktopEntries, commandLine, saiSetup, saiKeys, statusLine>>
     /\ O!Next

allVars == <<part, vars, startUp, profileMigration, updateDiscovery, transferNotices,
             transferProgress, capacity, rcloneBinary, updatePayload, mountComponent,
             desktopEntries, commandLine, saiSetup, saiKeys, statusLine, appWindows>>

AllSpec == AllInit /\ [][AllNext]_allVars

\* The types of every part.
AllTypeOK ==
  CASE part = "mounts" -> TypeOK
    [] part = "start" -> S!TypeOK
    [] part = "profile" -> P!TypeOK
    [] part = "discovery" -> D!TypeOK
    [] part = "notices" -> N!TypeOK
    [] part = "progress" -> T!TypeOK
    [] part = "capacity" -> C!TypeOK
    [] part = "rclone" -> B!TypeOK
    [] part = "payload" -> U!TypeOK
    [] part = "component" -> G!TypeOK
    [] part = "desktop" -> F!TypeOK
    [] part = "arguments" -> X!TypeOK
    [] part = "account" -> A!TypeOK
    [] part = "enrolment" -> Y!TypeOK
    [] part = "line" -> Q!TypeOK
    [] part = "windows" -> O!TypeOK

ASSUME PartsAssumption ==
  S!Assumption /\ P!Assumption /\ B!Assumption /\ G!Assumption

\* StartUp: the recovery of the settings loses none and tells the truth about them, and
\* the next login starts what was selected.
StartRecovers ==
  part = "start" => S!OriginalKept /\ S!ReportTrue /\ S!SelectionKept /\ S!ItemFollows

\* ProfileMigration: files are moved, not replaced, and only while nobody uses them.
MovedWhole ==
  [](part = "profile" => P!NotInUse) /\ [][part = "profile" => P!NothingReplaced]_allVars


\* TransferNotices, TransferProgress and Capacity: notifications tell news, the progress
\* is that of one burst of uploads, and the space shown is that of this mounting, is
\* possible, is asked for again, and ends where a quota ends it.  StatusLine: what is asked
\* on the line is answered there and replaces nothing newer, and a refresh reaches the mount
\* and the directory it is for.
FiguresShown ==
  /\ [][part = "notices" => N!NoticesAreNews]_allVars
  /\ [][part = "progress" => T!BytesOfThisBurst]_allVars
  /\ [](part = "capacity" => C!OfThisMounting /\ C!AskedAgain /\ C!Plausible /\ C!OverQuotaSeen)
  /\ [](part = "line" => Q!AnswerComes /\ Q!RefreshesThatMount)
  /\ [][part = "line" => Q!NothingNewerReplaced]_allVars

\* RcloneBinary and MountComponent: programs that run are the ones that were released, at
\* a name that says so; one installation at a time; and a mount that waited for it goes on.
ProgramsWhole ==
  /\ [](part = "rclone" => B!FoundStays /\ B!NamesTellTruth)
  /\ [](part = "component" => G!OneInstallation /\ G!WaitsForAnswer /\ G!RunsTheWhole)
  /\ [][part = "component" => G!WaitedGoOn]_allVars

\* SaiSetup and SaiKeys: a set-up shows what its own account and site answered, and one key
\* of the service is alive and named by the connections that use it.
AccountSetUp ==
  /\ [](part = "account" => A!TickedAreListed /\ A!RoomKept)
  /\ [](part = "enrolment" => Y!OneLiveKey)
  /\ [][part = "account" => A!GivenUpIsOver /\ A!SiteOfDirectories /\ A!MountedStays]_allVars
  /\ [][part = "enrolment" => Y!ReplacesRetired /\ Y!PathsKeepTheirKey]_allVars

\* DesktopEntries: what is reported as done is done, and a replaced menu is not lost.
\* AppWindows: there is one main window, whoever asks for it sees it, the application that
\* runs can be reached, and the log that is shown is that of its mount.
DesktopKept ==
  /\ [][part = "desktop" => F!DoneAsAsked /\ F!KeptAside]_allVars
  /\ [](part = "windows" =>
         O!OneOfEach /\ O!AskedIsShown /\ O!Reachable /\ O!LogInView)

\* CommandLine: what the application writes for itself is understood, and nothing given to
\* an accepted command is dropped.
ArgumentsHeard == part = "arguments" => X!OwnUnderstood /\ X!NothingDropped
=============================================================================
