-------------------------- MODULE TransferNotices --------------------------
(***************************************************************************)
(* What the application tells its user about uploads: the polls of each    *)
(* mount (transfer_task, MountFeedbacks), the notifications drawn from     *)
(* their answers (TransferNotificationTracker), and the one transfer       *)
(* window that opens by itself and that the user may close.                *)
(*                                                                         *)
(* A mount's rclone holds a number of files still to be uploaded and may   *)
(* be in trouble (an errored file, a full cache).  A poll asks it twice,   *)
(* for the queue and then for the statistics, and things happen between    *)
(* the two.  A mount operation forgets what was known of its mount, a      *)
(* mount that dies is forgotten when the status is next read.              *)
(***************************************************************************)
EXTENDS Naturals, FiniteSets

CONSTANTS
  Mounts,      \* the mount targets
  AutoShow,    \* settings.auto_show_transfers
  MaxWrites,   \* files written
  MaxFaults,   \* polls that fail, uploads in trouble, mounts that die
  MaxChanges,  \* mount operations
  MaxClosings  \* times the user closes the window

VARIABLES
  rclone,  \* per mount: is it up, files to upload, in trouble
  app,     \* the application's view
  due,     \* what there is to announce: mounts whose uploads, or whose trouble, is news
  hidden,  \* transfers the user closed the window on, until they end
  left     \* the bounds not used up

vars == <<rclone, app, due, hidden, left>>

NoRequest == [generation |-> 0, queue |-> FALSE, answer |-> "none"]
NoFeedback == [generation |-> 0, last |-> "none", error |-> FALSE, polls |-> 0]
NoNews == [complete |-> {}, error |-> {}]

Init ==
  /\ rclone = [m \in Mounts |-> [up |-> FALSE, pending |-> 0, trouble |-> FALSE]]
  /\ app = [mounted |-> {}, busy |-> {}, feedback |-> [m \in Mounts |-> NoFeedback],
            generation |-> 0, polling |-> [m \in Mounts |-> NoRequest],
            observed_active |-> {}, notified_errors |-> {},
            popup |-> FALSE, dismissed |-> {}, news |-> NoNews]
  /\ due = NoNews
  /\ hidden = {}
  /\ left = [writes |-> MaxWrites, faults |-> MaxFaults, changes |-> MaxChanges,
             closings |-> MaxClosings]

Use(what) == left[what] > 0 /\ left' = [left EXCEPT ![what] = @ - 1]

-----------------------------------------------------------------------------
(* The window                                                              *)

\* active_transfer_ids: TransferState::current is nothing after an error.
ActiveIds(a) ==
  {m \in a.mounted : ~a.feedback[m].error /\ a.feedback[m].last \in {"busy", "failed"}}

\* retain_dismissed_transfers
Retained(a) == a.dismissed \cap (ActiveIds(a) \cup a.observed_active)

\* reconcile_transfer_popups
Reconciled(a) ==
  IF ActiveIds(a) # {}
  THEN [a EXCEPT !.dismissed = Retained(a),
                 !.popup = @ \/ (AutoShow /\ ActiveIds(a) \ Retained(a) # {})]
  ELSE IF a.popup /\ a.observed_active # {}
  THEN [a EXCEPT !.dismissed = Retained(a)]
  ELSE [a EXCEPT !.dismissed = {}, !.popup = FALSE]

\* ClosePopup, CloseRequested, WindowClosed
Close ==
  /\ app.popup
  /\ app' = [app EXCEPT !.dismissed = @ \cup ActiveIds(app), !.popup = FALSE, !.news = NoNews]
  /\ hidden' = hidden \cup ActiveIds(app)
  /\ Use("closings")
  /\ UNCHANGED <<rclone, due>>

-----------------------------------------------------------------------------
(* Polls                                                                   *)

Polling(a) == \E m \in Mounts : a.polling[m] # NoRequest

\* transfer_task with MountFeedbacks::start_read: one generation for each entry it makes.
Ask ==
  /\ ~Polling(app)
  /\ LET asked == app.mounted \ app.busy
         new == {m \in asked : app.feedback[m].generation = 0}
         number == CHOOSE n \in [new -> app.generation + 1 .. app.generation + Cardinality(new)] :
                     \A i, j \in new : i # j => n[i] # n[j]
         begun == [m \in Mounts |->
                     IF m \in new THEN [NoFeedback EXCEPT !.generation = number[m]]
                     ELSE app.feedback[m]]
     IN /\ asked # {}
        /\ app' = [app EXCEPT
             !.generation = @ + Cardinality(new),
             !.feedback = begun,
             !.polling = [m \in Mounts |->
                            IF m \in asked
                            THEN [NoRequest EXCEPT !.generation = begun[m].generation]
                            ELSE NoRequest],
             !.news = NoNews]
  /\ UNCHANGED <<rclone, due, hidden, left>>

Answered(m, answer) ==
  app' = [app EXCEPT !.polling[m].answer = answer, !.news = NoNews]

\* rc::transfer_snapshot, vfs/queue: the files in the queue at this moment.
ReadQueue(m) ==
  /\ app.polling[m] # NoRequest /\ app.polling[m].answer = "none"
  /\ rclone[m].up
  /\ app' = [app EXCEPT !.polling[m].answer = "queue", !.news = NoNews,
                        !.polling[m].queue = rclone[m].pending > 0]
  /\ UNCHANGED <<rclone, due, hidden, left>>

\* vfs/stats a moment later, then build_transfer_snapshot.
ReadStats(m) ==
  /\ app.polling[m].answer = "queue"
  /\ rclone[m].up
  /\ Answered(m, IF rclone[m].trouble THEN "failed"
                 ELSE IF app.polling[m].queue \/ rclone[m].pending > 0 THEN "busy"
                 ELSE "synced")
  /\ UNCHANGED <<rclone, due, hidden, left>>

\* A call fails: rclone does not answer, or is gone.
Fail(m) ==
  /\ app.polling[m] # NoRequest /\ app.polling[m].answer \in {"none", "queue"}
  /\ Answered(m, "error")
  /\ IF rclone[m].up THEN Use("faults") ELSE UNCHANGED left
  /\ UNCHANGED <<rclone, due, hidden>>

\* Mutant: an answer is taken whichever mount it is about.
AcceptAny(a, m) == a.polling[m] # NoRequest

\* MountFeedbacks::accept
Accept(a, m) == /\ a.polling[m] # NoRequest
                /\ a.feedback[m].generation = a.polling[m].generation

\* TransferState::update, TransferState::fail
Updated(state, answer) ==
  CASE answer = "error"  -> [state EXCEPT !.error = TRUE, !.polls = 0]
    [] answer = "synced" -> [state EXCEPT !.last = answer, !.error = FALSE,
                                          !.polls = IF @ = 2 THEN 2 ELSE @ + 1]
    [] OTHER             -> [state EXCEPT !.last = answer, !.error = FALSE, !.polls = 0]

\* TransferNotificationTracker::observe, for every snapshot accepted.
Observed(a, snapshots) ==
  LET told(answers) == {m \in snapshots : a.feedback[m].last \in answers}
      complete == {m \in told({"synced"}) : a.feedback[m].polls = 2 /\ m \in a.observed_active}
  IN [a EXCEPT !.observed_active = (@ \cup told({"busy", "failed"})) \ complete,
               !.notified_errors = (@ \cup told({"failed"})) \ told({"busy", "synced"}),
               !.news = [complete |-> complete, error |-> told({"failed"}) \ a.notified_errors]]

\* TransfersLoaded
TransfersLoaded ==
  /\ Polling(app)
  /\ \A m \in Mounts : app.polling[m] # NoRequest
                         => app.polling[m].answer \notin {"none", "queue"}
  /\ LET heard == {m \in Mounts : Accept(app, m)}
         snapshots == {m \in heard : app.polling[m].answer # "error"}
         a == [app EXCEPT !.polling = [m \in Mounts |-> NoRequest],
                          !.feedback = [m \in Mounts |->
                             IF m \in heard THEN Updated(@[m], app.polling[m].answer)
                             ELSE @[m]]]
     IN app' = Reconciled(Observed(a, snapshots))
  /\ due' = [complete |-> (due.complete \ app'.news.complete)
                            \cup {m \in app'.news.complete : rclone[m].pending > 0},
             error |-> due.error \ app'.news.error]
  /\ hidden' = hidden \ app'.news.complete
  /\ UNCHANGED <<rclone, left>>

-----------------------------------------------------------------------------
(* Mounts                                                                  *)

\* clear_mount_feedback
Cleared(a, m) ==
  Reconciled([a EXCEPT !.dismissed = @ \ {m}, !.feedback[m] = NoFeedback, !.news = NoNews,
                       !.observed_active = @ \ {m}, !.notified_errors = @ \ {m}])

\* What is still to be told of a mount that is looked at afresh.
Afresh(m, state) ==
  /\ due' = [complete |-> IF state.pending > 0 THEN due.complete \cup {m} ELSE due.complete \ {m},
             error |-> IF state.trouble THEN due.error \cup {m} ELSE due.error \ {m}]
  /\ hidden' = hidden \ {m}

\* start_mount_operation: what was known of the mount is cleared, and the request dropped.
Begin(m) ==
  /\ m \notin app.busy
  /\ app' = Cleared([app EXCEPT !.busy = @ \cup {m}, !.mounted = @ \ {m}], m)
  /\ Afresh(m, rclone[m])
  /\ Use("changes")
  /\ UNCHANGED rclone

\* The operation ends: the mount is there now, or gone, or it failed and nothing changed.
End(m) ==
  /\ m \in app.busy
  /\ \E up \in BOOLEAN :
       /\ rclone' = [rclone EXCEPT ![m].up = up, ![m].trouble = @ /\ up]
       /\ app' = LET a == [app EXCEPT !.busy = @ \ {m}, !.news = NoNews,
                                      !.mounted = IF up THEN @ \cup {m} ELSE @ \ {m}]
                 IN IF up THEN a ELSE Cleared(a, m)
       /\ Afresh(m, rclone'[m])
  /\ UNCHANGED left

\* The mount dies; its cache keeps the files still to be uploaded.
Die(m) ==
  /\ rclone[m].up /\ m \notin app.busy
  /\ rclone' = [rclone EXCEPT ![m].up = FALSE, ![m].trouble = FALSE]
  /\ Use("faults")
  /\ app' = [app EXCEPT !.news = NoNews]
  /\ UNCHANGED <<due, hidden>>

\* A status reading finds it unmounted (StatusesLoaded).
Look(m) ==
  /\ m \in app.mounted /\ ~rclone[m].up
  /\ app' = Cleared([app EXCEPT !.mounted = @ \ {m}], m)
  /\ Afresh(m, rclone[m])
  /\ UNCHANGED <<rclone, left>>

\* The user's files, and rclone's work on them.
Write(m) ==
  /\ rclone[m].up
  /\ rclone' = [rclone EXCEPT ![m].pending = @ + 1]
  /\ due' = [due EXCEPT !.complete = @ \cup {m}]
  /\ Use("writes")
  /\ app' = [app EXCEPT !.news = NoNews] /\ UNCHANGED hidden

Upload(m) ==
  /\ rclone[m].up /\ rclone[m].pending > 0
  /\ rclone' = [rclone EXCEPT ![m].pending = @ - 1, ![m].trouble = FALSE]
  /\ app' = [app EXCEPT !.news = NoNews] /\ UNCHANGED <<due, hidden, left>>

Trouble(m) ==
  /\ rclone[m].up /\ rclone[m].pending > 0 /\ ~rclone[m].trouble
  /\ rclone' = [rclone EXCEPT ![m].trouble = TRUE]
  /\ due' = [due EXCEPT !.error = @ \cup {m}]
  /\ Use("faults")
  /\ app' = [app EXCEPT !.news = NoNews] /\ UNCHANGED hidden

Next ==
  \/ Close
  \/ Ask
  \/ TransfersLoaded
  \/ \E m \in Mounts : ReadQueue(m)
  \/ \E m \in Mounts : ReadStats(m)
  \/ \E m \in Mounts : Fail(m)
  \/ \E m \in Mounts : Begin(m)
  \/ \E m \in Mounts : End(m)
  \/ \E m \in Mounts : Die(m)
  \/ \E m \in Mounts : Look(m)
  \/ \E m \in Mounts : Write(m)
  \/ \E m \in Mounts : Upload(m)
  \/ \E m \in Mounts : Trouble(m)

Spec == Init /\ [][Next]_vars

-----------------------------------------------------------------------------
(* Properties                                                              *)

TypeOK ==
  /\ rclone \in [Mounts -> [up : BOOLEAN, pending : 0 .. MaxWrites, trouble : BOOLEAN]]
  /\ app.mounted \subseteq Mounts /\ app.busy \subseteq Mounts
  /\ app.dismissed \subseteq Mounts /\ app.popup \in BOOLEAN
  /\ app.feedback \in [Mounts -> [generation : 0 .. app.generation, error : BOOLEAN,
                                  last : {"none", "busy", "failed", "synced"}, polls : 0 .. 2]]

\* A notification tells news: uploads are announced complete when files were to be uploaded
\* since the last such announcement (or since the mount is there), trouble when it began
\* since it was last announced, whichever mount an answer that comes late was about.
\* (Every step.)
NoticesAreNews ==
  app'.news.complete \subseteq due.complete /\ app'.news.error \subseteq due.error

\* A transfer window that the user closed does not open again by itself for the uploads
\* it was closed on, until they are complete or their mount changes.
DismissedSurvives ==
  [][~app.popup /\ app'.popup => ActiveIds(app') \ hidden # {}]_vars
=============================================================================
