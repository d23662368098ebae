-------------------------- MODULE TransferProgress --------------------------
(***************************************************************************)
(* The bytes the application shows for the uploads of one mount: the       *)
(* snapshot built from rclone's three answers (build_transfer_snapshot),   *)
(* and the history that keeps the bytes of files that are done while the   *)
(* queue shrinks (TransferProgressHistory).                                *)
(*                                                                         *)
(* The three answers (queue, statistics, transfers) are read one after the *)
(* other, and files are written and uploaded between them.  Every file has *)
(* a known size and one name in all three answers.                         *)
(***************************************************************************)
EXTENDS Naturals, FiniteSetsExt, Functions

CONSTANTS
  Files,      \* the files that may be uploaded
  Size,       \* the bytes of each, at least one
  MaxWrites,  \* files put in the queue
  MaxRetries  \* uploads that start over

VARIABLES
  queue,    \* rclone: the files in the queue, with the bytes sent of each
  sending,  \* those being uploaded
  answer,   \* the poll: what is read so far
  history,  \* TransferProgressHistory
  shown,    \* the snapshot on display
  burst,    \* bytes put in the queue, and files seen, since rclone was last seen idle
  left

vars == <<queue, sending, answer, history, shown, burst, left>>

Empty == [f \in {} |-> 0]
Total(sizes) == FoldFunction(+, 0, sizes)
NoAnswer == [read |-> 0, queue |-> Empty, waiting |-> 0, sending |-> 0, bytes |-> Empty]
NoHistory == [active |-> FALSE, completed |-> 0, known |-> Empty]
NoSnapshot == [queued |-> 0, transferred |-> 0, work |-> FALSE, files |-> {}]

Init ==
  /\ queue = Empty /\ sending = {}
  /\ answer = NoAnswer
  /\ history = NoHistory
  /\ shown = NoSnapshot
  /\ burst = [written |-> 0, seen |-> {}]
  /\ left = [writes |-> MaxWrites, retries |-> MaxRetries]

-----------------------------------------------------------------------------
(* rclone                                                                  *)

With(fun, f, n) == [g \in DOMAIN fun \cup {f} |-> IF g = f THEN n ELSE fun[g]]

Write(f) ==
  /\ f \notin DOMAIN queue /\ left.writes > 0
  /\ left' = [left EXCEPT !.writes = @ - 1]
  /\ queue' = With(queue, f, 0)
  /\ burst' = [burst EXCEPT !.written = @ + Size[f]]
  /\ UNCHANGED <<sending, answer, history, shown>>

Start(f) ==
  /\ f \in DOMAIN queue \ sending
  /\ sending' = sending \cup {f}
  /\ UNCHANGED <<queue, answer, history, shown, burst, left>>

Send(f) ==
  /\ f \in sending /\ queue[f] < Size[f]
  /\ queue' = [queue EXCEPT ![f] = @ + 1]
  /\ UNCHANGED <<sending, answer, history, shown, burst, left>>

Done(f) ==
  /\ f \in sending /\ queue[f] = Size[f]
  /\ queue' = Restrict(queue, DOMAIN queue \ {f})
  /\ sending' = sending \ {f}
  /\ UNCHANGED <<answer, history, shown, burst, left>>

Retry(f) ==
  /\ f \in sending /\ left.retries > 0
  /\ left' = [left EXCEPT !.retries = @ - 1]
  /\ queue' = [queue EXCEPT ![f] = 0]
  /\ sending' = sending \ {f}
  /\ UNCHANGED <<answer, history, shown, burst>>

-----------------------------------------------------------------------------
(* One poll (rc::transfer_snapshot)                                        *)

\* vfs/queue.  A file the queue no longer holds is done for good at this moment.
ReadQueue ==
  /\ answer.read = 0
  /\ answer' = [answer EXCEPT !.read = 1, !.queue = queue]
  /\ UNCHANGED <<queue, sending, history, shown, burst, left>>

\* vfs/stats
ReadStats ==
  /\ answer.read = 1
  /\ answer' = [answer EXCEPT !.read = 2, !.sending = Cardinality(sending),
                              !.waiting = Cardinality(DOMAIN queue \ sending)]
  /\ UNCHANGED <<queue, sending, history, shown, burst, left>>

\* core/stats
ReadTransfers ==
  /\ answer.read = 2
  /\ answer' = [answer EXCEPT !.read = 3, !.bytes = Restrict(queue, sending)]
  /\ UNCHANGED <<queue, sending, history, shown, burst, left>>

\* build_transfer_snapshot: the files of the queue, each with the bytes of the transfer of
\* its name; then as many transfers that match none as the statistics say are missing.
Snapshots(a) ==
  LET matched == DOMAIN a.queue \cap DOMAIN a.bytes
      others == DOMAIN a.bytes \ DOMAIN a.queue
      missing == IF a.sending > Cardinality(matched) THEN a.sending - Cardinality(matched) ELSE 0
      taken == {S \in SUBSET others :
                  Cardinality(S) = IF missing < Cardinality(others) THEN missing
                                   ELSE Cardinality(others)}
      bytes(S) == [f \in DOMAIN a.queue \cup S |-> IF f \in DOMAIN a.bytes THEN a.bytes[f] ELSE 0]
  IN {[files |-> bytes(S),
       queued |-> Total([f \in DOMAIN bytes(S) |-> Size[f]]),
       transferred |-> Total(bytes(S)),
       work |-> DOMAIN bytes(S) # {} \/ a.waiting + a.sending > 0] : S \in taken}

\* Mutant: a new burst goes on with the bytes of the one before.
GoneOn(h, snapshot) == IF snapshot.work THEN [h EXCEPT !.active = TRUE] ELSE h

\* TransferProgressHistory::smooth: a burst begins with the first work after an idle answer.
Begun(h, snapshot) ==
  IF snapshot.work /\ ~h.active THEN [NoHistory EXCEPT !.active = TRUE] ELSE h

\* A file gone from a queue that is not empty is complete, as is any when there is no work.
Gone(h, snapshot) ==
  IF DOMAIN snapshot.files # {} \/ ~snapshot.work
  THEN DOMAIN h.known \ DOMAIN snapshot.files ELSE {}

Larger(x, y) == IF x > y THEN x ELSE y

Smoothed(old, snapshot) ==
  LET h == Begun(old, snapshot)
      gone == Gone(h, snapshot)
      known == [f \in (DOMAIN h.known \ gone) \cup DOMAIN snapshot.files |->
                  IF f \notin DOMAIN snapshot.files THEN h.known[f]
                  ELSE IF f \in DOMAIN h.known THEN Larger(h.known[f], snapshot.files[f])
                  ELSE snapshot.files[f]]
  IN IF ~h.active THEN h
     ELSE [active |-> snapshot.work,
           completed |-> h.completed + Total([f \in gone |-> Larger(Size[f], h.known[f])]),
           known |-> IF snapshot.work THEN known ELSE Empty]

Show ==
  /\ answer.read = 3
  /\ \E s \in Snapshots(answer) :
       LET extra == IF Begun(history, s).active THEN Smoothed(history, s).completed ELSE 0
       IN /\ history' = Smoothed(history, s)
          /\ shown' = [queued |-> s.queued + extra, transferred |-> s.transferred + extra,
                       work |-> s.work, files |-> DOMAIN s.files]
          /\ burst' = IF s.work THEN [burst EXCEPT !.seen = @ \cup DOMAIN s.files]
                       ELSE [written |-> Total([f \in DOMAIN queue |-> Size[f]]), seen |-> {}]
  /\ answer' = NoAnswer
  /\ UNCHANGED <<queue, sending, left>>

Next ==
  \/ \E f \in Files : Write(f)
  \/ \E f \in Files : Start(f)
  \/ \E f \in Files : Send(f)
  \/ \E f \in Files : Done(f)
  \/ \E f \in Files : Retry(f)
  \/ ReadQueue
  \/ ReadStats
  \/ ReadTransfers
  \/ Show

Spec == Init /\ [][Next]_vars

TypeOK ==
  /\ DOMAIN queue \subseteq Files /\ sending \subseteq DOMAIN queue
  /\ \A f \in DOMAIN queue : queue[f] \in 0 .. Size[f]
  /\ DOMAIN history.known \subseteq Files

\* What is shown is about one burst of uploads: never more than was put in the queue since
\* rclone was last seen idle, and never less uploaded than the files seen in it that the
\* queue no longer holds, except while rclone gives no details at all. (Every step.)
BytesOfThisBurst ==
  answer.read = 3 /\ answer'.read = 0 =>
    /\ shown'.queued <= burst.written
    /\ shown'.transferred <= shown'.queued
    /\ shown'.files # {} \/ ~shown'.work =>
         shown'.transferred >= Total([f \in burst.seen \ shown'.files |-> Size[f]])
=============================================================================
