---------------------- MODULE InteractiveSessionProofs ----------------------
(***************************************************************************)
(* Proofs about InteractiveSession, for every set of connections and       *)
(* targets, every owner and every bound.                                   *)
(***************************************************************************)
EXTENDS InteractiveSession, TLAPS

-----------------------------------------------------------------------------
(* The inductive invariant                                                 *)

\* A save that is under way has been counted.
Counted ==
  \A c \in Connections : IF saving = c THEN config[c] < saves ELSE config[c] <= saves

\* A session has a generation that was given to a process of its own connection, and
\* logs in as the connection is saved.
OwnTerminal ==
  \A c \in Connections :
    /\ session[c].gen < next
    /\ session[c].life = "none" <=> session[c].gen = None
    /\ session[c].gen # None => /\ child[session[c].gen].conn = c
                                /\ session[c].config = config[c]

\* A process whose terminal was not dropped is the one of its session; a socket was
\* bound by a process of its connection.
OwnProcess ==
  /\ \A g \in Logins : child[g].at # "none" =>
       /\ child[g].conn \in Connections
       /\ g \notin hung => session[child[g].conn].gen = g
  /\ \A c \in Connections :
       /\ socket[c] < next
       /\ socket[c] # None => child[socket[c]].conn = c

\* The answer to a check of the present terminal is awaited, and is that terminal's.
OwnAnswer ==
  \A k \in checks :
    /\ k.gen < next
    /\ child[k.gen].conn = k.conn
    /\ session[k.conn].gen = k.gen => /\ session[k.conn].checking
                                      /\ k.by \in {k.gen, None}

\* Mounts wait where they were asked for, until their session is ready.
Waits ==
  /\ pending = wish
  /\ \A c \in Connections :
       /\ session[c].life = "ready" => /\ session[c].by \in {session[c].gen, None}
                                       /\ Waiting(c) = {}
       /\ session[c].life = "starting" => ~session[c].resumed

\* One operation per target, which runs through a master of its own connection.
OneEach ==
  /\ \A o, q \in ops : o.t = q.t => o = q
  /\ \A o \in ops :
       /\ obs[o.t] = "starting"
       /\ o.by < next
       /\ o.by # None => child[o.by].conn = Owner[o.t]
       /\ o.at = "connecting" => o.by # None
       /\ o.at \in {"refused", "connecting"} => o.kind = "mount"
       /\ o.at = "done" /\ o.kind = "unmount" => via[o.t] = None

\* What lives is not taken for unmounted.
Seen ==
  \A t \in Targets :
    /\ via[t] < next
    /\ via[t] # None => child[via[t]].conn = Owner[t]
    /\ via[t] # None /\ t \notin Busy => obs[t] # "unmounted"

\* While a connection is saved as a whole nothing of it is mounted or on its way.
NothingLives ==
  whole => /\ saving \in Connections
           /\ \A t \in DirectoriesOf(saving) : t \notin Busy /\ via[t] = None

IInv ==
  /\ TypeOK /\ Counted /\ OwnTerminal /\ OwnProcess /\ OwnAnswer /\ Waits /\ OneEach
  /\ Seen /\ NothingLives

USE InteractiveAssumption DEF None, Logins, DirectoriesOf, Busy

-----------------------------------------------------------------------------
(* Fields of typed values                                                  *)

TypedSessions ==
  /\ next \in Nat /\ \A g \in Logins : g \in Nat /\ g # None
  /\ \A c \in Connections :
       /\ session[c] \in Sessions /\ session[c].gen \in Generations
       /\ session[c].by \in Generations /\ session[c].config \in Nat
       /\ session[c].gen # None => session[c].gen \in Logins
       /\ socket[c] \in Generations /\ (socket[c] # None => socket[c] \in Logins)

TypedRest ==
  /\ \A k \in checks : k.conn \in Connections /\ k.gen \in Logins /\ k.by \in Generations
  /\ \A o \in ops : o.t \in Targets /\ o.by \in Generations
  /\ \A t \in Targets : Owner[t] \in Connections /\ via[t] \in Generations
  /\ Generations \subseteq Nat /\ Generations = Logins \cup {None}

\* The fields of typed values, as the proofs need them.
LEMMA Fields ==
  ASSUME TypeOK
  PROVE  TypedSessions /\ TypedRest
BY DEF TypeOK, Sessions, Checks, Operations, Generations, TypedSessions, TypedRest

-----------------------------------------------------------------------------
(* What the steps do to the fields                                         *)

\* A terminal is opened for c, or cannot be.
LEMMA Opened ==
  ASSUME TypeOK, NEW c \in Connections, Open(c)
  PROVE  /\ next \in Logins /\ next' = next + 1 /\ shown' = c
         /\ hung' = hung \cup ({session[c].gen} \ {None})
         /\ session' \in [Connections -> Sessions] /\ child' \in [Logins -> Children]
         /\ \A d \in Connections \ {c} : session'[d] = session[d]
         /\ \A g \in Logins \ {next} : child'[g] = child[g]
         /\ \/ /\ session'[c].gen = next /\ session'[c].life = "starting"
               /\ session'[c].config = config[c] /\ ~session'[c].resumed
               /\ child'[next].conn = c /\ child'[next].at = "login"
            \/ /\ session'[c].gen = None /\ session'[c].life = "none"
               /\ child' = child
<1>1. CASE /\ session' = [session EXCEPT ![c] =
                [NoSession EXCEPT !.gen = next, !.life = "starting", !.queued = TRUE,
                                  !.config = config[c]]]
           /\ child' = [child EXCEPT ![next] = [conn |-> c, at |-> "login"]]
  BY <1>1 DEF Open, Dropped, NoSession, TypeOK, Sessions, Children, Generations
<1>2. CASE session' = [session EXCEPT ![c] = NoSession] /\ UNCHANGED child
  BY <1>2 DEF Open, Dropped, NoSession, TypeOK, Sessions, Children, Generations
<1>3. QED
  BY <1>1, <1>2 DEF Open

\* An answer of the present terminal changes only the state of its session.
LEMMA Heard ==
  ASSUME TypeOK, NEW k \in checks, ReadinessChecked(k)
  PROVE  /\ session' \in [Connections -> Sessions]
         /\ \A d \in Connections \ {k.conn} : session'[d] = session[d]
         /\ session'[k.conn].gen = session[k.conn].gen
         /\ session'[k.conn].config = session[k.conn].config
         /\ ~session'[k.conn].checking
         /\ \/ /\ UNCHANGED <<pending, wish, ops, obs>>
               /\ \/ /\ session'[k.conn].life = session[k.conn].life
                     /\ session'[k.conn].by = session[k.conn].by
                     /\ session'[k.conn].resumed = session[k.conn].resumed
                  \/ session[k.conn].life = "starting" /\ session'[k.conn].life = "failed"
            \/ /\ session[k.conn].life = "starting" /\ session'[k.conn].life = "ready"
               /\ session'[k.conn].by = k.by
               /\ LET S == IF session[k.conn].resumed THEN {} ELSE Waiting(k.conn) IN
                  /\ pending' = pending \ S /\ wish' = wish \ S
                  /\ Begin(IF saving = Nobody THEN S ELSE {})
<1> DEFINE c == k.conn
           s == Checked(k)
           S == IF s.resumed THEN {} ELSE Waiting(c)
<1>1. c \in Connections /\ session[c] \in Sessions /\ k.by \in Generations
  BY Fields DEF TypedSessions, TypedRest
<1>2. /\ s \in Sessions /\ ~s.checking
      /\ s.gen = session[c].gen /\ s.config = session[c].config /\ s.life = session[c].life
      /\ s.by = session[c].by /\ s.resumed = session[c].resumed
  BY <1>1 DEF Checked, Sessions
<1>3. CASE session' = [session EXCEPT ![c] = s] /\ UNCHANGED <<pending, wish, ops, obs>>
  BY <1>1, <1>2, <1>3 DEF TypeOK
<1>4. CASE /\ s.life = "starting" /\ UNCHANGED <<pending, wish, ops, obs>>
           /\ session' = [session EXCEPT ![c] = [s EXCEPT !.life = "failed", !.queued = FALSE]]
  <2>1. [s EXCEPT !.life = "failed", !.queued = FALSE] \in Sessions
    BY <1>2 DEF Sessions
  <2>2. QED
    BY <1>1, <1>2, <1>4, <2>1 DEF TypeOK, Sessions
<1>5. CASE /\ s.life = "starting" /\ pending' = pending \ S /\ wish' = wish \ S
           /\ session' = [session EXCEPT ![c] =
                [s EXCEPT !.life = "ready", !.by = k.by, !.queued = @ /\ s.resumed,
                          !.resumed = TRUE]]
           /\ Begin(IF saving = Nobody THEN S ELSE {})
  <2> DEFINE r == [s EXCEPT !.life = "ready", !.by = k.by, !.queued = @ /\ s.resumed,
                            !.resumed = TRUE]
  <2>1. /\ r \in Sessions /\ ~r.checking /\ r.gen = s.gen /\ r.config = s.config
        /\ r.life = "ready" /\ r.by = k.by
    BY <1>1, <1>2 DEF Sessions
  <2> HIDE DEF r
  <2>2. session'[c] = r
    BY <1>1, <1>5 DEF TypeOK, r
  <2>3. session' \in [Connections -> Sessions] /\ \A d \in Connections \ {c} : session'[d] = session[d]
    BY <1>1, <1>5, <2>1 DEF TypeOK, r
  <2>4. QED
    BY <1>2, <1>5, <2>1, <2>2, <2>3
<1>6. QED
  BY <1>3, <1>4, <1>5 DEF ReadinessChecked

\* The process of a generation has ended, and its session knows.
LEMMA Exited ==
  ASSUME TypeOK, NEW g \in Logins, Ended(g)
  PROVE  /\ session' \in [Connections -> Sessions]
         /\ \A c \in Connections :
              /\ session'[c].gen = session[c].gen /\ session'[c].config = session[c].config
              /\ session'[c].by = session[c].by /\ session'[c].checking = session[c].checking
              /\ IF session[c].gen = g THEN session'[c].life = "exited"
                 ELSE session'[c] = session[c]
<1>1. ASSUME NEW c \in Connections
      PROVE  /\ session'[c] \in Sessions
             /\ session'[c].gen = session[c].gen /\ session'[c].config = session[c].config
             /\ session'[c].by = session[c].by /\ session'[c].checking = session[c].checking
             /\ IF session[c].gen = g THEN session'[c].life = "exited"
                ELSE session'[c] = session[c]
  <2>1. session[c] \in Sessions
    BY Fields DEF TypedSessions, TypedRest
  <2>2. session'[c] = IF session[c].gen = g
                      THEN [session[c] EXCEPT !.life = "exited", !.queued = FALSE,
                                              !.resumed = TRUE]
                      ELSE session[c]
    BY DEF Ended
  <2> DEFINE r == [session[c] EXCEPT !.life = "exited", !.queued = FALSE, !.resumed = TRUE]
  <2>3. /\ r \in Sessions /\ r.gen = session[c].gen /\ r.config = session[c].config
        /\ r.by = session[c].by /\ r.checking = session[c].checking /\ r.life = "exited"
    BY <2>1 DEF Sessions
  <2> HIDE DEF r
  <2>4. session'[c] = IF session[c].gen = g THEN r ELSE session[c]
    BY <2>2 DEF r
  <2>5. QED
    BY <2>1, <2>3, <2>4
<1>2. session' = [c \in Connections |-> session'[c]]
  BY DEF Ended
<1>3. QED
  BY <1>1, <1>2

\* An operation goes on.
LEMMA Moved ==
  ASSUME TypeOK, NEW o \in ops, NEW at, NEW by \in Generations, Moves(o, at, by),
         at \in {"asking", "refused", "connecting", "done", "failed"}
  PROVE  \E n \in Operations :
           /\ n.t = o.t /\ n.kind = o.kind /\ n.at = at /\ n.by = by
           /\ ops' = (ops \ {o}) \cup {n}
<1>1. o \in Operations
  BY DEF TypeOK
<1>2. /\ [o EXCEPT !.at = at, !.by = by] \in Operations
      /\ [o EXCEPT !.at = at, !.by = by].t = o.t
      /\ [o EXCEPT !.at = at, !.by = by].kind = o.kind
      /\ [o EXCEPT !.at = at, !.by = by].at = at
      /\ [o EXCEPT !.at = at, !.by = by].by = by
  BY <1>1 DEF Operations
<1>3. QED
  BY <1>2 DEF Moves

\* A check goes on, and remembers who answered.
LEMMA Asked ==
  ASSUME TypeOK, NEW k \in checks, Ask(k) \/ Clean(k)
  PROVE  \E n \in Checks :
           /\ n.conn = k.conn /\ n.gen = k.gen
           /\ checks' = (checks \ {k}) \cup {n}
           /\ \/ n.by = None
              \/ Clean(k) /\ n.by = k.by
              \/ /\ n.by = socket[k.conn] /\ Answers(k.conn) /\ n.by \notin hung
<1>1. k \in Checks /\ socket[k.conn] \in Generations
  BY Fields DEF TypeOK, TypedSessions, TypedRest
<1>2. CASE Ask(k)
  <2>1. PICK at \in {"yes", "refused", "error"} :
          /\ at = "yes" => Answers(k.conn)
          /\ checks' = (checks \ {k}) \cup
               {[k EXCEPT !.at = at,
                          !.by = IF at = "yes" /\ socket[k.conn] \notin hung
                                 THEN socket[k.conn] ELSE None]}
    BY <1>2 DEF Ask
  <2> DEFINE by == IF at = "yes" /\ socket[k.conn] \notin hung THEN socket[k.conn] ELSE None
             n == [k EXCEPT !.at = at, !.by = by]
  <2>2. by \in Generations /\ (by = None \/ (by = socket[k.conn] /\ Answers(k.conn) /\ by \notin hung))
    BY <1>1, <2>1 DEF Generations
  <2> HIDE DEF by
  <2>3. n \in Checks /\ n.conn = k.conn /\ n.gen = k.gen /\ n.by = by
    BY <1>1, <2>1, <2>2 DEF Checks
  <2>4. checks' = (checks \ {k}) \cup {n}
    BY <2>1 DEF by
  <2> HIDE DEF n
  <2>5. n.by = None \/ (n.by = socket[k.conn] /\ Answers(k.conn) /\ n.by \notin hung)
    BY <2>2, <2>3
  <2>6. QED
    BY <2>3, <2>4, <2>5
<1>3. CASE Clean(k)
  <2>1. [k EXCEPT !.at = "no"] \in Checks /\ [k EXCEPT !.at = "no"].conn = k.conn
        /\ [k EXCEPT !.at = "no"].gen = k.gen /\ [k EXCEPT !.at = "no"].by = k.by
    BY <1>1 DEF Checks
  <2>2. QED
    BY <1>3, <2>1 DEF Clean
<1>4. QED
  BY <1>2, <1>3

\* A process moves on in its terminal.
LEMMA Process ==
  ASSUME TypeOK, NEW g \in Logins, LoggedIn(g) \/ ChildEnds(g)
  PROVE  /\ child' \in [Logins -> Children]
         /\ \A h \in Logins \ {g} : child'[h] = child[h]
         /\ child'[g].conn = child[g].conn /\ child[g].at # "none"
<1>1. child[g] \in Children /\ child \in [Logins -> Children]
  BY DEF TypeOK
<1>2. \A at \in {"none", "master", "alone"} :
        [child[g] EXCEPT !.at = at] \in Children /\ [child[g] EXCEPT !.at = at].conn = child[g].conn
  BY <1>1 DEF Children
<1>3. PICK at \in {"none", "master", "alone"} : child' = [child EXCEPT ![g].at = at]
  BY DEF LoggedIn, ChildEnds
<1>4. child[g].at # "none"
  BY DEF LoggedIn, ChildEnds
<1>5. child'[g] = [child[g] EXCEPT !.at = at]
  BY <1>1, <1>3
<1>6. QED
  BY <1>1, <1>2, <1>3, <1>4, <1>5

\* The mounts that begin, and those that are on their way already.
LEMMA Begun ==
  ASSUME TypeOK, NEW S \in SUBSET Targets, Begin(S)
  PROVE  /\ ops' \subseteq Operations
         /\ obs' \in [Targets -> {"starting", "mounted", "unmounted", "error"}]
         /\ ops \subseteq ops'
         /\ \A o \in ops' \ ops :
              /\ o.t \in S \ Busy /\ o.kind = "mount" /\ o.at = "asking" /\ o.by = None
              /\ obs[o.t] \notin {"mounted", "starting"} /\ obs'[o.t] = "starting"
         /\ \A o, q \in ops' \ ops : o.t = q.t => o = q
         /\ \A t \in S : t \in Busy' \/ obs[t] \in {"mounted", "starting"}
         /\ \A t \in Targets : obs'[t] = obs[t] \/ (t \in S /\ obs'[t] = "starting")
<1> DEFINE go == {t \in S \ Busy : obs[t] \notin {"mounted", "starting"}}
           new == [t \in go |-> [t |-> t, kind |-> "mount", at |-> "asking", by |-> None]]
<1>1. \A t \in go : /\ new[t] \in Operations /\ new[t].t = t /\ new[t].kind = "mount"
                    /\ new[t].at = "asking" /\ new[t].by = None
  BY DEF Operations, Generations
<1>2. ops' = ops \cup {new[t] : t \in go}
  BY DEF Begin
<1>3. obs' = [t \in Targets |-> IF t \in go THEN "starting" ELSE obs[t]]
  BY DEF Begin
<1> HIDE DEF new
<1>4. \A t \in go : t \in Targets /\ t \in S \ Busy /\ obs[t] \notin {"mounted", "starting"}
  OBVIOUS
<1>5. \A t \in S : t \in go \/ t \in Busy \/ obs[t] \in {"mounted", "starting"}
  OBVIOUS
<1> HIDE DEF go
<1>6. \A o \in ops' \ ops : \E t \in go : o = new[t]
  BY <1>2
<1>7. \A t \in go : t \in Busy'
  BY <1>1, <1>2
<1>8. Busy \subseteq Busy'
  BY <1>2
<1>9. ops' \subseteq Operations
  BY <1>1, <1>2 DEF TypeOK
<1>10. \A t \in Targets : obs'[t] = obs[t] \/ (t \in S /\ obs'[t] = "starting")
  BY <1>3, <1>4
<1>11. obs' \in [Targets -> {"starting", "mounted", "unmounted", "error"}]
  BY <1>3 DEF TypeOK
<1>12. \A o \in ops' \ ops :
         /\ o.t \in S \ Busy /\ o.kind = "mount" /\ o.at = "asking" /\ o.by = None
         /\ obs[o.t] \notin {"mounted", "starting"} /\ obs'[o.t] = "starting"
  BY <1>1, <1>3, <1>4, <1>6
<1>13. \A o, q \in ops' \ ops : o.t = q.t => o = q
  BY <1>1, <1>6
<1>14. \A t \in S : t \in Busy' \/ obs[t] \in {"mounted", "starting"}
  BY <1>5, <1>7, <1>8
<1>15. QED
  BY <1>2, <1>9, <1>10, <1>11, <1>12, <1>13, <1>14

\* Mounts that begin keep what holds of operations, unless something is being saved.
LEMMA BeginKeeps ==
  ASSUME IInv, NEW S \in SUBSET Targets, Begin(S), saving # Nobody => S = {},
         UNCHANGED <<next, via, child, whole, saving>>
  PROVE  /\ ops' \subseteq Operations
         /\ obs' \in [Targets -> {"starting", "mounted", "unmounted", "error"}]
         /\ OneEach' /\ Seen' /\ NothingLives'
<1> USE DEF IInv
<1>1. /\ ops' \subseteq Operations
      /\ obs' \in [Targets -> {"starting", "mounted", "unmounted", "error"}]
      /\ ops \subseteq ops'
      /\ \A o \in ops' \ ops :
           /\ o.t \in S \ Busy /\ o.kind = "mount" /\ o.at = "asking" /\ o.by = None
           /\ obs[o.t] \notin {"mounted", "starting"} /\ obs'[o.t] = "starting"
      /\ \A o, q \in ops' \ ops : o.t = q.t => o = q
      /\ \A u \in Targets : obs'[u] = obs[u] \/ (u \in S /\ obs'[u] = "starting")
  BY Begun
<1>2. TypedRest /\ next \in Nat
  BY Fields DEF TypedSessions
<1>3. next # None
  BY DEF TypeOK
<1>4. OneEach'
  <2>1. \A o \in ops' : obs'[o.t] = "starting"
    BY <1>1, <1>2 DEF OneEach, TypedRest
  <2>2. \A o \in ops, q \in ops' \ ops : o.t # q.t
    BY <1>1
  <2>3. \A o, q \in ops' : o.t = q.t => o = q
    BY <1>1, <2>2 DEF OneEach
  <2>4. ASSUME NEW o \in ops'
        PROVE  /\ o.by < next'
               /\ o.by # None => child'[o.by].conn = Owner[o.t]
               /\ o.at = "connecting" => o.by # None
               /\ o.at \in {"refused", "connecting"} => o.kind = "mount"
               /\ o.at = "done" /\ o.kind = "unmount" => via'[o.t] = None
    <3>1. CASE o \in ops
      BY <3>1 DEF OneEach
    <3>2. CASE o \notin ops
      BY <1>1, <1>2, <1>3, <3>2 DEF TypeOK
    <3>3. QED
      BY <3>1, <3>2
  <2>5. QED
    BY <2>1, <2>3, <2>4 DEF OneEach
<1>5. Seen'
  BY <1>1, <1>2 DEF Seen, TypedRest
<1>6. NothingLives'
  <2>1. CASE whole
    <3>1. saving # Nobody
      BY <2>1 DEF NothingLives
    <3>2. ops' = ops
      BY <1>1, <3>1
    <3>3. QED
      BY <3>2 DEF NothingLives
  <2>2. CASE ~whole
    BY <2>2 DEF NothingLives
  <2>3. QED
    BY <2>1, <2>2
<1>7. QED
  BY <1>1, <1>4, <1>5, <1>6

\* A mount or an unmount is asked for while a session exists.
LEMMA Requested ==
  ASSUME TypeOK, NEW t \in Targets, Mount(t) \/ Wait(t)
  PROVE  /\ session' \in [Connections -> Sessions]
         /\ \A d \in Connections \ {Owner[t]} : session'[d] = session[d]
         /\ LET r == session'[Owner[t]]
                s == session[Owner[t]]
            IN /\ r.gen = s.gen /\ r.life = s.life /\ r.config = s.config
               /\ r.by = s.by /\ r.checking = s.checking /\ r.resumed = (s.life = "ready")
<1>1. Owner[t] \in Connections /\ session[Owner[t]] \in Sessions
  BY Fields DEF TypedSessions, TypedRest
<1> DEFINE c == Owner[t]
           R(q, b) == [session[c] EXCEPT !.queued = q, !.resumed = b]
<1>2. \A q, b \in BOOLEAN :
        /\ R(q, b) \in Sessions
        /\ R(q, b).gen = session[c].gen /\ R(q, b).life = session[c].life
        /\ R(q, b).config = session[c].config /\ R(q, b).by = session[c].by
        /\ R(q, b).checking = session[c].checking /\ R(q, b).resumed = b
  BY <1>1 DEF Sessions
<1>3. PICK q \in BOOLEAN, b \in BOOLEAN :
        session' = [session EXCEPT ![c] = R(q, b)] /\ b = (session[c].life = "ready")
  BY <1>1 DEF Mount, Wait, TypeOK, Sessions
<1> HIDE DEF R
<1>4. session'[c] = R(q, b) /\ \A d \in Connections \ {c} : session'[d] = session[d]
  BY <1>1, <1>3 DEF TypeOK
<1>5. QED
  BY <1>1, <1>2, <1>3, <1>4 DEF TypeOK

\* A check begins.
LEMMA Polled ==
  ASSUME TypeOK, OwnTerminal, NEW c \in Connections, Poll(c)
  PROVE  /\ session' \in [Connections -> Sessions]
         /\ \A d \in Connections \ {c} : session'[d] = session[d]
         /\ LET r == session'[c]
                s == session[c]
            IN /\ r.gen = s.gen /\ r.life = s.life /\ r.config = s.config
               /\ r.by = s.by /\ r.resumed = s.resumed /\ r.checking /\ ~s.checking
         /\ \E n \in Checks : /\ n.conn = c /\ n.gen = session[c].gen /\ n.by = None
                              /\ checks' = checks \cup {n}
<1>1. session[c] \in Sessions /\ session[c].gen \in Logins
  BY Fields DEF Poll, OwnTerminal, TypedSessions
<1> DEFINE r == [session[c] EXCEPT !.checking = TRUE]
           n == [conn |-> c, gen |-> session[c].gen, at |-> "asking", by |-> None]
<1>2. /\ r \in Sessions /\ r.gen = session[c].gen /\ r.life = session[c].life
      /\ r.config = session[c].config /\ r.by = session[c].by
      /\ r.resumed = session[c].resumed /\ r.checking
  BY <1>1 DEF Sessions
<1>3. n \in Checks /\ n.conn = c /\ n.gen = session[c].gen /\ n.by = None
  BY <1>1 DEF Checks, Generations
<1>4. /\ session' = [session EXCEPT ![c] = r] /\ checks' = checks \cup {n}
      /\ ~session[c].checking
  BY <1>1 DEF Poll, TypeOK, Sessions
<1> HIDE DEF r, n
<1>5. session'[c] = r /\ \A d \in Connections \ {c} : session'[d] = session[d]
  BY <1>4 DEF TypeOK
<1>6. session' \in [Connections -> Sessions]
  BY <1>2, <1>4 DEF TypeOK
<1>7. QED
  BY <1>2, <1>3, <1>4, <1>5, <1>6

\* A session goes.
LEMMA Gone ==
  ASSUME TypeOK, NEW c \in Connections, session' = [session EXCEPT ![c] = NoSession]
  PROVE  /\ session' \in [Connections -> Sessions]
         /\ \A d \in Connections \ {c} : session'[d] = session[d]
         /\ session'[c].gen = None /\ session'[c].life = "none"
BY DEF TypeOK, NoSession, Sessions, Generations

\* An operation takes its next step; only a mount that connects gets a master.
LEMMA MovedOn ==
  ASSUME TypeOK, OneEach, NEW o \in ops,
         AskForMount(o) \/ CleanForMount(o) \/ Connect(o) \/ UnmountRuns(o)
  PROVE  /\ \/ via' = via
            \/ o.kind = "unmount" /\ via' = [via EXCEPT ![o.t] = None]
            \/ o.kind = "mount" /\ via' = [via EXCEPT ![o.t] = o.by]
         /\ \E n \in Operations :
              /\ n.t = o.t /\ n.kind = o.kind /\ ops' = (ops \ {o}) \cup {n}
              /\ \/ n.by = None
                 \/ n.by = o.by
                 \/ n.by = socket[Owner[o.t]] /\ Answers(Owner[o.t])
              /\ n.at = "connecting" => n.by # None
              /\ n.at \in {"refused", "connecting"} => n.kind = "mount"
              /\ n.at = "done" /\ n.kind = "unmount" => via'[o.t] = None
<1> USE Fields DEF TypedSessions, TypedRest
<1>1. CASE AskForMount(o)
  <2>1. \/ Answers(Owner[o.t]) /\ Moves(o, "connecting", socket[Owner[o.t]])
        \/ Moves(o, "refused", None)
        \/ Moves(o, "failed", None)
    BY <1>1 DEF AskForMount
  <2>2. o.kind = "mount" /\ via' = via /\ None \in Generations
    BY <1>1 DEF AskForMount, Generations
  <2>3. Answers(Owner[o.t]) => socket[Owner[o.t]] # None
    BY DEF Answers
  <2>4. QED
    BY <2>1, <2>2, <2>3, Moved
<1>2. CASE CleanForMount(o)
  <2>1. Moves(o, "failed", None) /\ via' = via /\ None \in Generations
    BY <1>2 DEF CleanForMount, Generations
  <2>2. QED
    BY <2>1, Moved
<1>3. CASE Connect(o)
  <2>1. /\ \/ via' = [via EXCEPT ![o.t] = o.by] /\ Moves(o, "done", o.by)
           \/ via' = via /\ Moves(o, "failed", None)
        /\ o.kind = "mount" /\ None \in Generations
    BY <1>3 DEF Connect, Generations, OneEach
  <2>2. QED
    BY <2>1, Moved
<1>4. CASE UnmountRuns(o)
  <2>1. /\ \/ via' = [via EXCEPT ![o.t] = None] /\ Moves(o, "done", None)
           \/ via' = via /\ Moves(o, "failed", None)
        /\ o.kind = "unmount" /\ None \in Generations
    BY <1>4 DEF UnmountRuns, Generations
  <2>2. via' = [via EXCEPT ![o.t] = None] => via'[o.t] = None
    BY DEF TypeOK
  <2>3. QED
    BY <2>1, <2>2, Moved
<1>5. QED
  BY <1>1, <1>2, <1>3, <1>4

\* An operation that takes its next step keeps what holds of operations.
LEMMA MovedKeeps ==
  ASSUME IInv, NEW o \in ops, UNCHANGED <<next, obs, child, whole, saving>>,
         AskForMount(o) \/ CleanForMount(o) \/ Connect(o) \/ UnmountRuns(o)
  PROVE  /\ ops' \subseteq Operations /\ via' \in [Targets -> Generations]
         /\ OneEach' /\ Seen' /\ NothingLives'
<1> USE DEF IInv
<1>1. PICK n \in Operations :
        /\ n.t = o.t /\ n.kind = o.kind /\ ops' = (ops \ {o}) \cup {n}
        /\ \/ n.by = None
           \/ n.by = o.by
           \/ n.by = socket[Owner[o.t]] /\ Answers(Owner[o.t])
        /\ n.at = "connecting" => n.by # None
        /\ n.at \in {"refused", "connecting"} => n.kind = "mount"
        /\ n.at = "done" /\ n.kind = "unmount" => via'[o.t] = None
  BY MovedOn
<1>2. \/ via' = via
      \/ o.kind = "unmount" /\ via' = [via EXCEPT ![o.t] = None]
      \/ o.kind = "mount" /\ via' = [via EXCEPT ![o.t] = o.by]
  BY MovedOn
<1>3. TypedSessions /\ TypedRest
  BY Fields
<1>4. ops' \subseteq Operations /\ Busy' = Busy
  BY <1>1 DEF TypeOK
<1>5. /\ o.t \in Targets /\ o.by \in Generations /\ o.by < next /\ obs[o.t] = "starting"
      /\ o.by # None => child[o.by].conn = Owner[o.t]
  BY <1>3 DEF OneEach, TypedRest
<1>6. /\ via' \in [Targets -> Generations]
      /\ \A t \in Targets \ {o.t} : via'[t] = via[t]
      /\ via'[o.t] \in {via[o.t], None, o.by}
  BY <1>2, <1>3, <1>5 DEF TypeOK, TypedRest
<1>7. n.by < next /\ (n.by # None => child[n.by].conn = Owner[o.t])
  <2>1. next # None /\ Owner[o.t] \in Connections /\ next \in Nat
    BY <1>3, <1>5 DEF TypeOK, TypedRest, TypedSessions
  <2>2. None < next
    BY <2>1
  <2>3. CASE n.by = socket[Owner[o.t]]
    BY <2>1, <2>3 DEF OwnProcess
  <2>4. QED
    BY <1>1, <1>5, <2>2, <2>3
<1>8. OneEach'
  <2>1. \A p, q \in ops' : p.t = q.t => p = q
    BY <1>1 DEF OneEach
  <2>2. ASSUME NEW p \in ops'
        PROVE  /\ obs'[p.t] = "starting"
               /\ p.by < next'
               /\ p.by # None => child'[p.by].conn = Owner[p.t]
               /\ p.at = "connecting" => p.by # None
               /\ p.at \in {"refused", "connecting"} => p.kind = "mount"
               /\ p.at = "done" /\ p.kind = "unmount" => via'[p.t] = None
    <3>1. CASE p = n
      BY <1>1, <1>5, <1>7, <3>1
    <3>2. CASE p \in ops /\ p # o
      <4>1. via'[p.t] = via[p.t]
        BY <1>3, <1>6, <3>2 DEF OneEach, TypedRest
      <4>2. QED
        BY <3>2, <4>1 DEF OneEach
    <3>3. QED
      BY <1>1, <3>1, <3>2
  <2>3. QED
    BY <2>1, <2>2 DEF OneEach
<1>9. Seen'
  <2>1. ASSUME NEW t \in Targets, t # o.t
        PROVE  /\ via'[t] < next'
               /\ via'[t] # None => child'[via'[t]].conn = Owner[t]
               /\ via'[t] # None /\ t \notin Busy' => obs'[t] # "unmounted"
    BY <1>4, <1>6, <2>1 DEF Seen
  <2>2. via'[o.t] < next' /\ (via'[o.t] # None => child'[via'[o.t]].conn = Owner[o.t])
    <3>1. None < next /\ via[o.t] < next /\ (via[o.t] # None => child[via[o.t]].conn = Owner[o.t])
      BY <1>5 DEF Seen, TypeOK
    <3>2. QED
      BY <1>5, <1>6, <3>1
  <2>3. obs'[o.t] # "unmounted"
    BY <1>5
  <2>4. QED
    BY <2>1, <2>2, <2>3 DEF Seen
<1>10. NothingLives'
  BY <1>4, <1>5, <1>6 DEF NothingLives
<1>11. QED
  BY <1>4, <1>6, <1>8, <1>9, <1>10


-----------------------------------------------------------------------------
(* Every step keeps the invariant                                          *)

\* A mount is only asked for where its session is ready, so it does not wait.
LEMMA MountKeeps ==
  ASSUME IInv, NEW t \in Targets, Mount(t)
  PROVE  IInv'
<1> USE DEF IInv
<1>1. /\ UNCHANGED <<next, pending, shown, saving, whole, saves, config, errors, checks,
                    child, hung, socket, ended, via>>
      /\ saving = Nobody /\ session[Owner[t]].life = "ready" /\ Begin({t})
      /\ wish' = wish \ {t}
  BY DEF Mount, window, saved, mounts, ssh
<1>2. TypedSessions /\ TypedRest
  BY Fields
<1>3. /\ session' \in [Connections -> Sessions] /\ Owner[t] \in Connections
      /\ \A d \in Connections \ {Owner[t]} : session'[d] = session[d]
      /\ LET r == session'[Owner[t]]
             s == session[Owner[t]]
         IN /\ r.gen = s.gen /\ r.life = s.life /\ r.config = s.config
            /\ r.by = s.by /\ r.checking = s.checking /\ r.resumed = (s.life = "ready")
  BY Requested, <1>2 DEF TypedRest
<1>4. \A d \in Connections :
        /\ session'[d].gen = session[d].gen /\ session'[d].life = session[d].life
        /\ session'[d].config = session[d].config /\ session'[d].by = session[d].by
        /\ session'[d].checking = session[d].checking
  BY <1>3
<1>5. /\ ops' \subseteq Operations
      /\ obs' \in [Targets -> {"starting", "mounted", "unmounted", "error"}]
      /\ OneEach' /\ Seen' /\ NothingLives'
  BY <1>1, BeginKeeps
<1>6. TypeOK'
  BY <1>1, <1>3, <1>4, <1>5 DEF TypeOK
<1>7. OwnTerminal'
  BY <1>1, <1>2, <1>3, <1>4, <1>5 DEF OwnTerminal, TypedSessions
<1>8. OwnProcess'
  BY <1>1, <1>2, <1>3, <1>4, <1>5 DEF OwnProcess, TypedSessions
<1>9. OwnAnswer'
  BY <1>1, <1>2, <1>3, <1>4, <1>5 DEF OwnAnswer, TypedSessions, TypedRest
<1>10. Waits'
  BY <1>1, <1>3, <1>4, <1>5 DEF Waits, Waiting
<1>11. Counted'
  BY <1>1 DEF Counted
<1>12. QED
  BY <1>5, <1>6, <1>7, <1>8, <1>9, <1>10, <1>11

\* A mount that waits for a login under way: no session that is ready is concerned.
LEMMA WaitKeeps ==
  ASSUME IInv, NEW t \in Targets, Wait(t)
  PROVE  IInv'
<1> USE DEF IInv
<1>1. /\ UNCHANGED <<next, saving, whole, saves, config, obs, errors, ops, checks, child,
                    hung, socket, ended, via>>
      /\ session[Owner[t]].life = "starting" /\ shown' = Owner[t]
      /\ pending' = pending \cup {t} /\ wish' = wish \cup {t}
  BY DEF Wait, window, saved, mounts, ssh
<1>2. TypedSessions /\ TypedRest
  BY Fields
<1>3. /\ session' \in [Connections -> Sessions] /\ Owner[t] \in Connections
      /\ \A d \in Connections \ {Owner[t]} : session'[d] = session[d]
      /\ LET r == session'[Owner[t]]
             s == session[Owner[t]]
         IN /\ r.gen = s.gen /\ r.life = s.life /\ r.config = s.config
            /\ r.by = s.by /\ r.checking = s.checking /\ r.resumed = (s.life = "ready")
  BY Requested, <1>2 DEF TypedRest
<1>4. \A d \in Connections :
        /\ session'[d].gen = session[d].gen /\ session'[d].life = session[d].life
        /\ session'[d].config = session[d].config /\ session'[d].by = session[d].by
        /\ session'[d].checking = session[d].checking
  BY <1>3
<1>5. TypeOK'
  BY <1>1, <1>3, <1>4 DEF TypeOK
<1>6. OwnTerminal'
  BY <1>1, <1>2, <1>3, <1>4 DEF OwnTerminal, TypedSessions
<1>7. OwnProcess'
  BY <1>1, <1>2, <1>3, <1>4 DEF OwnProcess, TypedSessions
<1>8. OwnAnswer'
  BY <1>1, <1>2, <1>3, <1>4 DEF OwnAnswer, TypedSessions, TypedRest
<1>9. Waits'
  <2>1. ASSUME NEW d \in Connections, session'[d].life = "ready"
        PROVE  Waiting(d)' = {}
    <3>1. d # Owner[t] /\ Waiting(d) = {}
      BY <1>1, <1>4, <2>1 DEF Waits
    <3>2. QED
      BY <1>1, <3>1 DEF Waiting
  <2>2. pending' = wish'
    BY <1>1 DEF Waits
  <2>3. ASSUME NEW d \in Connections
        PROVE  /\ session'[d].life = "ready" => session'[d].by \in {session'[d].gen, None}
               /\ session'[d].life = "starting" => ~session'[d].resumed
    BY <1>1, <1>3, <1>4 DEF Waits
  <2>4. QED
    BY <2>1, <2>2, <2>3 DEF Waits
<1>10. Counted' /\ OneEach' /\ Seen' /\ NothingLives'
  BY <1>1 DEF Counted, OneEach, Seen, NothingLives
<1>11. QED
  BY <1>5, <1>6, <1>7, <1>8, <1>9, <1>10

\* A new terminal gets a generation no process has; what the old one ran is told to end.
LEMMA WaitForNewKeeps ==
  ASSUME IInv, NEW t \in Targets, WaitForNew(t)
  PROVE  IInv'
<1> USE DEF IInv
<1>1. /\ UNCHANGED <<saving, whole, saves, config, obs, errors, ops, checks, socket, ended,
                    via>>
      /\ Open(Owner[t])
      /\ pending' = pending \cup {t} /\ wish' = wish \cup {t}
  BY DEF WaitForNew, window, saved, mounts, ssh
<1>2. TypedSessions /\ TypedRest
  BY Fields
<1>3. /\ next \in Logins /\ next' = next + 1 /\ shown' = Owner[t]
      /\ hung' = hung \cup ({session[Owner[t]].gen} \ {None})
      /\ session' \in [Connections -> Sessions] /\ child' \in [Logins -> Children]
      /\ \A d \in Connections \ {Owner[t]} : session'[d] = session[d]
      /\ \A g \in Logins \ {next} : child'[g] = child[g]
      /\ \/ /\ session'[Owner[t]].gen = next /\ session'[Owner[t]].life = "starting"
            /\ session'[Owner[t]].config = config[Owner[t]] /\ ~session'[Owner[t]].resumed
            /\ child'[next].conn = Owner[t] /\ child'[next].at = "login"
         \/ /\ session'[Owner[t]].gen = None /\ session'[Owner[t]].life = "none"
            /\ child' = child
  BY <1>1, <1>2, Opened DEF TypedRest
<1>4. TypeOK'
  <2>1. hung' \subseteq Logins /\ next' \in 1 .. MaxLogins + 1
    <3>1. hung \subseteq Logins
      BY DEF TypeOK
    <3>2. session[Owner[t]].gen # None => session[Owner[t]].gen \in Logins
      BY <1>2 DEF TypedSessions, TypedRest
    <3>3. hung' \subseteq Logins
      BY <1>3, <3>1, <3>2
    <3>4. next' \in 1 .. MaxLogins + 1
      BY <1>3
    <3>5. QED
      BY <3>3, <3>4
  <2>2. pending' \subseteq Targets /\ wish' \subseteq Targets
    BY <1>1 DEF TypeOK
  <2>3. shown' \in Connections
    BY <1>2, <1>3 DEF TypedRest
  <2>4. QED
    BY <1>1, <1>3, <2>1, <2>2, <2>3 DEF TypeOK
<1>5. OwnTerminal'
  BY <1>1, <1>2, <1>3 DEF OwnTerminal, TypedSessions
<1>6. OwnProcess'
  <2>1. ASSUME NEW g \in Logins, child'[g].at # "none", child'[g] = child[g]
        PROVE  /\ child'[g].conn \in Connections
               /\ g \notin hung' => session'[child'[g].conn].gen = g
    <3>1. /\ child[g].conn \in Connections
          /\ g \notin hung => session[child[g].conn].gen = g
      BY <2>1 DEF OwnProcess
    <3>2. g # None
      BY <1>2 DEF TypedSessions
    <3>3. QED
      BY <1>3, <2>1, <3>1, <3>2
  <2>2. \A g \in Logins : child'[g] = child[g] \/
          (child'[g].conn = Owner[t] /\ session'[Owner[t]].gen = g)
    BY <1>3
  <2>3. Owner[t] \in Connections
    BY <1>2 DEF TypedRest
  <2>4. ASSUME NEW d \in Connections
        PROVE  socket'[d] < next' /\ (socket'[d] # None => child'[socket'[d]].conn = d)
    <3>1. /\ socket'[d] = socket[d] /\ socket[d] < next /\ next \in Nat
          /\ socket[d] \in Nat
          /\ socket[d] # None => socket[d] \in Logins /\ child[socket[d]].conn = d
      BY <1>1, <1>2 DEF OwnProcess, TypedSessions, TypedRest
    <3>2. QED
      BY <1>3, <3>1
  <2>5. QED
    BY <2>1, <2>2, <2>3, <2>4 DEF OwnProcess
<1>7. OwnAnswer'
  <2> SUFFICES ASSUME NEW k \in checks
               PROVE  /\ k.gen < next' /\ child'[k.gen].conn = k.conn
                      /\ session'[k.conn].gen = k.gen => /\ session'[k.conn].checking
                                                        /\ k.by \in {k.gen, None}
    BY <1>1 DEF OwnAnswer
  <2>1. /\ k.gen \in Logins /\ k.conn \in Connections /\ k.gen < next
        /\ child[k.gen].conn = k.conn
        /\ session[k.conn].gen = k.gen => session[k.conn].checking /\ k.by \in {k.gen, None}
    BY <1>2 DEF OwnAnswer, TypedRest
  <2> QED  BY <1>3, <2>1
<1>8. Waits'
  BY <1>1, <1>3 DEF Waits, Waiting
<1>9. OneEach'
  BY <1>1, <1>2, <1>3 DEF OneEach, TypedRest
<1>10. Seen'
  BY <1>1, <1>2, <1>3 DEF Seen, TypedRest
<1>11. Counted' /\ NothingLives'
  BY <1>1 DEF Counted, NothingLives
<1>12. QED
  BY <1>4, <1>5, <1>6, <1>7, <1>8, <1>9, <1>10, <1>11

\* An unmount that begins: its target was not busy, and nothing is being saved.
LEMMA UnmountKeeps ==
  ASSUME IInv, NEW t \in Targets, Unmount(t)
  PROVE  IInv'
<1> USE DEF IInv
<1>1. /\ UNCHANGED <<session, next, pending, shown, saving, whole, saves, config, errors,
                    checks, child, hung, socket, ended, via, wish>>
      /\ saving = Nobody /\ t \notin Busy
      /\ obs' = [obs EXCEPT ![t] = "starting"]
  BY DEF Unmount, window, saved, mounts, ssh
<1>2. TypedSessions /\ TypedRest
  BY Fields
<1>3. PICK n \in Operations :
        /\ n.t = t /\ n.kind = "unmount" /\ n.at = "asking" /\ n.by = None
        /\ ops' = ops \cup {n}
  BY DEF Unmount, Operations, Generations
<1>4. obs' \in [Targets -> {"starting", "mounted", "unmounted", "error"}]
      /\ obs'[t] = "starting" /\ \A u \in Targets \ {t} : obs'[u] = obs[u]
  BY <1>1 DEF TypeOK
<1>5. TypeOK'
  BY <1>1, <1>3, <1>4 DEF TypeOK
<1>6. OneEach'
  <2>1. \A o \in ops : o.t # t /\ obs'[o.t] = "starting"
    BY <1>1, <1>2, <1>4 DEF OneEach, TypedRest
  <2>2. \A o, q \in ops' : o.t = q.t => o = q
    BY <1>3, <2>1 DEF OneEach
  <2>3. ASSUME NEW o \in ops'
        PROVE  /\ obs'[o.t] = "starting"
               /\ o.by < next'
               /\ o.by # None => child'[o.by].conn = Owner[o.t]
               /\ o.at = "connecting" => o.by # None
               /\ o.at \in {"refused", "connecting"} => o.kind = "mount"
               /\ o.at = "done" /\ o.kind = "unmount" => via'[o.t] = None
    <3>1. CASE o \in ops
      BY <1>1, <2>1, <3>1 DEF OneEach
    <3>2. CASE o = n
      BY <1>1, <1>3, <1>4, <3>2 DEF TypeOK
    <3>3. QED
      BY <1>3, <3>1, <3>2
  <2>4. QED
    BY <2>2, <2>3 DEF OneEach
<1>7. Seen'
  BY <1>1, <1>2, <1>3, <1>4 DEF Seen, TypedRest
<1>8. NothingLives'
  BY <1>1, <1>2, <1>3, <1>4 DEF NothingLives, TypedRest
<1>9. Counted' /\ OwnTerminal' /\ OwnProcess' /\ OwnAnswer' /\ Waits'
  BY <1>1 DEF Counted, OwnTerminal, OwnProcess, OwnAnswer, Waits, Waiting
<1>10. QED
  BY <1>5, <1>6, <1>7, <1>8, <1>9

\* A target that is not busy is only seen as unmounted when nothing of it lives.
LEMMA ObserveKeeps ==
  ASSUME IInv, NEW t \in Targets, Observe(t)
  PROVE  IInv'
<1> USE DEF IInv
<1>1. /\ UNCHANGED <<session, next, pending, shown, saving, whole, saves, config, ops,
                    checks, child, hung, socket, ended, via, wish>>
      /\ t \notin Busy
  BY DEF Observe, window, saved, mounts, ssh
<1>2. TypedSessions /\ TypedRest
  BY Fields
<1>3. /\ obs' \in [Targets -> {"starting", "mounted", "unmounted", "error"}]
      /\ \A u \in Targets \ {t} : obs'[u] = obs[u]
      /\ obs'[t] = "unmounted" => via[t] = None
      /\ errors' \in 0 .. MaxErrors
  <2>1. PICK v \in {"mounted", "unmounted", "error"} :
          obs' = [obs EXCEPT ![t] = v] /\ (v = "unmounted" => via[t] = None)
    BY DEF Observe
  <2>2. errors' = errors \/ (errors < MaxErrors /\ errors' = errors + 1)
    BY DEF Observe
  <2>3. QED
    BY <2>1, <2>2 DEF TypeOK
<1>4. TypeOK'
  BY <1>1, <1>3 DEF TypeOK
<1>5. OneEach'
  BY <1>1, <1>2, <1>3 DEF OneEach, TypedRest
<1>6. Seen'
  BY <1>1, <1>2, <1>3 DEF Seen, TypedRest
<1>7. Counted' /\ OwnTerminal' /\ OwnProcess' /\ OwnAnswer' /\ Waits' /\ NothingLives'
  BY <1>1 DEF Counted, OwnTerminal, OwnProcess, OwnAnswer, Waits, NothingLives, Waiting
<1>8. QED
  BY <1>4, <1>5, <1>6, <1>7

\* A session goes, its process is told to end, and its mounts wait no more.
LEMMA EndKeeps ==
  ASSUME IInv, NEW c \in Connections, End(c)
  PROVE  IInv'
<1> USE DEF IInv
<1>1. /\ UNCHANGED <<next, saving, whole, saves, config, obs, errors, ops, checks, child,
                    socket, ended, via>>
      /\ session' = [session EXCEPT ![c] = NoSession]
      /\ pending' = pending \ DirectoriesOf(c) /\ wish' = wish \ DirectoriesOf(c)
      /\ shown' = Nobody
  BY DEF End, window, saved, mounts, ssh
<1>2. TypedSessions /\ TypedRest
  BY Fields
<1>3. /\ session' \in [Connections -> Sessions]
      /\ \A d \in Connections \ {c} : session'[d] = session[d]
      /\ session'[c].gen = None /\ session'[c].life = "none"
  BY <1>1, Gone
<1>4. hung' = hung \cup ({session[c].gen} \ {None}) /\ hung' \subseteq Logins
  <2>1. hung' = hung \cup ({session[c].gen} \ {None})
    BY DEF End, Dropped
  <2>2. hung \subseteq Logins /\ (session[c].gen # None => session[c].gen \in Logins)
    BY <1>2 DEF TypeOK, TypedSessions
  <2>3. QED
    BY <2>1, <2>2
<1>5. TypeOK'
  BY <1>1, <1>3, <1>4 DEF TypeOK
<1>6. OwnTerminal'
  BY <1>1, <1>2, <1>3, <1>4 DEF OwnTerminal, TypedSessions
<1>7. OwnProcess'
  <2>1. ASSUME NEW g \in Logins, child'[g].at # "none"
        PROVE  /\ child'[g].conn \in Connections
               /\ g \notin hung' => session'[child'[g].conn].gen = g
    <3>1. /\ child[g].conn \in Connections
          /\ g \notin hung => session[child[g].conn].gen = g
      BY <1>1, <2>1 DEF OwnProcess
    <3>2. g # None
      BY <1>2 DEF TypedSessions
    <3>3. QED
      BY <1>1, <1>3, <1>4, <2>1, <3>1, <3>2
  <2>2. QED
    BY <1>1, <2>1 DEF OwnProcess
<1>8. OwnAnswer'
  BY <1>1, <1>2, <1>3, <1>4 DEF OwnAnswer, TypedSessions, TypedRest
<1>9. Waits'
  <2>1. pending' = wish' /\ \A d \in Connections : Waiting(d)' \subseteq Waiting(d)
    BY <1>1 DEF Waits, Waiting
  <2>2. QED
    BY <1>3, <2>1 DEF Waits
<1>10. Counted' /\ OneEach' /\ Seen' /\ NothingLives'
  BY <1>1 DEF Counted, OneEach, Seen, NothingLives
<1>11. QED
  BY <1>5, <1>6, <1>7, <1>8, <1>9, <1>10

\* As for WaitForNew; what waits goes on waiting.
LEMMA RetryKeeps ==
  ASSUME IInv, NEW c \in Connections, Retry(c)
  PROVE  IInv'
<1> USE DEF IInv
<1>1. /\ UNCHANGED <<pending, saving, whole, saves, config, obs, errors, ops, checks,
                    socket, ended, via, wish>>
      /\ Open(c)
  BY DEF Retry, window, saved, mounts, ssh
<1>2. TypedSessions /\ TypedRest
  BY Fields
<1>3. /\ next \in Logins /\ next' = next + 1 /\ shown' = c
      /\ hung' = hung \cup ({session[c].gen} \ {None})
      /\ session' \in [Connections -> Sessions] /\ child' \in [Logins -> Children]
      /\ \A d \in Connections \ {c} : session'[d] = session[d]
      /\ \A g \in Logins \ {next} : child'[g] = child[g]
      /\ \/ /\ session'[c].gen = next /\ session'[c].life = "starting"
            /\ session'[c].config = config[c] /\ ~session'[c].resumed
            /\ child'[next].conn = c /\ child'[next].at = "login"
         \/ /\ session'[c].gen = None /\ session'[c].life = "none"
            /\ child' = child
  BY <1>1, <1>2, Opened DEF TypedRest
<1>4. TypeOK'
  <2>1. hung' \subseteq Logins /\ next' \in 1 .. MaxLogins + 1
    <3>1. hung \subseteq Logins
      BY DEF TypeOK
    <3>2. session[c].gen # None => session[c].gen \in Logins
      BY <1>2 DEF TypedSessions, TypedRest
    <3>3. hung' \subseteq Logins
      BY <1>3, <3>1, <3>2
    <3>4. next' \in 1 .. MaxLogins + 1
      BY <1>3
    <3>5. QED
      BY <3>3, <3>4
  <2>2. pending' \subseteq Targets /\ wish' \subseteq Targets
    BY <1>1 DEF TypeOK
  <2>3. shown' \in Connections
    BY <1>2, <1>3 DEF TypedRest
  <2>4. QED
    BY <1>1, <1>3, <2>1, <2>2, <2>3 DEF TypeOK
<1>5. OwnTerminal'
  BY <1>1, <1>2, <1>3 DEF OwnTerminal, TypedSessions
<1>6. OwnProcess'
  <2>1. ASSUME NEW g \in Logins, child'[g].at # "none", child'[g] = child[g]
        PROVE  /\ child'[g].conn \in Connections
               /\ g \notin hung' => session'[child'[g].conn].gen = g
    <3>1. /\ child[g].conn \in Connections
          /\ g \notin hung => session[child[g].conn].gen = g
      BY <2>1 DEF OwnProcess
    <3>2. g # None
      BY <1>2 DEF TypedSessions
    <3>3. QED
      BY <1>3, <2>1, <3>1, <3>2
  <2>2. \A g \in Logins : child'[g] = child[g] \/
          (child'[g].conn = c /\ session'[c].gen = g)
    BY <1>3
  <2>3. c \in Connections
    BY <1>2 DEF TypedRest
  <2>4. ASSUME NEW d \in Connections
        PROVE  socket'[d] < next' /\ (socket'[d] # None => child'[socket'[d]].conn = d)
    <3>1. /\ socket'[d] = socket[d] /\ socket[d] < next /\ next \in Nat
          /\ socket[d] \in Nat
          /\ socket[d] # None => socket[d] \in Logins /\ child[socket[d]].conn = d
      BY <1>1, <1>2 DEF OwnProcess, TypedSessions, TypedRest
    <3>2. QED
      BY <1>3, <3>1
  <2>5. QED
    BY <2>1, <2>2, <2>3, <2>4 DEF OwnProcess
<1>7. OwnAnswer'
  BY <1>1, <1>2, <1>3 DEF OwnAnswer, TypedSessions, TypedRest
<1>8. Waits'
  <2>1. pending' = wish'
    BY <1>1 DEF Waits
  <2>2. ASSUME NEW d \in Connections, d # c
        PROVE  session'[d] = session[d] /\ Waiting(d)' = Waiting(d)
    BY <1>1, <1>3, <2>2 DEF Waiting
  <2>3. session'[c].life # "ready" /\ (session'[c].life = "starting" => ~session'[c].resumed)
    BY <1>3
  <2>4. QED
    BY <2>1, <2>2, <2>3 DEF Waits
<1>9. OneEach'
  BY <1>1, <1>2, <1>3 DEF OneEach, TypedRest
<1>10. Seen'
  BY <1>1, <1>2, <1>3 DEF Seen, TypedRest
<1>11. Counted' /\ NothingLives'
  BY <1>1 DEF Counted, NothingLives
<1>12. QED
  BY <1>4, <1>5, <1>6, <1>7, <1>8, <1>9, <1>10, <1>11

\* A check begins: no other is under way for this terminal.
LEMMA PollKeeps ==
  ASSUME IInv, NEW c \in Connections, Poll(c)
  PROVE  IInv'
<1> USE DEF IInv
<1>1. /\ UNCHANGED <<next, pending, shown, saving, whole, saves, config, obs, errors, ops,
                    child, hung, socket, ended, via, wish>>
      /\ session[c].life = "starting" /\ ~session[c].checking
  BY DEF Poll, window, saved, mounts, ssh
<1>2. TypedSessions /\ TypedRest
  BY Fields
<1>3. /\ session' \in [Connections -> Sessions]
      /\ \A d \in Connections \ {c} : session'[d] = session[d]
      /\ LET r == session'[c]
             s == session[c]
         IN /\ r.gen = s.gen /\ r.life = s.life /\ r.config = s.config
            /\ r.by = s.by /\ r.resumed = s.resumed /\ r.checking /\ ~s.checking
  BY Polled
<1>4. PICK n \in Checks :
        /\ n.conn = c /\ n.gen = session[c].gen /\ n.by = None
        /\ checks' = checks \cup {n}
  BY Polled
<1>5. \A d \in Connections :
        /\ session'[d].gen = session[d].gen /\ session'[d].life = session[d].life
        /\ session'[d].config = session[d].config
        /\ session'[d].by = session[d].by
  BY <1>3
<1>6. \A k \in checks : k.gen # session[c].gen
  <2>1. session[c].gen \in Logins /\ child[session[c].gen].conn = c
    BY <1>1, <1>2 DEF OwnTerminal, TypedSessions
  <2>2. QED
    BY <1>1, <2>1 DEF OwnAnswer
<1>7. TypeOK'
  <2>1. checks' \subseteq Checks /\ \A j, l \in checks' : j.gen = l.gen => j = l
    BY <1>4, <1>6 DEF TypeOK
  <2>2. QED
    BY <1>1, <1>3, <2>1 DEF TypeOK
<1>8. OwnTerminal'
  BY <1>1, <1>2, <1>3, <1>4, <1>5, <1>6 DEF OwnTerminal, TypedSessions
<1>9. OwnProcess'
  BY <1>1, <1>2, <1>3, <1>4, <1>5, <1>6 DEF OwnProcess, TypedSessions
<1>10. OwnAnswer'
  <2>1. ASSUME NEW k \in checks, session'[k.conn].gen = k.gen
        PROVE  session'[k.conn].checking /\ k.by \in {k.gen, None}
    BY <1>2, <1>3, <2>1 DEF OwnAnswer, TypedRest
  <2>2. /\ n.gen < next /\ child[n.gen].conn = n.conn
        /\ session'[n.conn].checking /\ n.by \in {n.gen, None}
    BY <1>1, <1>2, <1>3, <1>4 DEF OwnTerminal, TypedSessions
  <2>3. QED
    BY <1>1, <1>4, <2>1, <2>2 DEF OwnAnswer
<1>11. Waits'
  BY <1>1, <1>3, <1>4, <1>5, <1>6 DEF Waits, Waiting
<1>12. Counted' /\ OneEach' /\ Seen' /\ NothingLives'
  BY <1>1 DEF Counted, OneEach, Seen, NothingLives
<1>13. QED
  BY <1>7, <1>8, <1>9, <1>10, <1>11, <1>12

\* A changed connection loses its session; the save has been counted.
LEMMA EndSaveChangedKeeps ==
  ASSUME IInv, NEW c \in Connections, EndSaveChanged(c)
  PROVE  IInv'
<1> USE DEF IInv
<1>1. /\ UNCHANGED <<next, saves, obs, errors, ops, checks, child, socket, ended, via>>
      /\ session' = [session EXCEPT ![c] = NoSession]
      /\ pending' = pending \ DirectoriesOf(c) /\ wish' = wish \ DirectoriesOf(c)
      /\ saving = c /\ saving' = Nobody /\ whole' = FALSE
      /\ config' = [config EXCEPT ![c] = @ + 1]
      /\ shown' = IF shown = c THEN Nobody ELSE shown
  BY DEF EndSaveChanged, window, saved, mounts, ssh, DropSession
<1>2. TypedSessions /\ TypedRest
  BY Fields
<1>3. /\ session' \in [Connections -> Sessions]
      /\ \A d \in Connections \ {c} : session'[d] = session[d]
      /\ session'[c].gen = None /\ session'[c].life = "none"
  BY <1>1, Gone
<1>4. hung' = hung \cup ({session[c].gen} \ {None}) /\ hung' \subseteq Logins
  <2>1. hung' = hung \cup ({session[c].gen} \ {None})
    BY DEF EndSaveChanged, DropSession, Dropped
  <2>2. hung \subseteq Logins /\ (session[c].gen # None => session[c].gen \in Logins)
    BY <1>2 DEF TypeOK, TypedSessions
  <2>3. QED
    BY <2>1, <2>2
<1>5. TypeOK'
  <2>1. config[c] \in Nat /\ config[c] < saves /\ saves \in 0 .. MaxSaves
    BY <1>1 DEF Counted, TypeOK
  <2>2. config' \in [Connections -> 0 .. MaxSaves]
    BY <1>1, <2>1 DEF TypeOK
  <2>3. /\ pending' \subseteq Targets /\ wish' \subseteq Targets
        /\ shown' \in Connections \cup {Nobody}
    BY <1>1 DEF TypeOK
  <2>4. QED
    BY <1>1, <1>3, <1>4, <2>2, <2>3 DEF TypeOK
<1>6. Counted'
  <2>1. config[c] \in Nat /\ config[c] < saves /\ saves \in Nat
    BY <1>1 DEF Counted, TypeOK
  <2>2. config'[c] = config[c] + 1 /\ \A d \in Connections \ {c} : config'[d] = config[d]
    BY <1>1 DEF TypeOK
  <2>3. QED
    BY <1>1, <2>1, <2>2 DEF Counted
<1>7. OwnTerminal'
  BY <1>1, <1>2, <1>3, <1>4 DEF OwnTerminal, TypedSessions
<1>8. OwnProcess'
  <2>1. ASSUME NEW g \in Logins, child'[g].at # "none"
        PROVE  /\ child'[g].conn \in Connections
               /\ g \notin hung' => session'[child'[g].conn].gen = g
    <3>1. /\ child[g].conn \in Connections
          /\ g \notin hung => session[child[g].conn].gen = g
      BY <1>1, <2>1 DEF OwnProcess
    <3>2. g # None
      BY <1>2 DEF TypedSessions
    <3>3. QED
      BY <1>1, <1>3, <1>4, <2>1, <3>1, <3>2
  <2>2. QED
    BY <1>1, <2>1 DEF OwnProcess
<1>9. OwnAnswer'
  BY <1>1, <1>2, <1>3, <1>4 DEF OwnAnswer, TypedSessions, TypedRest
<1>10. Waits'
  <2>1. pending' = wish' /\ \A d \in Connections : Waiting(d)' \subseteq Waiting(d)
    BY <1>1 DEF Waits, Waiting
  <2>2. QED
    BY <1>3, <2>1 DEF Waits
<1>11. NothingLives'
  BY <1>1, <1>2, <1>3, <1>4 DEF NothingLives, TypedRest
<1>12. OneEach' /\ Seen'
  BY <1>1 DEF OneEach, Seen
<1>13. QED
  BY <1>5, <1>6, <1>7, <1>8, <1>9, <1>10, <1>11, <1>12

\* A save of a whole connection begins when nothing of it is busy or mounted.
LEMMA BeginSaveKeeps ==
  ASSUME IInv, NEW c \in Connections \cup {Another}, BeginSave(c)
  PROVE  IInv'
<1> USE DEF IInv
<1>1. /\ UNCHANGED <<session, next, pending, shown, config, obs, errors, ops, checks, child,
                    hung, socket, ended, via, wish>>
      /\ saving = Nobody /\ saving' = c
      /\ whole' = (c \in Connections /\ CanModify(c))
      /\ saves < MaxSaves /\ saves' = saves + 1
  BY DEF BeginSave, window, saved, mounts, ssh
<1>2. TypedSessions /\ TypedRest
  BY Fields
<1>3. TypeOK'
  <2>1. saves' \in 0 .. MaxSaves /\ whole' \in BOOLEAN /\ saving' \in Connections \cup {Nobody, Another}
    BY <1>1 DEF TypeOK
  <2>2. QED
    BY <1>1, <2>1 DEF TypeOK
<1>4. Counted'
  <2>1. \A d \in Connections : config[d] \in Nat /\ config[d] <= saves /\ saves \in Nat
    BY <1>1 DEF Counted, TypeOK
  <2>2. QED
    BY <1>1, <2>1 DEF Counted
<1>5. NothingLives'
  <2>1. ASSUME whole', NEW t \in DirectoriesOf(c)
        PROVE  t \notin Busy /\ via[t] = None
    <3>1. t \notin Busy /\ obs[t] = "unmounted"
      BY <1>1, <2>1 DEF CanModify
    <3>2. QED
      BY <3>1 DEF Seen
  <2>2. whole' => c \in Connections
    BY <1>1
  <2>3. QED
    BY <1>1, <2>1, <2>2 DEF NothingLives
<1>6. OwnTerminal' /\ OwnProcess' /\ OwnAnswer' /\ Waits' /\ OneEach' /\ Seen'
  BY <1>1 DEF OwnTerminal, OwnProcess, OwnAnswer, Waits, OneEach, Seen, Waiting
<1>7. QED
  BY <1>3, <1>4, <1>5, <1>6

\* A save ends, and changes no session.
LEMMA EndSaveKeeps ==
  ASSUME IInv, EndSave
  PROVE  IInv'
<1> USE DEF IInv
<1>1. /\ UNCHANGED <<session, next, pending, shown, saves, config, obs, errors, ops, checks,
                    child, hung, socket, ended, via, wish>>
      /\ saving' = Nobody /\ whole' = FALSE
  BY DEF EndSave, window, saved, mounts, ssh
<1>2. TypedSessions /\ TypedRest
  BY Fields
<1>3. TypeOK'
  BY <1>1 DEF TypeOK
<1>4. Counted'
  <2>1. \A d \in Connections : config[d] \in Nat /\ config[d] <= saves /\ saves \in Nat
    BY DEF Counted, TypeOK
  <2>2. QED
    BY <1>1, <2>1 DEF Counted
<1>5. NothingLives'
  BY <1>1, <1>2 DEF NothingLives, TypedRest
<1>6. OwnTerminal' /\ OwnProcess' /\ OwnAnswer' /\ Waits' /\ OneEach' /\ Seen'
  BY <1>1 DEF OwnTerminal, OwnProcess, OwnAnswer, Waits, OneEach, Seen, Waiting
<1>7. QED
  BY <1>3, <1>4, <1>5, <1>6

\* Who answers a check, and was not told to end, runs in the present terminal.
LEMMA AskKeeps ==
  ASSUME IInv, NEW k \in checks, Ask(k)
  PROVE  IInv'
<1> USE DEF IInv
<1>1. /\ UNCHANGED <<session, next, pending, shown, saving, whole, saves, config, obs,
                    errors, ops, child, hung, socket, ended, via, wish>>
  BY DEF Ask, window, saved, mounts, ssh
<1>2. TypedSessions /\ TypedRest
  BY Fields
<1>3. PICK n \in Checks :
        /\ n.conn = k.conn /\ n.gen = k.gen
        /\ checks' = (checks \ {k}) \cup {n}
        /\ \/ n.by = None
           \/ Clean(k) /\ n.by = k.by
           \/ /\ n.by = socket[k.conn] /\ Answers(k.conn) /\ n.by \notin hung
  BY Asked
<1>4. n.by \in {None, k.by} \/ (session[k.conn].gen = n.by)
  <2>1. CASE n.by = socket[k.conn] /\ Answers(k.conn) /\ n.by \notin hung
    <3>1. k.conn \in Connections /\ n.by \in Logins /\ child[n.by].at = "master"
      BY <1>2, <2>1 DEF Answers, TypedSessions, TypedRest
    <3>2. child[n.by].conn = k.conn /\ session[child[n.by].conn].gen = n.by
      BY <2>1, <3>1 DEF OwnProcess, Answers
    <3>3. QED
      BY <3>2
  <2>2. QED
    BY <1>3, <2>1
<1>5. TypeOK'
  <2>1. checks' \subseteq Checks /\ \A j, l \in checks' : j.gen = l.gen => j = l
    BY <1>3 DEF TypeOK
  <2>2. QED
    BY <1>1, <2>1 DEF TypeOK
<1>6. OwnAnswer'
  <2>1. ASSUME NEW j \in checks, session[j.conn].gen = j.gen
        PROVE  session[j.conn].checking /\ j.by \in {j.gen, None}
    BY <2>1 DEF OwnAnswer
  <2>2. session[n.conn].gen = n.gen => session[n.conn].checking /\ n.by \in {n.gen, None}
    BY <1>3, <1>4, <2>1
  <2>3. QED
    BY <1>1, <1>3, <2>2 DEF OwnAnswer
<1>7. Counted' /\ OwnTerminal' /\ OwnProcess' /\ Waits' /\ OneEach' /\ Seen' /\
      NothingLives'
  BY <1>1 DEF Counted, OwnTerminal, OwnProcess, Waits, OneEach, Seen, NothingLives, Waiting
<1>8. QED
  BY <1>5, <1>6, <1>7

\* A check that was refused removes the socket, and knows no process.
LEMMA CleanKeeps ==
  ASSUME IInv, NEW k \in checks, Clean(k)
  PROVE  IInv'
<1> USE DEF IInv
<1>1. /\ UNCHANGED <<session, next, pending, shown, saving, whole, saves, config, obs,
                    errors, ops, child, hung, ended, via, wish>>
      /\ socket' = [socket EXCEPT ![k.conn] = None]
  BY DEF Clean, window, saved, mounts, ssh
<1>2. TypedSessions /\ TypedRest
  BY Fields
<1>3. PICK n \in Checks :
        /\ n.conn = k.conn /\ n.gen = k.gen
        /\ checks' = (checks \ {k}) \cup {n}
        /\ \/ n.by = None
           \/ Clean(k) /\ n.by = k.by
           \/ /\ n.by = socket[k.conn] /\ Answers(k.conn) /\ n.by \notin hung
  BY Asked
<1>4. n.by \in {None, k.by} \/ (session[k.conn].gen = n.by)
  <2>1. CASE n.by = socket[k.conn] /\ Answers(k.conn) /\ n.by \notin hung
    <3>1. k.conn \in Connections /\ n.by \in Logins /\ child[n.by].at = "master"
      BY <1>2, <2>1 DEF Answers, TypedSessions, TypedRest
    <3>2. child[n.by].conn = k.conn /\ session[child[n.by].conn].gen = n.by
      BY <2>1, <3>1 DEF OwnProcess, Answers
    <3>3. QED
      BY <3>2
  <2>2. QED
    BY <1>3, <2>1
<1>5. k.conn \in Connections /\ socket' \in [Connections -> Generations]
      /\ \A d \in Connections : socket'[d] \in {socket[d], None}
  BY <1>1, <1>2 DEF TypeOK, TypedRest, Generations
<1>6. TypeOK'
  <2>1. checks' \subseteq Checks /\ \A j, l \in checks' : j.gen = l.gen => j = l
    BY <1>3 DEF TypeOK
  <2>2. QED
    BY <1>1, <1>5, <2>1 DEF TypeOK
<1>7. OwnProcess'
  BY <1>1, <1>2, <1>3, <1>4, <1>5 DEF OwnProcess, TypedSessions
<1>8. OwnAnswer'
  <2>1. ASSUME NEW j \in checks, session[j.conn].gen = j.gen
        PROVE  session[j.conn].checking /\ j.by \in {j.gen, None}
    BY <2>1 DEF OwnAnswer
  <2>2. session[n.conn].gen = n.gen => session[n.conn].checking /\ n.by \in {n.gen, None}
    BY <1>3, <1>4, <2>1
  <2>3. QED
    BY <1>1, <1>3, <2>2 DEF OwnAnswer
<1>9. Counted' /\ OwnTerminal' /\ Waits' /\ OneEach' /\ Seen' /\ NothingLives'
  BY <1>1 DEF Counted, OwnTerminal, Waits, OneEach, Seen, NothingLives, Waiting
<1>10. QED
  BY <1>6, <1>7, <1>8, <1>9

\* The answer about a terminal that is gone is dropped.
LEMMA UnheardKeeps ==
  ASSUME IInv, NEW k \in checks, Unheard(k)
  PROVE  IInv'
<1> USE DEF IInv
<1>1. /\ UNCHANGED <<session, next, pending, shown, saving, whole, saves, config, obs,
                    errors, ops, child, hung, socket, ended, via, wish>>
      /\ checks' = checks \ {k}
  BY DEF Unheard, window, saved, mounts, ssh
<1>2. TypedSessions /\ TypedRest
  BY Fields
<1>3. TypeOK'
  BY <1>1 DEF TypeOK
<1>4. OwnAnswer'
  BY <1>1, <1>2 DEF OwnAnswer, TypedSessions, TypedRest
<1>5. Counted' /\ OwnTerminal' /\ OwnProcess' /\ Waits' /\ OneEach' /\ Seen' /\
      NothingLives'
  BY <1>1 DEF Counted, OwnTerminal, OwnProcess, Waits, OneEach, Seen, NothingLives, Waiting
<1>6. QED
  BY <1>3, <1>4, <1>5

\* The answer about the present terminal: what waited for it begins, and waits no more.
LEMMA ReadinessCheckedKeeps ==
  ASSUME IInv, NEW k \in checks, ReadinessChecked(k)
  PROVE  IInv'
<1> USE DEF IInv
<1>1. /\ UNCHANGED <<next, shown, saving, whole, saves, config, errors, child, hung, socket,
                    ended, via>>
      /\ SameTerminal(k) /\ checks' = checks \ {k}
  BY DEF ReadinessChecked, window, saved, mounts, ssh
<1>2. TypedSessions /\ TypedRest
  BY Fields
<1>3. /\ session' \in [Connections -> Sessions] /\ k.conn \in Connections
      /\ \A d \in Connections \ {k.conn} : session'[d] = session[d]
      /\ session'[k.conn].gen = session[k.conn].gen
      /\ session'[k.conn].config = session[k.conn].config
      /\ ~session'[k.conn].checking
      /\ \/ session'[k.conn].life = session[k.conn].life
         \/ session[k.conn].life = "starting" /\ session'[k.conn].life \in {"failed", "ready"}
  BY <1>2, Heard DEF TypedRest
<1>4. PICK S \in SUBSET pending :
        /\ pending' = pending \ S /\ wish' = wish \ S
        /\ \/ /\ UNCHANGED <<ops, obs>>
              /\ \/ /\ session'[k.conn].life = session[k.conn].life
                    /\ session'[k.conn].by = session[k.conn].by
                    /\ session'[k.conn].resumed = session[k.conn].resumed
                 \/ session'[k.conn].life = "failed"
           \/ /\ session[k.conn].life = "starting" /\ session'[k.conn].life = "ready"
              /\ session'[k.conn].by = k.by
              /\ session[k.conn].resumed \/ S = Waiting(k.conn)
              /\ Begin(IF saving = Nobody THEN S ELSE {})
  <2>1. CASE /\ UNCHANGED <<pending, wish, ops, obs>>
             /\ \/ /\ session'[k.conn].life = session[k.conn].life
                   /\ session'[k.conn].by = session[k.conn].by
                   /\ session'[k.conn].resumed = session[k.conn].resumed
                \/ session'[k.conn].life = "failed"
    <3>1. pending' = pending \ {} /\ wish' = wish \ {}
      BY <2>1
    <3>2. QED
      BY <2>1, <3>1
  <2> DEFINE S == IF session[k.conn].resumed THEN {} ELSE Waiting(k.conn)
  <2>2. CASE /\ session[k.conn].life = "starting" /\ session'[k.conn].life = "ready"
             /\ session'[k.conn].by = k.by
             /\ pending' = pending \ S /\ wish' = wish \ S
             /\ Begin(IF saving = Nobody THEN S ELSE {})
    <3>1. S \subseteq pending /\ (session[k.conn].resumed \/ S = Waiting(k.conn))
      BY DEF Waiting
    <3> HIDE DEF S
    <3>2. QED
      BY <2>2, <3>1
  <2>3. QED
    BY <2>1, <2>2, Heard
<1>5. /\ ops' \subseteq Operations
      /\ obs' \in [Targets -> {"starting", "mounted", "unmounted", "error"}]
      /\ OneEach' /\ Seen' /\ NothingLives'
  <2>1. CASE UNCHANGED <<ops, obs>>
    BY <1>1, <2>1 DEF TypeOK, OneEach, Seen, NothingLives
  <2>2. CASE Begin(IF saving = Nobody THEN S ELSE {})
    <3>1. (IF saving = Nobody THEN S ELSE {}) \in SUBSET Targets
      BY DEF TypeOK
    <3>2. QED
      BY <1>1, <2>2, <3>1, BeginKeeps
  <2>3. QED
    BY <1>4, <2>1, <2>2
<1>6. TypeOK'
  <2>1. checks' \subseteq Checks /\ pending' \subseteq Targets /\ wish' \subseteq Targets
    BY <1>1, <1>4 DEF TypeOK
  <2>2. \A j, l \in checks' : j.gen = l.gen => j = l
    BY <1>1 DEF TypeOK
  <2>3. QED
    BY <1>1, <1>3, <1>5, <2>1, <2>2 DEF TypeOK
<1>7. OwnTerminal'
  <2>1. \A d \in Connections :
          /\ session'[d].gen = session[d].gen /\ session'[d].config = session[d].config
          /\ session'[d].life = "none" <=> session[d].life = "none"
    BY <1>3
  <2>2. QED
    BY <1>1, <2>1 DEF OwnTerminal
<1>8. OwnProcess'
  <2>1. \A d \in Connections : session'[d].gen = session[d].gen
    BY <1>3
  <2>2. QED
    BY <1>1, <2>1 DEF OwnProcess
<1>9. OwnAnswer'
  <2>1. session[k.conn].gen = k.gen
    BY <1>1 DEF SameTerminal
  <2>2. ASSUME NEW j \in checks', session'[j.conn].gen = j.gen
        PROVE  session'[j.conn].checking /\ j.by \in {j.gen, None}
    <3>1. j \in checks /\ j # k /\ j.conn \in Connections
      BY <1>1, <1>2, <2>2 DEF TypedRest
    <3>2. j.conn # k.conn
      BY <1>3, <2>1, <2>2, <3>1 DEF TypeOK
    <3>3. QED
      BY <1>3, <2>2, <3>1, <3>2 DEF OwnAnswer
  <2>3. QED
    BY <1>1, <2>2 DEF OwnAnswer
<1>10. Waits'
  <2>1. pending' = wish' /\ \A d \in Connections : Waiting(d)' \subseteq Waiting(d)
    BY <1>4 DEF Waits, Waiting
  <2>2. ASSUME NEW d \in Connections \ {k.conn}
        PROVE  /\ session'[d].life = "ready" => /\ session'[d].by \in {session'[d].gen, None}
                                                /\ Waiting(d)' = {}
               /\ session'[d].life = "starting" => ~session'[d].resumed
    BY <1>3, <2>1 DEF Waits
  <2>3. CASE /\ session'[k.conn].life = session[k.conn].life
             /\ session'[k.conn].by = session[k.conn].by
             /\ session'[k.conn].resumed = session[k.conn].resumed
    BY <1>3, <2>1, <2>2, <2>3 DEF Waits
  <2>4. CASE session'[k.conn].life = "failed"
    BY <1>3, <2>1, <2>2, <2>4 DEF Waits
  <2>5. CASE /\ session[k.conn].life = "starting" /\ session'[k.conn].life = "ready"
             /\ session'[k.conn].by = k.by
             /\ session[k.conn].resumed \/ S = Waiting(k.conn)
    <3>1. k.by \in {session[k.conn].gen, None} /\ S = Waiting(k.conn)
      BY <1>1, <1>3, <2>5 DEF OwnAnswer, Waits, SameTerminal
    <3>2. Waiting(k.conn)' = {}
      BY <1>4, <3>1 DEF Waiting
    <3>3. QED
      BY <1>3, <2>1, <2>2, <2>5, <3>1, <3>2 DEF Waits
  <2>6. QED
    BY <1>4, <2>3, <2>4, <2>5
<1>11. Counted'
  BY <1>1 DEF Counted
<1>12. QED
  BY <1>5, <1>6, <1>7, <1>8, <1>9, <1>10, <1>11

\* A mount takes the process that answers on the socket of its connection.
LEMMA AskForMountKeeps ==
  ASSUME IInv, NEW o \in ops, AskForMount(o)
  PROVE  IInv'
<1> USE DEF IInv
<1>1. /\ UNCHANGED <<session, next, pending, shown, saving, whole, saves, config, obs,
                    errors, checks, child, hung, socket, ended, wish>>
  BY DEF AskForMount, window, saved, mounts, ssh
<1>2. TypedSessions /\ TypedRest
  BY Fields
<1>3. /\ ops' \subseteq Operations /\ via' \in [Targets -> Generations]
      /\ OneEach' /\ Seen' /\ NothingLives'
  BY <1>1, MovedKeeps
<1>4. TypeOK'
  BY <1>1, <1>3 DEF TypeOK
<1>5. Counted' /\ OwnTerminal' /\ OwnProcess' /\ OwnAnswer' /\ Waits'
  BY <1>1 DEF Counted, OwnTerminal, OwnProcess, OwnAnswer, Waits, Waiting
<1>6. QED
  BY <1>3, <1>4, <1>5

\* A mount that was refused removes the socket of its connection.
LEMMA CleanForMountKeeps ==
  ASSUME IInv, NEW o \in ops, CleanForMount(o)
  PROVE  IInv'
<1> USE DEF IInv
<1>1. /\ UNCHANGED <<session, next, pending, shown, saving, whole, saves, config, obs,
                    errors, checks, child, hung, ended, wish>>
      /\ socket' = [socket EXCEPT ![Owner[o.t]] = None]
  BY DEF CleanForMount, window, saved, mounts, ssh
<1>2. TypedSessions /\ TypedRest
  BY Fields
<1>3. Owner[o.t] \in Connections /\ socket' \in [Connections -> Generations]
      /\ \A d \in Connections : socket'[d] \in {socket[d], None}
  BY <1>1, <1>2 DEF TypeOK, TypedRest
<1>4. /\ ops' \subseteq Operations /\ via' \in [Targets -> Generations]
      /\ OneEach' /\ Seen' /\ NothingLives'
  BY <1>1, MovedKeeps
<1>5. TypeOK'
  BY <1>1, <1>3, <1>4 DEF TypeOK
<1>6. OwnProcess'
  BY <1>1, <1>2, <1>3, <1>4 DEF OwnProcess, TypedSessions
<1>7. Counted' /\ OwnTerminal' /\ OwnAnswer' /\ Waits'
  BY <1>1 DEF Counted, OwnTerminal, OwnAnswer, Waits, Waiting
<1>8. QED
  BY <1>4, <1>5, <1>6, <1>7

\* A mount runs through the process it was given.
LEMMA ConnectKeeps ==
  ASSUME IInv, NEW o \in ops, Connect(o)
  PROVE  IInv'
<1> USE DEF IInv
<1>1. /\ UNCHANGED <<session, next, pending, shown, saving, whole, saves, config, obs,
                    errors, checks, child, hung, socket, ended, wish>>
  BY DEF Connect, window, saved, mounts, ssh
<1>2. TypedSessions /\ TypedRest
  BY Fields
<1>3. /\ ops' \subseteq Operations /\ via' \in [Targets -> Generations]
      /\ OneEach' /\ Seen' /\ NothingLives'
  BY <1>1, MovedKeeps
<1>4. TypeOK'
  BY <1>1, <1>3 DEF TypeOK
<1>5. Counted' /\ OwnTerminal' /\ OwnProcess' /\ OwnAnswer' /\ Waits'
  BY <1>1 DEF Counted, OwnTerminal, OwnProcess, OwnAnswer, Waits, Waiting
<1>6. QED
  BY <1>3, <1>4, <1>5

\* An unmount ends what runs, or fails and changes nothing.
LEMMA UnmountRunsKeeps ==
  ASSUME IInv, NEW o \in ops, UnmountRuns(o)
  PROVE  IInv'
<1> USE DEF IInv
<1>1. /\ UNCHANGED <<session, next, pending, shown, saving, whole, saves, config, obs,
                    errors, checks, child, hung, socket, ended, wish>>
  BY DEF UnmountRuns, window, saved, mounts, ssh
<1>2. TypedSessions /\ TypedRest
  BY Fields
<1>3. /\ ops' \subseteq Operations /\ via' \in [Targets -> Generations]
      /\ OneEach' /\ Seen' /\ NothingLives'
  BY <1>1, MovedKeeps
<1>4. TypeOK'
  BY <1>1, <1>3 DEF TypeOK
<1>5. Counted' /\ OwnTerminal' /\ OwnProcess' /\ OwnAnswer' /\ Waits'
  BY <1>1 DEF Counted, OwnTerminal, OwnProcess, OwnAnswer, Waits, Waiting
<1>6. QED
  BY <1>3, <1>4, <1>5

\* What lives is seen as mounted when its operation is over.
LEMMA MountFinishedKeeps ==
  ASSUME IInv, NEW o \in ops, MountFinished(o)
  PROVE  IInv'
<1> USE DEF IInv
<1>1. /\ UNCHANGED <<session, next, pending, shown, saving, whole, saves, config, errors,
                    checks, child, hung, socket, ended, via, wish>>
      /\ o.at \in {"done", "failed"} /\ ops' = ops \ {o}
  BY DEF MountFinished, window, saved, mounts, ssh
<1>2. TypedSessions /\ TypedRest
  BY Fields
<1>3. /\ obs' \in [Targets -> {"starting", "mounted", "unmounted", "error"}]
      /\ \A t \in Targets \ {o.t} : obs'[t] = obs[t]
      /\ obs'[o.t] = IF o.at = "failed" THEN obs[o.t]
                     ELSE IF o.kind = "mount" THEN "mounted" ELSE "unmounted"
      /\ o.t \in Targets /\ o.kind \in {"mount", "unmount"}
  <2>1. o.t \in Targets /\ o.kind \in {"mount", "unmount"}
    BY DEF TypeOK, Operations
  <2>2. obs' = [obs EXCEPT ![o.t] = IF o.at = "failed" THEN obs[o.t]
                     ELSE IF o.kind = "mount" THEN "mounted" ELSE "unmounted"]
    BY DEF MountFinished
  <2>3. QED
    BY <2>1, <2>2 DEF TypeOK
<1>4. TypeOK'
  BY <1>1, <1>3 DEF TypeOK
<1>5. OneEach'
  BY <1>1, <1>2, <1>3 DEF OneEach, TypedRest
<1>6. Seen'
  <2>1. ASSUME NEW t \in Targets, via[t] # None, t \notin Busy'
        PROVE  obs'[t] # "unmounted"
    <3>1. CASE t = o.t
      BY <1>1, <1>3, <2>1, <3>1 DEF OneEach
    <3>2. CASE t # o.t
      BY <1>1, <1>3, <2>1, <3>2 DEF Seen
    <3>3. QED
      BY <3>1, <3>2
  <2>2. QED
    BY <1>1, <2>1 DEF Seen
<1>7. NothingLives'
  BY <1>1, <1>2, <1>3 DEF NothingLives, TypedRest
<1>8. Counted' /\ OwnTerminal' /\ OwnProcess' /\ OwnAnswer' /\ Waits'
  BY <1>1 DEF Counted, OwnTerminal, OwnProcess, OwnAnswer, Waits, Waiting
<1>9. QED
  BY <1>4, <1>5, <1>6, <1>7, <1>8

\* The process of the present terminal binds the socket, or goes on alone.
LEMMA LoggedInKeeps ==
  ASSUME IInv, NEW g \in Logins, LoggedIn(g)
  PROVE  IInv'
<1> USE DEF IInv
<1>1. /\ UNCHANGED <<session, next, pending, shown, saving, whole, saves, config, obs,
                    errors, ops, checks, hung, ended, via, wish>>
      /\ child[g].at = "login" /\ g \notin hung
  BY DEF LoggedIn, window, saved, mounts, ssh
<1>2. TypedSessions /\ TypedRest
  BY Fields
<1>3. /\ child' \in [Logins -> Children]
      /\ \A h \in Logins \ {g} : child'[h] = child[h]
      /\ child'[g].conn = child[g].conn /\ child[g].at # "none"
  BY Process
<1>4. \A h \in Logins : child'[h].conn = child[h].conn
  BY <1>3
<1>5. /\ socket' \in [Connections -> Generations]
      /\ \A d \in Connections : socket'[d] = socket[d] \/ (socket'[d] = g /\ child[g].conn = d)
      /\ session[child[g].conn].gen = g /\ child[g].conn \in Connections
  <2>1. session[child[g].conn].gen = g /\ child[g].conn \in Connections
    BY <1>1 DEF OwnProcess
  <2>2. g \in Generations /\ socket \in [Connections -> Generations]
    BY <1>2 DEF TypeOK, TypedRest
  <2>3. CASE socket' = socket
    BY <2>1, <2>2, <2>3
  <2>4. CASE socket' = [socket EXCEPT ![child[g].conn] = g]
    BY <2>1, <2>2, <2>4
  <2>5. QED
    BY <2>3, <2>4 DEF LoggedIn
<1>6. TypeOK'
  BY <1>1, <1>3, <1>4, <1>5 DEF TypeOK
<1>7. OwnTerminal'
  <2>1. \A d \in Connections : session[d].gen # None => child'[session[d].gen].conn = child[session[d].gen].conn
    BY <1>2, <1>4 DEF TypedSessions
  <2>2. QED
    BY <1>1, <2>1 DEF OwnTerminal
<1>8. OwnProcess'
  <2>1. \A h \in Logins : child'[h].at # "none" => child[h].at # "none"
    BY <1>3
  <2>2. \A d \in Connections : socket'[d] < next /\ (socket'[d] # None => child[socket'[d]].conn = d)
    <3>1. g < next
      BY <1>5 DEF OwnTerminal
    <3>2. QED
      BY <1>5, <3>1 DEF OwnProcess
  <2>3. \A d \in Connections : socket'[d] # None => socket'[d] \in Logins
    BY <1>2, <1>5 DEF TypedSessions
  <2>4. QED
    BY <1>1, <1>4, <2>1, <2>2, <2>3 DEF OwnProcess
<1>9. OwnAnswer'
  <2>1. \A k \in checks : child'[k.gen].conn = child[k.gen].conn
    BY <1>2, <1>4 DEF TypedRest
  <2>2. QED
    BY <1>1, <2>1 DEF OwnAnswer
<1>10. OneEach'
  <2>1. \A o \in ops : o.by # None => child'[o.by].conn = child[o.by].conn
    BY <1>2, <1>4 DEF TypedRest
  <2>2. QED
    BY <1>1, <2>1 DEF OneEach
<1>11. Seen'
  <2>1. \A t \in Targets : via[t] # None => child'[via[t]].conn = child[via[t]].conn
    BY <1>2, <1>4 DEF TypedRest
  <2>2. QED
    BY <1>1, <2>1 DEF Seen
<1>12. Counted' /\ Waits' /\ NothingLives'
  BY <1>1 DEF Counted, Waits, NothingLives, Waiting
<1>13. QED
  BY <1>6, <1>7, <1>8, <1>9, <1>10, <1>11, <1>12

\* A process ends; its generation is not given again.
LEMMA ChildEndsKeeps ==
  ASSUME IInv, NEW g \in Logins, ChildEnds(g)
  PROVE  IInv'
<1> USE DEF IInv
<1>1. /\ UNCHANGED <<session, next, pending, shown, saving, whole, saves, config, obs,
                    errors, ops, checks, via, wish>>
      /\ hung' = hung \ {g} /\ ended' \in {ended, ended \cup {g}}
      /\ child' = [child EXCEPT ![g].at = "none"]
  BY DEF ChildEnds, window, saved, mounts, ssh
<1>2. TypedSessions /\ TypedRest
  BY Fields
<1>3. /\ child' \in [Logins -> Children]
      /\ \A h \in Logins \ {g} : child'[h] = child[h]
      /\ child'[g].conn = child[g].conn /\ child[g].at # "none"
  BY Process
<1>4. \A h \in Logins : child'[h].conn = child[h].conn
  BY <1>3
<1>5. /\ socket' \in [Connections -> Generations]
      /\ \A d \in Connections : socket'[d] \in {socket[d], None}
      /\ child'[g].at = "none"
  <2>1. socket' = socket \/ (socket[child[g].conn] = g /\ socket' = [socket EXCEPT ![child[g].conn] = None])
    BY DEF ChildEnds
  <2>2. child'[g].at = "none"
    BY <1>1 DEF TypeOK, Children
  <2>3. QED
    BY <1>2, <2>1, <2>2 DEF TypeOK, TypedRest
<1>6. TypeOK'
  BY <1>1, <1>3, <1>4, <1>5 DEF TypeOK
<1>7. OwnTerminal'
  <2>1. \A d \in Connections : session[d].gen # None => child'[session[d].gen].conn = child[session[d].gen].conn
    BY <1>2, <1>4 DEF TypedSessions
  <2>2. QED
    BY <1>1, <2>1 DEF OwnTerminal
<1>8. OwnProcess'
  <2>1. \A h \in Logins : child'[h].at # "none" => child'[h] = child[h] /\ (h \notin hung' => h \notin hung)
    BY <1>1, <1>3, <1>5
  <2>2. \A d \in Connections : socket'[d] < next /\ (socket'[d] # None => child[socket'[d]].conn = d)
    <3>1. None < next
      BY DEF TypeOK
    <3>2. QED
      BY <1>5, <3>1 DEF OwnProcess
  <2>3. \A d \in Connections : socket'[d] # None => socket'[d] \in Logins
    BY <1>2, <1>5 DEF TypedSessions
  <2>4. QED
    BY <1>1, <1>4, <2>1, <2>2, <2>3 DEF OwnProcess
<1>9. OwnAnswer'
  <2>1. \A k \in checks : child'[k.gen].conn = child[k.gen].conn
    BY <1>2, <1>4 DEF TypedRest
  <2>2. QED
    BY <1>1, <2>1 DEF OwnAnswer
<1>10. OneEach'
  <2>1. \A o \in ops : o.by # None => child'[o.by].conn = child[o.by].conn
    BY <1>2, <1>4 DEF TypedRest
  <2>2. QED
    BY <1>1, <2>1 DEF OneEach
<1>11. Seen'
  <2>1. \A t \in Targets : via[t] # None => child'[via[t]].conn = child[via[t]].conn
    BY <1>2, <1>4 DEF TypedRest
  <2>2. QED
    BY <1>1, <2>1 DEF Seen
<1>12. Counted' /\ Waits' /\ NothingLives'
  BY <1>1 DEF Counted, Waits, NothingLives, Waiting
<1>13. QED
  BY <1>6, <1>7, <1>8, <1>9, <1>10, <1>11, <1>12

\* A session whose process ended is neither starting nor ready.
LEMMA EndedKeeps ==
  ASSUME IInv, NEW g \in Logins, Ended(g)
  PROVE  IInv'
<1> USE DEF IInv
<1>1. /\ UNCHANGED <<next, pending, shown, saving, whole, saves, config, obs, errors, ops,
                    checks, child, hung, socket, via, wish>>
      /\ g \in ended /\ ended' = ended \ {g}
  BY DEF Ended, window, saved, mounts, ssh
<1>2. TypedSessions /\ TypedRest
  BY Fields
<1>3. /\ session' \in [Connections -> Sessions]
      /\ \A c \in Connections :
           /\ session'[c].gen = session[c].gen /\ session'[c].config = session[c].config
           /\ session'[c].by = session[c].by /\ session'[c].checking = session[c].checking
           /\ session'[c].life = "exited" \/ session'[c] = session[c]
           /\ session'[c].life = "exited" => session[c].gen = g \/ session[c].life = "exited"
  BY Exited
<1>4. TypeOK'
  BY <1>1, <1>3 DEF TypeOK
<1>5. OwnTerminal'
  <2>1. \A c \in Connections : session'[c].life = "none" <=> session[c].life = "none"
    <3>1. \A c \in Connections : session[c].gen = g => session[c].life # "none"
      BY <1>2 DEF OwnTerminal, TypedSessions
    <3>2. QED
      BY <1>3, <3>1
  <2>2. QED
    BY <1>1, <1>3, <2>1 DEF OwnTerminal
<1>6. OwnProcess'
  BY <1>1, <1>2, <1>3 DEF OwnProcess, TypedSessions
<1>7. OwnAnswer'
  <2>1. \A k \in checks : k.conn \in Connections
    BY <1>2 DEF TypedRest
  <2>2. QED
    BY <1>1, <1>3, <2>1 DEF OwnAnswer
<1>8. Waits'
  <2>1. pending' = wish' /\ \A c \in Connections : Waiting(c)' = Waiting(c)
    BY <1>1 DEF Waits, Waiting
  <2>2. QED
    BY <1>3, <2>1 DEF Waits
<1>9. Counted' /\ OneEach' /\ Seen' /\ NothingLives'
  BY <1>1 DEF Counted, OneEach, Seen, NothingLives
<1>10. QED
  BY <1>4, <1>5, <1>6, <1>7, <1>8, <1>9

-----------------------------------------------------------------------------
(* The invariant                                                           *)

\* Nothing has been opened, asked for or saved at the start.
LEMMA Starts == Init => IInv
<1> SUFFICES ASSUME Init PROVE IInv
  OBVIOUS
<1>1. NoSession \in Sessions /\ NoSession.gen = None /\ NoSession.life = "none"
  BY DEF NoSession, Sessions, Generations
<1>2. TypeOK
  <2>1. session \in [Connections -> Sessions]
    BY <1>1 DEF Init
  <2>2. /\ child \in [Logins -> Children] /\ socket \in [Connections -> Generations]
        /\ via \in [Targets -> Generations] /\ config \in [Connections -> 0 .. MaxSaves]
        /\ obs \in [Targets -> {"starting", "mounted", "unmounted", "error"}]
    BY DEF Init, Children, Generations
  <2>3. next \in 1 .. MaxLogins + 1 /\ saves \in 0 .. MaxSaves /\ errors \in 0 .. MaxErrors
    BY DEF Init
  <2>4. /\ pending = {} /\ ops = {} /\ checks = {} /\ hung = {} /\ ended = {} /\ wish = {}
        /\ shown = Nobody /\ saving = Nobody /\ whole = FALSE
    BY DEF Init
  <2>5. QED
    BY <2>1, <2>2, <2>3, <2>4 DEF TypeOK
<1>3. Counted /\ OwnTerminal /\ OwnProcess /\ OwnAnswer
  BY <1>1 DEF Init, Counted, OwnTerminal, OwnProcess, OwnAnswer
<1>4. Waits /\ OneEach /\ Seen /\ NothingLives
  BY <1>1 DEF Init, Waits, Waiting, OneEach, Seen, NothingLives
<1>5. QED
  BY <1>2, <1>3, <1>4 DEF IInv

\* Every step of the window, the processes and the mounts keeps the invariant.
LEMMA Steps == IInv /\ [Next]_vars => IInv'
<1> SUFFICES ASSUME IInv, [Next]_vars PROVE IInv'
  OBVIOUS
<1>1. ASSUME NEW t \in Targets, Mount(t) \/ Wait(t) \/ WaitForNew(t) \/ Unmount(t) \/ Observe(t)
     PROVE  IInv'
  BY <1>1, MountKeeps, WaitKeeps, WaitForNewKeeps, UnmountKeeps, ObserveKeeps
<1>2. ASSUME NEW c \in Connections, End(c) \/ Retry(c) \/ Poll(c) \/ EndSaveChanged(c)
     PROVE  IInv'
  BY <1>2, EndKeeps, RetryKeeps, PollKeeps, EndSaveChangedKeeps
<1>3. ASSUME NEW c \in Connections \cup {Another}, BeginSave(c) PROVE IInv'
  BY <1>3, BeginSaveKeeps
<1>4. CASE EndSave
  BY <1>4, EndSaveKeeps
<1>5. ASSUME NEW k \in checks, Answer(k) PROVE IInv'
  BY <1>5, AskKeeps, CleanKeeps, UnheardKeeps, ReadinessCheckedKeeps DEF Answer
<1>6. ASSUME NEW o \in ops, Operation(o) PROVE IInv'
  BY <1>6, AskForMountKeeps, CleanForMountKeeps, ConnectKeeps, UnmountRunsKeeps, MountFinishedKeeps DEF Operation
<1>7. ASSUME NEW g \in Logins, LoggedIn(g) \/ ChildEnds(g) \/ Ended(g) PROVE IInv'
  BY <1>7, LoggedInKeeps, ChildEndsKeeps, EndedKeeps
<1>8. CASE UNCHANGED vars
  <2>1. /\ UNCHANGED <<session, next, pending, shown, saving, whole, saves, config, obs, errors>>
        /\ UNCHANGED <<ops, checks, child, hung, socket, ended, via, wish>>
    BY <1>8 DEF vars, window, saved, mounts, ssh
  <2>2. TypeOK' /\ Counted' /\ OwnTerminal' /\ OwnProcess' /\ OwnAnswer'
    BY <2>1 DEF IInv, TypeOK, Counted, OwnTerminal, OwnProcess, OwnAnswer
  <2>3. Waits' /\ OneEach' /\ Seen' /\ NothingLives'
    BY <2>1 DEF IInv, Waits, Waiting, OneEach, Seen, NothingLives
  <2>4. QED
    BY <2>2, <2>3 DEF IInv
<1>9. QED
  BY <1>1, <1>2, <1>3, <1>4, <1>5, <1>6, <1>7, <1>8 DEF Next

\* The invariant holds throughout: the window, the processes in its terminals, the
\* sockets and the mounts under way agree as IInv says, whatever is dropped, ends by
\* itself or answers late.
THEOREM Inductive == Spec => []IInv
<1>1. Init => IInv
  BY Starts
<1>2. IInv /\ [Next]_vars => IInv'
  BY Steps
<1>3. QED
  BY <1>1, <1>2, PTL DEF Spec

\* The fields of App have their types, and no two checks under way are of one terminal.
THEOREM TypeCorrect == Spec => []TypeOK
<1>1. IInv => TypeOK
  BY DEF IInv
<1>2. QED
  BY <1>1, Inductive, PTL

\* A session that counts as ready is a login of its own terminal to the connection as it
\* is saved (InteractiveReadinessChecked compares the generation of the answer).
THEOREM Current == Spec => []ReadyIsCurrent
<1>1. IInv => ReadyIsCurrent
  <2> SUFFICES ASSUME IInv, NEW c \in Connections, session[c].life = "ready"
               PROVE  /\ session[c].by \in {session[c].gen, None}
                      /\ session[c].config = config[c]
    BY DEF ReadyIsCurrent
  <2>1. session[c].by \in {session[c].gen, None}
    BY DEF IInv, Waits
  <2>2. session[c].config = config[c]
    BY DEF IInv, OwnTerminal
  <2>3. QED
    BY <2>1, <2>2
<1>2. QED
  BY <1>1, Inductive, PTL

-----------------------------------------------------------------------------
(* What a step does to a session                                           *)

\* Only the answer to a check makes a session ready.  A login under way or a ready one is
\* only replaced where it can end, or with the whole connection.
LEMMA SessionMoves ==
  ASSUME IInv, [Next]_vars, NEW c \in Connections
  PROVE  \/ /\ session'[c].gen = session[c].gen
            /\ session'[c].life = "ready" => session[c].life = "ready"
         \/ /\ session'[c].gen = session[c].gen
            /\ \E k \in checks : k.conn = c /\ ReadinessChecked(k)
         \/ /\ session'[c].life # "ready"
            /\ \/ session[c].life \in {"none", "exited", "failed"}
               \/ CanEnd(c)
               \/ whole /\ saving = c
<1> DEFINE Goal == \/ /\ session'[c].gen = session[c].gen
                      /\ session'[c].life = "ready" => session[c].life = "ready"
                   \/ /\ session'[c].gen = session[c].gen
                      /\ \E k \in checks : k.conn = c /\ ReadinessChecked(k)
                   \/ /\ session'[c].life # "ready"
                      /\ \/ session[c].life \in {"none", "exited", "failed"}
                         \/ CanEnd(c)
                         \/ whole /\ saving = c
<1>1. TypeOK /\ OwnTerminal /\ TypedSessions /\ TypedRest
  BY Fields DEF IInv
<1>2. session' = session => Goal
  OBVIOUS
<1>3. ASSUME NEW t \in Targets, Mount(t) \/ Wait(t) \/ WaitForNew(t) \/ Unmount(t) \/ Observe(t)
      PROVE  Goal
  <2>1. CASE Mount(t) \/ Wait(t)
    BY <1>1, <2>1, Requested
  <2>2. CASE WaitForNew(t)
    <3>1. /\ Open(Owner[t]) /\ Owner[t] \in Connections
          /\ session[Owner[t]].life \in {"none", "exited", "failed"}
      BY <1>1, <2>2 DEF WaitForNew, TypedRest
    <3>2. QED
      BY <1>1, <3>1, Opened
  <2>3. CASE Unmount(t) \/ Observe(t)
    BY <1>2, <2>3 DEF Unmount, Observe, window
  <2>4. QED
    BY <1>3, <2>1, <2>2, <2>3
<1>4. ASSUME NEW d \in Connections, End(d) \/ Retry(d) \/ Poll(d) \/ EndSaveChanged(d)
      PROVE  Goal
  <2>1. CASE End(d) \/ EndSaveChanged(d)
    <3>1. /\ session' = [session EXCEPT ![d] = NoSession]
          /\ CanEnd(d) \/ (whole /\ saving = d)
      BY <2>1 DEF End, EndSaveChanged, DropSession
    <3>2. QED
      BY <1>1, <3>1, Gone
  <2>2. CASE Retry(d)
    <3>1. Open(d) /\ CanEnd(d)
      BY <2>2 DEF Retry
    <3>2. QED
      BY <1>1, <3>1, Opened
  <2>3. CASE Poll(d)
    BY <1>1, <2>3, Polled
  <2>4. QED
    BY <1>4, <2>1, <2>2, <2>3
<1>5. ASSUME NEW k \in checks, Answer(k)
      PROVE  Goal
  <2>1. CASE ReadinessChecked(k)
    BY <1>1, <2>1, Heard
  <2>2. CASE Ask(k) \/ Clean(k) \/ Unheard(k)
    BY <1>2, <2>2 DEF Ask, Clean, Unheard, window
  <2>3. QED
    BY <1>5, <2>1, <2>2 DEF Answer
<1>6. ASSUME NEW g \in Logins, LoggedIn(g) \/ ChildEnds(g) \/ Ended(g)
      PROVE  Goal
  <2>1. CASE LoggedIn(g) \/ ChildEnds(g)
    BY <1>2, <2>1 DEF LoggedIn, ChildEnds, window
  <2>2. CASE Ended(g)
    BY <1>1, <2>2, Exited
  <2>3. QED
    BY <1>6, <2>1, <2>2
<1>7. ASSUME NEW d \in Connections \cup {Another}, BeginSave(d) \/ EndSave
      PROVE  session' = session
  BY <1>7 DEF BeginSave, EndSave, window
<1>8. ASSUME NEW o \in ops, Operation(o)
      PROVE  session' = session
  BY <1>8 DEF Operation, AskForMount, CleanForMount, Connect, UnmountRuns, MountFinished, window
<1>9. UNCHANGED vars => session' = session
  BY DEF vars, window
<1>10. QED
  BY <1>2, <1>3, <1>4, <1>5, <1>6, <1>7, <1>8, <1>9 DEF Next

\* "The queued mount resumes exactly once" (README.md:362): what waits begins when its
\* session becomes ready, unless the editor is saving, and nothing else begins then.
THEOREM Resumes == Spec => ResumesOnce
<1>1. ASSUME IInv, [Next]_vars, NEW c \in Connections,
             session[c].life = "starting", session'[c].life = "ready"
      PROVE  /\ saving = Nobody => ResumesAt(c)
             /\ {o.t : o \in ops' \ ops} \subseteq wish
  <2>1. PICK k \in checks : k.conn = c /\ ReadinessChecked(k)
    BY <1>1, SessionMoves
  <2>2. ~session[c].resumed /\ pending = wish
    BY <1>1 DEF IInv, Waits
  <2>3. Begin(IF saving = Nobody THEN Waiting(c) ELSE {})
    BY <1>1, <2>1, <2>2, Heard DEF IInv
  <2>4. Waiting(c) = wish \cap DirectoriesOf(c)
    BY <2>2 DEF Waiting
  <2> DEFINE S == IF saving = Nobody THEN Waiting(c) ELSE {}
  <2>5. S \in SUBSET Targets /\ S \subseteq wish
    BY <2>4
  <2>6. /\ \A o \in ops' \ ops : o.t \in S
        /\ \A t \in S : t \in Busy' \/ obs[t] \in {"mounted", "starting"}
    BY <1>1, <2>3, <2>5, Begun DEF IInv
  <2>7. QED
    BY <2>4, <2>5, <2>6 DEF ResumesAt
<1>2. IInv /\ [Next]_vars =>
        [\A c \in Connections :
           /\ saving = Nobody => ResumesAt(c)
           /\ session[c].life = "starting" /\ session'[c].life = "ready" =>
                {o.t : o \in ops' \ ops} \subseteq wish]_vars
  BY <1>1 DEF ResumesAt
<1>3. QED
  BY <1>2, Inductive, PTL DEF Spec, ResumesOnce

\* Ending a session, trying again and saving the connection do not end a login that a
\* mount runs through, unless the window could not look at that mount: what lives is not
\* taken for unmounted, and what is not busy is mounted, unmounted or could not be seen.
THEOREM Kept == Spec => SessionKept
<1>1. ASSUME IInv, [Next]_vars, NEW c \in Connections,
             session[c].life \in {"starting", "ready"}, session'[c].gen # session[c].gen,
             NEW t \in Targets, via[t] = session[c].gen
      PROVE  obs[t] = "error"
  <2>1. via[t] # None /\ child[via[t]].conn = c
    BY <1>1 DEF IInv, OwnTerminal
  <2>2. t \in DirectoriesOf(c)
    BY <1>1, <2>1 DEF IInv, Seen
  <2>3. CASE CanEnd(c)
    <3>1. t \notin Busy /\ obs[t] \notin {"mounted", "starting"}
      BY <2>2, <2>3 DEF CanEnd
    <3>2. obs[t] # "unmounted"
      BY <1>1, <2>1, <3>1 DEF IInv, Seen
    <3>3. QED
      BY <1>1, <3>1, <3>2 DEF IInv, TypeOK
  <2>4. CASE whole /\ saving = c
    BY <1>1, <2>1, <2>2, <2>4 DEF IInv, NothingLives
  <2>5. QED
    BY <1>1, <2>3, <2>4, SessionMoves
<1>2. IInv /\ [Next]_vars =>
        [\A c \in Connections :
           LET g == session[c].gen IN
           session[c].life \in {"starting", "ready"} /\ session'[c].gen # g =>
             \A t \in Targets : via[t] = g /\ child[g].at = "master" => obs[t] = "error"]_vars
  BY <1>1
<1>3. QED
  BY <1>2, Inductive, PTL DEF Spec, SessionKept
=============================================================================
