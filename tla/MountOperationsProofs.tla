----------------------- MODULE MountOperationsProofs ------------------------
(***************************************************************************)
(* Proofs about MountOperations, for any number of targets and             *)
(* connections and every bound.  A handler is a composition of functions   *)
(* on the record of the window, so each of these has a lemma: it turns a   *)
(* good window into a good one.                                            *)
(***************************************************************************)
EXTENDS MountOperations, TLAPS

-----------------------------------------------------------------------------
(* The inductive invariant                                                 *)

\* What a message may still say of the mount of t.
Up(t) == t \in alive \/ unheard[t] = "exit"
Down(t) == t \notin alive \/ unheard[t] = "declined"

\* A target has at most one operation; it is busy while it has one or is being removed,
\* and a removal locks the list.
Exclusive(a) ==
  /\ \A o, p \in a.ops : o.t = p.t => o = p
  /\ \A t \in Targets : t \in a.busy <=> (t \in a.leaving \/ \E o \in a.ops : o.t = t)
  /\ \A o \in a.ops : o.t \notin a.leaving
  /\ a.leaving # {} => a.saving \/ a.listed

\* An operation has put aside what was known of its target, tells the truth when it has
\* ended, and was agreed to if it unmounts.
Operating(a) ==
  \A o \in a.ops :
    /\ a.reading[o.t] = 0 /\ a.feedback[o.t] = NoFeedback
    /\ a.obs[o.t] = "starting" \/ (a.obs[o.t] = "none" /\ Owner[o.t] \notin file)
    /\ o.at = "done" => IF o.kind = "mount" THEN Up(o.t) ELSE Down(o.t)
    /\ o.at = "cancelled" => Down(o.t)
    /\ o.kind = "unmount" => o.why \in {"now", "waited", "synced"}

\* What the window says is true, and of a listed connection that it has not looked at
\* nothing was heard.
Truthful(a) ==
  \A t \in Targets :
    /\ a.obs[t] = "mounted" => Up(t)
    /\ a.obs[t] = "unmounted" => Down(t)
    /\ a.obs[t] = "none" /\ Owner[t] \in file => t \notin alive \/ unheard[t] # "nothing"

\* So is the answer it waits for.
Awaited(a) ==
  \A f \in a.flights :
    a.reading[f.t] = f.req => /\ f.saw = "mounted" => Up(f.t)
                              /\ f.saw = "unmounted" => Down(f.t)

\* Feedback and polls of the same generation are about the mount that lives.
Matching(a) ==
  \A t \in Targets :
    /\ a.feedback[t] # NoFeedback => a.feedback[t].gen # 0
    /\ a.polls[t] # NoPoll => a.polls[t].gen # 0
    /\ a.polls[t].answer = "synced" => a.polls[t].of # "none"
    /\ t \in alive =>
         /\ a.feedback[t].of \subseteq {"this"}
         /\ a.polls[t].answer = "synced" /\ a.polls[t].gen = a.feedback[t].gen =>
              a.polls[t].of = "this"

\* Consent is not carried over from a former mount.
Consented(a) == \A t \in Targets : a.confirmed[t] # "former"

\* A listed connection that is being removed is not known to be mounted.
Departing(a) == \A c \in a.leaving \cap file : c \notin alive \/ unheard[c] # "nothing"

Good(a) ==
  /\ a \in App /\ Exclusive(a) /\ Operating(a) /\ Truthful(a) /\ Awaited(a)
  /\ Matching(a) /\ Consented(a) /\ Departing(a)

\* A command that is held back waits for an operation, and is there to be taken.
Held(a) ==
  /\ \A t \in a.behind : \E o \in a.ops : o.t = t
  /\ \A t \in a.behind : a.queue[t] # "none"

\* The parts that only operations and commands change.
Apart(a, b) ==
  /\ b.ops = a.ops /\ b.busy = a.busy /\ b.queue = a.queue /\ b.behind = a.behind
  /\ b.leaving = a.leaving /\ b.saving = a.saving /\ b.listed = a.listed

\* Forget drops what was known of targets, never more.
LEMMA ForgetGood ==
  ASSUME MountOperationsAssumption, NEW a, Good(a), NEW S \in SUBSET Targets
  PROVE  Good(Forget(a, S)) /\ Apart(a, Forget(a, S)) /\ Forget(a, S).flights = a.flights
<1> DEFINE b == Forget(a, S)
<1>1. a \in App
  BY DEF Good
<1>2. /\ b.feedback = [t \in Targets |-> IF t \in S THEN NoFeedback ELSE a.feedback[t]]
      /\ b.waiting = a.waiting \ S
      /\ b.confirmed = [t \in Targets |-> IF t \in S THEN "no" ELSE a.confirmed[t]]
      /\ Apart(a, b) /\ b.flights = a.flights /\ b.obs = a.obs /\ b.reading = a.reading
      /\ b.polls = a.polls /\ b.targets = a.targets /\ b.dialogs = a.dialogs
  BY <1>1 DEF Forget, Apart, App
<1>3. b \in App
  <2>1. b.feedback \in [Targets -> Feedback]
    BY <1>1, <1>2 DEF App, Feedback, NoFeedback
  <2>2. b.confirmed \in [Targets -> Reasons]
    BY <1>1, <1>2 DEF App, Reasons
  <2>3. QED
    BY <1>1, <2>1, <2>2 DEF App, Forget
<1>4. Exclusive(b) /\ Departing(b)
  BY <1>2 DEF Good, Exclusive, Departing, Apart
<1>5. Operating(b)
  BY <1>1, <1>2 DEF Good, Operating, Apart, App, Operations
<1>6. Truthful(b) /\ Awaited(b)
  BY <1>2 DEF Good, Truthful, Awaited
<1>7. Matching(b) /\ Consented(b)
  BY <1>1, <1>2 DEF Good, Matching, Consented, NoFeedback, NoPoll
<1>8. QED
  BY <1>2, <1>3, <1>4, <1>5, <1>6, <1>7 DEF Good

\* What ShowTargets takes from the list belongs to no listed connection.
LEMMA ShowTargetsGood ==
  ASSUME MountOperationsAssumption, NEW a, Good(a)
  PROVE  /\ Good(ShowTargets(a, file)) /\ Apart(a, ShowTargets(a, file))
         /\ ShowTargets(a, file).flights = a.flights
<1> DEFINE gone == Targets \ DirectoriesOf(file)
           c == Forget(a, gone)
           b == ShowTargets(a, file)
<1>1. Good(c) /\ Apart(a, c) /\ c.flights = a.flights /\ c \in App
  BY ForgetGood DEF Good
<1>2. \A t \in gone : Owner[t] \notin file
  BY DEF DirectoriesOf
<1> HIDE DEF c, gone
<1>3. /\ b.targets = Targets \ gone
      /\ b.obs = [t \in Targets |-> IF t \in gone THEN "none" ELSE c.obs[t]]
      /\ b.reading = [t \in Targets |-> IF t \in gone THEN 0 ELSE c.reading[t]]
      /\ Apart(c, b) /\ b.flights = c.flights /\ b.feedback = c.feedback
      /\ b.polls = c.polls /\ b.confirmed = c.confirmed
  BY <1>1 DEF ShowTargets, Apart, App, c, gone
<1>4. b \in App
  <2>1. b.obs \in [Targets -> Statuses] /\ b.reading \in [Targets -> Requests \cup {0}]
    BY <1>1, <1>3 DEF App, Statuses
  <2>2. QED
    BY <1>1, <2>1 DEF App, ShowTargets, c, gone
<1>5. Exclusive(b) /\ Departing(b) /\ Matching(b) /\ Consented(b)
  BY <1>1, <1>3 DEF Good, Exclusive, Departing, Matching, Consented, Apart
<1>6. Operating(b)
  BY <1>1, <1>2, <1>3 DEF Good, Operating, Apart, App, Operations
<1>7. Truthful(b)
  BY <1>1, <1>2, <1>3 DEF Good, Truthful
<1>8. Awaited(b)
  BY <1>1, <1>3 DEF Good, Awaited, App, Flights, Requests
<1>9. QED
  BY <1>1, <1>3, <1>4, <1>5, <1>6, <1>7, <1>8 DEF Good, Apart

\* Every target has a number for another observation.
Free(a) == \A t \in Targets : FreeRequests(a, t) # {}

\* A new observation has a number that no answer under way has.
LEMMA BeginReadsGood ==
  ASSUME MountOperationsAssumption, NEW a, Good(a), Free(a),
         NEW S \in SUBSET Targets, S \cap a.busy = {}
  PROVE  Good(BeginReads(a, S)) /\ Apart(a, BeginReads(a, S))
<1> DEFINE req == [t \in S |-> CHOOSE r \in FreeRequests(a, t) : TRUE]
           new == {[t |-> t, req |-> req[t], saw |-> "nothing"] : t \in S}
           b == BeginReads(a, S)
<1>1. a \in App
  BY DEF Good
<1>2. \A t \in S : req[t] \in Requests /\ \A f \in a.flights : f.t = t => f.req # req[t]
  BY DEF Free, FreeRequests
<1>3. /\ new \subseteq Flights
      /\ \A f \in new : f.t \in S /\ f.saw = "nothing"
  BY <1>2 DEF Flights, Statuses
<1> HIDE DEF req, new
<1>4. /\ b.flights = a.flights \cup new
      /\ b.reading = [t \in Targets |-> IF t \in S THEN req[t] ELSE a.reading[t]]
      /\ Apart(a, b) /\ b.obs = a.obs /\ b.feedback = a.feedback /\ b.polls = a.polls
      /\ b.confirmed = a.confirmed
  BY <1>1 DEF BeginReads, Apart, App, req, new
<1>5. b \in App
  <2>1. b.reading \in [Targets -> Requests \cup {0}] /\ b.flights \subseteq Flights
    BY <1>1, <1>2, <1>3, <1>4 DEF App
  <2>2. QED
    BY <1>1, <2>1 DEF App, BeginReads, req, new
<1>6. Exclusive(b) /\ Departing(b) /\ Matching(b) /\ Consented(b) /\ Truthful(b)
  BY <1>1, <1>4 DEF Good, Exclusive, Departing, Matching, Consented, Truthful, Apart
<1>7. Operating(b)
  <2>1. \A o \in a.ops : o.t \in Targets /\ o.t \notin S
    BY <1>1 DEF Good, Exclusive, App, Operations
  <2>2. QED
    BY <1>4, <2>1 DEF Good, Operating, Apart
<1>8. Awaited(b)
  <2>1. SUFFICES ASSUME NEW f \in b.flights, b.reading[f.t] = f.req, f.saw # "nothing"
                 PROVE  /\ f.saw = "mounted" => Up(f.t)
                        /\ f.saw = "unmounted" => Down(f.t)
    BY DEF Awaited
  <2>2. f \in a.flights /\ f.t \in Targets
    BY <1>1, <1>3, <1>4, <2>1 DEF App, Flights
  <2>3. f.t \notin S
    BY <1>2, <1>4, <2>1, <2>2
  <2>4. QED
    BY <1>4, <2>1, <2>2, <2>3 DEF Good, Awaited
<1>9. QED
  BY <1>4, <1>5, <1>6, <1>7, <1>8 DEF Good

\* StatusTask leaves busy targets alone.
LEMMA StatusTaskGood ==
  ASSUME MountOperationsAssumption, NEW a, Good(a), Free(a), NEW S \in SUBSET Targets,
         NEW silent \in BOOLEAN, NEW targeted \in BOOLEAN
  PROVE  /\ Good(StatusTask(a, S, silent, targeted))
         /\ Apart(a, StatusTask(a, S, silent, targeted))
<1> DEFINE R == {t \in S : /\ t \notin a.busy
                           /\ silent => a.reading[t] = 0
                           /\ targeted => a.obs[t] \in {"error", "mounted", "starting"}}
<1>1. R \in SUBSET Targets /\ R \cap a.busy = {}
  OBVIOUS
<1>2. StatusTask(a, S, silent, targeted) = BeginReads(a, R)
  BY DEF StatusTask
<1> HIDE DEF R
<1>3. QED
  BY <1>1, <1>2, BeginReadsGood

\* New feedback has a generation that no answer under way has.
LEMMA StartFeedbackGood ==
  ASSUME MountOperationsAssumption, NEW a, Good(a), NEW S \in SUBSET Targets,
         \A t \in S : \A o \in a.ops : o.t # t
  PROVE  /\ Good(StartFeedback(a, S)) /\ Apart(a, StartFeedback(a, S))
         /\ \A t \in S : StartFeedback(a, S).feedback[t].gen # 0
         /\ StartFeedback(a, S).flights = a.flights
         /\ StartFeedback(a, S).polls = a.polls /\ StartFeedback(a, S).obs = a.obs
<1> DEFINE b == StartFeedback(a, S)
           new(t) == [NoFeedback EXCEPT !.gen = NewGen(a, t)]
<1>1. a \in App
  BY DEF Good
<1>2. \A t \in Targets : /\ new(t) \in Feedback /\ new(t).gen # 0 /\ new(t).of = {}
                         /\ new(t).gen # a.polls[t].gen
  BY <1>1 DEF NewGen, NoFeedback, Feedback, App, Polls
<1> HIDE DEF new
<1>3. /\ b.feedback = [t \in Targets |-> IF t \in S /\ a.feedback[t] = NoFeedback
                                         THEN new(t) ELSE a.feedback[t]]
      /\ Apart(a, b) /\ b.flights = a.flights /\ b.obs = a.obs /\ b.reading = a.reading
      /\ b.polls = a.polls /\ b.confirmed = a.confirmed
  BY <1>1 DEF StartFeedback, Apart, App, new
<1>4. b \in App
  <2>1. b.feedback \in [Targets -> Feedback]
    BY <1>1, <1>2, <1>3 DEF App
  <2>2. QED
    BY <1>1, <2>1 DEF App, StartFeedback, new
<1>5. Exclusive(b) /\ Departing(b) /\ Consented(b) /\ Truthful(b) /\ Awaited(b)
  BY <1>1, <1>3 DEF Good, Exclusive, Departing, Consented, Truthful, Awaited, Apart
<1>6. Operating(b)
  <2>1. \A o \in a.ops : o.t \in Targets /\ o.t \notin S
    BY <1>1 DEF App, Operations
  <2>2. QED
    BY <1>3, <2>1 DEF Good, Operating, Apart
<1>7. Matching(b)
  BY <1>1, <1>2, <1>3 DEF Good, Matching
<1>8. \A t \in S : b.feedback[t].gen # 0
  BY <1>2, <1>3 DEF Good, Matching
<1>9. QED
  BY <1>3, <1>4, <1>5, <1>6, <1>7, <1>8 DEF Good

\* What is live has no operation.
LEMMA LiveRests ==
  ASSUME NEW a, Good(a)
  PROVE  Live(a) \in SUBSET Targets /\ \A t \in Live(a) : \A o \in a.ops : o.t # t
<1>1. a \in App
  BY DEF Good
<1>2. \A o \in a.ops : o.t \in Targets /\ o.t \in a.busy
  BY <1>1 DEF Good, Exclusive, App, Operations
<1>3. QED
  BY <1>1, <1>2 DEF Live, App

\* The polls that TransferTask starts are of the feedback they are for.
LEMMA TransferTaskGood ==
  ASSUME MountOperationsAssumption, NEW a, Good(a)
  PROVE  /\ Good(TransferTask(a)) /\ Apart(a, TransferTask(a))
         /\ TransferTask(a).flights = a.flights
<1> DEFINE S == Live(a)
           b == StartFeedback(a, S)
           new == [t \in Targets |-> IF t \in S THEN [NoPoll EXCEPT !.gen = b.feedback[t].gen]
                                     ELSE NoPoll]
           c == [b EXCEPT !.polls = new]
<1>1. /\ Good(b) /\ Apart(a, b) /\ \A t \in S : b.feedback[t].gen # 0
      /\ b.flights = a.flights /\ b \in App
  BY LiveRests, StartFeedbackGood DEF Good
<1>2. TransferTask(a) = IF Polling(a) THEN a ELSE c
  BY DEF TransferTask
<1>3. /\ new \in [Targets -> Polls]
      /\ \A t \in Targets : new[t].answer = "none" /\ (new[t] # NoPoll => new[t].gen # 0)
  BY <1>1 DEF NoPoll, Polls, App, Feedback
<1> HIDE DEF new, b, S
<1>4. /\ Apart(b, c) /\ c.polls = new /\ c.flights = b.flights /\ c.obs = b.obs
      /\ c.reading = b.reading /\ c.feedback = b.feedback /\ c.confirmed = b.confirmed
      /\ c \in App
  BY <1>1, <1>3 DEF Apart, App
<1> HIDE DEF c
<1>5. /\ Exclusive(c) /\ Departing(c) /\ Consented(c) /\ Truthful(c) /\ Awaited(c)
      /\ Operating(c)
  BY <1>1, <1>4
     DEF Good, Exclusive, Departing, Consented, Truthful, Awaited, Operating, Apart
<1>6. Matching(c)
  BY <1>1, <1>3, <1>4 DEF Good, Matching
<1>7. Good(c) /\ Apart(a, c) /\ c.flights = a.flights
  BY <1>1, <1>4, <1>5, <1>6 DEF Good, Apart
<1>8. QED
  BY <1>2, <1>7 DEF Apart

\* CapacityTask starts the feedback of what is live.
LEMMA CapacityTaskGood ==
  ASSUME MountOperationsAssumption, NEW a, Good(a), NEW idle \in BOOLEAN
  PROVE  /\ Good(CapacityTask(a, idle)) /\ Apart(a, CapacityTask(a, idle))
         /\ CapacityTask(a, idle).flights = a.flights
         /\ CapacityTask(a, idle).obs = a.obs
  BY LiveRests, StartFeedbackGood DEF CapacityTask, Apart

\* What begins has nothing in its way, and an unmount has the consent to it.
LEMMA StartGood ==
  ASSUME MountOperationsAssumption, NEW a, Good(a), NEW S \in SUBSET Targets,
         NEW kind \in {"mount", "unmount"}
  PROVE  /\ Good(Start(a, S, kind))
         /\ Held(a) => Held(Start(a, S, kind))
<1> DEFINE ask == {t \in S : kind = "unmount" /\ Unsafe(a, t)}
           go == {t \in (S \ ask) \ InTheWay(a, S) :
                    a.obs[t] \notin (IF kind = "mount" THEN {"mounted", "starting"}
                                     ELSE {"unmounted"})}
           why(t) == IF Synced(a, t) THEN "synced" ELSE a.confirmed[t]
           asked == [a EXCEPT
             !.dialogs = @ \cup {[about |-> {t}, sure |-> FALSE] : t \in ask},
             !.confirmed = [t \in Targets |->
               IF t \in S /\ kind = "unmount" THEN "no"
               ELSE IF t \in go /\ @[t] # "no" THEN "former" ELSE @[t]]]
           f == Forget(asked, go)
           new == {[t |-> t, kind |-> kind, why |-> why(t),
                    at |-> IF kind = "mount" /\ t \notin a.targets
                           THEN "failed" ELSE "running"] : t \in go}
           b == [f EXCEPT
             !.busy = @ \cup go,
             !.reading = [t \in Targets |-> IF t \in go THEN 0 ELSE @[t]],
             !.obs = [t \in Targets |-> IF t \in go THEN "starting" ELSE @[t]],
             !.ops = @ \cup new]
<1>1. Start(a, S, kind) = IF a.saving THEN a ELSE b
  BY DEF Start
<1>2. a \in App /\ go \subseteq Targets /\ go \cap a.busy = {}
  BY DEF Good, InTheWay
<1>3. \A t \in go : /\ why(t) \in Reasons \cup {"synced"}
                    /\ kind = "unmount" => why(t) \in {"now", "waited", "synced"}
  BY <1>2 DEF Good, Consented, App, Reasons, Unsafe
<1>4. /\ new \subseteq Operations
      /\ \A o \in new : /\ o.t \in go /\ o.kind = kind /\ o.at \in {"running", "failed"}
                        /\ kind = "unmount" => o.why \in {"now", "waited", "synced"}
      /\ \A o, p \in new : o.t = p.t => o = p
      /\ \A t \in go : \E o \in new : o.t = t
  <2> DEFINE rec(t) == [t |-> t, kind |-> kind, why |-> why(t),
                        at |-> IF kind = "mount" /\ t \notin a.targets
                               THEN "failed" ELSE "running"]
  <2>1. \A t \in go : /\ rec(t) \in Operations
                      /\ rec(t).t = t /\ rec(t).kind = kind /\ rec(t).why = why(t)
                      /\ rec(t).at \in {"running", "failed"}
    BY <1>2, <1>3 DEF Operations
  <2>2. new = {rec(t) : t \in go}
    OBVIOUS
  <2> HIDE DEF rec, why, go, new
  <2>3. QED
    BY <1>3, <2>1, <2>2
<1>5. ask \subseteq Targets
  OBVIOUS
<1> HIDE DEF why, new, go, ask
<1>6. /\ f.feedback = [t \in Targets |-> IF t \in go THEN NoFeedback ELSE a.feedback[t]]
      /\ \A t \in Targets : f.confirmed[t] = "no" \/ f.confirmed[t] = a.confirmed[t]
      /\ f.ops = a.ops /\ f.busy = a.busy /\ f.queue = a.queue /\ f.behind = a.behind
      /\ f.leaving = a.leaving /\ f.saving = a.saving /\ f.listed = a.listed
      /\ f.obs = a.obs /\ f.reading = a.reading /\ f.flights = a.flights /\ f.polls = a.polls
  BY <1>2 DEF Forget, App
<1>7. f \in App
  <2>1. asked \in App
    <3>1. {[about |-> {t}, sure |-> FALSE] : t \in ask} \subseteq Dialogs
      <4>1. \A t \in Targets : [about |-> {t}, sure |-> FALSE] \in Dialogs
        BY DEF Dialogs
      <4>2. QED
        BY <1>5, <4>1
    <3>2. asked.confirmed \in [Targets -> Reasons]
      BY <1>2 DEF App, Reasons
    <3>3. QED
      BY <1>2, <3>1, <3>2 DEF App
  <2>2. f.feedback \in [Targets -> Feedback]
    <3>1. NoFeedback \in Feedback
      BY DEF Feedback, NoFeedback
    <3>2. a.feedback \in [Targets -> Feedback]
      BY <1>2 DEF App
    <3>3. f.feedback = [t \in Targets |-> IF t \in go THEN NoFeedback ELSE a.feedback[t]]
      BY <1>6
    <3>4. QED
      BY <3>1, <3>2, <3>3
  <2>3. f.confirmed \in [Targets -> Reasons]
    BY <2>1 DEF Forget, App, Reasons
  <2>4. QED
    BY <2>1, <2>2, <2>3 DEF Forget, App
<1> HIDE DEF f
<1>8. /\ b.busy = a.busy \cup go /\ b.ops = a.ops \cup new
      /\ b.reading = [t \in Targets |-> IF t \in go THEN 0 ELSE a.reading[t]]
      /\ b.obs = [t \in Targets |-> IF t \in go THEN "starting" ELSE a.obs[t]]
      /\ b.feedback = f.feedback /\ b.confirmed = f.confirmed /\ b.polls = a.polls
      /\ b.flights = a.flights /\ b.queue = a.queue /\ b.behind = a.behind
      /\ b.leaving = a.leaving /\ b.saving = a.saving /\ b.listed = a.listed
  BY <1>6, <1>7 DEF App
<1>9. b \in App
  <2>1. /\ b.reading \in [Targets -> Requests \cup {0}] /\ b.obs \in [Targets -> Statuses]
        /\ b.ops \subseteq Operations /\ b.busy \subseteq Targets
    BY <1>2, <1>4, <1>8 DEF App, Statuses
  <2>2. QED
    BY <1>7, <2>1 DEF App
<1> HIDE DEF b
<1>10. \A o \in a.ops : o.t \in Targets /\ o.t \notin go
  BY <1>2 DEF Good, Exclusive, App, Operations
<1>11. Exclusive(b)
  <2>1. /\ \A o, p \in b.ops : o.t = p.t => o = p
        /\ \A o \in b.ops : o.t \notin b.leaving
        /\ b.leaving # {} => b.saving \/ b.listed
    BY <1>2, <1>4, <1>8, <1>10 DEF Good, Exclusive, App
  <2>2. \A t \in Targets : t \in b.busy <=> (t \in b.leaving \/ \E o \in b.ops : o.t = t)
    BY <1>4, <1>8 DEF Good, Exclusive
  <2>3. QED
    BY <2>1, <2>2 DEF Exclusive
<1>12. Operating(b)
  <2>1. ASSUME NEW o \in a.ops
        PROVE  /\ b.reading[o.t] = a.reading[o.t] /\ b.feedback[o.t] = a.feedback[o.t]
               /\ b.obs[o.t] = a.obs[o.t]
    BY <1>6, <1>8, <1>10, <2>1
  <2>2. ASSUME NEW o \in new
        PROVE  b.reading[o.t] = 0 /\ b.feedback[o.t] = NoFeedback /\ b.obs[o.t] = "starting"
    BY <1>2, <1>4, <1>6, <1>8, <2>2
  <2>3. QED
    BY <1>4, <1>8, <2>1, <2>2 DEF Good, Operating
<1>13. Truthful(b)
  BY <1>8 DEF Good, Truthful
<1>14. Awaited(b)
  BY <1>2, <1>8 DEF Good, Awaited, App, Flights, Requests
<1>15. Matching(b)
  BY <1>2, <1>6, <1>8 DEF Good, Matching, NoFeedback, NoPoll
<1>16. Consented(b) /\ Departing(b)
  BY <1>6, <1>8 DEF Good, Consented, Departing
<1>17. Held(a) => Held(b)
  BY <1>8 DEF Held
<1>18. QED
  BY <1>1, <1>9, <1>11, <1>12, <1>13, <1>14, <1>15, <1>16, <1>17 DEF Good

\* A command for a busy target waits, whatever makes it busy.
LEMMA MountCommandGood ==
  ASSUME MountOperationsAssumption, NEW a, Good(a), NEW S \in SUBSET Targets,
         NEW kind \in {"mount", "unmount"}
  PROVE  /\ Good(MountCommand(a, S, kind))
         /\ Held(a) => Held(MountCommand(a, S, kind))
<1> DEFINE held == S \cap a.busy
           b == [a EXCEPT
             !.queue = [t \in Targets |-> IF t \in held THEN kind ELSE @[t]],
             !.behind = (@ \ held) \cup {t \in held : \E o \in a.ops : o.t = t}]
<1>1. a \in App /\ held \subseteq Targets
  BY DEF Good
<1> HIDE DEF held
<1>2. /\ b.queue = [t \in Targets |-> IF t \in held THEN kind ELSE a.queue[t]]
      /\ b.behind = (a.behind \ held) \cup {t \in held : \E o \in a.ops : o.t = t}
      /\ b.ops = a.ops /\ b.busy = a.busy /\ b.obs = a.obs /\ b.reading = a.reading
      /\ b.feedback = a.feedback /\ b.polls = a.polls /\ b.confirmed = a.confirmed
      /\ b.flights = a.flights /\ b.leaving = a.leaving /\ b.saving = a.saving
      /\ b.listed = a.listed
  BY <1>1 DEF App
<1>3. b \in App
  <2>1. b.queue \in [Targets -> {"none", "mount", "unmount"}] /\ b.behind \subseteq Targets
    BY <1>1, <1>2 DEF App
  <2>2. QED
    BY <1>1, <2>1 DEF App
<1>4. MountCommand(a, S, kind) = Start(b, S \ held, kind)
  BY DEF MountCommand, held
<1> HIDE DEF b
<1>5. Good(b)
  BY <1>2, <1>3
     DEF Good, Exclusive, Operating, Truthful, Awaited, Matching, Consented, Departing
<1>6. Held(a) => Held(b)
  BY <1>1, <1>2 DEF Held, App
<1>7. QED
  BY <1>4, <1>5, <1>6, StartGood

\* What has waited for t is taken, once t is not busy.
LEMMA TakePendingGood ==
  ASSUME MountOperationsAssumption, NEW a, Good(a), NEW t \in Targets,
         \A x \in a.behind : a.queue[x] # "none" /\ (x = t \/ \E o \in a.ops : o.t = x)
  PROVE  Good(TakePending(a, t)) /\ Held(TakePending(a, t))
<1> DEFINE b == [a EXCEPT !.queue[t] = "none", !.behind = @ \ {t}]
<1>1. a \in App
  BY DEF Good
<1>2. CASE a.queue[t] = "none"
  <2>1. TakePending(a, t) = a
    BY <1>2 DEF TakePending
  <2>2. Held(a)
    BY <1>2 DEF Held
  <2>3. QED
    BY <2>1, <2>2
<1>3. CASE a.queue[t] # "none"
  <2>1. TakePending(a, t) = MountCommand(b, {t}, a.queue[t])
    BY <1>3 DEF TakePending
  <2>2. a.queue[t] \in {"mount", "unmount"}
    BY <1>1, <1>3 DEF App
  <2>3. /\ b.queue = [a.queue EXCEPT ![t] = "none"] /\ b.behind = a.behind \ {t}
        /\ b.ops = a.ops /\ b.busy = a.busy /\ b.obs = a.obs /\ b.reading = a.reading
        /\ b.feedback = a.feedback /\ b.polls = a.polls /\ b.confirmed = a.confirmed
        /\ b.flights = a.flights /\ b.leaving = a.leaving /\ b.saving = a.saving
        /\ b.listed = a.listed
    BY <1>1 DEF App
  <2>4. b \in App
    BY <1>1 DEF App
  <2> HIDE DEF b
  <2>5. Good(b)
    BY <2>3, <2>4
       DEF Good, Exclusive, Operating, Truthful, Awaited, Matching, Consented, Departing
  <2>6. Held(b)
    BY <1>1, <2>3 DEF Held, App
  <2>7. QED
    BY <2>1, <2>2, <2>5, <2>6, MountCommandGood
<1>4. QED
  BY <1>2, <1>3

\* An answer is taken for the read it belongs to.
LEMMA AcceptGood ==
  ASSUME MountOperationsAssumption, NEW a, Good(a), NEW f \in a.flights, f.saw # "nothing"
  PROVE  /\ a \in App /\ f \in Flights
         /\ Accept(a, f) \in App /\ Apart(a, Accept(a, f))
         /\ Good(Accept(a, f))
         /\ Accepted(a, f) => f.t \notin a.busy /\ Accept(a, f).obs[f.t] # "none"
<1> DEFINE b == [a EXCEPT !.flights = @ \ {f}, !.reading[f.t] = IF @ = f.req THEN 0 ELSE @]
           c == [b EXCEPT !.obs[f.t] = f.saw]
<1>1. a \in App /\ f \in Flights /\ f.t \in Targets /\ f.saw \in Statuses \ {"none"}
      /\ f.req \in Requests
  BY DEF Good, App, Flights
<1>2. /\ b.flights = a.flights \ {f}
      /\ \A t \in Targets : b.reading[t] = a.reading[t] \/ b.reading[t] = 0
      /\ Apart(a, b) /\ b.obs = a.obs /\ b.feedback = a.feedback /\ b.polls = a.polls
      /\ b.confirmed = a.confirmed
  BY <1>1 DEF App, Apart
<1>3. b \in App
  BY <1>1 DEF App
<1>4. Good(b)
  <2>1. Exclusive(b) /\ Truthful(b) /\ Matching(b) /\ Consented(b) /\ Departing(b)
    BY <1>2 DEF Good, Exclusive, Truthful, Matching, Consented, Departing, Apart
  <2>2. Operating(b)
    BY <1>1, <1>2 DEF Good, Operating, Apart, App, Operations
  <2>3. Awaited(b)
    BY <1>1, <1>2 DEF Good, Awaited, App, Flights, Requests
  <2>4. QED
    BY <1>3, <2>1, <2>2, <2>3 DEF Good
<1>5. ASSUME Accepted(a, f)
      PROVE  Good(c) /\ Apart(a, c) /\ f.t \notin a.busy /\ c.obs[f.t] # "none" /\ c \in App
  <2>1. f.t \notin a.busy /\ a.reading[f.t] = f.req
    BY <1>5 DEF Accepted
  <2>2. /\ (f.saw = "mounted" => Up(f.t)) /\ (f.saw = "unmounted" => Down(f.t))
    BY <2>1 DEF Good, Awaited
  <2>3. /\ c.obs = [a.obs EXCEPT ![f.t] = f.saw]
        /\ Apart(b, c) /\ c.flights = b.flights /\ c.reading = b.reading
        /\ c.feedback = b.feedback /\ c.polls = b.polls /\ c.confirmed = b.confirmed
        /\ c \in App
    BY <1>1, <1>2, <1>3 DEF App, Apart
  <2> HIDE DEF b, c
  <2>4. \A o \in c.ops : c.obs[o.t] = b.obs[o.t]
    BY <1>1, <1>2, <2>1, <2>3 DEF Good, Exclusive, Apart, App, Operations
  <2>5. Exclusive(c) /\ Awaited(c) /\ Matching(c) /\ Consented(c) /\ Departing(c)
    BY <1>4, <2>3 DEF Good, Exclusive, Awaited, Matching, Consented, Departing, Apart
  <2>6. Operating(c)
    BY <1>4, <2>3, <2>4 DEF Good, Operating, Apart
  <2>7. Truthful(c)
    BY <1>1, <1>2, <1>4, <2>2, <2>3 DEF Good, Truthful, App
  <2>8. c.obs[f.t] # "none"
    BY <1>1, <2>3 DEF App
  <2>9. QED
    BY <1>2, <2>1, <2>3, <2>5, <2>6, <2>7, <2>8 DEF Good, Apart
<1>6. /\ Good(Forget(c, {f.t})) \/ ~Good(c)
      /\ Apart(c, Forget(c, {f.t})) \/ ~Good(c)
  BY <1>1, ForgetGood
<1>7. c \in App => Forget(c, {f.t}).obs = c.obs
  BY DEF Forget, App
<1>8. Accept(a, f) = IF ~Accepted(a, f) THEN b
                     ELSE IF f.saw \in {"unmounted", "stale"} THEN Forget(c, {f.t}) ELSE c
  BY DEF Accept
<1> HIDE DEF b, c
<1>9. QED
  BY <1>1, <1>2, <1>3, <1>4, <1>5, <1>6, <1>7, <1>8 DEF Good, Apart

-----------------------------------------------------------------------------
(* The handlers                                                            *)

Kinds == {"none", "mount", "unmount"}

Rest ==
  /\ file \subseteq Connections /\ alive \subseteq Targets
  /\ unheard \in [Targets -> {"nothing", "unseen", "exit", "declined"}]

IInv == Good(app) /\ Held(app) /\ Rest

\* b differs from a in what is asked, waited for and agreed to, at most.
Alike(a, b) ==
  /\ b \in App /\ Apart(a, b) /\ b.obs = a.obs /\ b.reading = a.reading
  /\ b.flights = a.flights /\ b.feedback = a.feedback /\ b.polls = a.polls

\* Dialogs and waiting, and consent given now, disturb nothing.
LEMMA AlikeGood ==
  ASSUME NEW a, NEW b, Good(a), Alike(a, b), Consented(b)
  PROVE  Good(b) /\ (Held(a) => Held(b))
  BY DEF Alike, Good, Held, Exclusive, Operating, Truthful, Awaited, Matching, Departing, Apart

\* Most handlers change nothing but the window.
LEMMA Handled ==
  ASSUME Rest, NEW a, Good(a), Held(a), app' = a, UNCHANGED <<file, alive, unheard>>
  PROVE  IInv'
<1>1. Good(app)'
  <2>1. /\ (a \in App)' /\ Exclusive(app)' /\ Matching(app)' /\ Consented(app)'
        /\ Departing(app)'
    BY DEF Good, Exclusive, Matching, Consented, Departing
  <2>2. Operating(app)' /\ Truthful(app)' /\ Awaited(app)'
    BY DEF Good, Operating, Truthful, Awaited, Up, Down
  <2>3. QED
    BY <2>1, <2>2 DEF Good
<1>2. Held(app)' /\ Rest'
  BY DEF Held, Rest
<1>3. QED
  BY <1>1, <1>2 DEF IInv

\* A question that is asked.
LEMMA AskGood ==
  ASSUME NEW a, Good(a), NEW S \in SUBSET Targets
  PROVE  Good(Ask(a, S)) /\ (Held(a) => Held(Ask(a, S)))
<1> DEFINE b == [a EXCEPT !.dialogs = @ \cup {[about |-> S, sure |-> FALSE]}]
<1>1. a \in App /\ [about |-> S, sure |-> FALSE] \in Dialogs
  BY DEF Good, Dialogs
<1>2. Alike(a, b) /\ b.confirmed = a.confirmed
  BY <1>1 DEF App, Apart, Alike
<1> HIDE DEF b
<1>3. Consented(b)
  BY <1>2 DEF Good, Consented
<1>4. Good(b) /\ (Held(a) => Held(b))
  BY <1>2, <1>3, AlikeGood
<1>5. Ask(a, S) = IF S = {} THEN a ELSE b
  BY DEF Ask, b
<1>6. QED
  BY <1>4, <1>5

\* MountRequested and RetryOperation.
LEMMA RequestKeeps ==
  ASSUME MountOperationsAssumption, IInv, NEW t \in Targets,
         NEW kind \in {"mount", "unmount"}, Request(t, kind)
  PROVE  IInv'
<1>1. Good(Start(app, {t}, kind)) /\ Held(Start(app, {t}, kind))
  BY StartGood DEF IInv
<1>2. QED
  BY <1>1, Handled DEF IInv, Request

\* BatchMountSelected, MountAll and the commands that name a target.
LEMMA CommandKeeps ==
  ASSUME MountOperationsAssumption, IInv, NEW S \in SUBSET Targets,
         NEW kind \in {"mount", "unmount"}, Command(S, kind)
  PROVE  IInv'
<1>1. Good(MountCommand(app, S, kind)) /\ Held(MountCommand(app, S, kind))
  BY MountCommandGood DEF IInv
<1>2. QED
  BY <1>1, Handled DEF IInv, Command

\* BatchUnmountSelected and UnmountAll.
LEMMA UnmountManyKeeps ==
  ASSUME MountOperationsAssumption, IInv, NEW S \in SUBSET Targets, UnmountMany(S)
  PROVE  IInv'
<1> DEFINE safe == {t \in S : Synced(app, t)}
           b == MountCommand(app, safe, "unmount")
<1>1. Good(b) /\ Held(b)
  BY MountCommandGood DEF IInv
<1>2. app' = Ask(b, S \ safe)
  BY DEF UnmountMany
<1> HIDE DEF b, safe
<1>3. Good(Ask(b, S \ safe)) /\ Held(Ask(b, S \ safe))
  BY <1>1, AskGood
<1>4. QED
  BY <1>2, <1>3, Handled DEF IInv, UnmountMany

\* MountConnection, which unmounts.
LEMMA UnmountConnectionKeeps ==
  ASSUME MountOperationsAssumption, IInv, NEW conn \in Connections, UnmountConnection(conn)
  PROVE  IInv'
<1> DEFINE S == app.targets \cap DirectoriesOf({conn})
           unsafe == {t \in S : ~Synced(app, t) /\ app.obs[t] = "mounted"}
           b == MountCommand(app, S \ unsafe, "unmount")
<1>1. S \in SUBSET Targets /\ unsafe \in SUBSET Targets
  BY DEF DirectoriesOf
<1>2. app' = Ask(b, unsafe)
  BY DEF UnmountConnection
<1>3. Good(b) /\ Held(b)
  BY <1>1, MountCommandGood DEF IInv
<1> HIDE DEF b, unsafe
<1>4. Good(Ask(b, unsafe)) /\ Held(Ask(b, unsafe))
  BY <1>1, <1>3, AskGood
<1>5. QED
  BY <1>2, <1>4, Handled DEF IInv, UnmountConnection

\* UnmountWaitDecision.
LEMMA AnswerWhenKeeps ==
  ASSUME MountOperationsAssumption, IInv, NEW d \in app.dialogs,
         NEW choice \in {"wait", "now", "cancel"}, AnswerWhen(d, choice)
  PROVE  IInv'
<1> DEFINE a == [app EXCEPT !.dialogs = @ \ {d}]
           b == [a EXCEPT !.waiting = @ \cup d.about]
           c == [a EXCEPT !.dialogs = @ \cup {[d EXCEPT !.sure = TRUE]}]
<1>1. app \in App /\ d \in Dialogs /\ [d EXCEPT !.sure = TRUE] \in Dialogs
  <2>1. app \in App
    BY DEF IInv, Good
  <2>2. d \in Dialogs
    BY <2>1 DEF App
  <2> QED  BY <2>1, <2>2 DEF Dialogs
<1>2. /\ app' \in {TransferTask(b), c, a}
      /\ UNCHANGED <<file, alive, unheard>>
  BY DEF AnswerWhen
<1>3. \A x \in {a, b, c} : Alike(app, x) /\ x.confirmed = app.confirmed
  <2>1. a \in App
    BY <1>1 DEF App
  <2>2. b \in App /\ c \in App
    BY <1>1, <2>1 DEF App, Dialogs
  <2>3. Alike(app, a) /\ a.confirmed = app.confirmed
    BY <1>1, <2>1 DEF App, Apart, Alike
  <2>4. Alike(app, b) /\ b.confirmed = app.confirmed
    BY <1>1, <2>2 DEF App, Apart, Alike
  <2>5. Alike(app, c) /\ c.confirmed = app.confirmed
    BY <1>1, <2>2 DEF App, Apart, Alike
  <2>6. QED
    BY <2>3, <2>4, <2>5
<1> HIDE DEF a, b, c
<1>4. \A x \in {a, b, c} : Good(x) /\ Held(x)
  BY <1>3, AlikeGood DEF IInv, Good, Consented
<1>5. Good(TransferTask(b)) /\ Held(TransferTask(b))
  BY <1>4, TransferTaskGood DEF Held, Apart
<1>6. QED
  BY <1>2, <1>4, <1>5, Handled DEF IInv

\* UnmountNowDecision: consent is given now.
LEMMA AnswerSureKeeps ==
  ASSUME MountOperationsAssumption, IInv, NEW d \in app.dialogs, NEW yes \in BOOLEAN,
         AnswerSure(d, yes)
  PROVE  IInv'
<1> DEFINE a == [app EXCEPT !.dialogs = @ \ {d}]
           b == [a EXCEPT
                   !.confirmed = [t \in Targets |-> IF t \in d.about THEN "now" ELSE @[t]]]
<1>1. app \in App /\ d \in Dialogs /\ d.about \in SUBSET Targets
  BY DEF IInv, Good, App, Dialogs
<1>2. /\ app' \in {Start(b, d.about, "unmount"), a}
      /\ UNCHANGED <<file, alive, unheard>>
  BY DEF AnswerSure
<1>3. Alike(app, a) /\ a.confirmed = app.confirmed
  BY <1>1 DEF App, Apart, Alike
<1> HIDE DEF a
<1>4. Good(a) /\ Held(a)
  BY <1>3, AlikeGood DEF IInv, Good, Consented
<1>5. /\ b.confirmed = [t \in Targets |-> IF t \in d.about THEN "now" ELSE a.confirmed[t]]
  BY <1>3 DEF App, Alike
<1>6. Alike(a, b)
  <2>1. a \in App /\ b.confirmed \in [Targets -> Reasons]
    BY <1>3, <1>5 DEF App, Reasons, Alike
  <2>2. b \in App
    BY <2>1 DEF App
  <2>3. QED
    BY <2>1, <2>2 DEF App, Alike, Apart
<1> HIDE DEF b
<1>7. Good(b) /\ Held(b)
  BY <1>4, <1>5, <1>6, AlikeGood DEF Good, Consented
<1>8. Good(Start(b, d.about, "unmount")) /\ Held(Start(b, d.about, "unmount"))
  BY <1>1, <1>7, StartGood
<1>9. QED
  BY <1>2, <1>4, <1>8, Handled DEF IInv

\* A wait that is given up.
LEMMA CancelWaitKeeps ==
  ASSUME IInv, NEW t \in Targets, CancelWait(t)
  PROVE  IInv'
<1> DEFINE b == [app EXCEPT !.waiting = @ \ {t}]
<1>1. app \in App
  BY DEF IInv, Good
<1>2. Alike(app, b) /\ b.confirmed = app.confirmed
  BY <1>1 DEF App, Apart, Alike
<1>3. app' = b /\ UNCHANGED <<file, alive, unheard>>
  BY DEF CancelWait
<1> HIDE DEF b
<1>4. Good(b) /\ Held(b)
  BY <1>2, AlikeGood DEF IInv, Good, Consented
<1>5. QED
  BY <1>3, <1>4, Handled DEF IInv

\* Open, which looks at a target.
LEMMA OpenKeeps ==
  ASSUME MountOperationsAssumption, IInv, Room, NEW t \in Targets, Open(t)
  PROVE  IInv'
<1>1. Good(BeginReads(app, {t})) /\ Apart(app, BeginReads(app, {t}))
  BY BeginReadsGood DEF IInv, Open, Room, Free
<1>2. Held(BeginReads(app, {t}))
  BY <1>1 DEF IInv, Held, Apart
<1>3. QED
  BY <1>1, <1>2, Handled DEF IInv, Open

\* Refresh, which reads the list again.
LEMMA RefreshKeeps ==
  ASSUME MountOperationsAssumption, IInv, Room, Refresh
  PROVE  IInv'
<1> DEFINE a == ShowTargets(app, file)
<1>1. Good(a) /\ Apart(app, a) /\ a.flights = app.flights
  BY ShowTargetsGood DEF IInv
<1>2. app' = StatusTask(a, a.targets, FALSE, FALSE) /\ UNCHANGED <<file, alive, unheard>>
  BY DEF Refresh
<1> HIDE DEF a
<1>3. Free(a) /\ a.targets \in SUBSET Targets
  BY <1>1 DEF Good, App, Room, Free, FreeRequests
<1>4. Good(app') /\ Apart(a, app')
  BY <1>1, <1>2, <1>3, StatusTaskGood
<1>5. Held(app')
  BY <1>1, <1>4 DEF IInv, Held, Apart
<1>6. QED
  BY <1>2, <1>4, <1>5, Handled DEF IInv

\* What is busy, and why, is all that a save and a removal change.
LEMMA LockGood ==
  ASSUME NEW a, NEW b, Good(a), b \in App, Exclusive(b), Departing(b), b.ops = a.ops,
         b.queue = a.queue, b.behind = a.behind, b.confirmed = a.confirmed,
         b.obs = a.obs, b.reading = a.reading, b.flights = a.flights,
         b.feedback = a.feedback, b.polls = a.polls
  PROVE  Good(b) /\ (Held(a) => Held(b))
  BY DEF Good, Held, Operating, Truthful, Awaited, Matching, Consented

\* save_connection and save_settings.
LEMMA BeginSaveKeeps ==
  ASSUME IInv, BeginSave
  PROVE  IInv'
<1> DEFINE b == [app EXCEPT !.saving = TRUE]
<1>1. app \in App
  BY DEF IInv, Good
<1>2. /\ b \in App /\ b.ops = app.ops /\ b.queue = app.queue /\ b.behind = app.behind
      /\ b.confirmed = app.confirmed /\ b.obs = app.obs /\ b.reading = app.reading
      /\ b.flights = app.flights /\ b.feedback = app.feedback /\ b.polls = app.polls
      /\ b.busy = app.busy /\ b.leaving = app.leaving /\ b.saving
  BY <1>1 DEF App
<1>3. app' = b /\ UNCHANGED <<file, alive, unheard>>
  BY DEF BeginSave
<1> HIDE DEF b
<1>4. Exclusive(b) /\ Departing(b)
  BY <1>2 DEF IInv, Good, Exclusive, Departing
<1>5. Good(b) /\ Held(b)
  BY <1>2, <1>4, LockGood DEF IInv
<1>6. QED
  BY <1>3, <1>5, Handled DEF IInv

\* Only connections that are not known to be mounted are marked for removal.
LEMMA LeavingGood ==
  ASSUME MountOperationsAssumption, NEW a, Good(a), ~a.saving, ~a.listed,
         NEW conns \in SUBSET Connections, \A c \in conns : CanModify(a, c),
         NEW b, b \in App, b.busy = a.busy \cup conns, b.leaving = conns,
         b.saving \/ b.listed, b.ops = a.ops,
         b.queue = a.queue, b.behind = a.behind, b.confirmed = a.confirmed,
         b.obs = a.obs, b.reading = a.reading, b.flights = a.flights,
         b.feedback = a.feedback, b.polls = a.polls
  PROVE  Good(b) /\ (Held(a) => Held(b))
<1>1. \A c \in conns : /\ c \in Targets /\ Owner[c] = c
                       /\ c \notin a.busy /\ a.obs[c] \in {"none", "unmounted"}
  <2>1. \A c \in conns : c \in Targets /\ Owner[c] = c
    BY DEF MountOperationsAssumption, Connections
  <2>2. \A c \in conns : c \notin a.busy /\ a.obs[c] \in {"none", "unmounted"}
    BY DEF CanModify, MappingCanModify
  <2>3. QED
    BY <2>1, <2>2
<1>2. a.leaving = {}
  BY DEF Good, Exclusive
<1>3. a \in App /\ \A o \in a.ops : o.t \in Targets /\ o.t \notin conns
  BY <1>1 DEF Good, Exclusive, App, Operations
<1>4. Exclusive(b)
  BY <1>1, <1>2, <1>3 DEF Good, Exclusive
<1>5. Departing(b)
  BY <1>1 DEF Good, Departing, Truthful, Down
<1>6. QED
  BY <1>4, <1>5, LockGood

\* ConfirmRemove.
LEMMA RemoveKeeps ==
  ASSUME MountOperationsAssumption, IInv, NEW conn \in Connections, Remove(conn)
  PROVE  IInv'
<1> DEFINE b == [app EXCEPT !.busy = @ \cup {conn}, !.saving = TRUE, !.leaving = {conn}]
<1>1. app \in App /\ conn \in Targets
  BY DEF IInv, Good, Connections, MountOperationsAssumption
<1>2. /\ b \in App /\ b.ops = app.ops /\ b.queue = app.queue /\ b.behind = app.behind
      /\ b.confirmed = app.confirmed /\ b.obs = app.obs /\ b.reading = app.reading
      /\ b.flights = app.flights /\ b.feedback = app.feedback /\ b.polls = app.polls
      /\ b.busy = app.busy \cup {conn} /\ b.leaving = {conn} /\ b.saving
  <2>1. b.busy \subseteq Targets /\ b.leaving \subseteq Connections
    BY <1>1 DEF App
  <2>2. QED
    BY <1>1, <2>1 DEF App
<1>3. /\ app' = b /\ UNCHANGED <<file, alive, unheard>>
      /\ ~app.saving /\ ~app.listed /\ CanModify(app, conn)
  BY DEF Remove, Quiet
<1> HIDE DEF b
<1>4. Good(b) /\ Held(b)
  <2>1. \A c \in {conn} : CanModify(app, c)
    BY <1>3
  <2>2. {conn} \in SUBSET Connections
    OBVIOUS
  <2>3. QED
    BY <1>2, <1>3, <2>1, <2>2, LeavingGood DEF IInv
<1>5. QED
  BY <1>3, <1>4, Handled DEF IInv

\* BatchDeleteDecision, which looks again.
LEMMA BatchDeleteKeeps ==
  ASSUME MountOperationsAssumption, IInv, NEW conns \in SUBSET Connections,
         BatchDelete(conns)
  PROVE  IInv'
<1> DEFINE b == [app EXCEPT !.busy = @ \cup conns, !.listed = TRUE, !.leaving = conns]
<1>1. app \in App /\ conns \subseteq Targets
  BY DEF IInv, Good, Connections, MountOperationsAssumption
<1>2. /\ b \in App /\ b.ops = app.ops /\ b.queue = app.queue /\ b.behind = app.behind
      /\ b.confirmed = app.confirmed /\ b.obs = app.obs /\ b.reading = app.reading
      /\ b.flights = app.flights /\ b.feedback = app.feedback /\ b.polls = app.polls
      /\ b.busy = app.busy \cup conns /\ b.leaving = conns /\ b.listed
  BY <1>1 DEF App
<1>3. /\ app' = b /\ UNCHANGED <<file, alive, unheard>>
      /\ ~app.saving /\ ~app.listed /\ \A c \in conns : CanModify(app, c)
  BY DEF BatchDelete, Quiet
<1> HIDE DEF b
<1>4. Good(b) /\ Held(b)
  BY <1>2, <1>3, LeavingGood DEF IInv
<1>5. QED
  BY <1>3, <1>4, Handled DEF IInv

\* An accepted answer tells the window what became of a mount it had not seen.
LEMMA StatusLoadedKeeps ==
  ASSUME MountOperationsAssumption, IInv, NEW f \in app.flights, NEW idle \in BOOLEAN,
         StatusLoaded(f, idle)
  PROVE  IInv'
<1> DEFINE a == Accept(app, f)
           b == CapacityTask(a, idle)
<1>1. /\ f \in Flights /\ Good(a) /\ Apart(app, a) /\ app \in App
      /\ Accepted(app, f) => f.t \notin app.busy /\ a.obs[f.t] # "none"
  BY AcceptGood DEF IInv, StatusLoaded
<1>2. /\ app' = b /\ file' = file /\ alive' = alive
      /\ unheard' = [unheard EXCEPT ![f.t] = IF Accepted(app, f) /\ @ = "unseen"
                                             THEN "nothing" ELSE @]
  BY DEF StatusLoaded
<1> HIDE DEF a
<1>3. Good(b) /\ Apart(a, b) /\ b.obs = a.obs
  BY <1>1, CapacityTaskGood
<1>4. Held(b)
  BY <1>1, <1>3 DEF IInv, Held, Apart
<1> HIDE DEF b
<1>5. /\ f.t \in Targets
      /\ \A t \in Targets :
           \/ unheard'[t] = unheard[t]
           \/ /\ unheard[t] = "unseen" /\ unheard'[t] = "nothing"
              /\ b.obs[t] # "none" /\ t \notin b.leaving
  BY <1>1, <1>2, <1>3 DEF IInv, Good, Rest, Exclusive, Apart, Flights
<1>6. \A t \in Targets : (Up(t) => Up(t)') /\ (Down(t) => Down(t)')
  BY <1>2, <1>5 DEF Up, Down
<1>7. b \in App
  BY <1>3 DEF Good
<1>8. Good(app)'
  <2>1. Truthful(app)'
    BY <1>2, <1>3, <1>5, <1>6 DEF Good, Truthful
  <2>2. Operating(app)' /\ Awaited(app)'
    BY <1>2, <1>3, <1>6, <1>7 DEF Good, Operating, Awaited, App, Operations, Flights
  <2>3. Departing(app)'
    BY <1>2, <1>3, <1>5, <1>7
       DEF Good, Departing, App, Connections, MountOperationsAssumption
  <2>4. Exclusive(app)' /\ Matching(app)' /\ Consented(app)' /\ (app \in App)'
    BY <1>2, <1>3 DEF Good, Exclusive, Matching, Consented
  <2>5. QED
    BY <2>1, <2>2, <2>3, <2>4 DEF Good
<1>9. Held(app)'
  BY <1>2, <1>4 DEF Held
<1>10. Rest'
  BY <1>1, <1>2, <1>5 DEF IInv, Rest
<1>11. QED
  BY <1>8, <1>9, <1>10 DEF IInv

\* What the window says after an operation is what the operation found.
LEMMA SaysGood ==
  ASSUME NEW a, Good(a), NEW t \in Targets, NEW status \in Statuses \ {"none"},
         \A o \in a.ops : o.t # t,
         status = "mounted" => Up(t), status = "unmounted" => Down(t)
  PROVE  /\ Good(Says(a, t, status)) /\ Apart(a, Says(a, t, status))
         /\ Says(a, t, status).flights = a.flights
<1> DEFINE b == Says(a, t, status)
<1>1. a \in App
  BY DEF Good
<1>2. /\ b \in App /\ Apart(a, b) /\ b.obs = [a.obs EXCEPT ![t] = status]
      /\ b.reading = a.reading /\ b.flights = a.flights /\ b.feedback = a.feedback
      /\ b.polls = a.polls /\ b.confirmed = a.confirmed
  BY <1>1 DEF App, Apart, Says
<1> HIDE DEF b
<1>3. \A o \in a.ops : b.obs[o.t] = a.obs[o.t]
  BY <1>1, <1>2 DEF App, Operations
<1>4. Operating(b) /\ Truthful(b)
  BY <1>1, <1>2, <1>3 DEF Good, Operating, Truthful, Apart, App
<1>5. Exclusive(b) /\ Awaited(b) /\ Matching(b) /\ Consented(b) /\ Departing(b)
  BY <1>2 DEF Good, Exclusive, Awaited, Matching, Consented, Departing, Apart
<1>6. Good(b) /\ Apart(a, b) /\ b.flights = a.flights
  BY <1>2, <1>4, <1>5 DEF Good
<1>7. QED
  BY <1>6 DEF b

\* An operation that has ended told what became of the mount, and the command that
\* waited for it is taken.
LEMMA MountFinishedKeeps ==
  ASSUME MountOperationsAssumption, IInv, Room, NEW o \in app.ops, NEW idle \in BOOLEAN,
         MountFinished(o, idle)
  PROVE  IInv'
<1> DEFINE t == o.t
           a == [app EXCEPT !.ops = @ \ {o}, !.busy = @ \ {t}, !.reading[t] = 0]
           up == Says(a, t, "mounted")
           looked == StatusTask(up, {t}, TRUE, TRUE)
           counted == CapacityTask(looked, idle)
           mounted == TransferTask(counted)
           down == Says(a, t, "unmounted")
           unmounted == Forget(down, {t})
           failed == StatusTask(a, {t}, TRUE, TRUE)
           b == CASE o.at = "done" /\ o.kind = "mount" -> mounted
                  [] o.at = "done" /\ o.kind = "unmount" -> unmounted
                  [] o.at = "cancelled" -> down
                  [] o.at = "failed" -> failed
<1>1. /\ app \in App /\ o \in Operations /\ t \in Targets
      /\ o.at \in {"done", "failed", "cancelled"}
  BY DEF IInv, Good, App, Operations, MountFinished
<1>2. app' = TakePending(b, t) /\ UNCHANGED <<file, alive, unheard>>
  BY DEF MountFinished
<1>3. /\ a \in App /\ a.ops = app.ops \ {o} /\ a.busy = app.busy \ {t}
      /\ a.reading = [app.reading EXCEPT ![t] = 0]
      /\ a.queue = app.queue /\ a.behind = app.behind /\ a.leaving = app.leaving
      /\ a.saving = app.saving /\ a.listed = app.listed /\ a.obs = app.obs
      /\ a.flights = app.flights /\ a.feedback = app.feedback /\ a.polls = app.polls
      /\ a.confirmed = app.confirmed
  BY <1>1 DEF App
<1> HIDE DEF a
<1>4. \A p \in a.ops : p.t # t
  BY <1>3 DEF IInv, Good, Exclusive
<1>5. Good(a)
  <2>1. Exclusive(a)
    BY <1>1, <1>3, <1>4 DEF IInv, Good, Exclusive
  <2>2. Operating(a)
    <3>1. \A p \in a.ops : p \in app.ops /\ p.t \in Targets
      BY <1>1, <1>3 DEF App, Operations
    <3>2. \A p \in a.ops : a.reading[p.t] = app.reading[p.t]
      BY <1>1, <1>3, <1>4, <3>1 DEF App
    <3>3. QED
      BY <1>3, <3>1, <3>2 DEF IInv, Good, Operating
  <2>3. Awaited(a)
    BY <1>1, <1>3 DEF IInv, Good, Awaited, App, Flights, Requests
  <2>4. Truthful(a) /\ Matching(a) /\ Consented(a) /\ Departing(a)
    BY <1>3 DEF IInv, Good, Truthful, Matching, Consented, Departing
  <2>5. QED
    BY <1>3, <2>1, <2>2, <2>3, <2>4 DEF Good
<1>6. Free(a)
  BY <1>3 DEF Room, Free, FreeRequests
<1>7. ASSUME o.at = "done", o.kind = "mount"
      PROVE  Good(mounted) /\ Apart(a, mounted)
  <2>1. Up(t)
    BY <1>7 DEF IInv, Good, Operating
  <2>2. Good(up) /\ Apart(a, up) /\ up.flights = a.flights
    BY <1>1, <1>4, <1>5, <2>1, SaysGood DEF Statuses
  <2> HIDE DEF up
  <2>3. Free(up)
    BY <1>6, <2>2 DEF Free, FreeRequests
  <2>4. Good(looked) /\ Apart(up, looked)
    BY <1>1, <2>2, <2>3, StatusTaskGood
  <2> HIDE DEF looked
  <2>5. Good(counted) /\ Apart(looked, counted)
    BY <2>4, CapacityTaskGood
  <2> HIDE DEF counted
  <2>6. Good(mounted) /\ Apart(counted, mounted)
    BY <2>5, TransferTaskGood
  <2> HIDE DEF mounted
  <2>7. QED
    BY <2>2, <2>4, <2>5, <2>6 DEF Apart
<1>8. ASSUME o.at = "cancelled" \/ (o.at = "done" /\ o.kind = "unmount")
      PROVE  Good(down) /\ Apart(a, down) /\ Good(unmounted) /\ Apart(a, unmounted)
  <2>1. Down(t)
    BY <1>8 DEF IInv, Good, Operating
  <2>2. Good(down) /\ Apart(a, down)
    BY <1>1, <1>4, <1>5, <2>1, SaysGood DEF Statuses
  <2> HIDE DEF down
  <2>3. Good(unmounted) /\ Apart(down, unmounted)
    BY <1>1, <2>2, ForgetGood
  <2> HIDE DEF unmounted
  <2>4. QED
    BY <2>2, <2>3 DEF Apart
<1>9. Good(failed) /\ Apart(a, failed)
  BY <1>1, <1>5, <1>6, StatusTaskGood
<1> HIDE DEF mounted, unmounted, down, failed
<1>10. Good(b) /\ Apart(a, b)
  BY <1>1, <1>7, <1>8, <1>9 DEF Operations
<1> HIDE DEF b
<1>11. \A x \in b.behind : b.queue[x] # "none" /\ (x = t \/ \E p \in b.ops : p.t = x)
  BY <1>3, <1>10 DEF IInv, Held, Apart
<1>12. Good(TakePending(b, t)) /\ Held(TakePending(b, t))
  BY <1>1, <1>10, <1>11, TakePendingGood
<1>13. QED
  BY <1>2, <1>12, Handled DEF IInv

\* TransferTick, which also looks at what may have come up by itself.
LEMMA TransferTickKeeps ==
  ASSUME MountOperationsAssumption, IInv, Room, TransferTick
  PROVE  IInv'
<1> DEFINE a == TransferTask(app)
           S == {t \in app.targets : app.obs[t] \in {"starting", "error"}}
<1>1. Good(a) /\ Apart(app, a) /\ a.flights = app.flights
  BY TransferTaskGood DEF IInv
<1>2. S \in SUBSET Targets
  BY DEF IInv, Good, App
<1>3. app' = StatusTask(a, S, TRUE, TRUE) /\ UNCHANGED <<file, alive, unheard>>
  BY DEF TransferTick
<1> HIDE DEF a, S
<1>4. Free(a)
  BY <1>1 DEF Room, Free, FreeRequests
<1>5. Good(app') /\ Apart(a, app')
  BY <1>1, <1>2, <1>3, <1>4, StatusTaskGood
<1>6. Held(app')
  BY <1>1, <1>5 DEF IInv, Held, Apart
<1>7. QED
  BY <1>3, <1>5, <1>6, Handled DEF IInv

\* A mount that is looked at once more.
LEMMA CheckMountKeeps ==
  ASSUME MountOperationsAssumption, IInv, Room, NEW t \in Targets, CheckMount(t)
  PROVE  IInv'
<1>1. app' = StatusTask(app, {t}, TRUE, TRUE) /\ UNCHANGED <<file, alive, unheard>>
  BY DEF CheckMount
<1>2. Good(app') /\ Apart(app, app')
  BY <1>1, StatusTaskGood DEF IInv, Room, Free
<1>3. Held(app')
  BY <1>2 DEF IInv, Held, Apart
<1>4. QED
  BY <1>1, <1>2, <1>3, Handled DEF IInv

\* CapacityTick and CapacitiesLoaded.
LEMMA CapacityTickKeeps ==
  ASSUME MountOperationsAssumption, IInv, Room, NEW S \in SUBSET Targets,
         NEW idle \in BOOLEAN, CapacityTick(S, idle)
  PROVE  IInv'
<1> DEFINE a == CapacityTask(app, idle)
<1>1. Good(a) /\ Apart(app, a) /\ a.flights = app.flights
  BY CapacityTaskGood DEF IInv
<1>2. app' = StatusTask(a, S, TRUE, TRUE) /\ UNCHANGED <<file, alive, unheard>>
  BY DEF CapacityTick
<1> HIDE DEF a
<1>3. Free(a)
  BY <1>1 DEF Room, Free, FreeRequests
<1>4. Good(app') /\ Apart(a, app')
  BY <1>1, <1>2, <1>3, StatusTaskGood
<1>5. Held(app')
  BY <1>1, <1>4 DEF IInv, Held, Apart
<1>6. QED
  BY <1>2, <1>4, <1>5, Handled DEF IInv

\* Answers about transfers count for the feedback of their own generation, and a wait
\* ends with an unmount only when they say so.
LEMMA TransfersLoadedKeeps ==
  ASSUME MountOperationsAssumption, IInv, Room, TransfersLoaded
  PROVE  IInv'
<1> DEFINE heard == {t \in Targets : app.polls[t] # NoPoll
                                     /\ app.polls[t].gen = app.feedback[t].gen}
           wrong == {t \in heard : app.polls[t].answer = "error"}
           a == [app EXCEPT
                   !.polls = [t \in Targets |-> NoPoll],
                   !.feedback = [t \in Targets |-> IF t \in heard
                                                   THEN Polled(@[t], app.polls[t]) ELSE @[t]]]
           ready == {t \in a.waiting : Synced(a, t)}
           b == [a EXCEPT
                   !.waiting = @ \ ready,
                   !.confirmed = [t \in Targets |-> IF t \in ready /\ @[t] # "now"
                                                    THEN "waited" ELSE @[t]]]
           c == StatusTask(b, wrong, TRUE, TRUE)
<1>1. app \in App
  BY DEF IInv, Good
<1>2. app' = Start(c, ready, "unmount") /\ UNCHANGED <<file, alive, unheard>>
  BY DEF TransfersLoaded
<1>3. heard \subseteq Targets /\ wrong \in SUBSET Targets
  OBVIOUS
<1>4. \A t \in heard :
        /\ app.polls[t].gen # 0 /\ app.polls[t].gen = app.feedback[t].gen
        /\ Polled(app.feedback[t], app.polls[t]) \in Feedback
        /\ Polled(app.feedback[t], app.polls[t]).gen = app.feedback[t].gen
        /\ t \in alive => Polled(app.feedback[t], app.polls[t]).of \subseteq {"this"}
  <2>1. SUFFICES ASSUME NEW t \in heard
                 PROVE  /\ app.polls[t].gen # 0 /\ app.polls[t].gen = app.feedback[t].gen
                        /\ Polled(app.feedback[t], app.polls[t]) \in Feedback
                        /\ Polled(app.feedback[t], app.polls[t]).gen = app.feedback[t].gen
                        /\ t \in alive =>
                             Polled(app.feedback[t], app.polls[t]).of \subseteq {"this"}
    OBVIOUS
  <2>2. /\ app.feedback[t] \in Feedback /\ app.polls[t] \in Polls
        /\ app.polls[t].gen # 0 /\ app.polls[t].gen = app.feedback[t].gen
        /\ app.polls[t].answer = "synced" => app.polls[t].of \in Mounts
        /\ t \in alive => app.feedback[t].of \subseteq {"this"}
        /\ t \in alive /\ app.polls[t].answer = "synced" => app.polls[t].of = "this"
    BY <1>1 DEF IInv, Good, Matching, App, Polls
  <2> DEFINE fb == app.feedback[t]
             poll == app.polls[t]
             n == IF fb.polls = 2 THEN 2 ELSE fb.polls + 1
  <2>3. fb \in Feedback /\ fb.polls \in 0 .. 2 /\ n \in 0 .. 2
    BY <2>2 DEF Feedback
  <2> HIDE DEF fb, poll, n
  <2>4. CASE poll.answer = "synced"
    <3> DEFINE T == fb.of \cup {poll.of}
    <3>1. Polled(fb, poll) = [fb EXCEPT !.polls = n, !.of = T]
      BY <2>4 DEF Polled, n
    <3>2. T \in SUBSET Mounts /\ (t \in alive => T \subseteq {"this"})
      BY <2>2, <2>4 DEF fb, poll, Feedback
    <3> HIDE DEF T
    <3>3. /\ Polled(fb, poll) \in Feedback /\ Polled(fb, poll).gen = fb.gen
          /\ Polled(fb, poll).of = T
      BY <2>3, <3>1, <3>2 DEF Feedback
    <3>4. QED
      BY <2>2, <3>2, <3>3 DEF fb, poll
  <2>5. CASE poll.answer # "synced"
    <3> DEFINE T == {}
               m == 0
    <3>1. Polled(fb, poll) = [fb EXCEPT !.polls = m, !.of = T]
      BY <2>5 DEF Polled
    <3>2. m \in 0 .. 2 /\ T \in SUBSET Mounts /\ T \subseteq {"this"}
      OBVIOUS
    <3> HIDE DEF T, m
    <3>3. /\ Polled(fb, poll) \in Feedback /\ Polled(fb, poll).gen = fb.gen
          /\ Polled(fb, poll).of = T
      BY <2>3, <3>1, <3>2 DEF Feedback
    <3>4. QED
      BY <2>2, <3>2, <3>3 DEF fb, poll
  <2>6. QED
    BY <2>4, <2>5
<1> HIDE DEF heard, wrong
<1>5. /\ a.polls = [t \in Targets |-> NoPoll]
      /\ a.feedback = [t \in Targets |-> IF t \in heard
                                         THEN Polled(app.feedback[t], app.polls[t])
                                         ELSE app.feedback[t]]
      /\ Apart(app, a) /\ a.obs = app.obs /\ a.reading = app.reading
      /\ a.flights = app.flights /\ a.confirmed = app.confirmed
  BY <1>1 DEF App, Apart
<1>6. a \in App
  <2>1. a.feedback \in [Targets -> Feedback] /\ a.polls \in [Targets -> Polls]
    BY <1>1, <1>3, <1>4, <1>5 DEF App, Polls, NoPoll
  <2>2. QED
    BY <1>1, <2>1 DEF App
<1> HIDE DEF a
<1>7. Good(a) /\ Held(a)
  <2>1. /\ Exclusive(a) /\ Truthful(a) /\ Awaited(a) /\ Consented(a) /\ Departing(a)
        /\ Held(a)
    BY <1>5 DEF IInv, Good, Held, Exclusive, Truthful, Awaited, Consented, Departing, Apart
  <2>2. \A o \in app.ops : o.t \in Targets /\ o.t \notin heard
    BY <1>1, <1>4 DEF IInv, Good, Operating, NoFeedback, App, Operations
  <2>3. Operating(a)
    BY <1>5, <2>2 DEF IInv, Good, Operating, Apart
  <2>4. Matching(a)
    <3>1. Matching(app)
      BY DEF IInv, Good
    <3>2. ASSUME NEW t \in Targets
          PROVE  /\ a.polls[t] = NoPoll /\ a.feedback[t].gen = app.feedback[t].gen
                 /\ a.feedback[t] = NoFeedback \/ app.feedback[t] # NoFeedback
                 /\ t \in alive => a.feedback[t].of \subseteq {"this"}
      <4>1. CASE t \in heard
        <5>1. /\ a.polls[t] = NoPoll
              /\ a.feedback[t] = Polled(app.feedback[t], app.polls[t])
          BY <1>5, <4>1
        <5>2. app.feedback[t] # NoFeedback
          BY <1>4, <4>1 DEF NoFeedback
        <5> QED  BY <1>4, <4>1, <5>1, <5>2
      <4>2. CASE t \notin heard
        BY <1>5, <3>1, <4>2 DEF Matching
      <4> QED  BY <4>1, <4>2
    <3> QED  BY <3>1, <3>2 DEF Matching, NoPoll
  <2>5. QED
    BY <1>6, <2>1, <2>3, <2>4 DEF Good
<1>8. ready \in SUBSET Targets
  BY <1>6 DEF App
<1> HIDE DEF ready
<1>9. /\ b.confirmed = [t \in Targets |-> IF t \in ready /\ a.confirmed[t] # "now"
                                          THEN "waited" ELSE a.confirmed[t]]
      /\ Alike(a, b)
  <2>1. b.confirmed = [t \in Targets |-> IF t \in ready /\ a.confirmed[t] # "now"
                                         THEN "waited" ELSE a.confirmed[t]]
    BY <1>6 DEF App
  <2>2. b.confirmed \in [Targets -> Reasons]
    BY <1>6, <2>1 DEF App, Reasons
  <2>3. b \in App
    BY <1>6, <2>2 DEF App
  <2>4. QED
    BY <1>6, <2>1, <2>3 DEF App, Apart, Alike
<1> HIDE DEF b
<1>10. Good(b) /\ Held(b)
  BY <1>7, <1>9, AlikeGood DEF Good, Consented
<1>11. Free(b)
  BY <1>5, <1>9 DEF Room, Free, FreeRequests, Alike
<1>12. Good(c) /\ Held(c)
  <2>1. Good(c) /\ Apart(b, c)
    BY <1>3, <1>10, <1>11, StatusTaskGood
  <2>2. QED
    BY <1>10, <2>1 DEF Held, Apart
<1> HIDE DEF c
<1>13. Good(app') /\ Held(app')
  BY <1>2, <1>8, <1>12, StartGood
<1>14. QED
  BY <1>2, <1>13, Handled DEF IInv

\* ConnectionSaved and SettingsSaved.
LEMMA EndSaveKeeps ==
  ASSUME MountOperationsAssumption, IInv, Room, NEW loaded \in BOOLEAN,
         NEW connection \in BOOLEAN, EndSave(loaded, connection)
  PROVE  IInv'
<1> DEFINE a == [app EXCEPT !.saving = FALSE]
           b == ShowTargets(a, file)
           c == StatusTask(b, b.targets, TRUE, FALSE)
<1>1. app \in App
  BY DEF IInv, Good
<1>2. /\ a \in App /\ a.ops = app.ops /\ a.queue = app.queue /\ a.behind = app.behind
      /\ a.confirmed = app.confirmed /\ a.obs = app.obs /\ a.reading = app.reading
      /\ a.flights = app.flights /\ a.feedback = app.feedback /\ a.polls = app.polls
      /\ a.busy = app.busy /\ a.leaving = app.leaving
  BY <1>1 DEF App
<1>3. app' \in {a, b, c} /\ UNCHANGED <<file, alive, unheard>> /\ app.leaving = {}
  BY DEF EndSave
<1> HIDE DEF a
<1>4. Exclusive(a) /\ Departing(a)
  BY <1>2, <1>3 DEF IInv, Good, Exclusive, Departing
<1>5. Good(a) /\ Held(a)
  BY <1>2, <1>4, LockGood DEF IInv
<1>6. Good(b) /\ Held(b) /\ b.flights = app.flights
  BY <1>2, <1>5, ShowTargetsGood DEF Held, Apart
<1> HIDE DEF b
<1>7. Free(b) /\ b.targets \in SUBSET Targets
  BY <1>6 DEF Good, App, Room, Free, FreeRequests
<1>8. Good(c) /\ Apart(b, c)
  BY <1>6, <1>7, StatusTaskGood
<1> HIDE DEF c
<1>9. Held(c)
  BY <1>6, <1>8 DEF Held, Apart
<1>10. QED
  BY <1>3, <1>5, <1>6, <1>8, <1>9, Handled DEF IInv

\* RemoveFinished and BatchRemoved.
LEMMA RemovalDoneKeeps ==
  ASSUME MountOperationsAssumption, IInv, RemovalDone
  PROVE  IInv'
<1> DEFINE a == [app EXCEPT !.busy = @ \ app.leaving, !.leaving = {},
                            !.saving = FALSE, !.listed = FALSE]
<1>1. app \in App
  BY DEF IInv, Good
<1>2. /\ a \in App /\ a.ops = app.ops /\ a.queue = app.queue /\ a.behind = app.behind
      /\ a.confirmed = app.confirmed /\ a.obs = app.obs /\ a.reading = app.reading
      /\ a.flights = app.flights /\ a.feedback = app.feedback /\ a.polls = app.polls
      /\ a.busy = app.busy \ app.leaving /\ a.leaving = {}
  BY <1>1 DEF App
<1>3. app' \in {a, ShowTargets(a, file)} /\ UNCHANGED <<file, alive, unheard>>
  BY DEF RemovalDone
<1> HIDE DEF a
<1>4. Exclusive(a) /\ Departing(a)
  BY <1>2 DEF IInv, Good, Exclusive, Departing
<1>5. Good(a) /\ Held(a)
  BY <1>2, <1>4, LockGood DEF IInv
<1>6. Good(ShowTargets(a, file)) /\ Held(ShowTargets(a, file))
  BY <1>5, ShowTargetsGood DEF Held, Apart
<1>7. QED
  BY <1>3, <1>5, <1>6, Handled DEF IInv

-----------------------------------------------------------------------------
(* Threads and rclone                                                      *)

\* A mount of which the window knew it to be gone may leave the list.
LEMMA RemovedKeeps ==
  ASSUME IInv, Removed
  PROVE  IInv'
<1>1. /\ app' = app /\ alive' = alive /\ unheard' = unheard
      /\ file' = file \ app.leaving
  BY DEF Removed
<1>2. /\ (app \in App)' /\ Exclusive(app)' /\ Matching(app)' /\ Consented(app)'
      /\ Departing(app)' /\ Held(app)'
  BY <1>1 DEF IInv, Good, Exclusive, Matching, Consented, Departing, Held
<1>3. Operating(app)' /\ Truthful(app)' /\ Awaited(app)'
  BY <1>1 DEF IInv, Good, Operating, Truthful, Awaited, Up, Down
<1>4. Rest'
  BY <1>1 DEF IInv, Rest
<1>5. QED
  BY <1>2, <1>3, <1>4 DEF IInv, Good

\* What Past makes of what was heard.
LEMMA PastFields ==
  ASSUME NEW a, a \in App, NEW t \in Targets
  PROVE  /\ Past(a, t) \in App /\ Apart(a, Past(a, t))
         /\ Past(a, t).obs = a.obs /\ Past(a, t).reading = a.reading
         /\ Past(a, t).flights = a.flights /\ Past(a, t).confirmed = a.confirmed
         /\ \A u \in Targets \ {t} : /\ Past(a, t).feedback[u] = a.feedback[u]
                                     /\ Past(a, t).polls[u] = a.polls[u]
         /\ Past(a, t).feedback[t].gen = a.feedback[t].gen
         /\ a.feedback[t] = NoFeedback => Past(a, t).feedback[t] = NoFeedback
         /\ Past(a, t).polls[t].gen = a.polls[t].gen
         /\ Past(a, t).polls[t].answer = a.polls[t].answer
         /\ a.polls[t] = NoPoll => Past(a, t).polls[t] = NoPoll
         /\ a.polls[t].of # "none" => Past(a, t).polls[t].of # "none"
<1> DEFINE b == Past(a, t)
<1>1. /\ a.feedback \in [Targets -> Feedback] /\ a.polls \in [Targets -> Polls]
      /\ a.feedback[t] \in Feedback /\ a.polls[t] \in Polls
  BY DEF App
<1>2. /\ b.feedback = [a.feedback EXCEPT ![t].of = {Former(x) : x \in @}]
      /\ b.polls = [a.polls EXCEPT ![t].of = Former(@)]
      /\ Apart(a, b) /\ b.obs = a.obs /\ b.reading = a.reading /\ b.flights = a.flights
      /\ b.confirmed = a.confirmed
  BY DEF Past, App, Apart
<1>3. /\ b.feedback[t] = [a.feedback[t] EXCEPT !.of = {Former(x) : x \in @}]
      /\ b.polls[t] = [a.polls[t] EXCEPT !.of = Former(@)]
      /\ \A u \in Targets \ {t} : /\ b.feedback[u] = a.feedback[u]
                                  /\ b.polls[u] = a.polls[u]
  BY <1>1, <1>2
<1>4. /\ b.feedback[t] \in Feedback /\ b.feedback[t].gen = a.feedback[t].gen
      /\ a.feedback[t] = NoFeedback => b.feedback[t] = NoFeedback
  <2>1. {Former(x) : x \in a.feedback[t].of} \in SUBSET Mounts
    BY <1>1 DEF Former, Feedback, Mounts
  <2>2. b.feedback[t] = [a.feedback[t] EXCEPT !.of = {Former(x) : x \in a.feedback[t].of}]
    BY <1>3
  <2>3. a.feedback[t] = NoFeedback => {Former(x) : x \in a.feedback[t].of} = {}
    BY DEF NoFeedback
  <2> DEFINE S == {Former(x) : x \in a.feedback[t].of}
  <2> HIDE DEF S
  <2>4. S \in SUBSET Mounts /\ (a.feedback[t] = NoFeedback => S = {})
        /\ b.feedback[t] = [a.feedback[t] EXCEPT !.of = S]
    BY <2>1, <2>2, <2>3 DEF S
  <2>5. b.feedback[t] \in Feedback /\ b.feedback[t].gen = a.feedback[t].gen
    BY <1>1, <2>4 DEF Feedback
  <2>6. a.feedback[t] = NoFeedback => b.feedback[t] = NoFeedback
    BY <2>4 DEF NoFeedback
  <2>7. QED
    BY <2>5, <2>6
<1>5. /\ b.polls[t] \in Polls /\ b.polls[t].gen = a.polls[t].gen
      /\ b.polls[t].answer = a.polls[t].answer
      /\ a.polls[t] = NoPoll => b.polls[t] = NoPoll
      /\ a.polls[t].of # "none" => b.polls[t].of # "none"
  BY <1>1, <1>3 DEF Polls, NoPoll, Former, Mounts
<1>6. b \in App
  <2>1. b.feedback \in [Targets -> Feedback] /\ b.polls \in [Targets -> Polls]
    BY <1>1, <1>2, <1>3, <1>4, <1>5
  <2>2. QED
    BY <2>1 DEF App, Past
<1>7. QED
  BY <1>2, <1>3, <1>4, <1>5, <1>6

\* An operation ends: whatever became of its mount, the window knows nothing of it yet.
LEMMA Ends ==
  ASSUME MountOperationsAssumption, IInv, NEW o \in app.ops, o.at = "running",
         NEW b \in {app, Past(app, o.t)}, NEW at \in {"done", "failed", "cancelled"},
         app' = Becomes(b, o, at), file' = file,
         alive' \subseteq Targets,
         unheard' \in [Targets -> {"nothing", "unseen", "exit", "declined"}],
         \A t \in Targets \ {o.t} : (t \in alive' <=> t \in alive) /\ unheard'[t] = unheard[t],
         at = "done" => IF o.kind = "mount" THEN Up(o.t)' ELSE Down(o.t)',
         at = "cancelled" => Down(o.t)'
  PROVE  IInv'
<1> DEFINE e == [o EXCEPT !.at = at]
<1>1. app \in App /\ o \in Operations /\ o.t \in Targets
  BY DEF IInv, Good, App, Operations
<1>2. /\ e \in Operations /\ e.t = o.t /\ e.kind = o.kind /\ e.why = o.why /\ e.at = at
  BY <1>1 DEF Operations
<1>3. /\ b \in App /\ Apart(app, b) /\ b.obs = app.obs /\ b.reading = app.reading
      /\ b.flights = app.flights /\ b.confirmed = app.confirmed
      /\ \A u \in Targets \ {o.t} : /\ b.feedback[u] = app.feedback[u]
                                    /\ b.polls[u] = app.polls[u]
      /\ b.feedback[o.t].gen = app.feedback[o.t].gen
      /\ app.feedback[o.t] = NoFeedback => b.feedback[o.t] = NoFeedback
      /\ b.polls[o.t].gen = app.polls[o.t].gen
      /\ b.polls[o.t].answer = app.polls[o.t].answer
      /\ app.polls[o.t] = NoPoll => b.polls[o.t] = NoPoll
      /\ app.polls[o.t].of # "none" => b.polls[o.t].of # "none"
  BY <1>1, PastFields DEF Apart
<1>4. app' = [b EXCEPT !.ops = (@ \ {o}) \cup {e}]
  BY DEF Becomes
<1> HIDE DEF e
<1>5. /\ app' \in App /\ app'.ops = (app.ops \ {o}) \cup {e} /\ app'.busy = app.busy
      /\ app'.queue = app.queue /\ app'.behind = app.behind
      /\ app'.leaving = app.leaving /\ app'.saving = app.saving /\ app'.listed = app.listed
      /\ app'.obs = app.obs /\ app'.reading = app.reading /\ app'.flights = app.flights
      /\ app'.confirmed = app.confirmed /\ app'.feedback = b.feedback /\ app'.polls = b.polls
  <2>1. app' \in App /\ app'.ops = (b.ops \ {o}) \cup {e}
    BY <1>2, <1>3, <1>4 DEF App
  <2>2. /\ app'.busy = b.busy /\ app'.queue = b.queue /\ app'.behind = b.behind
        /\ app'.leaving = b.leaving /\ app'.saving = b.saving /\ app'.listed = b.listed
        /\ app'.obs = b.obs /\ app'.reading = b.reading /\ app'.flights = b.flights
        /\ app'.confirmed = b.confirmed /\ app'.feedback = b.feedback /\ app'.polls = b.polls
    BY <1>3, <1>4 DEF App
  <2> QED  BY <1>3, <2>1, <2>2 DEF Apart
<1>6. \A p \in app.ops : p # o => p.t # o.t /\ p.t \in Targets
  BY <1>1 DEF IInv, Good, Exclusive, App, Operations
<1>7. /\ app.reading[o.t] = 0 /\ app.feedback[o.t] = NoFeedback
      /\ app.obs[o.t] = "starting" \/ (app.obs[o.t] = "none" /\ Owner[o.t] \notin file)
      /\ o.kind = "unmount" => o.why \in {"now", "waited", "synced"}
      /\ o.t \notin app.leaving
  BY DEF IInv, Good, Operating, Exclusive
<1>8. \A t \in Targets \ {o.t} : (Up(t) => Up(t)') /\ (Down(t) => Down(t)')
  BY DEF Up, Down
<1>9. Exclusive(app)'
  <2>1. /\ \A x, y \in app'.ops : x.t = y.t => x = y
        /\ \A x \in app'.ops : x.t \notin app'.leaving
        /\ app'.leaving # {} => app'.saving \/ app'.listed
    BY <1>2, <1>5, <1>6, <1>7 DEF IInv, Good, Exclusive
  <2>2. \A t \in Targets :
          t \in app'.busy <=> (t \in app'.leaving \/ \E x \in app'.ops : x.t = t)
    BY <1>2, <1>5 DEF IInv, Good, Exclusive
  <2>3. QED
    BY <2>1, <2>2 DEF Exclusive
<1>10. Operating(app)'
  <2>1. ASSUME NEW p \in app.ops, p # o
        PROVE  /\ app'.reading[p.t] = 0 /\ app'.feedback[p.t] = NoFeedback
               /\ app'.obs[p.t] = "starting" \/ (app'.obs[p.t] = "none" /\ Owner[p.t] \notin file')
               /\ p.at = "done" => IF p.kind = "mount" THEN Up(p.t)' ELSE Down(p.t)'
               /\ p.at = "cancelled" => Down(p.t)'
               /\ p.kind = "unmount" => p.why \in {"now", "waited", "synced"}
    <3>1. p.t \in Targets \ {o.t}
      BY <1>6, <2>1
    <3>2. QED
      BY <1>3, <1>5, <1>8, <2>1, <3>1 DEF IInv, Good, Operating
  <2>2. /\ app'.reading[e.t] = 0 /\ app'.feedback[e.t] = NoFeedback
        /\ app'.obs[e.t] = "starting" \/ (app'.obs[e.t] = "none" /\ Owner[e.t] \notin file')
        /\ e.at = "done" => IF e.kind = "mount" THEN Up(e.t)' ELSE Down(e.t)'
        /\ e.at = "cancelled" => Down(e.t)'
        /\ e.kind = "unmount" => e.why \in {"now", "waited", "synced"}
    BY <1>2, <1>3, <1>5, <1>7 DEF Up, Down
  <2>3. QED
    BY <1>5, <2>1, <2>2 DEF Operating, Up, Down
<1>11. Truthful(app)'
  <2>1. ASSUME NEW t \in Targets
        PROVE  /\ app'.obs[t] = "mounted" => Up(t)'
               /\ app'.obs[t] = "unmounted" => Down(t)'
               /\ app'.obs[t] = "none" /\ Owner[t] \in file' =>
                    t \notin alive' \/ unheard'[t] # "nothing"
    BY <1>5, <1>7, <1>8 DEF IInv, Good, Truthful
  <2>2. QED
    BY <2>1 DEF Truthful, Up, Down
<1>12. Awaited(app)'
  <2>1. ASSUME NEW f \in app'.flights, app'.reading[f.t] = f.req
        PROVE  (f.saw = "mounted" => Up(f.t)') /\ (f.saw = "unmounted" => Down(f.t)')
    <3>1. f.t \in Targets \ {o.t}
      BY <1>1, <1>5, <1>7, <2>1 DEF App, Flights, Requests
    <3>2. QED
      BY <1>5, <1>8, <2>1, <3>1 DEF IInv, Good, Awaited
  <2>2. QED
    BY <2>1 DEF Awaited, Up, Down
<1>13. Matching(app)'
  <2>1. ASSUME NEW t \in Targets
        PROVE  /\ app'.feedback[t] # NoFeedback => app'.feedback[t].gen # 0
               /\ app'.polls[t] # NoPoll => app'.polls[t].gen # 0
               /\ app'.polls[t].answer = "synced" => app'.polls[t].of # "none"
               /\ t \in alive' =>
                    /\ app'.feedback[t].of \subseteq {"this"}
                    /\ app'.polls[t].answer = "synced"
                       /\ app'.polls[t].gen = app'.feedback[t].gen => app'.polls[t].of = "this"
    <3>1. CASE t = o.t
      BY <1>3, <1>5, <1>7, <3>1 DEF IInv, Good, Matching, NoFeedback, NoPoll
    <3>2. CASE t # o.t
      BY <1>3, <1>5, <3>2 DEF IInv, Good, Matching
    <3>3. QED
      BY <3>1, <3>2
  <2>2. QED
    BY <2>1 DEF Matching
<1>14. Consented(app)' /\ Departing(app)'
  <2>1. Consented(app)'
    BY <1>5 DEF IInv, Good, Consented
  <2>2. \A c \in app.leaving : c \in Targets
    BY <1>1 DEF App, Connections, MountOperationsAssumption
  <2>3. QED
    BY <1>5, <1>7, <2>1, <2>2 DEF IInv, Good, Departing
<1>15. Held(app)'
  BY <1>2, <1>5 DEF IInv, Held
<1>16. Rest'
  BY DEF IInv, Rest
<1>17. QED
  BY <1>5, <1>9, <1>10, <1>11, <1>12, <1>13, <1>14, <1>15, <1>16 DEF IInv, Good

\* MountService::mount.
LEMMA MountRunsKeeps ==
  ASSUME MountOperationsAssumption, IInv, NEW o \in app.ops, MountRuns(o)
  PROVE  IInv'
<1>1. /\ o.t \in Targets /\ o.at = "running" /\ o.kind = "mount" /\ file' = file
      /\ alive \subseteq Targets
      /\ unheard \in [Targets -> {"nothing", "unseen", "exit", "declined"}]
  BY DEF IInv, Good, Rest, App, Operations, MountRuns
<1> DEFINE Other == /\ alive' \subseteq Targets
                    /\ unheard' \in [Targets -> {"nothing", "unseen", "exit", "declined"}]
                    /\ \A t \in Targets \ {o.t} : /\ t \in alive' <=> t \in alive
                                                  /\ unheard'[t] = unheard[t]
<1>2. \/ /\ app' = Becomes(Past(app, o.t), o, "done") \/ app' = Becomes(app, o, "done")
         /\ o.t \in alive' /\ Other
      \/ /\ app' = Becomes(Past(app, o.t), o, "failed") \/ app' = Becomes(app, o, "failed")
         /\ Other
      \/ /\ app' = Becomes(app, o, "cancelled")
         /\ unheard'[o.t] = "declined" /\ Other
  BY <1>1 DEF MountRuns, Hears
<1>3. /\ o.t \in alive' => Up(o.t)'
      /\ unheard'[o.t] = "declined" => Down(o.t)'
  BY DEF Up, Down
<1>4. PICK b \in {app, Past(app, o.t)}, at \in {"done", "failed", "cancelled"} :
        /\ app' = Becomes(b, o, at) /\ Other
        /\ at = "done" => Up(o.t)'
        /\ at = "cancelled" => Down(o.t)'
  <2> HIDE DEF Other
  <2>1. QED
    BY <1>2, <1>3
<1>5. QED
  BY <1>1, <1>4, Ends

\* MountService::unmount.
LEMMA UnmountRunsKeeps ==
  ASSUME MountOperationsAssumption, IInv, NEW o \in app.ops, UnmountRuns(o)
  PROVE  IInv'
<1>1. /\ o.t \in Targets /\ o.at = "running" /\ o.kind = "unmount" /\ file' = file
      /\ alive \subseteq Targets /\ unheard' = unheard
      /\ unheard \in [Targets -> {"nothing", "unseen", "exit", "declined"}]
  BY DEF IInv, Good, Rest, App, Operations, UnmountRuns
<1>2. \/ /\ \E at \in {"done", "failed"} : app' = Becomes(Past(app, o.t), o, at)
         /\ alive' = alive \ {o.t}
      \/ app' = Becomes(app, o, "failed") /\ alive' = alive
  BY DEF UnmountRuns
<1>3. PICK b \in {app, Past(app, o.t)}, at \in {"done", "failed"} :
        /\ app' = Becomes(b, o, at)
        /\ alive' = alive \/ alive' = alive \ {o.t}
        /\ at = "done" => o.t \notin alive'
  BY <1>2
<1>4. at = "done" => Down(o.t)'
  BY <1>3 DEF Down
<1>5. QED
  BY <1>1, <1>3, <1>4, Ends

\* MountService::observe, which tells the truth of the moment.
LEMMA ObserveKeeps ==
  ASSUME MountOperationsAssumption, IInv, NEW f \in app.flights, Observe(f)
  PROVE  IInv'
<1>1. app \in App /\ f \in Flights
  BY DEF IInv, Good, App
<1>2. PICK saw \in {"mounted", "unmounted", "starting", "stale", "error"} :
        /\ app' = [app EXCEPT !.flights = (@ \ {f}) \cup {[f EXCEPT !.saw = saw]}]
        /\ saw = "mounted" => f.t \in alive
        /\ saw = "unmounted" => f.t \notin alive
  BY DEF Observe, MountOperationsAssumption
<1>3. UNCHANGED <<file, alive, unheard>>
  BY DEF Observe
<1> DEFINE g == [f EXCEPT !.saw = saw]
           b == [app EXCEPT !.flights = (@ \ {f}) \cup {g}]
<1>4. g \in Flights /\ g.t = f.t /\ g.req = f.req /\ g.saw = saw
  BY <1>1 DEF Flights, Statuses
<1> HIDE DEF g
<1>5. /\ b \in App /\ b.flights = (app.flights \ {f}) \cup {g} /\ Apart(app, b)
      /\ b.obs = app.obs /\ b.reading = app.reading /\ b.feedback = app.feedback
      /\ b.polls = app.polls /\ b.confirmed = app.confirmed
  BY <1>1, <1>4 DEF App, Apart
<1>6. app' = b
  BY <1>2 DEF g
<1> HIDE DEF b
<1>7. /\ Exclusive(b) /\ Operating(b) /\ Truthful(b) /\ Matching(b) /\ Consented(b)
      /\ Departing(b) /\ Held(b)
  BY <1>5 DEF IInv, Good, Held, Exclusive, Operating, Truthful, Matching, Consented,
              Departing, Apart
<1>8. Awaited(b)
  BY <1>2, <1>4, <1>5 DEF IInv, Good, Awaited, Up, Down
<1>9. QED
  BY <1>3, <1>5, <1>6, <1>7, <1>8, Handled DEF IInv, Good

\* MountService::transfer_snapshot, which is about the mount there is.
LEMMA PollTransfersKeeps ==
  ASSUME IInv, NEW t \in Targets, PollTransfers(t)
  PROVE  IInv'
<1>1. app \in App /\ app.polls \in [Targets -> Polls] /\ app.polls[t] \in Polls
  BY DEF IInv, Good, App
<1>2. PICK poll \in Polls :
        /\ app' = [app EXCEPT !.polls = [@ EXCEPT ![t] = poll]]
        /\ poll.gen = app.polls[t].gen /\ poll.answer # "none"
        /\ poll.answer = "synced" => poll.of = "this"
  <2>1. CASE \E answer \in {"synced", "pending"} :
               app' = [app EXCEPT !.polls[t].answer = answer, !.polls[t].of = "this"]
    <3>1. PICK answer \in {"synced", "pending"} :
            app' = [app EXCEPT !.polls[t].answer = answer, !.polls[t].of = "this"]
      BY <2>1
    <3> DEFINE p == [app.polls[t] EXCEPT !.answer = answer, !.of = "this"]
    <3>2. p \in Polls /\ p.gen = app.polls[t].gen /\ p.answer = answer /\ p.of = "this"
      BY <1>1 DEF Polls, Mounts
    <3>3. app' = [app EXCEPT !.polls = [@ EXCEPT ![t] = p]]
      BY <1>1, <3>1 DEF App
    <3>4. QED
      BY <3>2, <3>3
  <2>2. CASE app' = [app EXCEPT !.polls[t].answer = "error"]
    <3> DEFINE p == [app.polls[t] EXCEPT !.answer = "error"]
    <3>1. p \in Polls /\ p.gen = app.polls[t].gen /\ p.answer = "error"
      BY <1>1 DEF Polls
    <3>2. app' = [app EXCEPT !.polls = [@ EXCEPT ![t] = p]]
      BY <1>1, <2>2 DEF App
    <3>3. QED
      BY <3>1, <3>2
  <2>3. QED
    BY <2>1, <2>2 DEF PollTransfers
<1>3. app.polls[t].gen # 0 /\ UNCHANGED <<file, alive, unheard>>
  BY DEF IInv, Good, Matching, PollTransfers
<1> DEFINE b == [app EXCEPT !.polls = [@ EXCEPT ![t] = poll]]
<1>4. /\ b \in App /\ b.polls = [app.polls EXCEPT ![t] = poll] /\ Apart(app, b)
      /\ b.obs = app.obs /\ b.reading = app.reading /\ b.feedback = app.feedback
      /\ b.flights = app.flights /\ b.confirmed = app.confirmed
  BY <1>1 DEF App, Apart
<1> HIDE DEF b
<1>5. /\ Exclusive(b) /\ Operating(b) /\ Truthful(b) /\ Awaited(b) /\ Consented(b)
      /\ Departing(b) /\ Held(b)
  BY <1>4 DEF IInv, Good, Held, Exclusive, Operating, Truthful, Awaited, Consented,
              Departing, Apart
<1>6. Matching(b)
  <2>1. \A u \in Targets : b.polls[u] = IF u = t THEN poll ELSE app.polls[u]
    BY <1>1, <1>4
  <2>2. QED
    BY <1>2, <1>3, <1>4, <2>1 DEF IInv, Good, Matching
<1>7. QED
  BY <1>2, <1>3, <1>4, <1>5, <1>6, Handled DEF IInv, Good, b

\* rclone exits: what was heard of the mount is of a former one.
LEMMA ExitKeeps ==
  ASSUME MountOperationsAssumption, IInv, NEW t \in Targets, Exit(t)
  PROVE  IInv'
<1> DEFINE b == Past(app, t)
<1>1. app \in App
  BY DEF IInv, Good
<1>2. /\ app' = b /\ file' = file /\ alive' = alive \ {t}
      /\ unheard' = [unheard EXCEPT ![t] = "exit"]
  BY DEF Exit, Hears
<1>3. /\ b \in App /\ Apart(app, b) /\ b.obs = app.obs /\ b.reading = app.reading
      /\ b.flights = app.flights /\ b.confirmed = app.confirmed
      /\ \A u \in Targets \ {t} : /\ b.feedback[u] = app.feedback[u]
                                  /\ b.polls[u] = app.polls[u]
      /\ b.feedback[t].gen = app.feedback[t].gen
      /\ app.feedback[t] = NoFeedback => b.feedback[t] = NoFeedback
      /\ b.polls[t].gen = app.polls[t].gen
      /\ b.polls[t].answer = app.polls[t].answer
      /\ app.polls[t] = NoPoll => b.polls[t] = NoPoll
      /\ app.polls[t].of # "none" => b.polls[t].of # "none"
  BY <1>1, PastFields
<1> HIDE DEF b
<1>4. \A u \in Targets : (Up(u) => Up(u)') /\ (Down(u) => Down(u)')
  BY <1>2 DEF IInv, Rest, Up, Down
<1>5. Exclusive(app)' /\ Consented(app)' /\ Held(app)'
  BY <1>2, <1>3 DEF IInv, Good, Exclusive, Consented, Held, Apart
<1>6. Operating(app)'
  <2>1. \A o \in app.ops : o.t \in Targets /\ b.feedback[o.t] = NoFeedback
    BY <1>1, <1>3 DEF IInv, Good, Operating, App, Operations
  <2>2. QED
    BY <1>2, <1>3, <1>4, <2>1 DEF IInv, Good, Operating, Apart
<1>7. Truthful(app)'
  BY <1>2, <1>3, <1>4 DEF IInv, Good, Truthful, Rest
<1>8. Awaited(app)'
  BY <1>1, <1>2, <1>3, <1>4 DEF IInv, Good, Awaited, App, Flights
<1>9. Matching(app)'
  <2>1. ASSUME NEW u \in Targets
        PROVE  /\ b.feedback[u] # NoFeedback => b.feedback[u].gen # 0
               /\ b.polls[u] # NoPoll => b.polls[u].gen # 0
               /\ b.polls[u].answer = "synced" => b.polls[u].of # "none"
               /\ u \in alive' =>
                    /\ b.feedback[u].of \subseteq {"this"}
                    /\ b.polls[u].answer = "synced"
                       /\ b.polls[u].gen = b.feedback[u].gen => b.polls[u].of = "this"
    <3>1. CASE u = t
      BY <1>2, <1>3, <3>1 DEF IInv, Good, Matching
    <3>2. CASE u # t
      BY <1>2, <1>3, <3>2 DEF IInv, Good, Matching
    <3>3. QED
      BY <3>1, <3>2
  <2>2. QED
    BY <1>2, <2>1 DEF Matching
<1>10. Departing(app)'
  BY <1>2, <1>3 DEF IInv, Good, Departing, Rest, Apart
<1>11. Rest'
  BY <1>2 DEF IInv, Rest
<1>12. (app \in App)'
  BY <1>2, <1>3
<1>13. QED
  BY <1>5, <1>6, <1>7, <1>8, <1>9, <1>10, <1>11, <1>12 DEF IInv, Good

-----------------------------------------------------------------------------
(* Theorems                                                                *)

\* The window starts with every target under observation and nothing said of any.
LEMMA InitGood ==
  ASSUME MountOperationsAssumption, Init
  PROVE  IInv /\ TypeOK
<1>1. 1 \in Requests
  BY DEF MountOperationsAssumption, Requests
<1>2. StartReads(Targets) \subseteq Flights
  BY <1>1 DEF StartReads, Flights
<1>3. app \in App
  <2>1. NoFeedback \in Feedback /\ NoPoll \in Polls
    BY DEF NoFeedback, Feedback, NoPoll, Polls
  <2>2. QED
    BY <1>1, <1>2, <2>1 DEF Init, App, Statuses, Reasons
<1>4. /\ app.ops = {} /\ app.busy = {} /\ app.behind = {} /\ app.leaving = {}
      /\ app.obs = [t \in Targets |-> "none"]
      /\ app.feedback = [t \in Targets |-> NoFeedback]
      /\ app.polls = [t \in Targets |-> NoPoll]
      /\ app.confirmed = [t \in Targets |-> "no"]
      /\ app.flights = StartReads(Targets)
  BY DEF Init
<1>5. Exclusive(app) /\ Operating(app) /\ Departing(app) /\ Held(app) /\ Consented(app)
  BY <1>4 DEF Exclusive, Operating, Departing, Held, Consented
<1>6. Truthful(app) /\ Awaited(app) /\ Matching(app)
  <2>1. \A t \in alive : unheard[t] = "unseen"
    BY DEF Init
  <2>2. \A f \in app.flights : f.saw = "nothing"
    BY <1>4 DEF StartReads
  <2>3. QED
    BY <1>4, <2>1, <2>2 DEF Truthful, Awaited, Matching, NoFeedback, NoPoll
<1>7. Rest /\ user \in 0 .. MaxUser
  BY DEF Init, Rest, MountOperationsAssumption
<1>8. QED
  BY <1>3, <1>5, <1>6, <1>7 DEF IInv, Good, TypeOK, Rest

\* Every step of the user, of an answer, of a thread and of rclone keeps it.
LEMMA NextKeeps ==
  ASSUME MountOperationsAssumption, IInv, [Next]_vars
  PROVE  IInv'
<1>1. ASSUME User
      PROVE  IInv'
  BY <1>1, RequestKeeps, CommandKeeps, UnmountManyKeeps, UnmountConnectionKeeps,
     AnswerWhenKeeps, AnswerSureKeeps, CancelWaitKeeps, OpenKeeps, RefreshKeeps,
     BeginSaveKeeps, RemoveKeeps, BatchDeleteKeeps DEF User
<1>2. ASSUME Answers
      PROVE  IInv'
  BY <1>2, StatusLoadedKeeps, MountFinishedKeeps, TransferTickKeeps, CheckMountKeeps,
     CapacityTickKeeps, TransfersLoadedKeeps, EndSaveKeeps, RemovalDoneKeeps DEF Answers
<1>3. ASSUME Environment
      PROVE  IInv'
  BY <1>3, RemovedKeeps, MountRunsKeeps, UnmountRunsKeeps, ObserveKeeps,
     PollTransfersKeeps, ExitKeeps DEF Environment
<1>4. ASSUME UNCHANGED vars
      PROVE  IInv'
  BY <1>4, Handled DEF IInv, vars
<1>5. QED
  BY <1>1, <1>2, <1>3, <1>4 DEF Next

\* In every state the window is good, for any number of targets and connections.
THEOREM Inductive ==
  ASSUME MountOperationsAssumption
  PROVE  Spec => []IInv
<1>1. Init => IInv
  BY InitGood
<1>2. IInv /\ [Next]_vars => IInv'
  BY NextKeeps
<1>3. QED
  BY <1>1, <1>2, PTL DEF Spec

\* The state has the shape of App's fields: TypeOK holds for any number of targets.
THEOREM TypeCorrect ==
  ASSUME MountOperationsAssumption
  PROVE  Spec => []TypeOK
<1>1. Init => user \in 0 .. MaxUser
  BY InitGood DEF TypeOK
<1>2. user \in 0 .. MaxUser /\ [Next]_vars => (user \in 0 .. MaxUser)'
  BY DEF Next, User, vars, MountOperationsAssumption
<1>3. IInv /\ user \in 0 .. MaxUser => TypeOK
  BY DEF IInv, Good, Rest, TypeOK
<1>4. QED
  BY <1>1, <1>2, <1>3, Inductive, PTL DEF Spec

\* A target has one operation at a time, no held back command is left behind, and the
\* window says what is (WindowAgrees): buttons, commands, dialogs, late answers and
\* exits of rclone come in any order.
THEOREM Agrees ==
  ASSUME MountOperationsAssumption
  PROVE  Spec => []WindowAgrees
<1>1. ASSUME IInv
      PROVE  WindowAgrees
  <2>1. app \in App
    BY <1>1 DEF IInv, Good
  <2>2. OneOperation
    <3>1. \A o \in app.ops : o.t \in Targets
      BY <2>1 DEF App, Operations
    <3>2. app.leaving \subseteq Targets /\ app.busy \subseteq Targets
      BY <2>1 DEF App, Connections, MountOperationsAssumption
    <3>3. QED
      BY <1>1, <3>1, <3>2 DEF IInv, Good, Exclusive, OneOperation
  <2>3. HeldBackWhileBusy
    BY <1>1 DEF IInv, Held, HeldBackWhileBusy
  <2>4. SaysWhatIs
    BY <1>1 DEF IInv, Good, Truthful, Up, Down, SaysWhatIs
  <2>5. PollsOfThisMount
    BY <1>1 DEF IInv, Good, Matching, Rest, PollsOfThisMount
  <2>6. QED
    BY <2>2, <2>3, <2>4, <2>5 DEF WindowAgrees
<1>2. QED
  BY <1>1, Inductive, PTL

\* No unmount begins without the consent or the polls that make it safe, and no
\* connection is removed from under a mount the window had heard of (NothingLost).
THEOREM Lost ==
  ASSUME MountOperationsAssumption
  PROVE  Spec => NothingLost
<1>1. IInv => UnmountConsented
  BY DEF IInv, Good, Operating, UnmountConsented
<1>2. IInv /\ [Next]_vars
        => [\A conn \in file \ file' : conn \in alive => unheard[conn] # "nothing"]_vars
  <2>1. SUFFICES ASSUME IInv, Next, NEW conn \in file \ file', conn \in alive
                 PROVE  unheard[conn] # "nothing"
    OBVIOUS
  <2>2. Removed \/ file' = file
    BY <2>1 DEF Next, User, Answers, Environment, Request, Command, UnmountMany,
         UnmountConnection, AnswerWhen, AnswerSure, CancelWait, Open, Refresh, BeginSave,
         Remove, BatchDelete, StatusLoaded, MountFinished, TransferTick, CheckMount,
         CapacityTick, TransfersLoaded, EndSave, RemovalDone, MountRuns, UnmountRuns,
         Observe, PollTransfers, Exit
  <2>3. conn \in app.leaving \cap file
    BY <2>1, <2>2 DEF Removed
  <2>4. QED
    BY <2>1, <2>3 DEF IInv, Good, Departing
<1>3. QED
  BY <1>1, <1>2, Inductive, PTL DEF Spec, NothingLost, RemovedUnmounted
=============================================================================
