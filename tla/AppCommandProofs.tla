-------------------------- MODULE AppCommandProofs --------------------------
(***************************************************************************)
(* Proofs about AppCommand, for every set of processes and every number of *)
(* workers and places in the queue.                                        *)
(***************************************************************************)
EXTENDS AppCommand, TLAPS

-----------------------------------------------------------------------------
(* The inductive invariant                                                 *)

\* Who works alone, starts a server or serves holds the instance lock; a server that
\* stops still does unless it dropped the lock first.
Holds ==
  \A p \in Procs :
    /\ pc[p] \in Starting \cup {"headless", "serving"} => lock = p
    /\ pc[p] \in Stopping /\ ~early[p] => lock = p

\* The state file names a server that was published and whose start did not fail, and
\* never another than the one that has just published itself or serves.
Published ==
  \A p \in Procs :
    /\ state = p => /\ pc[p] \in {"spawn", "unpublish", "serving"} \cup Stopping \cup Ended
                    /\ outcome[p] # "failed"
    /\ pc[p] \in {"spawn", "serving"} => state \in {p, NoState}

\* `stopping` is set before the server lets go of anything.
StoppingSet ==
  \A p \in Procs : pc[p] \in Stopping \ {"stop"} => stopping[p]

\* One connection of a server is in the callback, the one that its mutex names.
OneCalling ==
  \A c \in Procs : conn[c] = "calling" => peer[c] \in Procs /\ mutex[peer[c]] = c

\* A callback came too late only if its server is gone, and was the last one.
LateIsLast ==
  \A p \in Procs :
    /\ late[p] \in {0, 1}
    /\ late[p] = 1 =>
         /\ pc[p] \in {"dropped"} \cup Ended
         /\ \A c \in Procs : ~(peer[c] = p /\ conn[c] = "calling")

\* A connection tells whether its command was executed; before it there was none.
Delivered ==
  \A c \in Procs :
    /\ pc[c] \in {"new", "headless", "verify", "send"} => conn[c] = "none" /\ executed[c] = 0
    /\ conn[c] \in InFlight \cup {"rejected", "closed"} => executed[c] = 0
    /\ conn[c] = "ok" => executed[c] = 1
    /\ conn[c] \in InFlight =>
         /\ pc[c] \in {"await"} \cup Ended
         /\ outcome[c] \in {"none", "io"}

\* Whoever was told something has ended.
ToldAtTheEnd == \A p \in Procs : outcome[p] # "none" => pc[p] = "end"

IInv ==
  /\ TypeOK /\ Holds /\ Published /\ StoppingSet /\ OneCalling /\ LateIsLast
  /\ Delivered /\ ToldAtTheEnd

USE AppCommandAssumption DEF Starting, Stopping, Ended, Alive, InFlight, Finished

-----------------------------------------------------------------------------
(* Every step keeps the invariant                                          *)

\* Every step keeps the types.
LEMMA TypeStep == TypeOK /\ [Next]_vars => TypeOK'
<1> SUFFICES ASSUME TypeOK, [Next]_vars PROVE TypeOK'
  OBVIOUS
<1> USE DEF TypeOK, Go, End, server
<1>1. ASSUME NEW p \in Procs, Client(p) PROVE TypeOK'
  <2>1. CASE Launch(p) BY <2>1 DEF Launch, LockFree
  <2>2. CASE Headless(p) BY <2>2 DEF Headless
  <2>3. CASE Verify(p) BY <2>3 DEF Verify
  <2>4. CASE Connect(p) BY <2>4 DEF Connect, Reachable
  <2>5. CASE GiveUp(p) BY <2>5 DEF GiveUp
  <2>6. CASE Answer(p) BY <2>6 DEF Answer
  <2>7. CASE NoAnswer(p) BY <2>7 DEF NoAnswer
  <2>8. CASE Relock(p) BY <2>8 DEF Relock, LockFree
  <2>9. QED BY <1>1, <2>1, <2>2, <2>3, <2>4, <2>5, <2>6, <2>7, <2>8 DEF Client
<1>2. ASSUME NEW p \in Procs, Startup(p) PROVE TypeOK'
  <2>1. CASE Bind(p) BY <2>1 DEF Bind
  <2>2. CASE Unlink(p) BY <2>2 DEF Unlink
  <2>3. CASE Publish(p) BY <2>3 DEF Publish, Closed
  <2>4. CASE Spawn(p) BY <2>4 DEF Spawn
  <2>5. CASE Unpublish(p) BY <2>5 DEF Unpublish, UnpublishOwn, Closed
  <2>6. QED BY <1>2, <2>1, <2>2, <2>3, <2>4, <2>5 DEF Startup
<1>3. ASSUME NEW p \in Procs, Serve(p) PROVE TypeOK'
  <2>1. CASE Accept(p) BY <2>1 DEF Accept
  <2>2. CASE AcceptError(p) BY <2>2 DEF AcceptError, BacklogClosed
  <2>3. CASE Take(p) BY <2>3 DEF Take, Queued
  <2>4. CASE Read(p) BY <2>4 DEF Read, Busy, Refused
  <2>5. CASE Enter(p) BY <2>5 DEF Enter, Busy, Refused
  <2>6. CASE Call(p) BY <2>6 DEF Call, Busy
  <2>7. QED BY <1>3, <2>1, <2>2, <2>3, <2>4, <2>5, <2>6 DEF Serve
<1>4. ASSUME NEW p \in Procs, Stop(p) \/ Shutdown(p) \/ Crash(p) PROVE TypeOK'
  <2>1. CASE Stop(p) BY <2>1 DEF Stop
  <2>2. CASE SetStopping(p) BY <2>2 DEF SetStopping
  <2>3. CASE Join(p) BY <2>3 DEF Join, BacklogClosed
  <2>4. CASE Owns(p) BY <2>4 DEF Owns
  <2>5. CASE Remove(p) BY <2>5 DEF Remove
  <2>6. CASE Leave(p) BY <2>6 DEF Leave, Closed
  <2>7. CASE Crash(p) BY <2>7 DEF Crash, Closed
  <2>8. QED BY <1>4, <2>1, <2>2, <2>3, <2>4, <2>5, <2>6, <2>7 DEF Shutdown
<1>5. CASE UNCHANGED vars BY <1>5 DEF vars
<1>6. QED BY <1>1, <1>2, <1>3, <1>4, <1>5 DEF Next

\* Every step keeps who holds the lock.
LEMMA HoldsStep ==
  ASSUME IInv, [Next]_vars PROVE Holds'
<1> USE DEF IInv, TypeOK, Go, End, server, Closed, BacklogClosed, Queued, Busy, Holds
<1>1. ASSUME NEW p \in Procs, Client(p) PROVE Holds'
  BY <1>1 DEF Client, Launch, LockFree, Headless, Verify, Connect, Reachable, GiveUp, Answer,
    NoAnswer, RetryableAfterConnect, Relock
<1>2. ASSUME NEW p \in Procs, Startup(p) PROVE Holds'
  BY <1>2 DEF Startup, Bind, Unlink, Publish, Spawn, Unpublish, UnpublishOwn
<1>3. ASSUME NEW p \in Procs, Serve(p) PROVE Holds'
  <2>1. CASE Accept(p) BY <2>1 DEF Accept
  <2>2. CASE AcceptError(p) BY <2>2 DEF AcceptError
  <2>3. CASE Take(p) BY <2>3 DEF Take
  <2>4. CASE Read(p) BY <2>4 DEF Read, Refused
  <2>5. CASE Enter(p) BY <2>5 DEF Enter, Refused, StoppingSeen, Running
  <2>6. CASE Call(p) BY <2>6 DEF Call, Running
  <2>7. QED BY <1>3, <2>1, <2>2, <2>3, <2>4, <2>5, <2>6 DEF Serve
<1>4. ASSUME NEW p \in Procs, Stop(p) \/ Shutdown(p) \/ Crash(p) PROVE Holds'
  BY <1>4 DEF Stop, Shutdown, SetStopping, Join, Owns, Remove, Leave, Crash
<1>5. CASE UNCHANGED vars
  BY <1>5 DEF vars
<1>6. QED
  BY <1>1, <1>2, <1>3, <1>4, <1>5 DEF Next

\* Every step keeps whom the state file names.
LEMMA PublishedStep ==
  ASSUME IInv, [Next]_vars PROVE Published'
<1> USE DEF IInv, TypeOK, Go, End, server, Closed, BacklogClosed, Queued, Busy, Holds, Published, ToldAtTheEnd
<1>1. ASSUME NEW p \in Procs, Client(p) PROVE Published'
  BY <1>1 DEF Client, Launch, LockFree, Headless, Verify, Connect, Reachable, GiveUp, Answer,
    NoAnswer, RetryableAfterConnect, Relock
<1>2. ASSUME NEW p \in Procs, Startup(p) PROVE Published'
  BY <1>2 DEF Startup, Bind, Unlink, Publish, Spawn, Unpublish, UnpublishOwn
<1>3. ASSUME NEW p \in Procs, Serve(p) PROVE Published'
  BY <1>3 DEF Serve, Accept, AcceptError, Take, Read, Refused, Enter, StoppingSeen, Call, Running
<1>4. ASSUME NEW p \in Procs, Stop(p) \/ Shutdown(p) \/ Crash(p) PROVE Published'
  BY <1>4 DEF Stop, Shutdown, SetStopping, Join, Owns, Remove, Leave, Crash
<1>5. CASE UNCHANGED vars
  BY <1>5 DEF vars
<1>6. QED
  BY <1>1, <1>2, <1>3, <1>4, <1>5 DEF Next

\* Every step keeps what is known of a server that stops.
LEMMA StoppingSetStep ==
  ASSUME IInv, [Next]_vars PROVE StoppingSet'
<1> USE DEF IInv, TypeOK, Go, End, server, Closed, BacklogClosed, Queued, Busy, StoppingSet
<1>1. ASSUME NEW p \in Procs, Client(p) PROVE StoppingSet'
  BY <1>1 DEF Client, Launch, LockFree, Headless, Verify, Connect, Reachable, GiveUp, Answer,
    NoAnswer, RetryableAfterConnect, Relock
<1>2. ASSUME NEW p \in Procs, Startup(p) PROVE StoppingSet'
  BY <1>2 DEF Startup, Bind, Unlink, Publish, Spawn, Unpublish, UnpublishOwn
<1>3. ASSUME NEW p \in Procs, Serve(p) PROVE StoppingSet'
  <2>1. CASE Accept(p) BY <2>1 DEF Accept
  <2>2. CASE AcceptError(p) BY <2>2 DEF AcceptError
  <2>3. CASE Take(p) BY <2>3 DEF Take
  <2>4. CASE Read(p) BY <2>4 DEF Read, Refused
  <2>5. CASE Enter(p) BY <2>5 DEF Enter, Refused, StoppingSeen, Running
  <2>6. CASE Call(p) BY <2>6 DEF Call, Running
  <2>7. QED BY <1>3, <2>1, <2>2, <2>3, <2>4, <2>5, <2>6 DEF Serve
<1>4. ASSUME NEW p \in Procs, Stop(p) \/ Shutdown(p) \/ Crash(p) PROVE StoppingSet'
  BY <1>4 DEF Stop, Shutdown, SetStopping, Join, Owns, Remove, Leave, Crash
<1>5. CASE UNCHANGED vars
  BY <1>5 DEF vars
<1>6. QED
  BY <1>1, <1>2, <1>3, <1>4, <1>5 DEF Next

\* Nobody is told the outcome of a command before it is decided.
LEMMA ToldAtTheEndStep ==
  ASSUME IInv, [Next]_vars PROVE ToldAtTheEnd'
<1> USE DEF IInv, TypeOK, Go, End, server, Closed, BacklogClosed, Queued, Busy, ToldAtTheEnd
<1>1. ASSUME NEW p \in Procs, Client(p) PROVE ToldAtTheEnd'
  BY <1>1 DEF Client, Launch, LockFree, Headless, Verify, Connect, Reachable, GiveUp, Answer,
    NoAnswer, RetryableAfterConnect, Relock
<1>2. ASSUME NEW p \in Procs, Startup(p) PROVE ToldAtTheEnd'
  BY <1>2 DEF Startup, Bind, Unlink, Publish, Spawn, Unpublish, UnpublishOwn
<1>3. ASSUME NEW p \in Procs, Serve(p) PROVE ToldAtTheEnd'
  BY <1>3 DEF Serve, Accept, AcceptError, Take, Read, Refused, Enter, StoppingSeen, Call, Running
<1>4. ASSUME NEW p \in Procs, Stop(p) \/ Shutdown(p) \/ Crash(p) PROVE ToldAtTheEnd'
  BY <1>4 DEF Stop, Shutdown, SetStopping, Join, Owns, Remove, Leave, Crash
<1>5. CASE UNCHANGED vars
  BY <1>5 DEF vars
<1>6. QED
  BY <1>1, <1>2, <1>3, <1>4, <1>5 DEF Next

\* At most one callback of a server runs at a time.
LEMMA OneCallingStep ==
  ASSUME IInv, [Next]_vars PROVE OneCalling'
<1> USE DEF IInv, TypeOK, Go, End, server, Closed, BacklogClosed, Queued, Busy, OneCalling
<1>1. ASSUME NEW p \in Procs, Client(p) PROVE OneCalling'
  BY <1>1 DEF Client, Launch, LockFree, Headless, Verify, Connect, Reachable, GiveUp, Answer,
    NoAnswer, RetryableAfterConnect, Relock
<1>2. ASSUME NEW p \in Procs, Startup(p) PROVE OneCalling'
  BY <1>2 DEF Startup, Bind, Unlink, Publish, Spawn, Unpublish, UnpublishOwn
<1>3. ASSUME NEW p \in Procs, Serve(p) PROVE OneCalling'
  <2>1. CASE Accept(p) BY <2>1 DEF Accept
  <2>2. CASE AcceptError(p) BY <2>2 DEF AcceptError
  <2>3. CASE Take(p) BY <2>3 DEF Take
  <2>4. CASE Read(p) BY <2>4 DEF Read, Refused
  <2>5. CASE Enter(p) BY <2>5 DEF Enter, Refused, StoppingSeen, Running
  <2>6. CASE Call(p) BY <2>6 DEF Call, Running
  <2>7. QED BY <1>3, <2>1, <2>2, <2>3, <2>4, <2>5, <2>6 DEF Serve
<1>4. ASSUME NEW p \in Procs, Stop(p) \/ Shutdown(p) \/ Crash(p) PROVE OneCalling'
  BY <1>4 DEF Stop, Shutdown, SetStopping, Join, Owns, Remove, Leave, Crash
<1>5. CASE UNCHANGED vars
  BY <1>5 DEF vars
<1>6. QED
  BY <1>1, <1>2, <1>3, <1>4, <1>5 DEF Next

\* A callback that runs after its server is gone is the last.
LEMMA LateIsLastStep ==
  ASSUME IInv, [Next]_vars PROVE LateIsLast'
<1> USE DEF IInv, TypeOK, Go, End, server, Closed, BacklogClosed, Queued, Busy, StoppingSet, OneCalling, LateIsLast
<1>1. ASSUME NEW p \in Procs, Client(p) PROVE LateIsLast'
  BY <1>1 DEF Client, Launch, LockFree, Headless, Verify, Connect, Reachable, GiveUp, Answer,
    NoAnswer, RetryableAfterConnect, Relock
<1>2. ASSUME NEW p \in Procs, Startup(p) PROVE LateIsLast'
  BY <1>2 DEF Startup, Bind, Unlink, Publish, Spawn, Unpublish, UnpublishOwn
<1>3. ASSUME NEW p \in Procs, Serve(p) PROVE LateIsLast'
  <2>1. CASE Accept(p) BY <2>1 DEF Accept
  <2>2. CASE AcceptError(p) BY <2>2 DEF AcceptError
  <2>3. CASE Take(p) BY <2>3 DEF Take
  <2>4. CASE Read(p) BY <2>4 DEF Read, Refused
  <2>5. CASE Enter(p) BY <2>5 DEF Enter, Refused, StoppingSeen, Running
  <2>6. CASE Call(p) BY <2>6 DEF Call, Running
  <2>7. QED BY <1>3, <2>1, <2>2, <2>3, <2>4, <2>5, <2>6 DEF Serve
<1>4. ASSUME NEW p \in Procs, Stop(p) \/ Shutdown(p) \/ Crash(p) PROVE LateIsLast'
  BY <1>4 DEF Stop, Shutdown, SetStopping, Join, Owns, Remove, Leave, Crash
<1>5. CASE UNCHANGED vars
  BY <1>5 DEF vars
<1>6. QED
  BY <1>1, <1>2, <1>3, <1>4, <1>5 DEF Next

\* Every step keeps what is known of delivered commands.
LEMMA DeliveredStep ==
  ASSUME IInv, [Next]_vars PROVE Delivered'
<1> USE DEF IInv, TypeOK, Go, End, server, Closed, BacklogClosed, Queued, Busy, ToldAtTheEnd, Delivered
<1>1. ASSUME NEW p \in Procs, Client(p) PROVE Delivered'
  BY <1>1 DEF Client, Launch, LockFree, Headless, Verify, Connect, Reachable, GiveUp, Answer,
    NoAnswer, RetryableAfterConnect, Relock
<1>2. ASSUME NEW p \in Procs, Startup(p) PROVE Delivered'
  BY <1>2 DEF Startup, Bind, Unlink, Publish, Spawn, Unpublish, UnpublishOwn
<1>3. ASSUME NEW p \in Procs, Serve(p) PROVE Delivered'
  <2>1. CASE Accept(p) BY <2>1 DEF Accept
  <2>2. CASE AcceptError(p) BY <2>2 DEF AcceptError
  <2>3. CASE Take(p) BY <2>3 DEF Take
  <2>4. CASE Read(p) BY <2>4 DEF Read, Refused
  <2>5. CASE Enter(p) BY <2>5 DEF Enter, Refused, StoppingSeen, Running
  <2>6. CASE Call(p) BY <2>6 DEF Call, Running
  <2>7. QED BY <1>3, <2>1, <2>2, <2>3, <2>4, <2>5, <2>6 DEF Serve
<1>4. ASSUME NEW p \in Procs, Stop(p) \/ Shutdown(p) \/ Crash(p) PROVE Delivered'
  BY <1>4 DEF Stop, Shutdown, SetStopping, Join, Owns, Remove, Leave, Crash
<1>5. CASE UNCHANGED vars
  BY <1>5 DEF vars
<1>6. QED
  BY <1>1, <1>2, <1>3, <1>4, <1>5 DEF Next

\* The invariant holds throughout: the lock, the state file, the mutexes, the connections
\* and what the senders were told agree as IInv says.
THEOREM Inductive == Spec => []IInv
<1>1. Init => IInv
  <2>1. Init => TypeOK
    BY DEF Init, TypeOK
  <2>2. Init => Holds /\ Published /\ StoppingSet /\ OneCalling
    BY DEF Init, Holds, Published, StoppingSet, OneCalling
  <2>3. Init => LateIsLast /\ Delivered /\ ToldAtTheEnd
    BY DEF Init, LateIsLast, Delivered, ToldAtTheEnd
  <2>4. QED
    BY <2>1, <2>2, <2>3 DEF IInv
<1>2. IInv /\ [Next]_vars => IInv'
  <2>1. IInv => TypeOK
    BY DEF IInv
  <2>2. QED
    BY <2>1, TypeStep, HoldsStep, PublishedStep, StoppingSetStep, ToldAtTheEndStep,
      OneCallingStep, LateIsLastStep, DeliveredStep DEF IInv
<1>3. QED
  BY <1>1, <1>2, PTL DEF Spec

-----------------------------------------------------------------------------
(* What follows from it                                                    *)

\* Every variable keeps its type.
THEOREM TypeCorrect == Spec => []TypeOK
<1>1. IInv => TypeOK
  BY DEF IInv
<1>2. QED
  BY <1>1, Inductive, PTL

\* While a server is up the state file names it or nobody (app_command.rs:381, 527), and at
\* most one callback of a server runs after the server is gone, however many
\* workers wait for the mutex.
THEOREM KnowsItsServer == Spec => []ServerKnown
<1>1. IInv => ServerKnown
  BY DEF IInv, TypeOK, Published, LateIsLast, ServerKnown, StateNamesServer, AtMostOneLate
<1>2. QED
  BY <1>1, Inductive, PTL

-----------------------------------------------------------------------------
(* The protocol implements CommandDelivery                                 *)

\* At the start nothing has been sent.
LEMMA InitImplements == Init => Delivery!Init
BY DEF Init, Delivery!Init, Told

\* A step that hands out no command and tells nobody anything is a stutter.
LEMMA Silent ==
  ASSUME executed' = executed, outcome' = outcome
  PROVE  UNCHANGED Delivery!vars
BY DEF Delivery!vars, Told

\* A process that ends with an outcome is told what it stands for.
LEMMA Telling ==
  ASSUME TypeOK, NEW p \in Procs, NEW told,
         outcome[p] = "none", executed' = executed,
         outcome' = [outcome EXCEPT ![p] = told],
         told \in {"ok", "rejected", "io", "not_running", "busy", "declined", "failed",
                   "stopped"},
         told = "ok" => executed[p] = 1,
         told \in {"rejected", "not_running", "declined"} => executed[p] = 0
  PROVE  Delivery!Next
<1> DEFINE what == IF told = "ok" THEN "done"
                   ELSE IF told \in {"rejected", "not_running", "declined"} THEN "refused"
                   ELSE "unknown"
<1>1. Told(p) = "nothing" /\ Told(p)' = what
  BY DEF Told, TypeOK
<1>2. \A q \in Procs \ {p} : Told(q)' = Told(q)
  BY DEF Told, TypeOK
<1>3. [q \in Procs |-> Told(q)]' = [[q \in Procs |-> Told(q)] EXCEPT ![p] = what]
  BY <1>1, <1>2
<1>4. Delivery!Tell(p, what)
  BY <1>1, <1>3 DEF Delivery!Tell
<1>5. QED
  BY <1>4 DEF Delivery!Next

\* A server that hands out the command of a connection carries it out.
LEMMA Calling ==
  ASSUME IInv, NEW p \in Procs, Call(p)
  PROVE  Delivery!Next
<1>1. PICK c \in Procs : /\ conn[c] = "calling" /\ executed' = [executed EXCEPT ![c] = @ + 1]
                         /\ UNCHANGED outcome
  BY DEF Call, Busy
<1>2. executed[c] = 0 /\ outcome[c] \in {"none", "io"}
  BY <1>1 DEF IInv, Delivered
<1>3. Told(c) \in {"nothing", "unknown"} /\ [q \in Procs |-> Told(q)]' = [q \in Procs |-> Told(q)]
  BY <1>1, <1>2 DEF Told
<1>4. Delivery!CarryOut(c)
  BY <1>1, <1>2, <1>3 DEF Delivery!CarryOut, IInv, TypeOK
<1>5. QED
  BY <1>4 DEF Delivery!Next

\* A process that is alone carries its own command out, or fails.
LEMMA Alone ==
  ASSUME IInv, NEW p \in Procs, Headless(p)
  PROVE  Delivery!Next
<1>1. executed[p] = 0 /\ outcome[p] = "none"
  BY DEF Headless, IInv, TypeOK, Delivered, ToldAtTheEnd
<1>2. CASE executed' = [executed EXCEPT ![p] = @ + 1] /\ End(p, "ok")
  <2>1. Told(p) = "nothing" /\ Told(p)' = "done" /\ \A q \in Procs \ {p} : Told(q)' = Told(q)
    BY <1>1, <1>2 DEF Told, End, IInv, TypeOK
  <2>2. [q \in Procs |-> Told(q)]' = [[q \in Procs |-> Told(q)] EXCEPT ![p] = "done"]
    BY <2>1
  <2>3. Delivery!Itself(p)
    BY <1>1, <1>2, <2>1, <2>2 DEF Delivery!Itself, IInv, TypeOK
  <2>4. QED
    BY <2>3 DEF Delivery!Next
<1>3. CASE UNCHANGED executed /\ End(p, "failed")
  BY <1>1, <1>3, Telling DEF End, IInv
<1>4. QED
  BY <1>2, <1>3 DEF Headless

Implemented == Delivery!Next \/ UNCHANGED Delivery!vars

\* Every step of the protocol is one of CommandDelivery, or a stutter.
LEMMA StepImplements ==
  ASSUME IInv, [Next]_vars
  PROVE  Implemented
<1>a. executed' = executed /\ outcome' = outcome => Implemented
  BY Silent DEF Implemented
<1>b. \A p \in Procs : pc[p] # "end" => outcome[p] = "none"
  BY DEF IInv, ToldAtTheEnd
<1>c. TypeOK
  BY DEF IInv
<1>1. ASSUME NEW p \in Procs, Client(p) PROVE Implemented
  <2>1. CASE Launch(p) \/ Connect(p)
    BY <2>1, <1>a DEF Launch, Connect
  <2>2. CASE Headless(p)
    BY <2>2, Alone DEF Implemented
  <2>3. CASE Verify(p) \/ GiveUp(p)
    <3>1. executed[p] = 0 /\ outcome[p] = "none" /\ UNCHANGED executed
      BY <1>b, <2>3 DEF IInv, Delivered, Verify, GiveUp
    <3>2. \/ UNCHANGED outcome
          \/ End(p, "declined") \/ End(p, "not_running")
      BY <2>3 DEF Verify, GiveUp
    <3>3. QED
      BY <1>a, <1>c, <3>1, <3>2, Telling DEF End, Implemented
  <2>4. CASE Answer(p)
    <3>1. outcome[p] = "none" /\ UNCHANGED executed
      BY <1>b, <2>4 DEF Answer
    <3>2. \/ UNCHANGED outcome
          \/ End(p, "ok") /\ executed[p] = 1
          \/ End(p, "rejected") /\ executed[p] = 0
          \/ End(p, "io")
      BY <2>4 DEF Answer, IInv, Delivered, Finished
    <3>3. QED
      BY <1>a, <1>c, <3>1, <3>2, Telling DEF End, Implemented
  <2>5. CASE NoAnswer(p) \/ Relock(p)
    <3>1. outcome[p] = "none" /\ UNCHANGED executed
      BY <1>b, <2>5 DEF NoAnswer, Relock
    <3>2. UNCHANGED outcome \/ End(p, "io") \/ End(p, "busy")
      BY <2>5 DEF NoAnswer, Relock
    <3>3. QED
      BY <1>a, <1>c, <3>1, <3>2, Telling DEF End, Implemented
  <2>6. QED
    BY <1>1, <2>1, <2>2, <2>3, <2>4, <2>5 DEF Client
<1>2. ASSUME NEW p \in Procs, Startup(p) PROVE Implemented
  <2>1. outcome[p] = "none" /\ UNCHANGED executed
    BY <1>b, <1>2 DEF Startup, Bind, Unlink, Publish, Spawn, Unpublish
  <2>2. UNCHANGED outcome \/ End(p, "failed")
    BY <1>2 DEF Startup, Bind, Unlink, Publish, Spawn, Unpublish
  <2>3. QED
    BY <1>a, <1>c, <2>1, <2>2, Telling DEF End, Implemented
<1>3. ASSUME NEW p \in Procs, Serve(p) PROVE Implemented
  <2>1. CASE Call(p)
    BY <2>1, Calling DEF Implemented
  <2>2. CASE Accept(p) \/ AcceptError(p) \/ Take(p) \/ Read(p) \/ Enter(p)
    BY <2>2, <1>a DEF Accept, AcceptError, Take, Read, Enter
  <2>3. QED
    BY <1>3, <2>1, <2>2 DEF Serve
<1>4. ASSUME NEW p \in Procs, Stop(p) \/ Shutdown(p) \/ Crash(p) PROVE Implemented
  <2>1. CASE Leave(p)
    <3>1. outcome[p] = "none" /\ UNCHANGED executed /\ End(p, "stopped")
      BY <1>b, <2>1 DEF Leave
    <3>2. QED
      BY <1>c, <3>1, Telling DEF End, Implemented
  <2>2. CASE ~Leave(p)
    BY <1>4, <2>2, <1>a DEF Stop, Shutdown, SetStopping, Join, Owns, Remove, Crash, server
  <2>3. QED
    BY <2>1, <2>2
<1>5. CASE UNCHANGED vars
  BY <1>5, <1>a DEF vars
<1>6. QED
  BY <1>1, <1>2, <1>3, <1>4, <1>5 DEF Next

\* Each step of the protocol is one of CommandDelivery, or none: no command is carried out
\* twice, none after its sender was told that it was refused, and "ok" is true.
THEOREM Refinement == Spec => ImplementsDelivery
<1>1. IInv /\ [Next]_vars => [Delivery!Next]_Delivery!vars
  BY StepImplements DEF Implemented
<1>2. QED
  BY <1>1, InitImplements, Inductive, PTL DEF Spec, ImplementsDelivery, Delivery!Spec
=============================================================================
