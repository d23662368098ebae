------------------------------ MODULE MCLive -------------------------------
(* What must eventually happen: in an update (UpdateTransaction) and in the   *)
(* processes that send commands to one another (AppCommand).  A behaviour is *)
(* about one of these.                                                       *)
EXTENDS UpdateTransaction

CONSTANTS u1, p1, p2, Free, NoState

VARIABLES
  part,   \* "update" or "command"
  a_pc, a_lock, a_state, a_open, a_stopping, a_early, a_goal, a_peer, a_conn, a_mutex,
  a_executed, a_outcome, a_late

command ==
  <<a_pc, a_lock, a_state, a_open, a_stopping, a_early, a_goal, a_peer, a_conn, a_mutex,
    a_executed, a_outcome, a_late>>

A == INSTANCE AppCommand WITH
  Procs <- {p1, p2}, Free <- Free, NoState <- NoState, QueueCapacity <- 1, Workers <- 1,
  pc <- a_pc, lock <- a_lock, state <- a_state, open <- a_open, stopping <- a_stopping,
  early <- a_early, goal <- a_goal, peer <- a_peer, conn <- a_conn, mutex <- a_mutex,
  executed <- a_executed, outcome <- a_outcome, late <- a_late

LiveInit ==
  /\ part \in {"update", "command"}
  /\ Init
  /\ A!Init
  /\ part = "update" \/ app = [n \in Names |-> 1]
  /\ part = "command" \/ a_early = [p \in {p1, p2} |-> FALSE]

LiveNext ==
  \/ part = "update" /\ UNCHANGED <<part, command>> /\ Next
  \/ part = "command" /\ UNCHANGED <<part, vars>> /\ A!Next

liveVars == <<part, vars, command>>

\* The fairness of both, each while the behaviour is about it.
LiveSpec ==
  /\ LiveInit
  /\ [][LiveNext]_liveVars
  /\ WF_liveVars(part = "update" /\ HelperStep(u1) /\ UNCHANGED <<part, command>>)
  /\ \A p \in {p1, p2} :
       /\ WF_liveVars(part = "command" /\ A!Client(p) /\ UNCHANGED <<part, vars>>)
       /\ WF_liveVars(part = "command" /\ A!Shutdown(p) /\ UNCHANGED <<part, vars>>)

\* The types of both.
AllTypeOK == IF part = "update" THEN TypeOK ELSE A!TypeOK

\* UpdateTransaction: the helper ends, and an application runs again.
UpdateEnds == HelperEnds /\ AppReturns

\* AppCommand: neither a slow client nor a crashed server keeps the other side waiting for
\* ever.
CommandsEnd == A!ServerEnds /\ A!ClientEnds
=============================================================================
