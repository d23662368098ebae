-------------------------- MODULE CommandDelivery --------------------------
(***************************************************************************)
(* What app_command.rs promises to whoever starts the application with a   *)
(* command: it is carried out at most once, now or later; who is told that *)
(* it was carried out was told the truth, and after a refusal it never is. *)
(* Without an answer in time the sender knows nothing.                     *)
(***************************************************************************)
EXTENDS Naturals

CONSTANT Senders

VARIABLES
  times,  \* how often the command of each sender was carried out
  told    \* what each sender knows

vars == <<times, told>>

Init == times = [s \in Senders |-> 0] /\ told = [s \in Senders |-> "nothing"]

CarryOut(s) ==
  /\ times[s] = 0 /\ told[s] \in {"nothing", "unknown"}
  /\ times' = [times EXCEPT ![s] = 1]
  /\ UNCHANGED told

Tell(s, what) ==
  /\ told[s] = "nothing"
  /\ what = "done" => times[s] = 1
  /\ what = "refused" => times[s] = 0
  /\ told' = [told EXCEPT ![s] = what]
  /\ UNCHANGED times

\* A process that is alone carries its own command out.
Itself(s) ==
  /\ times[s] = 0 /\ told[s] = "nothing"
  /\ times' = [times EXCEPT ![s] = 1]
  /\ told' = [told EXCEPT ![s] = "done"]

Next ==
  \E s \in Senders : CarryOut(s) \/ Itself(s) \/ \E what \in {"done", "refused", "unknown"} : Tell(s, what)

Spec == Init /\ [][Next]_vars
=============================================================================
