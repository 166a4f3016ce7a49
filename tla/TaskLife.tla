------------------------------- MODULE TaskLife ------------------------------
(***************************************************************************)
(* What the kernel promises of the life of its tasks: each is in one       *)
(* place, one of them moves at a time and in one of six ways, only the     *)
(* running task makes itself wait, and the processor is handed to a ready  *)
(* task of the highest priority.  When the running task has left the ready *)
(* ones, nothing else happens before it is handed over.                    *)
(***************************************************************************)
EXTENDS Integers

CONSTANTS Task, Idle,
          Priority  \* numbers: the smaller, the more urgent

VARIABLES place,   \* "dead", "suspended", "ready" or "waiting"
          prio,    \* the priority of each task
          running  \* the task that has the processor

vars == <<place, prio, running>>

\* The running task is ready: it has not just left the ready ones.
Serving == place[running] = "ready"

Init ==
  /\ place = [t \in Task |-> IF t = Idle THEN "ready" ELSE "dead"]
  /\ prio \in [Task -> Priority]
  /\ running = Idle

Create(t) ==
  /\ UNCHANGED running
  /\ place[t] = "dead" /\ Serving
  /\ \E p \in Priority : prio' = [prio EXCEPT ![t] = p]
  /\ place' \in {[place EXCEPT ![t] = "ready"], [place EXCEPT ![t] = "suspended"]}

\* Task t goes from one of the places to another.
Goes(t, from, to) ==
  /\ UNCHANGED <<prio, running>>
  /\ place[t] \in from /\ Serving
  /\ place' = [place EXCEPT ![t] = to]

Live == {"suspended", "ready", "waiting"}

Terminate(t) == t # Idle /\ Goes(t, Live, "dead")
Suspend(t) == t # Idle /\ Goes(t, Live, "suspended")
Resume(t) == Goes(t, {"suspended"}, "ready")
Block == running # Idle /\ Goes(running, {"ready"}, "waiting")
Wake(t) == Goes(t, {"waiting"}, "ready")

Dispatch(t) ==
  /\ running' = t
  /\ place[t] = "ready" /\ \A u \in Task : place[u] = "ready" => prio[t] <= prio[u]
  /\ UNCHANGED <<place, prio>>

Next ==
  \/ \E t \in Task : Dispatch(t)
  \/ Block
  \/ \E t \in Task : Create(t) \/ Terminate(t) \/ Suspend(t) \/ Resume(t) \/ Wake(t)

Spec == Init /\ [][Next]_vars
=============================================================================
