---------------------------- MODULE SandboxLifecycle ----------------------------
(***************************************************************************)
(* What the orchestrator promises about the lifecycle of its sandboxes: a  *)
(* sandbox in a transitional state is in the hands of one operation, which *)
(* alone settles it, and moves it only along the lifecycle.                *)
(***************************************************************************)
CONSTANTS Sandbox, Task, None

VARIABLES phase,    \* the state of each sandbox, Absent when there is none
          holder    \* the operation that holds it, if any

vars == <<phase, holder>>

(* The claims a sandbox at rest is open to. *)
Claims == [Running |-> {"Pausing", "Snapshotting", "Forking", "Killing"},
           Paused  |-> {"Resuming", "Killing"}]

(* Where the holder of a claim may leave the sandbox. *)
Ends == [Creating |-> {"Running"}, Resuming |-> {"Running", "Paused"},
         Pausing |-> {"Running", "Paused"}, Snapshotting |-> {"Running"},
         Forking |-> {"Running"}, Killing |-> {"Running", "Paused"}]

AtRest(s) == phase[s] \in DOMAIN Claims

Init ==
    /\ phase \in [Sandbox -> {"Absent", "Paused"}]
    /\ holder = [s \in Sandbox |-> None]

Moves(s, p, h) ==
    /\ phase'  = [phase EXCEPT ![s] = p]
    /\ holder' = [holder EXCEPT ![s] = h]

(* A created sandbox starts in its creator's hands, a forked one running. *)
Add(s, t) ==
    /\ phase[s] = "Absent"
    /\ Moves(s, "Creating", t) \/ Moves(s, "Running", None)

Take(s, t) ==
    /\ AtRest(s)
    /\ \E p \in Claims[phase[s]] : Moves(s, p, t)

Settle(s, t) ==
    /\ holder[s] = t
    /\ \E p \in Ends[phase[s]] : Moves(s, p, None)

(* A delete that cannot finish leaves the sandbox to the next delete; a    *)
(* resume overtaken by a shutdown leaves it as it is.                      *)
Leave(s, t) ==
    /\ phase[s] \in {"Killing", "Resuming"} /\ holder[s] = t
    /\ Moves(s, phase[s], None)

ResumeKilling(s, t) ==
    /\ phase[s] = "Killing" /\ holder[s] = None
    /\ Moves(s, "Killing", t)

(* A launch that fails after it has published Running. *)
Withdraw(s) == phase[s] = "Running" /\ Moves(s, "Paused", None)

(* The record goes away: at the end of a delete, when its holder finds the *)
(* sandbox beyond repair, or when a create withdraws what it published.    *)
Remove(s) == phase[s] # "Absent" /\ Moves(s, "Absent", None)

(* Only paused sandboxes outlive the process. *)
Restart ==
    /\ phase' \in [Sandbox -> {"Absent", "Paused"}]
    /\ holder' = [s \in Sandbox |-> None]

Next ==
    \/ \E s \in Sandbox :
          \/ \E t \in Task : Add(s, t) \/ Take(s, t) \/ Settle(s, t)
                             \/ Leave(s, t) \/ ResumeKilling(s, t)
          \/ Withdraw(s) \/ Remove(s)
    \/ Restart

Spec == Init /\ [][Next]_vars
=============================================================================
