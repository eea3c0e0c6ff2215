---------------------------- MODULE SessionRecord ----------------------------
(***************************************************************************)
(* What the hub promises about the status of a machine's sessions, seen    *)
(* from outside (docs/05-data-model.md, "The session lifecycle", and the   *)
(* transitions internal/hub/app/sessions adds to it): no connections, no   *)
(* goroutines, only the table.                                             *)
(*   - a drop of the control link parks every running session, its return  *)
(*     restores every parked one: never only some of them;                 *)
(*   - only a restart of the session-host loses or revives a session;      *)
(*   - a session that ended stays so, unless it is revived or deleted.     *)
(***************************************************************************)
EXTENDS Naturals

CONSTANT Sessions

VARIABLES
    status,     \* session -> "none", "running", "disconnected", "exited", "lost"
    restarts    \* restarts of the session-host so far

vars == <<status, restarts>>

Init == status = [s \in Sessions |-> "none"] /\ restarts = 0

Create(s) ==
    /\ status[s] = "none"
    /\ status' = [status EXCEPT ![s] = "running"]
    /\ UNCHANGED restarts

LinkDrops ==
    /\ status' = [s \in Sessions |-> IF status[s] = "running" THEN "disconnected" ELSE status[s]]
    /\ UNCHANGED restarts

LinkReturns ==
    /\ status' = [s \in Sessions |-> IF status[s] = "disconnected" THEN "running" ELSE status[s]]
    /\ UNCHANGED restarts

Exit(s) ==
    /\ status[s] # "none"
    /\ status' = [status EXCEPT ![s] = "exited"]
    /\ UNCHANGED restarts

HostRestart == restarts' = restarts + 1 /\ UNCHANGED status

\* After a restart: the sessions not to be revived are lost ...
Lose(L) ==
    /\ restarts > 0
    /\ \A s \in L : status[s] \in {"running", "disconnected"}
    /\ status' = [s \in Sessions |-> IF s \in L THEN "lost" ELSE status[s]]
    /\ UNCHANGED restarts

\* ... and the attempt to revive one succeeds or fails.
Revive(s, ok) ==
    /\ restarts > 0
    /\ status[s] # "none"
    /\ status' = [status EXCEPT ![s] = IF ok THEN "running" ELSE "lost"]
    /\ UNCHANGED restarts

Delete(s) ==
    /\ status' = [status EXCEPT ![s] = "none"]
    /\ UNCHANGED restarts

Next == LinkDrops \/ LinkReturns \/ HostRestart
        \/ (\E L \in SUBSET Sessions : Lose(L))
        \/ (\E s \in Sessions : Create(s) \/ Exit(s) \/ Delete(s)
                                \/ \E ok \in BOOLEAN : Revive(s, ok))

Spec == Init /\ [][Next]_vars
=============================================================================
