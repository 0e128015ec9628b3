----------------------------- MODULE DeviceRun ------------------------------
(***************************************************************************)
(* What an XMNR action that runs DrNED promises, whatever its threads and  *)
(* child processes do: DrNED works with the device only while the action   *)
(* is in progress, the action replies when the device is free again, and   *)
(* an abort returns when the device is free for good.                      *)
(***************************************************************************)
CONSTANT Runs   \* action requests

VARIABLES
  phase,    \* has the action been "asked" for, is it "active" or "over"
  busy,     \* the requests for which DrNED is working with the device
  stopped   \* the requests whose abort has returned

vars == <<phase, busy, stopped>>

Init ==
  /\ phase = [r \in Runs |-> "asked"]
  /\ busy = {}
  /\ stopped = {}

Begin(r) ==
  /\ phase[r] = "asked"
  /\ phase' = [phase EXCEPT ![r] = "active"]
  /\ UNCHANGED <<busy, stopped>>

Occupy(r) ==
  /\ phase[r] = "active"
  /\ r \notin busy \cup stopped
  /\ busy' = busy \cup {r}
  /\ UNCHANGED <<phase, stopped>>

Release(r) ==
  /\ r \in busy
  /\ busy' = busy \ {r}
  /\ UNCHANGED <<phase, stopped>>

\* The abort may be too late and return after the action.
Stop(r) ==
  /\ phase[r] # "asked"
  /\ r \notin busy \cup stopped
  /\ stopped' = stopped \cup {r}
  /\ UNCHANGED <<phase, busy>>

Reply(r) ==
  /\ phase[r] = "active"
  /\ r \notin busy
  /\ phase' = [phase EXCEPT ![r] = "over"]
  /\ UNCHANGED <<busy, stopped>>

Next == \E r \in Runs : Begin(r) \/ Occupy(r) \/ Release(r) \/ Stop(r) \/ Reply(r)

Spec == Init /\ [][Next]_vars
=============================================================================
