-------------------------------- MODULE Devcli --------------------------------
(***************************************************************************)
(* The SSH sessions with the CLI of a device (drned-skeleton/devcli.py).   *)
(* Each call of Devcli opens a session, trying three times to log in, runs *)
(* the state machine of the user's driver for one command and for "exit",  *)
(* and closes the session.                                                 *)
(*                                                                         *)
(* The driver and the device are not part of the repository.  A run of the *)
(* state machine ends in one of the ways that interstate_one() tells apart *)
(* (Failed), at any point of what the command does to the device; only a   *)
(* run that is "done" is known to have done all of it.                     *)
(***************************************************************************)
EXTENDS Sequences, Naturals

CONSTANTS
  Files,     (* names of configuration files                                *)
  Half,      (* stands for part of a file                                   *)
  NoConfig   (* None                                                        *)

VARIABLES
  device,    \* configuration of the device: what was loaded, on top of which
  kept,      \* configurations saved on the device
  call,      \* the call in progress
  cli,       \* where it is
  tries,     \* logins that have failed
  raised     \* what the last call has raised

devcli == <<device, kept, call, cli, tries, raised>>

Config == Seq(Files \cup {Half})
KeptNames == {"drned-init", "drned-backup"}

\* DevcliException, DevcliAuthException, DevcliDeviceException,
\* KeyboardInterrupt, and whatever else a driver may raise.
Exceptions == {"devcli", "auth", "device", "interrupt", "other"}

NoCall == [method |-> "none", data |-> NoConfig]
Call == [method : {"load"}, data : Files] \cup
        [method : {"save", "restore"}, data : KeptNames]

TypeOK ==
  /\ device \in Config
  /\ kept \in [KeptNames -> Config \cup {NoConfig}]
  /\ call \in Call \cup {NoCall}
  /\ cli \in {"closed", "login", "command", "exit"}
  /\ tries \in 0..2
  /\ raised \in Exceptions \cup {"none"}

Init ==
  /\ device = <<>>
  /\ kept = [n \in KeptNames |-> NoConfig]
  /\ call = NoCall
  /\ cli = "closed"
  /\ tries = 0
  /\ raised = "none"

\* load_config(), save_config(), restore_config()
Start(method, data) ==
  /\ call' = [method |-> method, data |-> data]
  /\ cli' = "login"
  /\ tries' = 0
  /\ raised' = "none"
  /\ UNCHANGED <<device, kept>>

\* The session is closed on every way out.
Return(exception) ==
  /\ raised' = exception
  /\ call' = NoCall
  /\ cli' = "closed"
  /\ tries' = 0

\* How a run of the state machine may fail: its state becomes "failure" or
\* "authfailed", pexpect raises, the driver or the dictionary of states does.
Failed == {"failure", "authfailed", "pexpect", "other", "interrupt"}

Raises(run, pexpect) ==
  IF run = "failure" THEN "devcli"
  ELSE IF run = "authfailed" THEN "auth"
  ELSE IF run = "pexpect" THEN pexpect
  ELSE run

\* What leaves a session that fails: what the run has raised, or what close()
\* does, which takes the place of it.
Raised == {Raises(run, "devcli") : run \in Failed} \cup {"device"}

\* Mutant: logging in is tried again for ever.
LoginForever ==
  /\ cli = "login"
  /\ \/ /\ cli' = "command"
        /\ UNCHANGED <<call, tries, raised>>
     \/ \E run \in Failed :
          IF run \in {"authfailed", "interrupt"}
          THEN Return(Raises(run, "device"))
          ELSE tries' = tries + 1 /\ UNCHANGED <<call, cli, raised>>
  /\ UNCHANGED <<device, kept>>

\* _ssh(): "no reason to retry" after a failed authentication.
Login ==
  /\ cli = "login"
  /\ \/ /\ cli' = "command"
        /\ UNCHANGED <<call, tries, raised>>
     \/ \E run \in Failed :
          IF run \in {"authfailed", "interrupt"} \/ tries = 2
          THEN Return(Raises(run, "device"))
          ELSE tries' = tries + 1 /\ UNCHANGED <<call, cli, raised>>
  /\ UNCHANGED <<device, kept>>

\* What the command does to the device: all of it, half, or nothing.
Effect(share) ==
  LET wanted == IF call.method = "load" THEN Append(device, call.data)
                ELSE IF call.method = "save" THEN device
                ELSE kept[call.data]
      got    == IF share = "all" THEN wanted ELSE Append(device, Half)
  IN /\ share = "all" => wanted # NoConfig
     /\ IF share = "none" THEN UNCHANGED <<device, kept>>
        ELSE IF call.method = "save"
        THEN kept' = [kept EXCEPT ![call.data] = got] /\ UNCHANGED device
        ELSE device' = got /\ UNCHANGED kept

Command ==
  /\ cli = "command"
  /\ \/ /\ Effect("all")
        /\ cli' = "exit"
        /\ UNCHANGED <<call, tries, raised>>
     \/ /\ \E share \in {"none", "half", "all"} : Effect(share)
        /\ \E exception \in Raised : Return(exception)

Exit ==
  /\ cli = "exit"
  /\ \/ Return("none")
     \/ \E exception \in Raised : Return(exception)
  /\ UNCHANGED <<device, kept>>

Step == Login \/ Command \/ Exit
===============================================================================
