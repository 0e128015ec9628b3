------------------------- MODULE CliConversionProofs --------------------------
(***************************************************************************)
(* That a script which ends well leaves the device as it should be, that   *)
(* what is imported was made of the right files, and that success means    *)
(* all of them, for any files, names, groups and sequences of actions      *)
(* (CliConversion).                                                        *)
(***************************************************************************)
EXTENDS CliConversion, SequenceTheorems, FiniteSetTheorems, WellFoundedInduction, TLAPS

----------------------------------------------------------------------------
(* The inductive invariant                                                 *)

\* The call is complete on the device, and has not failed later.
Done == cli = "exit" \/ (cli = "closed" /\ raised = "none")

\* Where the script of each action may be; nothing else calls the device.
PlaceInv ==
  /\ plan \in Seq(Actions)
  /\ exit # "none" => spc = "idle"
  /\ spc = "start" => action \in Actions
  /\ spc \in {"backup", "group", "load", "sync", "recover", "resync", "save",
              "saving", "restore"} => action = "convert"
  /\ spc = "single" => action \in {"save-default", "load-default"}
  /\ spc = "final" => action \in {"convert", "load-default"}
  /\ cli # "closed" => spc \in {"single", "backup", "load", "recover", "restore"}

\* Which call is in progress.
CallInv ==
  cli # "closed" =>
    /\ spc = "backup" => call = [method |-> "save", data |-> "drned-backup"]
    /\ spc = "load" => call.method = "load"
    /\ spc \in {"recover", "restore"}
         => call = [method |-> "restore", data |-> "drned-backup"]
    /\ spc = "single" =>
         call = [method |-> IF action = "save-default" THEN "save" ELSE "restore",
                 data |-> "drned-init"]

KeptOK == kept = [n \in D!KeptNames |-> kept[n]]

\* The backup is made of the configuration that was found, and kept until the
\* end; after it was restored the device has it again.
BackupInv ==
  /\ spc \in {"start", "backup", "group"} => device = begun
  /\ spc = "backup" /\ Done => kept["drned-backup"] = begun
  /\ spc \in {"group", "load", "sync", "recover", "resync", "save", "saving",
              "restore"} => kept["drned-backup"] = begun
  /\ spc = "restore" /\ Done => device = begun
  /\ spc = "final" /\ action = "convert" => device = begun

\* The default that was saved is kept, whatever else is saved.
DefaultInv ==
  /\ default # NoConfig => kept["drned-init"] = default
  /\ spc \in {"start", "single"} /\ action = "save-default" => default = NoConfig
  /\ spc = "single" /\ Done => device = kept["drned-init"]
  /\ spc = "final" /\ action = "load-default" => device = kept["drned-init"]

IInv == PlaceInv /\ CallInv /\ KeptOK /\ BackupInv /\ DefaultInv /\ DeviceRestored

----------------------------------------------------------------------------
(* What a step of a call does                                              *)

\* A call that fails has raised something.
LEMMA FailedRaises ==
  ASSUME NEW run \in D!Failed, NEW p \in {"device", "devcli"}
  PROVE  D!Raises(run, p) # "none"
BY DEF D!Failed, D!Raises

LEMMA RaisedSome ==
  ASSUME NEW exception \in D!Raised
  PROVE  exception # "none" /\ exception \in D!Exceptions
BY DEF D!Raised, D!Failed, D!Raises, D!Exceptions

\* save_config() leaves the device alone and changes only its own file.
LEMMA SaveStep ==
  ASSUME D!Step, KeptOK, call.method = "save", call.data \in D!KeptNames,
         Done => kept[call.data] = device
  PROVE  /\ device' = device
         /\ KeptOK'
         /\ \A n \in D!KeptNames : n # call.data => kept'[n] = kept[n]
         /\ Done' => kept'[call.data] = device
<1>1. CASE D!Login
  <2>1. UNCHANGED <<device, kept>>
    BY <1>1 DEF D!Login
  <2>2. ~Done'
    BY <1>1, FailedRaises DEF D!Login, D!Return, Done
  <2> QED
    BY <2>1, <2>2 DEF KeptOK
<1>2. CASE D!Command
  <2>1. ASSUME NEW share \in {"none", "half", "all"}, D!Effect(share)
        PROVE  /\ device' = device
               /\ KeptOK'
               /\ \A n \in D!KeptNames : n # call.data => kept'[n] = kept[n]
               /\ share = "all" => kept'[call.data] = device
    <3>1. CASE share = "none"
      BY <2>1, <3>1 DEF D!Effect, KeptOK
    <3>2. CASE share # "none"
      <4> DEFINE got == IF share = "all" THEN device ELSE Append(device, Half)
      <4>1. device' = device /\ kept' = [kept EXCEPT ![call.data] = got]
        BY <2>1, <3>2 DEF D!Effect
      <4>2. kept' = [n \in D!KeptNames |-> IF n = call.data THEN got ELSE kept[n]]
        BY <4>1 DEF KeptOK
      <4> QED
        BY <4>1, <4>2 DEF KeptOK
    <3> QED
      BY <3>1, <3>2
  <2>2. \/ D!Effect("all")
        \/ ~Done' /\ \E share \in {"none", "half", "all"} : D!Effect(share)
    BY <1>2, RaisedSome DEF D!Command, D!Return, Done
  <2> QED
    BY <2>1, <2>2
<1>3. CASE D!Exit
  BY <1>3 DEF D!Exit, KeptOK, Done
<1> QED
  BY <1>1, <1>2, <1>3 DEF D!Step

\* restore_config() changes no saved file, and when it is done the device has
\* the configuration of the file; load_config() changes no saved file.
LEMMA LoadStep ==
  ASSUME D!Step, KeptOK, call.method \in {"load", "restore"},
         call.method = "restore" /\ Done => device = kept[call.data]
  PROVE  /\ kept' = kept
         /\ call.method = "restore" /\ Done' => device' = kept[call.data]
<1>1. CASE D!Login
  BY <1>1, FailedRaises DEF D!Login, D!Return, Done
<1>2. CASE D!Command
  <2>1. ASSUME NEW share \in {"none", "half", "all"}, D!Effect(share)
        PROVE  /\ kept' = kept
               /\ call.method = "restore" /\ share = "all" => device' = kept[call.data]
    BY <2>1 DEF D!Effect
  <2>2. \/ D!Effect("all")
        \/ ~Done' /\ \E share \in {"none", "half", "all"} : D!Effect(share)
    BY <1>2, RaisedSome DEF D!Command, D!Return, Done
  <2> QED
    BY <2>1, <2>2
<1>3. CASE D!Exit
  BY <1>3 DEF D!Exit, Done
<1> QED
  BY <1>1, <1>2, <1>3 DEF D!Step

\* Neither of them changes a saved file, wherever the call is.
LEMMA KeptSame ==
  ASSUME D!Step, call.method \in {"load", "restore"}
  PROVE  kept' = kept
<1>1. \A share : D!Effect(share) => kept' = kept
  BY DEF D!Effect
<1> QED
  BY <1>1 DEF D!Step, D!Login, D!Command, D!Exit

\* A call stays the same until it ends, and was in progress.
LEMMA SameCall ==
  ASSUME D!Step
  PROVE  cli # "closed" /\ (cli' # "closed" => call' = call)
<1>1. CASE D!Login
  BY <1>1 DEF D!Login, D!Return
<1>2. CASE D!Command
  BY <1>2 DEF D!Command, D!Return
<1>3. CASE D!Exit
  BY <1>3 DEF D!Exit, D!Return
<1> QED
  BY <1>1, <1>2, <1>3 DEF D!Step

----------------------------------------------------------------------------
(* The invariant holds from the start and in every step                    *)

LEMMA InitIInv == Init => IInv
<1> SUFFICES ASSUME Init PROVE IInv
  OBVIOUS
<1> USE DEF Init, D!Init
<1>1. PlaceInv /\ CallInv
  BY CliConversionAssumption DEF PlaceInv, CallInv
<1>2. KeptOK
  BY DEF KeptOK, D!KeptNames
<1>3. BackupInv /\ DefaultInv /\ DeviceRestored
  BY DEF BackupInv, DefaultInv, DeviceRestored
<1> QED
  BY <1>1, <1>2, <1>3 DEF IInv

\* The next action is asked for, and its script starts.
LEMMA BeginIInv == IInv /\ Begin => IInv'
<1> SUFFICES ASSUME IInv, Begin PROVE IInv'
  OBVIOUS
<1> USE DEF IInv, Begin, dvars, files
<1>1. PlaceInv'
  BY HeadTailProperties DEF PlaceInv
<1>2. CallInv' /\ KeptOK'
  BY DEF CallInv, KeptOK, PlaceInv
<1>3. BackupInv' /\ DefaultInv' /\ DeviceRestored'
  BY DEF BackupInv, DefaultInv, DeviceRestored
<1> QED
  BY <1>1, <1>2, <1>3

LEMMA StartupIInv == IInv /\ Startup => IInv'
<1> SUFFICES ASSUME IInv, Startup PROVE IInv'
  OBVIOUS
<1> USE DEF IInv, Startup, D!Start, Die, dvars, history
<1>1. PlaceInv' /\ CallInv' /\ KeptOK'
  BY DEF PlaceInv, CallInv, KeptOK, Actions
<1>2. BackupInv' /\ DefaultInv' /\ DeviceRestored'
  BY DEF BackupInv, DefaultInv, DeviceRestored, PlaceInv, Done
<1> QED
  BY <1>1, <1>2

\* The device is busy with a call: what was saved for the script, and earlier
\* for load-default-config, is not touched.
LEMMA CallStepIInv == IInv /\ CallStep => IInv'
<1> SUFFICES ASSUME IInv, CallStep PROVE IInv'
  OBVIOUS
<1> USE DEF IInv
<1>1. /\ UNCHANGED <<plan, action, spc, nso, exit, begun, default>>
      /\ D!Step
  BY DEF CallStep, files
<1>2. cli # "closed" /\ (cli' # "closed" => call' = call)
  BY <1>1, SameCall
<1>3. spc \in {"single", "backup", "load", "recover", "restore"}
  BY <1>2 DEF PlaceInv
<1>4. PlaceInv' /\ CallInv'
  BY <1>1, <1>2 DEF PlaceInv, CallInv
<1>5. CASE spc = "backup"
  <2>1. call = [method |-> "save", data |-> "drned-backup"]
    BY <1>2, <1>5 DEF CallInv
  <2>2. device = begun /\ (Done => kept["drned-backup"] = begun)
    BY <1>5 DEF BackupInv
  <2>3. /\ device' = device /\ KeptOK'
        /\ kept'["drned-init"] = kept["drned-init"]
        /\ Done' => kept'["drned-backup"] = device
    BY <1>1, <2>1, <2>2, SaveStep DEF D!KeptNames
  <2> QED
    BY <1>1, <1>4, <1>5, <2>2, <2>3
    DEF BackupInv, DefaultInv, DeviceRestored, PlaceInv
<1>6. CASE spc = "load"
  <2>1. call.method = "load"
    BY <1>2, <1>6 DEF CallInv
  <2>2. kept' = kept
    BY <1>1, <2>1, LoadStep
  <2> QED
    BY <1>1, <1>4, <1>6, <2>2
    DEF BackupInv, DefaultInv, DeviceRestored, PlaceInv, KeptOK
<1>7. CASE spc \in {"recover", "restore"}
  <2>1. call = [method |-> "restore", data |-> "drned-backup"]
    BY <1>2, <1>7 DEF CallInv
  <2>2. Done => cli = "exit"
    BY <1>2 DEF Done
  <2>3. CASE spc = "restore"
    <3>1. kept' = kept /\ (Done' => device' = kept["drned-backup"])
      BY <1>1, <2>1, <2>3, LoadStep DEF BackupInv
    <3> QED
      BY <1>1, <1>4, <2>3, <3>1
      DEF BackupInv, DefaultInv, DeviceRestored, PlaceInv, KeptOK
  <2>4. CASE spc = "recover"
    <3>1. kept' = kept
      BY <1>1, <2>1, KeptSame
    <3> QED
      BY <1>1, <1>4, <2>4, <3>1
      DEF BackupInv, DefaultInv, DeviceRestored, PlaceInv, KeptOK
  <2> QED
    BY <1>7, <2>3, <2>4
<1>8. CASE spc = "single" /\ action = "save-default"
  <2>1. call = [method |-> "save", data |-> "drned-init"]
    BY <1>2, <1>8 DEF CallInv
  <2>2. default = NoConfig /\ (Done => device = kept["drned-init"])
    BY <1>8 DEF DefaultInv
  <2>3. KeptOK' /\ (Done' => device' = kept'["drned-init"])
    BY <1>1, <2>1, <2>2, SaveStep DEF D!KeptNames
  <2> QED
    BY <1>1, <1>4, <1>8, <2>2, <2>3
    DEF BackupInv, DefaultInv, DeviceRestored, PlaceInv
<1>9. CASE spc = "single" /\ action # "save-default"
  <2>1. call = [method |-> "restore", data |-> "drned-init"]
    BY <1>2, <1>9 DEF CallInv
  <2>2. Done => device = kept["drned-init"]
    BY <1>9 DEF DefaultInv
  <2>3. kept' = kept /\ (Done' => device' = kept["drned-init"])
    BY <1>1, <2>1, <2>2, LoadStep
  <2> QED
    BY <1>1, <1>4, <1>9, <2>3
    DEF BackupInv, DefaultInv, DeviceRestored, PlaceInv, KeptOK
<1> QED
  BY <1>3, <1>5, <1>6, <1>7, <1>8, <1>9

\* The steps that end a script's work, with or without its success.
LEMMA EndIInv == IInv /\ (SingleDone \/ BackupDone \/ Final \/ Killed) => IInv'
<1> SUFFICES ASSUME IInv, SingleDone \/ BackupDone \/ Final \/ Killed PROVE IInv'
  OBVIOUS
<1> USE DEF IInv, PlaceInv, CallInv, KeptOK, BackupInv, DefaultInv, DeviceRestored,
            Done, Die, Returned, dvars, history
<1>1. CASE SingleDone
  BY <1>1 DEF SingleDone
<1>2. CASE BackupDone
  BY <1>2 DEF BackupDone
<1>3. CASE Final
  BY <1>3 DEF Final
<1>4. CASE Killed
  BY <1>4 DEF Killed, D!Return, filter
<1> QED
  BY <1>1, <1>2, <1>3, <1>4

\* The steps of a conversion that call the device again, or give up.
LEMMA ConvertIInv ==
  IInv /\ (NextGroup \/ LoadDone \/ Sync \/ Recovered \/ Resync \/ RestoreDone) => IInv'
<1> SUFFICES ASSUME IInv,
                    NextGroup \/ LoadDone \/ Sync \/ Recovered \/ Resync \/ RestoreDone
             PROVE  IInv'
  OBVIOUS
<1> USE DEF IInv, PlaceInv, CallInv, KeptOK, BackupInv, DefaultInv, DeviceRestored,
            Done, Die, Returned, D!Start, GroupFails, Restore, dvars, files, history
<1>1. CASE NextGroup
  BY <1>1 DEF NextGroup
<1>2. CASE LoadDone
  BY <1>2 DEF LoadDone
<1>3. CASE Sync
  BY <1>3 DEF Sync
<1>4. CASE Recovered
  BY <1>4 DEF Recovered
<1>5. CASE Resync
  BY <1>5 DEF Resync
<1>6. CASE RestoreDone
  BY <1>6 DEF RestoreDone
<1> QED
  BY <1>1, <1>2, <1>3, <1>4, <1>5, <1>6

\* Writing a file, and what the action does with the output.
LEMMA OutputIInv ==
  IInv /\ (Open \/ Save \/ ReadLine \/ LoseLines \/ Reply) => IInv'
<1> SUFFICES ASSUME IInv, Open \/ Save \/ ReadLine \/ LoseLines \/ Reply PROVE IInv'
  OBVIOUS
<1> USE DEF IInv, PlaceInv, CallInv, KeptOK, BackupInv, DefaultInv, DeviceRestored,
            Done, dvars, files, filter, history
<1>1. CASE Open
  BY <1>1 DEF Open, Die
<1>2. CASE Save
  BY <1>2 DEF Save, Die, Restore, D!Start
<1>3. CASE ReadLine
  BY <1>3 DEF ReadLine
<1>4. CASE LoseLines
  BY <1>4 DEF LoseLines
<1>5. CASE Reply
  BY <1>5 DEF Reply
<1> QED
  BY <1>1, <1>2, <1>3, <1>4, <1>5

LEMMA NextIInv == IInv /\ [Next]_vars => IInv'
<1> SUFFICES ASSUME IInv, [Next]_vars PROVE IInv'
  OBVIOUS
<1>1. CASE UNCHANGED vars
  BY <1>1 DEF IInv, PlaceInv, CallInv, KeptOK, BackupInv, DefaultInv, DeviceRestored,
              Done, vars, dvars, files, history
<1>2. CASE Next
  BY <1>2, BeginIInv, StartupIInv, CallStepIInv, EndIInv, ConvertIInv, OutputIInv DEF Next
<1> QED
  BY <1>1, <1>2

----------------------------------------------------------------------------
(* The theorem                                                             *)

\* A conversion that ends well leaves the device, and NSO's copy, in the
\* configuration it found, and load-default-config leaves them in the one
\* that was saved, whichever calls fail and however far they get.
THEOREM DeviceIsRestored == Spec => []DeviceRestored
<1>1. IInv => DeviceRestored
  BY DEF IInv
<1> QED
  BY InitIInv, NextIInv, <1>1, PTL DEF Spec

----------------------------------------------------------------------------
(* Giving up                                                               *)

\* A call in progress has not raised anything; after a critical exception the
\* script has only to end.
GiveUpInv ==
  /\ cli # "closed" => raised = "none" /\ ~gave_up
  /\ gave_up => \/ spc = "idle"
                \/ /\ spc \in {"single", "backup", "load", "recover", "restore"}
                   /\ raised \in {"auth", "device"}

\* A call raises something only when it ends.
LEMMA RaisedAtEnd ==
  ASSUME D!Step, raised = "none"
  PROVE  cli' # "closed" => raised' = "none"
<1>1. CASE D!Login
  BY <1>1 DEF D!Login, D!Return
<1>2. CASE D!Command
  BY <1>2 DEF D!Command, D!Return
<1>3. CASE D!Exit
  BY <1>3 DEF D!Exit, D!Return
<1> QED
  BY <1>1, <1>2, <1>3 DEF D!Step

LEMMA NextGiveUpInv ==
  ASSUME IInv, GiveUpInv, [Next]_vars
  PROVE  GiveUpInv' /\ (gave_up /\ gave_up' => cli' = "closed")
<1> USE DEF GiveUpInv, Die, dvars, history
<1>1. CASE Begin \/ Startup
  BY <1>1 DEF Begin, Startup, D!Start, IInv, PlaceInv, files
<1>2. CASE CallStep
  <2>1. cli # "closed" /\ D!Step /\ spc' = spc
    BY <1>2, SameCall DEF CallStep
  <2>2. spc \in {"single", "backup", "load", "recover", "restore"}
    BY <2>1 DEF IInv, PlaceInv
  <2>3. cli' # "closed" => raised' = "none"
    BY <2>1, RaisedAtEnd
  <2> QED
    BY <1>2, <2>1, <2>2, <2>3 DEF CallStep
<1>3. CASE SingleDone \/ BackupDone
  BY <1>3 DEF SingleDone, BackupDone, Returned
<1>4. CASE NextGroup \/ Sync \/ Resync
  BY <1>4 DEF NextGroup, Sync, Resync, D!Start, GroupFails, Restore
<1>5. CASE LoadDone
  BY <1>5 DEF LoadDone, Returned, D!Start, GroupFails, Restore
<1>6. CASE Recovered
  BY <1>6 DEF Recovered, Returned, D!Start, GroupFails, Restore
<1>7. CASE RestoreDone
  BY <1>7 DEF RestoreDone, Returned
<1>8. CASE Final \/ Killed
  BY <1>8 DEF Final, Killed, D!Return
<1>9. CASE Open \/ Save
  BY <1>9 DEF Open, Save, D!Start, Restore, IInv, PlaceInv
<1>10. CASE ReadLine \/ LoseLines \/ Reply
  BY <1>10 DEF ReadLine, LoseLines, Reply
<1>11. CASE UNCHANGED vars
  BY <1>11 DEF vars
<1> QED
  BY <1>1, <1>2, <1>3, <1>4, <1>5, <1>6, <1>7, <1>8, <1>9, <1>10, <1>11 DEF Next

\* Once the device does not answer, or could not be restored, the script never
\* calls it again, in whichever call that happens.
THEOREM ScriptGivesUp == Spec => GivesUp
<1>1. Init => GiveUpInv
  BY DEF Init, D!Init, GiveUpInv
<1>2. IInv /\ GiveUpInv /\ [Next]_vars => GiveUpInv'
  BY NextGiveUpInv
<1>3. IInv /\ GiveUpInv /\ [Next]_vars
        => [gave_up /\ gave_up' => cli' = "closed"]_vars
  BY NextGiveUpInv
<1> QED
  BY InitIInv, NextIInv, <1>1, <1>2, <1>3, PTL DEF Spec, GivesUp
----------------------------------------------------------------------------
(* What is converted: the inductive invariants                             *)

\* The values of the variables, and what is there when it is needed.
TypeInv ==
  /\ TypeOK
  /\ cli # "closed" => call \in D!Call
  /\ spc = "saving" => writing # NoFile
  /\ spc \in {"load", "sync", "recover", "resync", "save", "saving"} => group # <<>>

\* A request r may be cut after n files: the groups begin and end there.
Cut(r, n) ==
  \/ n = 0
  \/ n = Len(r)
  \/ /\ n + 1 \in Understood(r)
     /\ \E g \in 1..n :
          /\ \E i \in Understood(r) : g <= i /\ i <= n
          /\ \A i \in Understood(r) : g <= i /\ i <= n => SetOf[r[i]] # SetOf[r[n + 1]]

Members(r, n, m) == {i \in Understood(r) : n < i /\ i <= m}

\* The files n + 1 to m are a group: they are of one set.
Segment(r, n, m) ==
  /\ n < m /\ Cut(r, n) /\ Cut(r, m)
  /\ \A i, j \in Members(r, n, m) : SetOf[r[i]] = SetOf[r[j]]

Batch(r, n, m) == Sorted(r, Members(r, n, m))

\* The groups up to here are done.
Begun(m) == Cut(requested, m) /\ todo = SubSeq(requested, m + 1, Len(requested))

\* The first k files of the group are done, and what the device, or NSO, has.
Underway(n, m, k) ==
  LET batch == Batch(requested, n, m)
      before == begun \o SubSeq(batch, 1, k)
      with   == begun \o SubSeq(batch, 1, k + 1)
  IN /\ k < Len(batch)
     /\ group = SubSeq(batch, k + 1, Len(batch))
     /\ spc = "load" => /\ cli # "closed" => call.data = Head(group)
                        /\ cli \in {"login", "command"} => device = before
                        /\ Done => device = with
     /\ spc \in {"sync", "save", "saving"} => device = with
     /\ spc \in {"save", "saving"} => nso = with

GroupInv ==
  /\ spc = "start" => todo = requested /\ group = <<>>
  /\ spc \in {"backup", "group", "load", "sync", "recover", "resync", "save",
              "saving", "restore"} => \E m \in 0..Len(requested) : Begun(m)
  /\ spc \in {"load", "sync", "save", "saving"} =>
       \E n, m \in 0..Len(requested), k \in Nat :
         Segment(requested, n, m) /\ Begun(m) /\ Underway(n, m, k)

\* The line that tells of a file, and the files still to be converted.
Told(f) == [type |-> "converted", file |-> f]
Waiting == Range(todo) \cup Range(group)

\* The files that are known of are those that were asked for.
KnownInv ==
  /\ Waiting \cup imported \subseteq Range(requested)
  /\ \A i \in DOMAIN out : out[i].type = "converted" => out[i].file \in Range(requested)
  /\ writing # NoFile => spc = "saving" /\ writing[2] = StateOf[Head(group)]

\* A file is told of once, when it does not wait any more, and it is not moved
\* while it is being written.
OnceInv ==
  \A f \in Range(requested) : OwnState(f) =>
    /\ f \in Waiting => f \notin imported /\ Told(f) \notin Range(out)
    /\ f \in imported => Told(f) \notin Range(out)
    /\ \A i, j \in DOMAIN out : out[i] = Told(f) /\ out[j] = Told(f) => i = j
    /\ writing # NoFile /\ f = Head(group) => writing[1] = "work"

\* What was converted is as it should be, before it is moved and after that.
RightInv ==
  \A f \in Range(requested) : OwnState(f) /\ Together(f) =>
    /\ Told(f) \in Range(out) => work[StateOf[f]] = Converted(f)
    /\ f \in imported => states[StateOf[f]] = Converted(f)

\* The configuration is what one of the files converted to the state makes.
Fit(s, c) == \E i \in Understood(requested) :
               StateOf[requested[i]] = s /\ c = ConvertedAt(i)

\* No file that is converted to the state is of a set that is split.
Unsplit(s) == \A j \in DOMAIN requested :
                StateOf[requested[j]] = s => Together(requested[j])

\* Where several files are converted to one state, a file may be moved while
\* the next one is written to it, but it is whole when that is done.
FitInv ==
  exit # "failed" => \A f \in Range(requested) : Unsplit(StateOf[f]) =>
    /\ f \in imported => \/ Fit(StateOf[f], states[StateOf[f]])
                        \/ writing = <<"states", StateOf[f]>>
    /\ Told(f) \in Range(out) => \/ work[StateOf[f]] = NoConfig
                                \/ Fit(StateOf[f], work[StateOf[f]])
                                \/ writing = <<"work", StateOf[f]>>
    /\ writing = <<"states", StateOf[f]>> => work[StateOf[f]] = NoConfig

\* Something went wrong, and the action knows of it or will.
Trouble ==
  \/ failed \/ error \/ lost \/ exit = "failed"
  \/ \E i \in DOMAIN out : out[i].type # "converted"

\* Otherwise each file waits, or is on its way, if its line is recognised.
CompleteInv ==
  /\ spc \in {"start", "backup", "group", "restore", "final", "single"}
       => group = <<>> \/ Trouble
  /\ action = "convert" /\ (spc = "final" \/ exit = "ok") => Trouble \/ Waiting = {}
  /\ action = "convert" /\ spc = "idle" => exit # "none"
  /\ action = "convert" /\ ~Trouble =>
       \A f \in Range(requested) :
         f \notin Spaced => f \in imported \cup Waiting \/ Told(f) \in Range(out)
  /\ result = "success" => exit = "ok" /\ out = <<>> /\ ~failed /\ ~error

ConvertInv == KnownInv /\ OnceInv /\ RightInv /\ FitInv /\ CompleteInv

----------------------------------------------------------------------------
(* Numbers                                                                 *)

\* A set of numbers has a least one: the sets 1..n are well-founded.
LEMMA Least ==
  ASSUME NEW S \in SUBSET Nat, S # {}
  PROVE  \E m \in S : \A n \in S : m <= n
<1> DEFINE Below == {1..n : n \in S}
<1>1. Below \subseteq FiniteSubsetsOf(Nat) /\ Below # {}
  <2>1. \A n \in S : 1..n \in FiniteSubsetsOf(Nat)
    BY FS_Interval DEF FiniteSubsetsOf
  <2> QED
    BY <2>1
<1>2. \E b \in Below : \A c \in Below : <<c, b>> \notin StrictSubsetOrdering(Nat)
  <2> HIDE DEF Below
  <2> QED
    BY <1>1, FS_StrictSubsetOrderingWellFounded, WFMin
<1>3. PICK m \in S : \A n \in S : <<1..n, 1..m>> \notin StrictSubsetOrdering(Nat)
  BY <1>2
<1>4. ASSUME NEW n \in S, n < m
      PROVE  FALSE
  <2>1. 1..n \subseteq 1..m /\ m \in 1..m /\ m \notin 1..n
    BY <1>4
  <2>2. <<1..n, 1..m>> \in StrictSubsetOrdering(Nat)
    BY <2>1 DEF StrictSubsetOrdering
  <2> QED
    BY <1>3, <2>2
<1> QED
  BY <1>4

----------------------------------------------------------------------------
(* The order of the files                                                  *)

\* The k-th position of S, by index.
Nth(q, S, k) == CHOOSE i \in S : Cardinality(UpTo(q, S, i)) = k

\* The order is total, and stable: positions up to one are among those up to a
\* later one, and no two positions have as many before them.
LEMMA UpToOrder ==
  ASSUME NEW q \in Seq(Files), NEW S \in SUBSET DOMAIN q
  PROVE  /\ IsFiniteSet(S)
         /\ \A i \in S : /\ i \in UpTo(q, S, i)
                         /\ UpTo(q, S, i) \subseteq S
                         /\ IsFiniteSet(UpTo(q, S, i))
         /\ \A i, j \in S : \/ i \in UpTo(q, S, j) /\ UpTo(q, S, i) \subseteq UpTo(q, S, j)
                            \/ j \in UpTo(q, S, i) /\ UpTo(q, S, j) \subseteq UpTo(q, S, i)
         /\ \A i, j \in S : i \in UpTo(q, S, j) /\ j \in UpTo(q, S, i) => i = j
<1>1. DOMAIN q = 1..Len(q) /\ Len(q) \in Nat
  BY LenProperties
<1>2. \A i \in S : i \in Nat /\ IndexOf[q[i]] \in Nat
  <2>1. \A i \in S : i \in Nat /\ q[i] \in Files
    BY <1>1, ElementOfSeq
  <2> QED
    BY <2>1, CliConversionAssumption
<1>3. IsFiniteSet(S)
  <2>1. IsFiniteSet(1..Len(q)) /\ S \in SUBSET (1..Len(q))
    BY <1>1, FS_Interval
  <2> QED
    BY <2>1, FS_Subset
<1>4. \A i \in S : i \in UpTo(q, S, i) /\ UpTo(q, S, i) \subseteq S
  BY <1>2 DEF UpTo
<1>5. \A i, j \in S : i \in UpTo(q, S, j) => UpTo(q, S, i) \subseteq UpTo(q, S, j)
  BY <1>2 DEF UpTo
<1>6. \A i, j \in S : i \in UpTo(q, S, j) \/ j \in UpTo(q, S, i)
  BY <1>2 DEF UpTo
<1>7. \A i, j \in S : i \in UpTo(q, S, j) /\ j \in UpTo(q, S, i) => i = j
  BY <1>2 DEF UpTo
<1>8. \A i \in S : IsFiniteSet(UpTo(q, S, i))
  BY <1>3, <1>4, FS_Subset
<1> QED
  BY <1>3, <1>4, <1>5, <1>6, <1>7, <1>8

\* So there is one position for each number up to that of the files.
LEMMA NthExists ==
  ASSUME NEW q \in Seq(Files), NEW S \in SUBSET DOMAIN q
  PROVE  /\ Cardinality(S) \in Nat
         /\ \A i \in S : /\ Cardinality(UpTo(q, S, i)) \in 1..Cardinality(S)
                         /\ Nth(q, S, Cardinality(UpTo(q, S, i))) = i
         /\ \A k \in 1..Cardinality(S) : /\ Nth(q, S, k) \in S
                                         /\ Cardinality(UpTo(q, S, Nth(q, S, k))) = k
<1> DEFINE rank == [i \in S |-> Cardinality(UpTo(q, S, i))]
<1>1. IsFiniteSet(S) /\ Cardinality(S) \in Nat
  BY UpToOrder, FS_CardinalityType
<1>2. \A i \in S : Cardinality(UpTo(q, S, i)) \in 1..Cardinality(S)
  <2> SUFFICES ASSUME NEW i \in S
               PROVE  Cardinality(UpTo(q, S, i)) \in 1..Cardinality(S)
    OBVIOUS
  <2>1. /\ i \in UpTo(q, S, i) /\ UpTo(q, S, i) \subseteq S
        /\ IsFiniteSet(UpTo(q, S, i))
    BY UpToOrder
  <2>2. Cardinality(UpTo(q, S, i)) \in Nat /\ Cardinality(UpTo(q, S, i)) # 0
    BY <2>1, FS_CardinalityType, FS_EmptySet
  <2>3. Cardinality(UpTo(q, S, i)) <= Cardinality(S)
    BY <1>1, <2>1, FS_Subset
  <2> QED
    BY <1>1, <2>2, <2>3
<1>3. \A i, j \in S : Cardinality(UpTo(q, S, i)) = Cardinality(UpTo(q, S, j)) => i = j
  <2> SUFFICES ASSUME NEW i \in S, NEW j \in S,
                      Cardinality(UpTo(q, S, i)) = Cardinality(UpTo(q, S, j))
               PROVE  i = j
    OBVIOUS
  <2>1. UpTo(q, S, i) = UpTo(q, S, j)
    <3>1. IsFiniteSet(UpTo(q, S, i)) /\ IsFiniteSet(UpTo(q, S, j))
      BY UpToOrder
    <3>2. CASE UpTo(q, S, i) \subseteq UpTo(q, S, j)
      BY <3>1, <3>2, FS_Subset
    <3>3. CASE UpTo(q, S, j) \subseteq UpTo(q, S, i)
      BY <3>1, <3>3, FS_Subset
    <3> QED
      BY <3>2, <3>3, UpToOrder
  <2> QED
    BY <2>1, UpToOrder
<1>4. rank \in Injection(S, 1..Cardinality(S))
  BY <1>2, <1>3 DEF Injection, IsInjective
<1>5. /\ IsFiniteSet(1..Cardinality(S))
      /\ Cardinality(1..Cardinality(S)) = Cardinality(S)
  BY <1>1, FS_Interval
<1>6. rank \in Surjection(S, 1..Cardinality(S))
  <2> HIDE DEF rank
  <2> QED
    BY <1>4, <1>5, FS_Injection
<1>7. \A k \in 1..Cardinality(S) : \E i \in S : Cardinality(UpTo(q, S, i)) = k
  BY <1>6 DEF Surjection
<1> QED
  BY <1>1, <1>2, <1>3, <1>7 DEF Nth

LEMMA SortedType ==
  ASSUME NEW q \in Seq(Files), NEW S \in SUBSET DOMAIN q
  PROVE  /\ Sorted(q, S) \in Seq(Files)
         /\ Len(Sorted(q, S)) = Cardinality(S)
         /\ \A k \in 1..Cardinality(S) : Sorted(q, S)[k] = q[Nth(q, S, k)]
         /\ Range(Sorted(q, S)) = {q[i] : i \in S}
<1>1. /\ Cardinality(S) \in Nat
      /\ \A k \in 1..Cardinality(S) : Nth(q, S, k) \in S
      /\ \A i \in S : \E k \in 1..Cardinality(S) : Nth(q, S, k) = i
  BY NthExists
<1>2. Sorted(q, S) = [k \in 1..Cardinality(S) |-> q[Nth(q, S, k)]]
  BY DEF Sorted, Nth
<1>3. \A i \in S : q[i] \in Files
  BY LenProperties, ElementOfSeq
<1>4. \A k \in 1..Cardinality(S) : q[Nth(q, S, k)] \in Files
  BY <1>1, <1>3
<1>5. Sorted(q, S) \in Seq(Files) /\ Len(Sorted(q, S)) = Cardinality(S)
  BY <1>1, <1>2, <1>4
<1>6. Range(Sorted(q, S)) = {q[Nth(q, S, k)] : k \in 1..Cardinality(S)}
  BY <1>2 DEF Range
<1>7. Range(Sorted(q, S)) = {q[i] : i \in S}
  BY <1>1, <1>6
<1> QED
  BY <1>2, <1>5, <1>7

\* The positions up to the k-th are ordered as they are in S.
LEMMA SortedPrefix ==
  ASSUME NEW q \in Seq(Files), NEW S \in SUBSET DOMAIN q, NEW k \in 1..Cardinality(S)
  PROVE  Sorted(q, UpTo(q, S, Nth(q, S, k))) = SubSeq(Sorted(q, S), 1, k)
<1>a. PICK i : i = Nth(q, S, k)
  OBVIOUS
<1>b. PICK T : T = UpTo(q, S, i)
  OBVIOUS
<1>1. i \in S /\ Cardinality(T) = k /\ k \in Nat /\ Cardinality(S) \in Nat
  BY <1>a, <1>b, NthExists
<1>2. T \in SUBSET S /\ T \in SUBSET DOMAIN q
  <2>1. UpTo(q, S, i) \subseteq S
    BY <1>1, UpToOrder
  <2> QED
    BY <1>b, <2>1
<1>3. \A j \in T : UpTo(q, T, j) = UpTo(q, S, j)
  <2> SUFFICES ASSUME NEW j \in T PROVE UpTo(q, T, j) = UpTo(q, S, j)
    OBVIOUS
  <2>1. j \in S /\ UpTo(q, S, j) \subseteq T
    <3>1. j \in S /\ j \in UpTo(q, S, i)
      BY <1>b, <1>2
    <3>2. \/ UpTo(q, S, j) \subseteq UpTo(q, S, i)
          \/ i \in UpTo(q, S, j)
      BY <1>1, <3>1, UpToOrder
    <3>3. i \in UpTo(q, S, j) => i = j
      BY <1>1, <3>1, UpToOrder
    <3> QED
      BY <1>b, <3>1, <3>2, <3>3
  <2>2. UpTo(q, T, j) = {x \in T : x \in UpTo(q, S, j)}
    BY <1>2 DEF UpTo
  <2> QED
    BY <2>1, <2>2
<1>4. \A l \in 1..k : Nth(q, S, l) \in T
  <2> SUFFICES ASSUME NEW l \in 1..k, Nth(q, S, l) \notin T PROVE FALSE
    OBVIOUS
  <2>a. PICK x : x = Nth(q, S, l)
    OBVIOUS
  <2>1. l \in 1..Cardinality(S)
    BY <1>1
  <2>2. x \in S /\ Cardinality(UpTo(q, S, x)) = l
    BY <2>a, <2>1, NthExists
  <2>3. T \subseteq UpTo(q, S, x) /\ x \in UpTo(q, S, x) /\ IsFiniteSet(UpTo(q, S, x))
    <3>1. x \notin UpTo(q, S, i)
      BY <1>b, <2>a
    <3> QED
      BY <1>1, <1>b, <2>2, <3>1, UpToOrder
  <2>4. Cardinality(T) <= l /\ (Cardinality(T) = l => T = UpTo(q, S, x))
    BY <2>2, <2>3, FS_Subset
  <2> QED
    BY <1>1, <2>a, <2>3, <2>4
<1>5. \A l \in 1..k : Nth(q, T, l) = Nth(q, S, l)
  <2> SUFFICES ASSUME NEW l \in 1..k PROVE Nth(q, T, l) = Nth(q, S, l)
    OBVIOUS
  <2>1. l \in 1..Cardinality(S)
    BY <1>1
  <2>2. Nth(q, S, l) \in T /\ Cardinality(UpTo(q, T, Nth(q, S, l))) = l
    BY <1>3, <1>4, <2>1, NthExists
  <2>3. Nth(q, T, Cardinality(UpTo(q, T, Nth(q, S, l)))) = Nth(q, S, l)
    <3>1. \A j \in T : Nth(q, T, Cardinality(UpTo(q, T, j))) = j
      BY <1>2, NthExists
    <3> QED
      BY <2>2, <3>1, Zenon
  <2> QED
    BY <2>2, <2>3
<1>6. /\ Sorted(q, T) \in Seq(Files) /\ Len(Sorted(q, T)) = k
      /\ \A l \in 1..k : Sorted(q, T)[l] = q[Nth(q, T, l)]
  BY <1>1, <1>2, SortedType
<1>7. /\ Sorted(q, S) \in Seq(Files) /\ Len(Sorted(q, S)) = Cardinality(S)
      /\ \A l \in 1..Cardinality(S) : Sorted(q, S)[l] = q[Nth(q, S, l)]
  BY SortedType
<1>8. /\ SubSeq(Sorted(q, S), 1, k) \in Seq(Files)
      /\ Len(SubSeq(Sorted(q, S), 1, k)) = k
      /\ \A l \in 1..k : SubSeq(Sorted(q, S), 1, k)[l] = Sorted(q, S)[l]
  <2>1. \A l \in 1..k : l \in 1..Cardinality(S)
    BY <1>1
  <2>2. \A l \in 1..k : Sorted(q, S)[l] \in Files
    BY <1>7, <2>1, ElementOfSeq
  <2> QED
    BY <1>1, <2>2, SubSeqProperties
<1>9. \A l \in 1..k : Sorted(q, T)[l] = SubSeq(Sorted(q, S), 1, k)[l]
  <2>1. \A l \in 1..k : l \in 1..Cardinality(S)
    BY <1>1
  <2> QED
    BY <1>5, <1>6, <1>7, <1>8, <2>1
<1>10. Sorted(q, T) = SubSeq(Sorted(q, S), 1, k)
  BY <1>6, <1>8, <1>9, SeqEqual
<1> QED
  BY <1>a, <1>b, <1>10

\* A part of the request is ordered as its positions in the request are.
LEMMA SortedShift ==
  ASSUME NEW r \in Seq(Files), NEW n \in Nat, NEW m \in Nat, n <= m, m <= Len(r),
         NEW q \in Seq(Files), Len(q) = m - n, \A i \in 1..(m - n) : q[i] = r[n + i]
  PROVE  ByIndex(q) = Batch(r, n, m)
<1>a. PICK S : S = Understood(q)
  OBVIOUS
<1>b. PICK T : T = {i \in Understood(r) : n < i /\ i <= m} /\ T = Members(r, n, m)
  BY DEF Members
<1>1. /\ Len(r) \in Nat /\ DOMAIN r = 1..Len(r)
      /\ q \in Seq(Files) /\ Len(q) = m - n /\ DOMAIN q = 1..(m - n)
      /\ \A i \in 1..(m - n) : q[i] = r[n + i]
  BY LenProperties
<1>2. S \in SUBSET DOMAIN q /\ T \in SUBSET DOMAIN r
  BY <1>a, <1>b DEF Understood
<1>3. /\ \A i \in S : i \in Nat /\ n + i \in T
      /\ \A j \in T : j \in Nat /\ j - n \in S
  <2>1. \A i \in S : i \in Nat /\ n + i \in T
    BY <1>1, <1>a, <1>b DEF Understood
  <2>2. ASSUME NEW j \in T
        PROVE  j \in Nat /\ j - n \in S
    <3>1. j \in Nat /\ n < j /\ j <= m /\ r[j] \notin BadNames
      BY <1>1, <1>b DEF Understood
    <3>2. j - n \in 1..(m - n) /\ n + (j - n) = j
      BY <3>1
    <3>3. q[j - n] = r[j]
      BY <1>1, <3>2
    <3> QED
      BY <1>1, <1>a, <3>1, <3>2, <3>3 DEF Understood
  <2> QED
    BY <2>1, <2>2
<1>4. ASSUME NEW A \in SUBSET S
      PROVE  Cardinality({n + i : i \in A}) = Cardinality(A)
  <2> DEFINE B == {n + i : i \in A}
             f == [i \in A |-> n + i]
  <2>1. \A i \in A : i \in Nat
    BY <1>3
  <2>2. f \in Bijection(A, B)
    BY <2>1 DEF Bijection, Injection, Surjection, IsInjective
  <2>3. IsFiniteSet(A)
    <3>1. IsFiniteSet(1..(m - n))
      BY FS_Interval
    <3>2. A \in SUBSET (1..(m - n))
      BY <1>1, <1>2
    <3> QED
      BY <3>1, <3>2, FS_Subset
  <2> HIDE DEF B, f
  <2>4. Cardinality(B) = Cardinality(A)
    BY <2>2, <2>3, FS_Bijection DEF ExistsBijection
  <2> QED
    BY <2>4 DEF B
<1>5. T = {n + i : i \in S}
  <2>1. \A j \in T : j = n + (j - n)
    BY <1>3
  <2> QED
    BY <1>3, <2>1
<1>6. ASSUME NEW i \in S
      PROVE  UpTo(r, T, n + i) = {n + x : x \in UpTo(q, S, i)}
  <2>1. \A x \in S : x \in Nat /\ q[x] = r[n + x]
    BY <1>1, <1>2, <1>3
  <2>2. \A x \in S : n + x \in UpTo(r, T, n + i) <=> x \in UpTo(q, S, i)
    <3> SUFFICES ASSUME NEW x \in S
                 PROVE  n + x \in UpTo(r, T, n + i) <=> x \in UpTo(q, S, i)
      OBVIOUS
    <3>1. /\ q[x] = r[n + x] /\ q[i] = r[n + i] /\ n + x \in T
          /\ (n + x <= n + i <=> x <= i)
      <4>1. x \in Nat /\ i \in Nat /\ q[x] = r[n + x] /\ q[i] = r[n + i] /\ n + x \in T
        BY <1>3, <2>1
      <4> QED
        BY <4>1
    <3> QED
      BY <3>1 DEF UpTo
  <2>3. UpTo(r, T, n + i) \subseteq T /\ UpTo(q, S, i) \subseteq S
    BY DEF UpTo
  <2> QED
    BY <1>5, <2>2, <2>3
<1>7. \A i \in S : Cardinality(UpTo(r, T, n + i)) = Cardinality(UpTo(q, S, i))
  <2>1. \A i \in S : UpTo(q, S, i) \in SUBSET S
    BY DEF UpTo
  <2> QED
    BY <1>4, <1>6, <2>1
<1>8. Cardinality(T) = Cardinality(S)
  BY <1>4, <1>5
<1>9. \A k \in 1..Cardinality(S) : Nth(r, T, k) = n + Nth(q, S, k)
  <2> SUFFICES ASSUME NEW k \in 1..Cardinality(S)
               PROVE  Nth(r, T, k) = n + Nth(q, S, k)
    OBVIOUS
  <2>1. Nth(q, S, k) \in S /\ Cardinality(UpTo(q, S, Nth(q, S, k))) = k
    BY <1>1, <1>2, NthExists
  <2>2. n + Nth(q, S, k) \in T /\ Cardinality(UpTo(r, T, n + Nth(q, S, k))) = k
    BY <1>3, <1>7, <2>1
  <2>3. \A j \in T : Nth(r, T, Cardinality(UpTo(r, T, j))) = j
    BY <1>2, NthExists
  <2> QED
    BY <2>2, <2>3
<1>10. /\ Sorted(q, S) \in Seq(Files) /\ Len(Sorted(q, S)) = Cardinality(S)
       /\ \A k \in 1..Cardinality(S) : Sorted(q, S)[k] = q[Nth(q, S, k)]
  BY <1>1, <1>2, SortedType
<1>11. /\ Sorted(r, T) \in Seq(Files) /\ Len(Sorted(r, T)) = Cardinality(S)
       /\ \A k \in 1..Cardinality(S) : Sorted(r, T)[k] = r[Nth(r, T, k)]
  BY <1>2, <1>8, SortedType
<1>12. \A k \in 1..Cardinality(S) : Sorted(q, S)[k] = Sorted(r, T)[k]
  <2>1. \A k \in 1..Cardinality(S) : Nth(q, S, k) \in S
    BY <1>1, <1>2, NthExists
  <2>2. \A i \in S : q[i] = r[n + i]
    BY <1>1, <1>2
  <2> QED
    BY <1>9, <1>10, <1>11, <2>1, <2>2
<1>13. Sorted(q, S) = Sorted(r, T)
  BY <1>10, <1>11, <1>12, SeqEqual
<1> QED
  BY <1>a, <1>b, <1>13 DEF ByIndex, Batch
----------------------------------------------------------------------------
(* The groups                                                              *)

\* The first n files of q are of one set.
Fits(q, n) == \A i, j \in 1..n : {q[i], q[j]} \cap BadNames = {}
                                   => SetOf[q[i]] = SetOf[q[j]]

LEMMA FirstGroupIs ==
  ASSUME NEW q \in Seq(Files), q # <<>>
  PROVE  \E n \in 1..Len(q) : /\ FirstGroup(q) = SubSeq(q, 1, n)
                              /\ Fits(q, n)
                              /\ n = Len(q) \/ ~Fits(q, n + 1)
<1> DEFINE Whole(n) == Fits(q, n) /\ (n = Len(q) \/ ~Fits(q, n + 1))
           Over == {n \in 2..Len(q) + 1 : n = Len(q) + 1 \/ ~Fits(q, n)}
<1>1. Len(q) \in Nat \ {0}
  BY EmptySeq
<1>2. \E n \in Over : \A k \in Over : n <= k
  <2>1. Over \in SUBSET Nat /\ Len(q) + 1 \in Over
    BY <1>1
  <2> HIDE DEF Over
  <2> QED
    BY <2>1, Least
<1>3. PICK n \in Over : \A k \in Over : n <= k
  BY <1>2
<1>4. n - 1 \in 1..Len(q) /\ Whole(n - 1)
  <2>1. n - 1 \in 1..Len(q)
    BY <1>1
  <2>2. Fits(q, n - 1)
    <3>1. CASE n - 1 = 1
      <4>1. \A i, j \in 1..(n - 1) : i = j
        BY <3>1
      <4> QED
        BY <4>1 DEF Fits
    <3>2. CASE n - 1 # 1
      <4>1. n - 1 \in 2..Len(q) + 1 /\ n - 1 # Len(q) + 1
        BY <2>1, <3>2, <1>1
      <4>2. ~Fits(q, n - 1) => n - 1 \in Over
        BY <4>1
      <4>3. n - 1 \notin Over
        BY <1>3, <2>1
      <4> QED
        BY <4>2, <4>3
    <3> QED
      BY <3>1, <3>2
  <2>3. n - 1 = Len(q) \/ ~Fits(q, n)
    BY <1>1
  <2>4. n - 1 + 1 = n
    BY <2>1
  <2> QED
    BY <2>1, <2>2, <2>3, <2>4
<1>5. \E k \in 1..Len(q) : FirstGroup(q) = SubSeq(q, 1, k) /\ Whole(k)
  <2>1. FirstGroup(q) = SubSeq(q, 1, CHOOSE k \in 1..Len(q) : Whole(k))
    BY DEF FirstGroup, Fits
  <2> HIDE DEF Whole
  <2> QED
    BY <1>4, <2>1
<1> QED
  BY <1>5

\* The rest of a sequence, and the rest of that.
LEMMA RestOf ==
  ASSUME NEW S, NEW r \in Seq(S), NEW m \in 0..Len(r)
  PROVE  /\ SubSeq(r, m + 1, Len(r)) \in Seq(S)
         /\ Len(SubSeq(r, m + 1, Len(r))) = Len(r) - m
         /\ \A i \in 1..(Len(r) - m) : SubSeq(r, m + 1, Len(r))[i] = r[m + i]
<1>1. PICK L \in Nat : L = Len(r)
  BY LenProperties
<1>2. m \in Nat /\ m <= L /\ \A i \in m + 1..L : r[i] \in S
  BY <1>1, ElementOfSeq
<1>a. PICK q : q = SubSeq(r, m + 1, L)
  OBVIOUS
<1>3. /\ q \in Seq(S)
      /\ Len(q) = IF m + 1 <= L THEN L - (m + 1) + 1 ELSE 0
      /\ \A i \in 1..(L - (m + 1) + 1) : q[i] = r[m + 1 + i - 1]
  <2>1. m + 1 \in Int /\ L \in Int
    BY <1>2
  <2> QED
    BY <1>1, <1>2, <1>a, <2>1, SubSeqProperties
<1>4. Len(q) = L - m
  BY <1>2, <1>3
<1>5. \A i \in 1..(L - m) : q[i] = r[m + i]
  <2>1. \A i \in 1..(L - m) : i \in 1..(L - (m + 1) + 1) /\ m + 1 + i - 1 = m + i
    BY <1>2
  <2> QED
    BY <1>3, <2>1
<1> QED
  BY <1>1, <1>a, <1>3, <1>4, <1>5

LEMMA RangeOfRest ==
  ASSUME NEW S, NEW r \in Seq(S), NEW m \in 0..Len(r), NEW f
  PROVE  f \in Range(SubSeq(r, m + 1, Len(r))) <=> \E i \in m + 1..Len(r) : r[i] = f
<1>1. PICK L \in Nat : L = Len(r)
  BY LenProperties
<1>2. m \in Nat /\ m <= L
  BY <1>1
<1>3. PICK q : q = SubSeq(r, m + 1, Len(r))
  OBVIOUS
<1>4. q \in Seq(S) /\ Len(q) = L - m /\ \A i \in 1..(L - m) : q[i] = r[m + i]
  BY <1>1, <1>3, RestOf
<1>5. DOMAIN q = 1..(L - m)
  BY <1>4, LenProperties
<1>6. \A i \in 1..(L - m) : m + i \in m + 1..L
  BY <1>2
<1>7. \A i \in m + 1..L : i - m \in 1..(L - m) /\ m + (i - m) = i
  BY <1>2
<1>8. f \in Range(q) <=> \E i \in 1..(L - m) : q[i] = f
  BY <1>5 DEF Range
<1>9. (\E i \in 1..(L - m) : q[i] = f) => \E i \in m + 1..L : r[i] = f
  BY <1>4, <1>6
<1>10. (\E i \in m + 1..L : r[i] = f) => \E i \in 1..(L - m) : q[i] = f
  BY <1>4, <1>7
<1>11. f \in Range(q) <=> \E i \in m + 1..L : r[i] = f
  BY <1>8, <1>9, <1>10
<1> QED
  BY <1>1, <1>3, <1>11

\* The beginning of a sequence.
LEMMA PrefixOf ==
  ASSUME NEW S, NEW q \in Seq(S), NEW n \in 0..Len(q)
  PROVE  /\ SubSeq(q, 1, n) \in Seq(S)
         /\ Len(SubSeq(q, 1, n)) = n
         /\ \A i \in 1..n : SubSeq(q, 1, n)[i] = q[i]
<1>1. PICK L \in Nat : L = Len(q)
  BY LenProperties
<1>2. n \in Nat /\ n <= L /\ \A i \in 1..n : q[i] \in S
  BY <1>1, ElementOfSeq
<1>3. PICK u : u = SubSeq(q, 1, n)
  OBVIOUS
<1>4. /\ u \in Seq(S)
      /\ Len(u) = IF 1 <= n THEN n - 1 + 1 ELSE 0
      /\ \A i \in 1..(n - 1 + 1) : u[i] = q[1 + i - 1]
  BY <1>2, <1>3, SubSeqProperties
<1>5. Len(u) = n /\ \A i \in 1..n : u[i] = q[i]
  BY <1>2, <1>4
<1> QED
  BY <1>3, <1>4, <1>5

LEMMA RestOfRest ==
  ASSUME NEW S, NEW r \in Seq(S), NEW m \in 0..Len(r), NEW l \in m..Len(r),
         NEW q \in Seq(S), Len(q) = Len(r) - m,
         \A i \in 1..(Len(r) - m) : q[i] = r[m + i]
  PROVE  SubSeq(q, l - m + 1, Len(q)) = SubSeq(r, l + 1, Len(r))
<1>1. PICK L \in Nat : L = Len(r)
  BY LenProperties
<1>2. m \in Nat /\ l \in Nat /\ m <= l /\ l <= L /\ Len(q) = L - m /\ L - m \in Nat
  BY <1>1
<1>3. PICK t : t = SubSeq(r, l + 1, L)
  OBVIOUS
<1>4. /\ t \in Seq(S) /\ Len(t) = L - l
      /\ \A i \in 1..(L - l) : t[i] = r[l + i]
  <2>1. l \in 0..Len(r)
    BY <1>1, <1>2
  <2> QED
    BY <1>1, <1>3, <2>1, RestOf
<1>5. PICK u : u = SubSeq(q, l - m + 1, L - m)
  OBVIOUS
<1>6. /\ u \in Seq(S) /\ Len(u) = L - l
      /\ \A i \in 1..(L - l) : u[i] = q[l - m + i]
  <2>a. PICK d : d = l - m
    OBVIOUS
  <2>b. l - m \in 0..(L - m) /\ (L - m) - (l - m) = L - l
    BY <1>2
  <2>1. d \in 0..Len(q) /\ d = l - m /\ Len(q) - d = L - l
    BY <1>2, <2>a, <2>b
  <2>2. u = SubSeq(q, d + 1, Len(q))
    BY <1>2, <1>5, <2>1
  <2>3. /\ u \in Seq(S) /\ Len(u) = Len(q) - d
        /\ \A i \in 1..(Len(q) - d) : u[i] = q[d + i]
    BY <2>1, <2>2, RestOf, Zenon
  <2> QED
    BY <2>1, <2>3
<1>7. \A i \in 1..(L - l) : u[i] = t[i]
  <2>1. \A i \in 1..(L - l) : l - m + i \in 1..(L - m) /\ m + (l - m + i) = l + i
    BY <1>2
  <2> SUFFICES ASSUME NEW i \in 1..(L - l) PROVE u[i] = t[i]
    OBVIOUS
  <2>2. u[i] = q[l - m + i] /\ t[i] = r[l + i]
    BY <1>4, <1>6
  <2>3. PICK j \in 1..(L - m) : j = l - m + i /\ m + j = l + i
    BY <2>1
  <2>4. q[j] = r[m + j]
    BY <1>1, <2>3
  <2> QED
    BY <2>2, <2>3, <2>4
<1>8. u = t
  BY <1>4, <1>6, <1>7, SeqEqual
<1> QED
  BY <1>1, <1>2, <1>3, <1>5, <1>8

\* Of what is left, the next group is taken, in order; it is followed by a file
\* of another set, or by nothing.
LEMMA NextSegment ==
  ASSUME NEW r \in Seq(Files), NEW m \in 0..Len(r), Cut(r, m),
         NEW q \in Seq(Files), Len(q) = Len(r) - m,
         \A i \in 1..(Len(r) - m) : q[i] = r[m + i], q # <<>>
  PROVE  \E l \in m + 1..Len(r) :
           /\ Segment(r, m, l)
           /\ Len(FirstGroup(q)) = l - m
           /\ SubSeq(q, Len(FirstGroup(q)) + 1, Len(q)) = SubSeq(r, l + 1, Len(r))
           /\ ByIndex(FirstGroup(q)) = Batch(r, m, l)
<1>1. PICK L \in Nat : L = Len(r)
  BY LenProperties
<1>2. DOMAIN r = 1..L /\ m \in Nat /\ m <= L /\ \A i \in 1..L : r[i] \in Files
  BY <1>1, LenProperties, ElementOfSeq
<1>3. /\ q \in Seq(Files) /\ Len(q) = L - m
      /\ \A i \in 1..(L - m) : q[i] = r[m + i]
  BY <1>1
<1>4. PICK n \in 1..(L - m) : /\ FirstGroup(q) = SubSeq(q, 1, n)
                              /\ Fits(q, n)
                              /\ n = L - m \/ ~Fits(q, n + 1)
  BY <1>3, FirstGroupIs
<1>5. PICK l \in Nat : l = m + n
  BY <1>2
<1>6. l \in m + 1..L /\ l - m = n
  BY <1>2, <1>5
<1>7. /\ FirstGroup(q) \in Seq(Files) /\ Len(FirstGroup(q)) = n
      /\ \A i \in 1..n : FirstGroup(q)[i] = r[m + i]
  <2>1. \A i \in 1..n : q[i] = r[m + i] /\ q[i] \in Files
    BY <1>2, <1>3
  <2>2. /\ SubSeq(q, 1, n) \in Seq(Files) /\ Len(SubSeq(q, 1, n)) = n
        /\ \A i \in 1..n : SubSeq(q, 1, n)[i] = q[i]
    <3>1. n \in 0..Len(q)
      BY <1>3
    <3> QED
      BY <3>1, PrefixOf
  <2> QED
    BY <1>4, <2>1, <2>2
<1>8. ByIndex(FirstGroup(q)) = Batch(r, m, l)
  <2>1. m \in Nat /\ m <= l /\ l <= Len(r)
    BY <1>1, <1>2, <1>6
  <2>2. PICK g \in Seq(Files) : g = FirstGroup(q)
    BY <1>7
  <2>3. Len(g) = l - m /\ \A i \in 1..(l - m) : g[i] = r[m + i]
    BY <1>6, <1>7, <2>2
  <2>4. ByIndex(g) = Batch(r, m, l)
    BY <2>1, <2>3, SortedShift
  <2> QED
    BY <2>2, <2>4
<1>9. SubSeq(q, l - m + 1, Len(q)) = SubSeq(r, l + 1, L)
  <2>1. l \in m..Len(r)
    BY <1>1, <1>2, <1>6
  <2> QED
    BY <1>1, <1>3, <2>1, RestOfRest
<1>10. \A i \in Members(r, m, l) : i - m \in 1..n /\ q[i - m] = r[i] /\ r[i] \notin BadNames
  <2> SUFFICES ASSUME NEW i \in Members(r, m, l)
               PROVE  i - m \in 1..n /\ q[i - m] = r[i] /\ r[i] \notin BadNames
    OBVIOUS
  <2>1. i \in 1..L /\ m < i /\ i <= l /\ r[i] \notin BadNames
    BY <1>2 DEF Members, Understood
  <2>2. i - m \in 1..n /\ i - m \in 1..(L - m) /\ m + (i - m) = i
    BY <1>2, <1>6, <2>1
  <2> QED
    BY <1>3, <2>1, <2>2
<1>11. \A i, j \in Members(r, m, l) : SetOf[r[i]] = SetOf[r[j]]
  <2> SUFFICES ASSUME NEW i \in Members(r, m, l), NEW j \in Members(r, m, l)
               PROVE  SetOf[r[i]] = SetOf[r[j]]
    OBVIOUS
  <2>1. {q[i - m], q[j - m]} \cap BadNames = {}
    BY <1>10
  <2>2. \A x, y \in 1..n : {q[x], q[y]} \cap BadNames = {} => SetOf[q[x]] = SetOf[q[y]]
    BY <1>4 DEF Fits
  <2>3. SetOf[q[i - m]] = SetOf[q[j - m]]
    BY <1>10, <2>1, <2>2
  <2> QED
    BY <1>10, <2>3
<1>12. Cut(r, l)
  <2>1. CASE n = L - m
    <3>1. l = Len(r)
      BY <1>1, <1>2, <1>5, <2>1
    <3> QED
      BY <3>1 DEF Cut
  <2>2. CASE n # L - m
    <3>1. \A x \in 1..n + 1 : x \in 1..(L - m) /\ m + x \in 1..L /\ q[x] = r[m + x]
      BY <1>2, <1>3, <2>2
    <3>2. PICK i \in 1..n + 1, j \in 1..n + 1 :
            /\ q[i] \notin BadNames /\ q[j] \notin BadNames
            /\ SetOf[q[i]] # SetOf[q[j]]
      BY <1>4, <2>2 DEF Fits
    <3>3. i \in 1..n \/ i = n + 1
      OBVIOUS
    <3>4. j \in 1..n \/ j = n + 1
      OBVIOUS
    <3>5. i \notin 1..n \/ j \notin 1..n
      <4>1. \A x, y \in 1..n :
              {q[x], q[y]} \cap BadNames = {} => SetOf[q[x]] = SetOf[q[y]]
        BY <1>4 DEF Fits
      <4>2. {q[i], q[j]} \cap BadNames = {}
        BY <3>2
      <4> QED
        BY <3>2, <4>1, <4>2
    <3>6. PICK x \in 1..n : /\ q[x] \notin BadNames /\ q[n + 1] \notin BadNames
                            /\ SetOf[q[x]] # SetOf[q[n + 1]]
      BY <3>2, <3>3, <3>4, <3>5
    <3>7. /\ n + 1 \in 1..n + 1 /\ x \in 1..n + 1 /\ m + (n + 1) = l + 1
          /\ m < m + x /\ m + x <= l /\ m + 1 <= m + x /\ m + 1 \in 1..l
      BY <1>2, <1>5
    <3>8. l + 1 \in Understood(r) /\ SetOf[r[m + x]] # SetOf[r[l + 1]]
      BY <1>2, <3>1, <3>6, <3>7 DEF Understood
    <3>9. m + x \in Understood(r) /\ m + x \in Members(r, m, l)
      BY <1>2, <3>1, <3>6, <3>7 DEF Understood, Members
    <3>10. \A y \in Understood(r) : m + 1 <= y /\ y <= l => y \in Members(r, m, l)
      BY <1>2 DEF Members, Understood
    <3>11. \A y \in Understood(r) : m + 1 <= y /\ y <= l => SetOf[r[y]] # SetOf[r[l + 1]]
      BY <1>11, <3>8, <3>9, <3>10
    <3> QED
      BY <3>7, <3>8, <3>9, <3>11 DEF Cut
  <2> QED
    BY <2>1, <2>2
<1>13. Segment(r, m, l)
  BY <1>2, <1>6, <1>11, <1>12 DEF Segment
<1> QED
  BY <1>1, <1>6, <1>7, <1>8, <1>9, <1>13

\* A set that is not split is a group as a whole.
LEMMA SetWhole ==
  ASSUME NEW r \in Seq(Files), NEW n \in Nat, NEW m \in Nat, m <= Len(r),
         Segment(r, n, m), NEW i \in Members(r, n, m),
         \A a, b, c \in Understood(r) :
           a <= b /\ b <= c /\ SetOf[r[a]] = SetOf[r[i]] /\ SetOf[r[c]] = SetOf[r[i]]
             => SetOf[r[b]] = SetOf[r[i]]
  PROVE  {j \in Understood(r) : SetOf[r[j]] = SetOf[r[i]]} = Members(r, n, m)
<1>1. PICK L \in Nat : L = Len(r)
  BY LenProperties
<1>2. /\ DOMAIN r = 1..L /\ m <= L /\ n < m
      /\ \A j \in Understood(r) : j \in 1..L
  BY <1>1, LenProperties DEF Segment, Understood
<1>3. /\ i \in Understood(r) /\ n < i /\ i <= m /\ i \in 1..L
      /\ \A j \in Members(r, n, m) : SetOf[r[j]] = SetOf[r[i]]
  BY <1>2 DEF Segment, Members
<1>4. ASSUME NEW j \in Understood(r), SetOf[r[j]] = SetOf[r[i]], j <= n
      PROVE  FALSE
  <2>1. n # 0 /\ n # L /\ Cut(r, n)
    BY <1>2, <1>4 DEF Segment
  <2>2. PICK g \in 1..n :
          /\ \E x \in Understood(r) : g <= x /\ x <= n
          /\ \A x \in Understood(r) : g <= x /\ x <= n => SetOf[r[x]] # SetOf[r[n + 1]]
    BY <1>1, <2>1 DEF Cut
  <2>3. n + 1 \in Members(r, n, m)
    BY <1>1, <1>2, <2>1 DEF Cut, Members
  <2>4. SetOf[r[n + 1]] = SetOf[r[i]]
    BY <1>3, <2>3
  <2>5. PICK x \in Understood(r) : g <= x /\ x <= n
    BY <2>2
  <2>6. SetOf[r[x]] # SetOf[r[i]]
    BY <2>2, <2>4, <2>5
  <2>7. ~(g <= j)
    BY <1>4, <2>2, <2>4
  <2>8. j <= x /\ x <= i
    BY <1>2, <1>3, <2>5, <2>7
  <2> QED
    BY <1>3, <1>4, <2>6, <2>8
<1>5. ASSUME NEW j \in Understood(r), SetOf[r[j]] = SetOf[r[i]], m < j
      PROVE  FALSE
  <2>1. m # 0 /\ m # L /\ Cut(r, m)
    BY <1>2, <1>5 DEF Segment
  <2>2. PICK g \in 1..m :
          /\ \E x \in Understood(r) : g <= x /\ x <= m
          /\ \A x \in Understood(r) : g <= x /\ x <= m => SetOf[r[x]] # SetOf[r[m + 1]]
    BY <1>1, <2>1 DEF Cut
  <2>3. m + 1 \in Understood(r)
    BY <1>1, <2>1 DEF Cut
  <2>4. PICK x \in Understood(r) : g <= x /\ x <= m
    BY <2>2
  <2>5. SetOf[r[i]] # SetOf[r[m + 1]]
    <3>1. CASE g <= i
      BY <1>3, <2>2, <3>1
    <3>2. CASE ~(g <= i)
      <4>1. n < x
        BY <1>2, <1>3, <2>4, <3>2
      <4>2. x \in Members(r, n, m)
        BY <2>4, <4>1 DEF Members
      <4>3. SetOf[r[x]] = SetOf[r[i]]
        BY <1>3, <4>2
      <4> QED
        BY <2>2, <2>4, <4>3
    <3> QED
      BY <3>1, <3>2
  <2>6. i <= m + 1 /\ m + 1 <= j
    BY <1>2, <1>3, <1>5
  <2> QED
    BY <1>3, <1>5, <2>3, <2>5, <2>6
<1>6. \A j \in Understood(r) : SetOf[r[j]] = SetOf[r[i]] => n < j /\ j <= m
  BY <1>2, <1>4, <1>5
<1> QED
  BY <1>3, <1>6 DEF Members

\* A file of the request is to be converted to this.
Makes(f, c) == \E i \in Understood(requested) : requested[i] = f /\ ConvertedAt(i) = c

\* The k + 1 files of a group that were loaded make what the last of them is to
\* be converted to.
LEMMA ConvertedAtIs ==
  ASSUME requested \in Seq(Files), NEW n \in Nat, NEW m \in Nat, m <= Len(requested),
         Segment(requested, n, m), NEW k \in Nat, k < Len(Batch(requested, n, m)),
         NEW f, f = Batch(requested, n, m)[k + 1], Together(f)
  PROVE  Makes(f, begun \o SubSeq(Batch(requested, n, m), 1, k + 1))
<1>1. PICK r \in Seq(Files) : r = requested
  OBVIOUS
<1>2. PICK S : S = Members(r, n, m)
  OBVIOUS
<1>3. S \in SUBSET DOMAIN r /\ S \subseteq Understood(r)
  BY <1>2 DEF Members, Understood
<1>4. /\ Batch(r, n, m) = Sorted(r, S) /\ Len(Sorted(r, S)) = Cardinality(S)
      /\ Cardinality(S) \in Nat
  BY <1>2, <1>3, SortedType, NthExists DEF Batch
<1>5. k + 1 \in 1..Cardinality(S)
  BY <1>1, <1>4
<1>6. PICK i \in S : i = Nth(r, S, k + 1) /\ f = r[i]
  <2>1. Nth(r, S, k + 1) \in S
    BY <1>3, <1>5, NthExists
  <2>2. Sorted(r, S)[k + 1] = r[Nth(r, S, k + 1)]
    BY <1>3, <1>5, SortedType
  <2> QED
    BY <1>1, <1>4, <2>1, <2>2
<1>7. {j \in Understood(r) : SetOf[r[j]] = SetOf[r[i]]} = S
  <2>1. \A a, b, c \in Understood(r) :
          a <= b /\ b <= c /\ SetOf[r[a]] = SetOf[r[i]] /\ SetOf[r[c]] = SetOf[r[i]]
            => SetOf[r[b]] = SetOf[r[i]]
    BY <1>1, <1>6 DEF Together
  <2>2. {j \in Understood(r) : SetOf[r[j]] = SetOf[r[i]]} = Members(r, n, m)
    BY <1>1, <1>2, <1>6, <2>1, SetWhole
  <2> QED
    BY <1>2, <2>2
<1>8. ConvertedAt(i) = begun \o Sorted(r, UpTo(r, S, i))
  BY <1>1, <1>7 DEF ConvertedAt
<1>9. Sorted(r, UpTo(r, S, i)) = SubSeq(Sorted(r, S), 1, k + 1)
  BY <1>3, <1>5, <1>6, SortedPrefix
<1>10. i \in Understood(requested) /\ requested[i] = f
  BY <1>1, <1>3, <1>6
<1>11. ConvertedAt(i) = begun \o SubSeq(Batch(requested, n, m), 1, k + 1)
  BY <1>1, <1>4, <1>8, <1>9
<1> QED
  BY <1>10, <1>11 DEF Makes

\* The same by the name of the file, if no other file has it.
LEMMA ConvertedIs ==
  ASSUME requested \in Seq(Files), NEW n \in Nat, NEW m \in Nat, m <= Len(requested),
         Segment(requested, n, m), NEW k \in Nat, k < Len(Batch(requested, n, m)),
         NEW f, f = Batch(requested, n, m)[k + 1], OwnState(f), Together(f)
  PROVE  Converted(f) = begun \o SubSeq(Batch(requested, n, m), 1, k + 1)
<1>0. Makes(f, begun \o SubSeq(Batch(requested, n, m), 1, k + 1))
  BY ConvertedAtIs
<1>1. PICK i \in Understood(requested) :
        /\ requested[i] = f
        /\ ConvertedAt(i) = begun \o SubSeq(Batch(requested, n, m), 1, k + 1)
  BY <1>0 DEF Makes
<1>2. i \in DOMAIN requested
  BY DEF Understood
<1>3. (CHOOSE j \in DOMAIN requested : requested[j] = f) = i
  BY <1>1, <1>2 DEF OwnState
<1> QED
  BY <1>1, <1>3 DEF Converted

\* What is in a group, and what comes after each of its files.
LEMMA BatchFiles ==
  ASSUME NEW r \in Seq(Files), NEW n \in Nat, NEW m \in Nat, m <= Len(r)
  PROVE  /\ Batch(r, n, m) \in Seq(Files)
         /\ Len(Batch(r, n, m)) \in Nat
         /\ Range(Batch(r, n, m)) = {r[i] : i \in Members(r, n, m)}
         /\ Range(Batch(r, n, m)) \subseteq Range(r)
<1>1. Members(r, n, m) \in SUBSET DOMAIN r
  BY DEF Members, Understood
<1>2. Range(Batch(r, n, m)) = {r[i] : i \in Members(r, n, m)}
  BY <1>1, SortedType DEF Batch
<1>3. Batch(r, n, m) \in Seq(Files)
  BY <1>1, SortedType DEF Batch
<1> QED
  BY <1>1, <1>2, <1>3, LenProperties DEF Range

\* A file that alone makes its state comes once.
LEMMA ComesOnce ==
  ASSUME NEW r \in Seq(Files), NEW n \in Nat, NEW m \in 0..Len(r), r = requested,
         NEW k \in Nat, k < Len(Batch(r, n, m)),
         NEW f, f = Batch(r, n, m)[k + 1], OwnState(f)
  PROVE  /\ f \in Range(r)
         /\ f \notin Range(SubSeq(Batch(r, n, m), k + 2, Len(Batch(r, n, m))))
         /\ f \notin Range(SubSeq(r, m + 1, Len(r)))
<1>1. PICK L \in Nat : L = Len(r)
  BY LenProperties
<1>2. DOMAIN r = 1..L /\ m \in Nat /\ m <= L
  BY <1>1, LenProperties
<1>3. PICK S : S = Members(r, n, m)
  OBVIOUS
<1>4. S \in SUBSET DOMAIN r /\ (\A i \in S : i <= m)
  BY <1>3 DEF Members, Understood
<1>5. PICK b \in Seq(Files) : b = Batch(r, n, m)
  BY <1>2, <1>1, BatchFiles
<1>a. b = Sorted(r, S)
  BY <1>3, <1>5 DEF Batch
<1>6. PICK c \in Nat : c = Cardinality(S) /\ Len(b) = c
  BY <1>4, <1>a, SortedType, NthExists
<1>7. \A l \in 1..c : b[l] = r[Nth(r, S, l)] /\ Nth(r, S, l) \in S
                      /\ Cardinality(UpTo(r, S, Nth(r, S, l))) = l
  BY <1>4, <1>a, <1>6, SortedType, NthExists
<1>8. k + 1 \in 1..c /\ k + 1 \in 0..c
  BY <1>5, <1>6
<1>9. PICK i \in S : i = Nth(r, S, k + 1) /\ f = r[i]
  BY <1>5, <1>7, <1>8
<1>10. \A j \in DOMAIN r : r[j] = f => j = i
  BY <1>4, <1>9 DEF OwnState
<1>11. f \in Range(r)
  BY <1>4, <1>9 DEF Range
<1>12. f \notin Range(SubSeq(b, k + 2, c))
  <2>1. PICK d \in 0..Len(b) : d = k + 1 /\ d + 1 = k + 2
    BY <1>6, <1>8
  <2>2. ASSUME NEW x \in d + 1..c, b[x] = f PROVE FALSE
    <3>1. x \in 1..c /\ x # k + 1
      BY <2>1
    <3>2. Nth(r, S, x) = i
      BY <1>4, <1>7, <1>10, <2>2, <3>1
    <3> QED
      BY <1>7, <1>8, <1>9, <3>1, <3>2
  <2> QED
    <3>1. f \notin Range(SubSeq(b, d + 1, Len(b)))
      BY <1>6, <2>2, RangeOfRest
    <3> QED
      BY <1>6, <2>1, <3>1
<1>13. f \notin Range(SubSeq(r, m + 1, L))
  <2>1. ASSUME NEW x \in m + 1..L, r[x] = f PROVE FALSE
    <3>1. x \in DOMAIN r /\ x > m
      BY <1>2
    <3> QED
      BY <1>2, <1>4, <1>9, <1>10, <2>1, <3>1
  <2> QED
    BY <1>1, <2>1, RangeOfRest
<1> QED
  BY <1>1, <1>5, <1>6, <1>11, <1>12, <1>13

----------------------------------------------------------------------------
(* Types                                                                   *)

LEMMA CallTypes ==
  /\ \A method \in {"load"}, data \in Files : [method |-> method, data |-> data] \in D!Call
  /\ \A method \in {"save", "restore"}, data \in D!KeptNames :
       [method |-> method, data |-> data] \in D!Call
BY DEF D!Call

LEMMA StepType ==
  ASSUME D!TypeOK, call \in D!Call, D!Step
  PROVE  D!TypeOK' /\ (cli' # "closed" => call' \in D!Call)
<1> USE DEF D!TypeOK
<1>1. \A run \in D!Failed, p \in {"device", "devcli"} :
        D!Raises(run, p) \in D!Exceptions
  BY DEF D!Failed, D!Raises, D!Exceptions
<1>2. CASE D!Login
  BY <1>1, <1>2 DEF D!Login, D!Return
<1>3. CASE D!Command
  <2>1. ASSUME NEW share \in {"none", "half", "all"}, D!Effect(share)
        PROVE  /\ device' \in D!Config
               /\ kept' \in [D!KeptNames -> D!Config \cup {NoConfig}]
    <3>1. Append(device, Half) \in D!Config
      BY AppendProperties DEF D!Config
    <3>2. CASE share = "none"
      BY <2>1, <3>2 DEF D!Effect
    <3>3. CASE share # "none" /\ call.method = "load"
      <4>1. call.data \in Files
        BY <3>3 DEF D!Call
      <4>2. Append(device, call.data) \in D!Config
        BY <4>1, AppendProperties DEF D!Config
      <4> QED
        BY <2>1, <3>1, <3>3, <4>2 DEF D!Effect
    <3>4. CASE share # "none" /\ call.method # "load"
      <4>1. call.data \in D!KeptNames
        BY <3>4 DEF D!Call
      <4>2. CASE call.method = "save"
        <5>1. PICK got \in D!Config : kept' = [kept EXCEPT ![call.data] = got]
          BY <2>1, <3>1, <3>4, <4>2 DEF D!Effect
        <5>2. device' = device
          BY <2>1, <3>4, <4>2 DEF D!Effect
        <5> QED
          BY <5>1, <5>2
      <4>3. CASE call.method # "save"
        BY <2>1, <3>1, <3>4, <4>1, <4>3 DEF D!Effect
      <4> QED
        BY <4>2, <4>3
    <3> QED
      BY <3>2, <3>3, <3>4
  <2>2. \/ cli' = "exit" /\ UNCHANGED <<call, tries, raised>>
        \/ \E exception \in D!Raised : D!Return(exception)
    BY <1>3 DEF D!Command
  <2>3. \E share \in {"none", "half", "all"} : D!Effect(share)
    BY <1>3 DEF D!Command
  <2>4. \A exception \in D!Raised : exception \in D!Exceptions
    BY RaisedSome
  <2> QED
    BY <2>1, <2>2, <2>3, <2>4 DEF D!Return
<1>4. CASE D!Exit
  BY RaisedSome, <1>4 DEF D!Exit, D!Return
<1> QED
  BY <1>2, <1>3, <1>4 DEF D!Step

\* The lines that the script prints.
LEMMA LineTypes ==
  /\ \A type \in {"format", "failed", "restore_failed", "fatal"} : Text(type) \in Line
  /\ \A f \in Files : Told(f) \in Line
BY DEF Line, Text, Told

LEMMA FormatType ==
  ASSUME NEW m \in Nat, NEW n \in Nat
  PROVE  [i \in 1..(m - n) |-> Text("format")] \in Seq(Line)
<1>1. Text("format") \in Line
  BY LineTypes
<1>2. PICK k \in Nat : 1..(m - n) = 1..k
  <2>1. CASE n <= m
    BY <2>1
  <2>2. CASE m < n
    <3>1. 1..(m - n) = 1..0
      BY <2>2
    <3> QED
      BY <3>1
  <2> QED
    BY <2>1, <2>2
<1>3. [i \in 1..k |-> Text("format")] \in Seq(Line)
  BY <1>1
<1> QED
  BY <1>2, <1>3

LEMMA WordsType ==
  ASSUME NEW exception, NEW words \in LastWords(exception)
  PROVE  words \in Seq(Line)
<1>1. <<>> \in Seq(Line) /\ <<Text("fatal")>> \in Seq(Line)
  BY LineTypes
<1>2. words = <<>> \/ words = <<Text("fatal")>>
  BY DEF LastWords
<1> QED
  BY <1>1, <1>2

LEMMA DieType ==
  ASSUME NEW exception, NEW lines \in Seq(Line), out \in Seq(Line), Die(exception, lines)
  PROVE  out' \in Seq(Line) /\ exit' = "failed" /\ spc' = "idle"
<1>1. PICK words \in LastWords(exception) : out' = out \o (lines \o words)
  BY DEF Die, Say
<1>2. words \in Seq(Line)
  BY WordsType
<1> QED
  BY <1>1, <1>2, ConcatProperties DEF Die

\* A call that begins, and the configuration of the device, which is as it was.
LEMMA StartType ==
  ASSUME D!TypeOK, NEW method, NEW data, [method |-> method, data |-> data] \in D!Call,
         D!Start(method, data)
  PROVE  D!TypeOK' /\ call' \in D!Call
BY DEF D!TypeOK, D!Start

LEMMA FailsType ==
  ASSUME D!TypeOK, out \in Seq(Line), exit \in {"none", "ok", "failed"},
         cli # "closed" => call \in D!Call, NEW exception, GroupFails(exception)
  PROVE  /\ D!TypeOK'
         /\ cli' # "closed" => call' \in D!Call
         /\ out' \in Seq(Line) /\ exit' \in {"none", "ok", "failed"}
         /\ spc' \in {"restore", "idle"}
<1>1. CASE exception = "devcli"
  <2>1. /\ out' = out \o <<Text("failed")>> /\ exit' = exit /\ spc' = "restore"
        /\ D!Start("restore", "drned-backup")
    BY <1>1 DEF GroupFails, Restore, Say
  <2>2. D!TypeOK' /\ call' \in D!Call
    BY <2>1, StartType, CallTypes DEF D!KeptNames
  <2>3. <<Text("failed")>> \in Seq(Line)
    BY LineTypes
  <2> QED
    BY <2>1, <2>2, <2>3, ConcatProperties
<1>2. CASE exception # "devcli"
  <2>1. Die(exception, <<>>) /\ UNCHANGED dvars
    BY <1>2 DEF GroupFails
  <2>2. <<>> \in Seq(Line)
    OBVIOUS
  <2> QED
    BY <2>1, <2>2, DieType DEF dvars, D!TypeOK, D!Config
<1> QED
  BY <1>1, <1>2

\* What the script does next is done with the values there are.
LEMMA TypeInit == Init => TypeInv
<1> SUFFICES ASSUME Init PROVE TypeInv
  OBVIOUS
<1>1. D!TypeOK /\ cli = "closed"
  BY DEF Init, D!Init, D!TypeOK, D!Config
<1>2. plan \in Seq(Actions)
  BY CliConversionAssumption DEF Init
<1>3. <<>> \in D!Config
  BY DEF D!Config
<1>4. work \in [States -> D!Config \cup {NoConfig}] /\ states = work
  BY DEF Init
<1>5. <<>> \in Seq(Files) /\ <<>> \in Seq(Line)
  BY EmptySeq
<1> QED
  BY <1>1, <1>2, <1>3, <1>4, <1>5 DEF Init, TypeInv, TypeOK, SPC

LEMMA TypeStep == TypeInv /\ [Next]_vars => TypeInv'
<1> SUFFICES ASSUME TypeInv, [Next]_vars PROVE TypeInv'
  OBVIOUS
<1> USE DEF TypeInv, TypeOK
<1>1. CASE Begin
  <2>1. requested' \in Seq(Files)
    <3>1. requested' \in Requests \/ requested' = <<>>
      BY <1>1 DEF Begin
    <3>2. CASE requested' \in Requests
      BY <3>2, CliConversionAssumption
    <3>3. CASE requested' = <<>>
      BY <3>3, EmptySeq
    <3> QED
      BY <3>1, <3>2, <3>3
  <2>2. action' \in Actions /\ plan' \in Seq(Actions)
    BY <1>1, HeadTailProperties DEF Begin
  <2>3. D!TypeOK' /\ (cli' # "closed" => call' \in D!Call)
    BY <1>1 DEF Begin, dvars, D!TypeOK
  <2> QED
    <3>1. <<>> \in Seq(Files)
      BY EmptySeq
    <3>2. default' \in D!Config \cup {NoConfig} /\ begun' \in D!Config
      BY <1>1 DEF Begin, D!TypeOK
    <3> QED
      BY <1>1, <2>1, <2>2, <2>3, <3>1, <3>2 DEF Begin, SPC, files
<1>2. CASE Startup
  <2>1. D!TypeOK' /\ (cli' # "closed" => call' \in D!Call)
    <3>1. CASE UNCHANGED dvars
      BY <3>1 DEF dvars, D!TypeOK
    <3>2. CASE ~UNCHANGED dvars
      BY <1>2, <3>2, StartType, CallTypes DEF Startup, D!KeptNames
    <3> QED
      BY <3>1, <3>2
  <2>2. /\ out' \in Seq(Line) /\ exit' \in {"none", "ok", "failed"}
        /\ spc' \in {"backup", "single", "idle"}
    <3>1. <<>> \in Seq(Line)
      OBVIOUS
    <3> QED
      BY <1>2, <3>1, DieType DEF Startup
  <2> QED
    BY <1>2, <2>1, <2>2 DEF Startup, SPC, files, filter, history
<1>3. CASE CallStep
  <2>1. D!TypeOK' /\ (cli' # "closed" => call' \in D!Call)
    <3>1. cli # "closed"
      BY <1>3, SameCall DEF CallStep
    <3> QED
      BY <1>3, <3>1, StepType DEF CallStep
  <2> QED
    BY <1>3, <2>1 DEF CallStep, files, filter
<1>4. CASE SingleDone
  <2>1. D!TypeOK' /\ (cli' # "closed" => call' \in D!Call)
    BY <1>4 DEF SingleDone, dvars, D!TypeOK
  <2>2. /\ out' \in Seq(Line) /\ exit' \in {"none", "ok", "failed"}
        /\ spc' \in {"final", "idle"}
    <3>1. <<>> \in Seq(Line)
      OBVIOUS
    <3> QED
      BY <1>4, <3>1, DieType DEF SingleDone
  <2>3. default' \in D!Config \cup {NoConfig}
    BY <1>4 DEF SingleDone, D!TypeOK
  <2> QED
    BY <1>4, <2>1, <2>2, <2>3 DEF SingleDone, SPC, files, filter
<1>5. CASE BackupDone
  <2>1. D!TypeOK' /\ (cli' # "closed" => call' \in D!Call)
    BY <1>5 DEF BackupDone, dvars, D!TypeOK
  <2>2. /\ out' \in Seq(Line) /\ exit' \in {"none", "ok", "failed"}
        /\ spc' \in {"group", "idle"}
    <3>1. <<>> \in Seq(Line)
      OBVIOUS
    <3> QED
      BY <1>5, <3>1, DieType DEF BackupDone
  <2> QED
    BY <1>5, <2>1, <2>2 DEF BackupDone, SPC, files, filter, history
<1>6. CASE NextGroup
  <2>1. CASE todo = <<>>
    BY <1>6, <2>1 DEF NextGroup, SPC, files, filter, history, dvars, D!TypeOK
  <2>2. CASE todo # <<>>
    <3>1. PICK n \in 1..Len(todo) : FirstGroup(todo) = SubSeq(todo, 1, n)
      BY <2>2, FirstGroupIs
    <3>2. PICK q \in Seq(Files) : q = FirstGroup(todo) /\ Len(q) = n
      <4>1. n \in 0..Len(todo)
        OBVIOUS
      <4>2. SubSeq(todo, 1, n) \in Seq(Files) /\ Len(SubSeq(todo, 1, n)) = n
        BY <4>1, PrefixOf
      <4> QED
        BY <3>1, <4>2, Zenon
    <3>3. PICK g \in Seq(Files) : g = ByIndex(q) /\ Len(g) \in Nat
      <4>1. Understood(q) \in SUBSET DOMAIN q
        BY DEF Understood
      <4> QED
        BY <4>1, SortedType, NthExists DEF ByIndex
    <3>4. todo' \in Seq(Files)
      <4>1. n \in 0..Len(todo)
        OBVIOUS
      <4>2. todo' = SubSeq(todo, n + 1, Len(todo))
        BY <1>6, <2>2, <3>2 DEF NextGroup
      <4> QED
        BY <4>1, <4>2, RestOf
    <3>5. group' = g
      BY <1>6, <2>2, <3>2, <3>3 DEF NextGroup
    <3>6. out' \in Seq(Line)
      <4>1. PICK t \in Seq(Line) : t = [i \in 1..(Len(q) - Len(g)) |-> Text("format")]
        BY FormatType, LenProperties
      <4>3. out' = out \o t
        BY <1>6, <2>2, <3>2, <3>3, <4>1 DEF NextGroup, Say
      <4> QED
        BY <4>3, ConcatProperties
    <3>7. CASE g = <<>>
      <4>1. UNCHANGED <<spc, dvars>>
        BY <1>6, <2>2, <3>2, <3>3, <3>7 DEF NextGroup
      <4> QED
        BY <1>6, <3>4, <3>5, <3>6, <4>1 DEF NextGroup, files, filter, history, dvars, D!TypeOK
    <3>8. CASE g # <<>>
      <4>1. Head(g) \in Files
        BY <3>8, HeadTailProperties
      <4>2. spc' = "load" /\ D!Start("load", Head(g))
        BY <1>6, <2>2, <3>2, <3>3, <3>8 DEF NextGroup
      <4>3. D!TypeOK' /\ call' \in D!Call
        BY <4>1, <4>2, StartType, CallTypes
      <4> QED
        BY <1>6, <3>4, <3>5, <3>6, <3>8, <4>2, <4>3 DEF NextGroup, SPC, files, filter, history
    <3> QED
      BY <3>7, <3>8
  <2> QED
    BY <2>1, <2>2
<1>7. CASE LoadDone
  <2>1. CASE raised # "none"
    BY <1>7, <2>1, FailsType DEF LoadDone, SPC, files, filter, history
  <2>2. CASE raised = "none"
    BY <1>7, <2>2 DEF LoadDone, SPC, files, filter, history, dvars, D!TypeOK
  <2> QED
    BY <2>1, <2>2
<1>8. CASE Sync
  <2>1. CASE nso' = device /\ spc' = "save" /\ UNCHANGED <<dvars, pending>>
    BY <1>8, <2>1 DEF Sync, SPC, filter, history, dvars, D!TypeOK
  <2>2. CASE /\ pending' \in {"devcli", "other", "interrupt"} /\ spc' = "recover"
             /\ D!Start("restore", "drned-backup") /\ UNCHANGED nso
    <3>1. D!TypeOK' /\ call' \in D!Call
      BY <2>2, StartType, CallTypes DEF D!KeptNames
    <3> QED
      BY <1>8, <2>2, <3>1 DEF Sync, SPC, filter, history, D!Exceptions
  <2> QED
    BY <1>8, <2>1, <2>2 DEF Sync
<1>9. CASE Recovered
  <2>1. CASE raised # "none"
    BY <1>9, <2>1, FailsType DEF Recovered, SPC, files, filter, history
  <2>2. CASE raised = "none"
    BY <1>9, <2>2 DEF Recovered, SPC, files, filter, history, dvars, D!TypeOK
  <2> QED
    BY <2>1, <2>2
<1>10. CASE Resync
  <2>1. PICK exception : GroupFails(exception)
    BY <1>10 DEF Resync
  <2>2. nso' \in D!Config
    BY <1>10 DEF Resync, D!TypeOK
  <2> QED
    BY <1>10, <2>1, <2>2, FailsType DEF Resync, SPC, filter, history
<1>11. CASE Open
  <2>1. StateOf[Head(group)] \in States
    BY <1>11, HeadTailProperties, CliConversionAssumption DEF Open
  <2>2. <<Half>> \in D!Config
    BY DEF D!Config
  <2>3. CASE spc' = "saving"
    <3>1. /\ work' = [work EXCEPT ![StateOf[Head(group)]] = <<Half>>]
          /\ writing' = <<"work", StateOf[Head(group)]>>
          /\ UNCHANGED <<out, exit>>
      BY <1>11, <2>3 DEF Open, Die
    <3>2. work' \in [States -> D!Config \cup {NoConfig}] /\ writing' # NoFile
      BY <2>1, <2>2, <3>1 DEF NoFile
    <3> QED
      BY <1>11, <2>1, <2>3, <3>1, <3>2 DEF Open, SPC, filter, history, dvars, D!TypeOK
  <2>4. CASE spc' # "saving"
    <3>1. PICK exception : Die(exception, <<>>) /\ UNCHANGED <<work, writing>>
      BY <1>11, <2>4 DEF Open
    <3>2. <<>> \in Seq(Line)
      OBVIOUS
    <3>3. out' \in Seq(Line) /\ exit' = "failed" /\ spc' = "idle"
      BY <3>1, <3>2, DieType
    <3>4. D!TypeOK' /\ (cli' # "closed" => call' \in D!Call)
      BY <1>11 DEF Open, dvars, D!TypeOK
    <3> QED
      BY <1>11, <3>1, <3>3, <3>4 DEF Open, SPC, filter, history
  <2> QED
    BY <2>3, <2>4
<1>12. CASE Save
  <2>1. writing \in {"work", "states"} \X States
    BY <1>12 DEF Save
  <2>2. CASE group' # group
    <3>1. Head(group) \in Files /\ Tail(group) \in Seq(Files)
      BY <1>12, HeadTailProperties DEF Save
    <3>2. /\ work' \in [States -> D!Config \cup {NoConfig}]
          /\ states' \in [States -> D!Config \cup {NoConfig}]
      <4>1. nso \in D!Config /\ writing[2] \in States
        BY <2>1
      <4>2. \/ work' = [work EXCEPT ![writing[2]] = nso] /\ states' = states
            \/ states' = [states EXCEPT ![writing[2]] = nso] /\ work' = work
        BY <1>12, <2>2 DEF Save
      <4>3. /\ work \in [States -> D!Config \cup {NoConfig}]
            /\ states \in [States -> D!Config \cup {NoConfig}]
        OBVIOUS
      <4> QED
        BY <4>1, <4>2, <4>3
    <3>3. <<Told(Head(group))>> \in Seq(Line)
      BY <3>1, LineTypes
    <3>4. out' \in Seq(Line)
      <4>1. out' = out \o <<Told(Head(group))>>
        BY <1>12, <2>2 DEF Save, Say, Restore, Told
      <4> QED
        BY <3>3, <4>1, ConcatProperties
    <3>5. group' = Tail(group)
      BY <1>12, <2>2 DEF Save
    <3>6. CASE group' = <<>>
      <4>1. spc' = "restore" /\ D!Start("restore", "drned-backup") /\ UNCHANGED exit
        BY <1>12, <2>2, <3>6 DEF Save, Restore
      <4>2. D!TypeOK' /\ call' \in D!Call
        BY <4>1, StartType, CallTypes DEF D!KeptNames
      <4> QED
        BY <1>12, <3>1, <3>2, <3>4, <3>5, <4>1, <4>2 DEF Save, SPC, history
    <3>7. CASE group' # <<>>
      <4>1. spc' = "load" /\ D!Start("load", Head(group')) /\ UNCHANGED exit
        BY <1>12, <2>2, <3>7 DEF Save
      <4>2. Head(group') \in Files
        BY <3>1, <3>5, <3>7, HeadTailProperties
      <4>3. D!TypeOK' /\ call' \in D!Call
        BY <4>1, <4>2, StartType, CallTypes
      <4> QED
        BY <1>12, <3>1, <3>2, <3>4, <3>5, <3>7, <4>1, <4>3 DEF Save, SPC, history
    <3> QED
      BY <3>6, <3>7
  <2>3. CASE group' = group
    <3>1. group # Tail(group)
      BY <1>12, HeadTailProperties DEF Save
    <3>2. PICK exception : Die(exception, <<>>) /\ UNCHANGED <<dvars, group, work, states>>
      BY <1>12, <2>3, <3>1 DEF Save
    <3>3. <<>> \in Seq(Line)
      OBVIOUS
    <3> QED
      <4>1. out' \in Seq(Line) /\ exit' = "failed" /\ spc' = "idle"
        BY <3>2, <3>3, DieType
      <4>2. D!TypeOK' /\ (cli' # "closed" => call' \in D!Call)
        BY <3>2 DEF dvars, D!TypeOK
      <4> QED
        BY <1>12, <3>2, <4>1, <4>2 DEF Save, SPC, history
  <2> QED
    BY <2>2, <2>3
<1>13. CASE RestoreDone
  <2>1. D!TypeOK' /\ (cli' # "closed" => call' \in D!Call)
    BY <1>13 DEF RestoreDone, dvars, D!TypeOK
  <2>2. /\ out' \in Seq(Line) /\ exit' \in {"none", "ok", "failed"}
        /\ spc' \in {"group", "idle"}
    <3>1. <<>> \in Seq(Line) /\ <<Text("restore_failed")>> \in Seq(Line)
      BY LineTypes
    <3> QED
      BY <1>13, <3>1, DieType DEF RestoreDone
  <2> QED
    BY <1>13, <2>1, <2>2 DEF RestoreDone, SPC, files, filter
<1>14. CASE Final
  <2>1. D!TypeOK' /\ (cli' # "closed" => call' \in D!Call)
    BY <1>14 DEF Final, dvars, D!TypeOK
  <2>2. /\ out' \in Seq(Line) /\ exit' \in {"none", "ok", "failed"} /\ spc' = "idle"
    <3>1. <<>> \in Seq(Line)
      OBVIOUS
    <3> QED
      BY <1>14, <3>1, DieType DEF Final
  <2>3. nso' \in D!Config
    BY <1>14 DEF Final, D!TypeOK
  <2> QED
    BY <1>14, <2>1, <2>2, <2>3 DEF Final, SPC, filter, history
<1>15. CASE Killed
  <2>1. D!TypeOK' /\ cli' = "closed"
    BY <1>15 DEF Killed, D!Return, D!TypeOK, D!Exceptions
  <2> QED
    BY <1>15, <2>1 DEF Killed, SPC, filter, history, NoFile
<1>16. CASE ReadLine
  <2>1. Head(out) \in Line /\ out' \in Seq(Line)
    BY <1>16, HeadTailProperties DEF ReadLine
  <2>2. D!TypeOK' /\ (cli' # "closed" => call' \in D!Call)
    BY <1>16 DEF ReadLine, dvars, D!TypeOK
  <2>3. CASE Head(out).type = "converted" /\ Head(out).file \notin Spaced
    <3>1. PICK f \in Files : f = Head(out).file
      BY <2>1, <2>3 DEF Line
    <3>2. CompleteImport(f) /\ UNCHANGED error
      BY <1>16, <2>3, <3>1 DEF ReadLine
    <3>3. StateOf[f] \in States
      BY CliConversionAssumption
    <3>4. /\ {work', states'} \subseteq [States -> D!Config \cup {NoConfig}]
          /\ failed' \in BOOLEAN /\ imported' \subseteq Files
      <4>1. CASE work[StateOf[f]] # NoConfig
        <5>1. /\ states' = [states EXCEPT ![StateOf[f]] = work[StateOf[f]]]
              /\ work' = [work EXCEPT ![StateOf[f]] = NoConfig]
              /\ imported' = imported \cup {f} /\ failed' = failed
          BY <3>2, <4>1 DEF CompleteImport
        <5>2. /\ work \in [States -> D!Config \cup {NoConfig}]
              /\ states \in [States -> D!Config \cup {NoConfig}]
              /\ failed \in BOOLEAN /\ imported \subseteq Files
          OBVIOUS
        <5>3. work' \in [States -> D!Config \cup {NoConfig}]
          BY <5>1, <5>2
        <5>4. states' \in [States -> D!Config \cup {NoConfig}]
          BY <3>3, <5>1, <5>2
        <5> QED
          BY <5>1, <5>2, <5>3, <5>4
      <4>2. CASE ~(work[StateOf[f]] # NoConfig)
        BY <3>2, <4>2 DEF CompleteImport
      <4> QED
        BY <4>1, <4>2
    <3>5. /\ writing' \in {NoFile} \cup ({"work", "states"} \X States)
          /\ writing # NoFile => writing' # NoFile
      BY <3>2, <3>3 DEF CompleteImport, NoFile
    <3> QED
      BY <1>16, <2>1, <2>2, <3>2, <3>4, <3>5 DEF ReadLine, SPC, history
  <2>4. CASE Head(out).type # "converted" \/ Head(out).file \in Spaced
    <3>1. failed' \in BOOLEAN /\ error' \in BOOLEAN /\ UNCHANGED <<states, work, writing, imported>>
      BY <1>16, <2>4 DEF ReadLine
    <3> QED
      BY <1>16, <2>1, <2>2, <3>1 DEF ReadLine, SPC, history
  <2> QED
    BY <2>3, <2>4
<1>17. CASE LoseLines
  BY <1>17 DEF LoseLines, files, filter, history, dvars, D!TypeOK
<1>18. CASE Reply
  BY <1>18 DEF Reply, files, filter, history, dvars, D!TypeOK
<1>19. CASE UNCHANGED vars
  BY <1>19 DEF vars, files, filter, history, dvars, D!TypeOK
<1> QED
  BY <1>1, <1>2, <1>3, <1>4, <1>5, <1>6, <1>7, <1>8, <1>9, <1>10, <1>11, <1>12,
     <1>13, <1>14, <1>15, <1>16, <1>17, <1>18, <1>19 DEF Next

\* The variables have their types in every state, and a call, a file and a
\* group are there when the script works with them.
THEOREM TypesAreRight == Spec => []TypeOK
<1>1. Init => TypeInv
  BY TypeInit
<1>2. TypeInv => TypeOK
  BY DEF TypeInv
<1> QED
  BY <1>1, <1>2, TypeStep, PTL DEF Spec

----------------------------------------------------------------------------
(* The group in progress                                                   *)

\* What is left of a sequence after k elements: the next one, and the rest.
LEMMA RestHead ==
  ASSUME NEW S, NEW b \in Seq(S), NEW k \in Nat, k < Len(b)
  PROVE  /\ b[k + 1] \in S
         /\ Head(SubSeq(b, k + 1, Len(b))) = b[k + 1]
         /\ Tail(SubSeq(b, k + 1, Len(b))) = SubSeq(b, k + 2, Len(b))
         /\ SubSeq(b, k + 2, Len(b)) \in Seq(S)
         /\ SubSeq(b, k + 2, Len(b)) = <<>> <=> k + 1 = Len(b)
<1>1. PICK L \in Nat : L = Len(b)
  BY LenProperties
<1>2. k + 1 \in 1..L /\ k \in 0..L /\ k + 1 \in 0..L /\ b[k + 1] \in S
  BY <1>1, ElementOfSeq
<1>3. PICK u : u = SubSeq(b, k + 1, L)
  OBVIOUS
<1>4. u \in Seq(S) /\ Len(u) = L - k /\ \A i \in 1..(L - k) : u[i] = b[k + i]
  BY <1>1, <1>2, <1>3, RestOf
<1>5. u # <<>> /\ Head(u) = b[k + 1]
  <2>1. Len(u) # 0
    BY <1>2, <1>4
  <2>2. u # <<>>
    BY <2>1, EmptySeq
  <2>3. u[1] = b[k + 1]
    BY <1>2, <1>4
  <2> QED
    BY <1>4, <2>2, <2>3, HeadTailProperties
<1>6. PICK t : t = Tail(u)
  OBVIOUS
<1>7. t \in Seq(S) /\ Len(t) = L - k - 1 /\ \A i \in 1..(L - k - 1) : t[i] = b[k + 1 + i]
  <2>1. t \in Seq(S) /\ Len(t) = Len(u) - 1 /\ \A i \in 1..Len(t) : t[i] = u[i + 1]
    BY <1>4, <1>5, <1>6, HeadTailProperties
  <2>2. Len(t) = L - k - 1
    BY <1>2, <1>4, <2>1
  <2>3. \A i \in 1..(L - k - 1) : t[i] = u[i + 1]
    BY <2>1, <2>2
  <2>4. \A i \in 1..(L - k - 1) : u[i + 1] = b[k + 1 + i]
    BY <1>2, <1>4
  <2> QED
    BY <2>1, <2>2, <2>3, <2>4
<1>8. PICK v : v = SubSeq(b, k + 1 + 1, L)
  OBVIOUS
<1>9. v \in Seq(S) /\ Len(v) = L - (k + 1) /\ \A i \in 1..(L - (k + 1)) : v[i] = b[k + 1 + i]
  BY <1>1, <1>2, <1>8, RestOf
<1>10. t = v
  <2>1. Len(t) = Len(v)
    BY <1>2, <1>7, <1>9
  <2>2. \A i \in 1..Len(t) : t[i] = v[i]
    BY <1>2, <1>7, <1>9
  <2> QED
    BY <1>7, <1>9, <2>1, <2>2, SeqEqual
<1>11. k + 1 + 1 = k + 2
  OBVIOUS
<1>12. v = <<>> <=> k + 1 = L
  <2>1. v = <<>> <=> Len(v) = 0
    BY <1>9, EmptySeq
  <2> QED
    BY <1>2, <1>9, <2>1
<1>13. v = SubSeq(b, k + 2, L)
  BY <1>8, <1>11
<1> QED
  BY <1>1, <1>2, <1>3, <1>5, <1>6, <1>9, <1>10, <1>12, <1>13

\* An element comes after two sequences.
ComesAfter(c, u, e) == Append(c \o u, e) = c \o Append(u, e)

LEMMA AppendConcat ==
  ASSUME NEW T, NEW c \in Seq(T), NEW u \in Seq(T), NEW e \in T
  PROVE  ComesAfter(c, u, e)
<1>1. PICK w : w = <<e>>
  OBVIOUS
<1>2. w \in Seq(T)
  BY <1>1
<1>3. Append(u, e) = u \o w
  BY <1>1, AppendIsConcat
<1>4. c \o u \in Seq(T)
  BY ConcatProperties
<1>5. Append(c \o u, e) = (c \o u) \o w
  BY <1>1, <1>4, AppendIsConcat
<1>6. (c \o u) \o w = c \o (u \o w)
  BY <1>2, ConcatAssociative
<1> QED
  BY <1>3, <1>5, <1>6 DEF ComesAfter

LEMMA LongerPrefix ==
  ASSUME NEW T, NEW b \in Seq(T), NEW k \in Nat, k < Len(b)
  PROVE  /\ SubSeq(b, 1, k) \in Seq(T) /\ b[k + 1] \in T
         /\ SubSeq(b, 1, k + 1) = Append(SubSeq(b, 1, k), b[k + 1])
<1>1. PICK L \in Nat : L = Len(b)
  BY LenProperties
<1>2. k \in 0..L /\ k + 1 \in 0..L /\ b[k + 1] \in T
  BY <1>1, ElementOfSeq
<1>3. PICK u : u = SubSeq(b, 1, k)
  OBVIOUS
<1>4. u \in Seq(T) /\ Len(u) = k /\ \A i \in 1..k : u[i] = b[i]
  BY <1>1, <1>2, <1>3, PrefixOf
<1>5. PICK v : v = SubSeq(b, 1, k + 1)
  OBVIOUS
<1>6. v \in Seq(T) /\ Len(v) = k + 1 /\ \A i \in 1..(k + 1) : v[i] = b[i]
  BY <1>1, <1>2, <1>5, PrefixOf
<1>7. PICK a : a = Append(u, b[k + 1])
  OBVIOUS
<1>8. a \in Seq(T) /\ Len(a) = k + 1 /\ (\A i \in 1..k : a[i] = u[i]) /\ a[k + 1] = b[k + 1]
  BY <1>2, <1>4, <1>7, AppendProperties
<1>9. a = v
  <2>1. \A i \in 1..(k + 1) : i \in 1..k \/ i = k + 1
    OBVIOUS
  <2>2. \A i \in 1..k : a[i] = v[i]
    BY <1>4, <1>6, <1>8
  <2>3. a[k + 1] = v[k + 1]
    BY <1>6, <1>8
  <2>4. \A i \in 1..(k + 1) : a[i] = v[i]
    BY <2>1, <2>2, <2>3
  <2> QED
    BY <1>6, <1>8, <2>4, SeqEqual
<1> QED
  BY <1>2, <1>3, <1>4, <1>5, <1>7, <1>9

\* One file more is loaded on top of others.
LEMMA OneMore ==
  ASSUME NEW b \in Seq(Files), NEW k \in Nat, k < Len(b), NEW c \in D!Config
  PROVE  /\ Append(c \o SubSeq(b, 1, k), b[k + 1]) = c \o SubSeq(b, 1, k + 1)
         /\ c \o SubSeq(b, 1, 0) = c
<1>1. c \in Seq(Files \cup {Half})
  BY DEF D!Config
<1>2. PICK u : u = SubSeq(b, 1, k)
  OBVIOUS
<1>3. PICK e \in Files : e = b[k + 1]
  BY LongerPrefix
<1>4. u \in Seq(Files) /\ SubSeq(b, 1, k + 1) = Append(u, e)
  BY <1>2, <1>3, LongerPrefix
<1>5. u \in Seq(Files \cup {Half}) /\ e \in Files \cup {Half}
  BY <1>4
<1>6. Append(c \o u, e) = c \o Append(u, e)
  <2>1. ComesAfter(c, u, e)
    BY <1>1, <1>5, AppendConcat
  <2> QED
    BY <2>1 DEF ComesAfter
<1>7. c \o SubSeq(b, 1, 0) = c
  <2>1. SubSeq(b, 1, 0) = <<>>
    OBVIOUS
  <2> QED
    BY <1>1, <2>1, ConcatEmptySeq
<1> QED
  BY <1>2, <1>3, <1>4, <1>6, <1>7

GroupVars == <<device, call, cli, raised, requested, spc, todo, group, nso, begun>>

\* The actions that have nothing to do with the groups.
LEMMA GroupSame ==
  ASSUME GroupInv, UNCHANGED GroupVars
  PROVE  GroupInv'
<1>1. \A m \in 0..Len(requested) : Begun(m) => Begun(m)'
  BY DEF GroupVars, Begun
<1>2. \A n \in 0..Len(requested), m \in 0..Len(requested), k \in Nat :
        Underway(n, m, k) => Underway(n, m, k)'
  BY DEF GroupVars, Underway, Done
<1> QED
  BY <1>1, <1>2 DEF GroupVars, GroupInv

\* The places of the script where no group is being converted.
LEMMA GroupAside ==
  ASSUME GroupInv, UNCHANGED <<requested, todo>>,
         spc' \in {"idle", "single", "final", "group", "restore", "recover", "resync"},
         spc' \in {"group", "restore", "recover", "resync"}
           => spc \in {"backup", "group", "load", "sync", "recover", "resync", "save",
                       "saving", "restore"}
  PROVE  GroupInv'
BY DEF GroupInv, Begun

\* The file is loaded, then read by NSO, then saved.
LEMMA GroupOn ==
  ASSUME GroupInv, UNCHANGED <<device, requested, todo, group, begun>>,
         spc' \in {"sync", "save", "saving"},
         \/ spc = "load" /\ Done /\ spc' = "sync"
         \/ spc = "sync" /\ spc' = "save" /\ nso' = device
         \/ spc = "save" /\ UNCHANGED nso
  PROVE  GroupInv'
<1>1. PICK n \in 0..Len(requested), m \in 0..Len(requested), k \in Nat :
        Segment(requested, n, m) /\ Begun(m) /\ Underway(n, m, k)
  BY DEF GroupInv
<1>2. Begun(m)' /\ Underway(n, m, k)'
  BY <1>1 DEF Begun, Underway
<1> QED
  BY <1>1, <1>2 DEF GroupInv

\* A call to load the next file of the group.
LEMMA GroupCall ==
  ASSUME TypeInv, CallInv, GroupInv, spc = "load", cli # "closed", raised = "none",
         CallStep
  PROVE  GroupInv'
<1>1. PICK n \in 0..Len(requested), m \in 0..Len(requested), k \in Nat :
        Segment(requested, n, m) /\ Begun(m) /\ Underway(n, m, k)
  BY DEF GroupInv
<1>2. PICK b \in Seq(Files) : b = Batch(requested, n, m)
  <2>1. requested \in Seq(Files)
    BY DEF TypeInv, TypeOK
  <2>2. n \in Nat /\ m \in Nat /\ m <= Len(requested)
    BY <2>1, LenProperties
  <2> QED
    BY <2>1, <2>2, BatchFiles
<1>3. /\ k < Len(b) /\ group = SubSeq(b, k + 1, Len(b))
      /\ call.method = "load" /\ call.data = Head(group)
      /\ cli \in {"login", "command"} => device = begun \o SubSeq(b, 1, k)
      /\ cli = "exit" => device = begun \o SubSeq(b, 1, k + 1)
  BY <1>1, <1>2 DEF Underway, CallInv, Done
<1>4. begun \in D!Config
  BY DEF TypeInv, TypeOK
<1>5. /\ call.data = b[k + 1]
      /\ Append(begun \o SubSeq(b, 1, k), b[k + 1]) = begun \o SubSeq(b, 1, k + 1)
  <2>1. call.data = b[k + 1]
    BY <1>2, <1>3, RestHead
  <2>2. Append(begun \o SubSeq(b, 1, k), b[k + 1]) = begun \o SubSeq(b, 1, k + 1)
    BY <1>3, <1>4, OneMore
  <2> QED
    BY <2>1, <2>2
<1>6. /\ UNCHANGED <<requested, spc, todo, group, nso, begun>>
      /\ D!Step
  BY DEF CallStep, files
<1>7. /\ cli' # "closed" => UNCHANGED call
      /\ cli' \in {"login", "command"} => device' = begun \o SubSeq(b, 1, k)
      /\ cli' = "exit" => device' = begun \o SubSeq(b, 1, k + 1)
      /\ cli' = "closed" /\ raised' = "none" => device' = begun \o SubSeq(b, 1, k + 1)
  <2>1. \A run \in D!Failed, p \in {"device", "devcli"} : D!Raises(run, p) # "none"
    BY FailedRaises
  <2>2. CASE D!Login
    BY <1>3, <2>1, <2>2 DEF D!Login, D!Return
  <2>3. CASE D!Command
    <3>1. CASE D!Effect("all") /\ cli' = "exit" /\ UNCHANGED <<call, tries, raised>>
      <4>1. device' = Append(device, call.data)
        BY <1>3, <3>1 DEF D!Effect
      <4> QED
        BY <1>3, <1>5, <2>3, <3>1, <4>1 DEF D!Command
    <3>2. CASE \E exception \in D!Raised : D!Return(exception)
      BY RaisedSome, <3>2 DEF D!Return
    <3> QED
      BY <2>3, <3>1, <3>2 DEF D!Command
  <2>4. CASE D!Exit
    BY <1>3, RaisedSome, <2>4 DEF D!Exit, D!Return
  <2> QED
    BY <1>6, <2>2, <2>3, <2>4 DEF D!Step
<1>8. Begun(m)'
  BY <1>1, <1>6 DEF Begun
<1>9. Underway(n, m, k)'
  BY <1>2, <1>3, <1>6, <1>7 DEF Underway, Done
<1> QED
  BY <1>1, <1>6, <1>8, <1>9 DEF GroupInv

\* The next group begins with its first file.
LEMMA GroupNext ==
  ASSUME TypeInv, BackupInv, GroupInv, NextGroup
  PROVE  GroupInv'
<1>1. requested \in Seq(Files) /\ todo \in Seq(Files) /\ spc = "group"
      /\ begun \in D!Config /\ device = begun
  BY DEF TypeInv, TypeOK, BackupInv, NextGroup
<1>2. UNCHANGED requested /\ UNCHANGED nso /\ UNCHANGED begun
  BY DEF NextGroup, files, history
<1>3. CASE todo = <<>>
  <2>1. spc' = "final"
    BY <1>3 DEF NextGroup
  <2> QED
    BY <2>1 DEF GroupInv
<1>4. CASE todo # <<>>
  <2>1. PICK m \in 0..Len(requested) : Begun(m)
    BY <1>1 DEF GroupInv
  <2>2. /\ Cut(requested, m)
        /\ Len(todo) = Len(requested) - m
        /\ \A i \in 1..(Len(requested) - m) : todo[i] = requested[m + i]
    BY <1>1, <2>1, RestOf DEF Begun
  <2>3. PICK l \in m + 1..Len(requested) :
          /\ Segment(requested, m, l)
          /\ SubSeq(todo, Len(FirstGroup(todo)) + 1, Len(todo))
               = SubSeq(requested, l + 1, Len(requested))
          /\ ByIndex(FirstGroup(todo)) = Batch(requested, m, l)
    BY <1>1, <1>4, <2>2, NextSegment
  <2>4. PICK b : b = Batch(requested, m, l)
    OBVIOUS
  <2>5. /\ todo' = SubSeq(requested, l + 1, Len(requested))
        /\ group' = b
        /\ \/ b = <<>> /\ UNCHANGED spc
           \/ b # <<>> /\ spc' = "load" /\ D!Start("load", Head(b))
    BY <1>4, <2>3, <2>4 DEF NextGroup
  <2>6. l \in 0..Len(requested) /\ m \in Nat /\ l \in Nat /\ l <= Len(requested)
    BY <1>1, LenProperties
  <2>7. Begun(l)'
    BY <1>2, <2>3, <2>5 DEF Begun, Segment
  <2>8. CASE b = <<>> /\ UNCHANGED spc
    BY <1>1, <1>2, <2>6, <2>7, <2>8 DEF GroupInv
  <2>9. CASE b # <<>> /\ spc' = "load" /\ D!Start("load", Head(b))
    <3>1. b \in Seq(Files) /\ Len(b) \in Nat
      BY <1>1, <2>4, <2>6, BatchFiles
    <3>2. 0 < Len(b) /\ b = SubSeq(b, 0 + 1, Len(b))
      <4>1. Len(b) # 0
        BY <2>9, <3>1, EmptySeq
      <4>2. b = SubSeq(b, 1, Len(b))
        BY <3>1
      <4> QED
        BY <3>1, <4>1, <4>2
    <3>3. begun \o SubSeq(b, 1, 0) = begun
      BY <1>1, <3>1, <3>2, OneMore
    <3>4. cli' = "login" /\ call'.data = Head(b) /\ UNCHANGED device
      BY <2>9 DEF D!Start
    <3>5. Underway(m, l, 0)'
      BY <1>1, <1>2, <2>4, <2>5, <2>9, <3>2, <3>3, <3>4 DEF Underway, Done
    <3> QED
      BY <1>2, <2>1, <2>3, <2>6, <2>7, <2>9, <3>5 DEF GroupInv
  <2> QED
    BY <2>5, <2>8, <2>9
<1> QED
  BY <1>3, <1>4

\* The next file of the group is loaded on top of the one that was saved.
LEMMA GroupSave ==
  ASSUME TypeInv, GroupInv, Save
  PROVE  GroupInv'
<1>1. /\ requested \in Seq(Files) /\ spc = "saving"
      /\ UNCHANGED <<requested, todo, nso, begun>>
  BY DEF TypeInv, TypeOK, Save, files, history
<1>2. CASE spc' \in {"restore", "idle"}
  BY <1>1, <1>2, GroupAside
<1>3. CASE spc' = "load" /\ D!Start("load", Head(group')) /\ group' = Tail(group)
           /\ group' # <<>>
  <2>1. PICK n \in 0..Len(requested), m \in 0..Len(requested), k \in Nat :
          Segment(requested, n, m) /\ Begun(m) /\ Underway(n, m, k)
    BY <1>1 DEF GroupInv
  <2>2. PICK b \in Seq(Files) : b = Batch(requested, n, m)
    <3>1. n \in Nat /\ m \in Nat /\ m <= Len(requested)
      BY <1>1, LenProperties
    <3> QED
      BY <1>1, <3>1, BatchFiles
  <2>3. /\ k < Len(b) /\ group = SubSeq(b, k + 1, Len(b))
        /\ device = begun \o SubSeq(b, 1, k + 1)
    BY <1>1, <2>1, <2>2 DEF Underway
  <2>4. /\ group' = SubSeq(b, k + 2, Len(b))
        /\ k + 1 # Len(b)
    BY <1>3, <2>2, <2>3, RestHead
  <2>5. k + 1 < Len(b) /\ k + 1 \in Nat /\ (k + 1) + 1 = k + 2
    BY <2>2, <2>3, <2>4, LenProperties
  <2>6. cli' = "login" /\ call'.data = Head(group') /\ UNCHANGED device
    BY <1>3 DEF D!Start
  <2>7. Begun(m)'
    BY <1>1, <2>1 DEF Begun
  <2>8. Underway(n, m, k + 1)'
    BY <1>1, <1>3, <2>2, <2>3, <2>4, <2>5, <2>6 DEF Underway, Done
  <2> QED
    BY <1>1, <1>3, <2>1, <2>5, <2>7, <2>8 DEF GroupInv
<1> QED
  BY <1>2, <1>3 DEF Save, Restore, Die

LEMMA GroupStep ==
  ASSUME TypeInv, PlaceInv, CallInv, BackupInv, GiveUpInv, GroupInv, [Next]_vars
  PROVE  GroupInv'
<1> USE DEF dvars, files, history
<1>1. CASE Begin
  BY <1>1 DEF Begin, GroupInv
<1>2. CASE Startup
  <2>1. UNCHANGED <<requested, todo, group>> /\ spc' \in {"idle", "single", "backup"}
    BY <1>2 DEF Startup, Die
  <2>2. 0 \in 0..Len(requested) /\ Begun(0)'
    <3>1. requested \in Seq(Files) /\ todo = requested
      BY <1>2 DEF TypeInv, TypeOK, GroupInv, Startup
    <3>2. SubSeq(requested, 0 + 1, Len(requested)) = requested /\ Len(requested) \in Nat
      BY <3>1
    <3> QED
      BY <2>1, <3>1, <3>2 DEF Begun, Cut
  <2> QED
    BY <2>1, <2>2 DEF GroupInv
<1>3. CASE CallStep
  <2>1. cli # "closed"
    BY <1>3, SameCall DEF CallStep
  <2>2. CASE spc = "load"
    BY <1>3, <2>1, <2>2, GroupCall DEF GiveUpInv
  <2>3. CASE spc # "load"
    <3>1. spc' = spc /\ UNCHANGED <<requested, todo, group>>
      BY <1>3 DEF CallStep
    <3>2. spc \in {"single", "backup", "recover", "restore"}
      BY <2>1, <2>3 DEF PlaceInv
    <3> QED
      BY <3>1, <3>2 DEF GroupInv, Begun
  <2> QED
    BY <2>2, <2>3
<1>4. CASE SingleDone \/ BackupDone
  BY <1>4, GroupAside DEF SingleDone, BackupDone, Die
<1>5. CASE NextGroup
  BY <1>5, GroupNext
<1>6. CASE LoadDone
  <2>1. spc = "load" /\ cli = "closed" /\ UNCHANGED <<requested, todo, group, begun>>
    BY <1>6 DEF LoadDone, Returned
  <2>2. CASE raised = "none"
    BY <1>6, <2>1, <2>2, GroupOn DEF LoadDone, Done
  <2>3. CASE raised # "none"
    <3>1. spc' \in {"restore", "idle"}
      BY <1>6, <2>3 DEF LoadDone, GroupFails, Restore, Die
    <3> QED
      BY <2>1, <3>1, GroupAside
  <2> QED
    BY <2>2, <2>3
<1>7. CASE Sync
  <2>1. spc = "sync" /\ UNCHANGED <<requested, todo, group, begun>>
    BY <1>7 DEF Sync
  <2>2. CASE nso' = device /\ spc' = "save" /\ UNCHANGED dvars
    BY <2>1, <2>2, GroupOn
  <2>3. CASE spc' = "recover"
    BY <2>1, <2>3, GroupAside
  <2> QED
    BY <1>7, <2>2, <2>3 DEF Sync
<1>8. CASE Recovered \/ Resync
  <2>1. spc \in {"recover", "resync"} /\ UNCHANGED <<requested, todo>>
    BY <1>8 DEF Recovered, Resync
  <2>2. spc' \in {"resync", "restore", "idle"}
    BY <1>8 DEF Recovered, Resync, GroupFails, Restore, Die
  <2> QED
    BY <2>1, <2>2, GroupAside
<1>9. CASE Open
  <2>1. /\ spc = "save" /\ spc' \in {"saving", "idle"}
        /\ UNCHANGED <<device, requested, todo, group, nso, begun>>
    BY <1>9 DEF Open, Die
  <2> QED
    BY <2>1, GroupOn, GroupAside
<1>10. CASE Save
  BY <1>10, GroupSave
<1>11. CASE RestoreDone
  BY <1>11, GroupAside DEF RestoreDone, Die
<1>12. CASE Final \/ Killed
  BY <1>12, GroupAside DEF Final, Killed, Die
<1>13. CASE ReadLine \/ LoseLines \/ Reply
  BY <1>13, GroupSame DEF ReadLine, LoseLines, Reply, GroupVars, CompleteImport
<1>14. CASE UNCHANGED vars
  BY <1>14, GroupSame DEF vars, GroupVars
<1> QED
  BY <1>1, <1>2, <1>3, <1>4, <1>5, <1>6, <1>7, <1>8, <1>9, <1>10, <1>11, <1>12,
     <1>13, <1>14 DEF Next

----------------------------------------------------------------------------
(* What is converted                                                       *)

\* The lines stay as they were, and no file is told of.
Grown ==
  /\ \A i \in DOMAIN out : i \in DOMAIN out' /\ out'[i] = out[i]
  /\ \A i \in DOMAIN out' : i \in DOMAIN out \/ out'[i].type # "converted"

LEMMA PlainLines ==
  ASSUME out \in Seq(Line), NEW lines \in Seq(Line), Say(lines),
         \A i \in DOMAIN lines : lines[i].type # "converted"
  PROVE  /\ Grown
         /\ lines # <<>> => \E i \in DOMAIN out' : out'[i].type # "converted"
<1>1. PICK a \in Nat, b \in Nat : a = Len(out) /\ b = Len(lines)
  BY LenProperties
<1>2. DOMAIN out = 1..a /\ DOMAIN lines = 1..b
  BY <1>1, LenProperties
<1>3. /\ out' \in Seq(Line) /\ Len(out') = a + b
      /\ \A i \in 1..(a + b) : out'[i] = IF i <= a THEN out[i] ELSE lines[i - a]
  BY <1>1, ConcatProperties DEF Say
<1>4. DOMAIN out' = 1..(a + b)
  BY <1>3, LenProperties
<1>5. \A i \in 1..a : i \in 1..(a + b) /\ out'[i] = out[i]
  BY <1>3
<1>6. \A i \in 1..(a + b) : i \in 1..a \/ (i - a \in 1..b /\ out'[i] = lines[i - a])
  BY <1>3
<1>7. lines # <<>> => \E i \in DOMAIN out' : out'[i].type # "converted"
  <2> SUFFICES ASSUME lines # <<>>
               PROVE  \E i \in DOMAIN out' : out'[i].type # "converted"
    OBVIOUS
  <2>1. b # 0
    BY <1>1, EmptySeq
  <2>2. a + 1 \in 1..(a + b) /\ (a + 1) - a = 1 /\ ~(a + 1 <= a) /\ 1 \in 1..b
    BY <2>1
  <2>3. out'[a + 1] = lines[1]
    BY <1>3, <2>2
  <2> QED
    BY <1>2, <1>4, <2>2, <2>3
<1> QED
  BY <1>2, <1>4, <1>5, <1>6, <1>7 DEF Grown

LEMMA SameLines == UNCHANGED out => Grown
BY DEF Grown

LEMMA LineNames ==
  ASSUME NEW type \in {"format", "failed", "restore_failed", "fatal"}
  PROVE  /\ Text(type) \in Line /\ Text(type).type # "converted"
         /\ <<Text(type)>> \in Seq(Line)
         /\ \A i \in DOMAIN <<Text(type)>> : <<Text(type)>>[i].type # "converted"
BY LineTypes DEF Text

LEMMA NoLines == <<>> \in Seq(Line) /\ \A i \in DOMAIN <<>> : <<>>[i].type # "converted"
<1>1. DOMAIN <<>> = {}
  OBVIOUS
<1>2. \A i \in DOMAIN <<>> : <<>>[i].type # "converted"
  BY <1>1
<1>3. <<>> \in Seq(Line)
  OBVIOUS
<1> QED
  BY <1>2, <1>3

LEMMA DieGrown ==
  ASSUME out \in Seq(Line), NEW exception, NEW lines \in Seq(Line), Die(exception, lines),
         \A i \in DOMAIN lines : lines[i].type # "converted"
  PROVE  Grown
<1>1. PICK words \in LastWords(exception) : Say(lines \o words)
  BY DEF Die
<1>2. words = <<>> \/ words = <<Text("fatal")>>
  BY DEF LastWords
<1>3. words \in Seq(Line) /\ \A i \in DOMAIN words : words[i].type # "converted"
  <2>1. CASE words = <<>>
    BY <2>1, NoLines
  <2>2. CASE words = <<Text("fatal")>>
    BY <2>2, LineNames
  <2> QED
    BY <1>2, <2>1, <2>2
<1>4. PICK a \in Nat, b \in Nat : a = Len(lines) /\ b = Len(words)
  BY <1>3, LenProperties
<1>5. PICK both : both = lines \o words
  OBVIOUS
<1>6. /\ both \in Seq(Line) /\ Len(both) = a + b
      /\ \A i \in 1..(a + b) : both[i] = IF i <= a THEN lines[i] ELSE words[i - a]
  BY <1>3, <1>4, <1>5, ConcatProperties
<1>7. DOMAIN lines = 1..a /\ DOMAIN words = 1..b /\ DOMAIN both = 1..(a + b)
  BY <1>3, <1>4, <1>6, LenProperties
<1>8. \A i \in 1..(a + b) : (i <= a /\ i \in 1..a) \/ (~(i <= a) /\ i - a \in 1..b)
  OBVIOUS
<1>9. \A i \in DOMAIN both : both[i].type # "converted"
  BY <1>3, <1>6, <1>7, <1>8
<1> QED
  BY <1>1, <1>5, <1>6, <1>9, PlainLines

LEMMA FailsGrown ==
  ASSUME out \in Seq(Line), NEW exception, GroupFails(exception)
  PROVE  Grown /\ Trouble' /\ spc' \in {"restore", "idle"}
<1>1. CASE exception = "devcli"
  <2>1. Say(<<Text("failed")>>) /\ spc' = "restore"
    BY <1>1 DEF GroupFails, Restore
  <2>2. Grown /\ \E i \in DOMAIN out' : out'[i].type # "converted"
    BY <2>1, LineNames, PlainLines
  <2> QED
    BY <2>1, <2>2 DEF Trouble
<1>2. CASE exception # "devcli"
  <2>1. Die(exception, <<>>) /\ exit' = "failed" /\ spc' = "idle"
    BY <1>2 DEF GroupFails, Die
  <2>2. PICK none \in Seq(Line) : none = <<>> /\ \A i \in DOMAIN none : none[i].type # "converted"
    BY NoLines
  <2>3. Grown
    BY <2>1, <2>2, DieGrown
  <2> QED
    BY <2>1, <2>3 DEF Trouble
<1> QED
  BY <1>1, <1>2

\* The properties of a file stay the same during a conversion.
LEMMA RequestSame ==
  ASSUME UNCHANGED <<requested, begun>>, NEW f
  PROVE  OwnState(f)' <=> OwnState(f)
BY DEF OwnState

LEMMA RequestSame2 ==
  ASSUME UNCHANGED <<requested, begun>>, NEW f
  PROVE  Together(f)' <=> Together(f)
BY DEF Together

LEMMA RequestSame3 ==
  ASSUME UNCHANGED <<requested, begun>>, NEW f
  PROVE  Converted(f)' = Converted(f)
BY DEF Converted, ConvertedAt

\* What the three invariants have in common with what was before: a step that
\* moves no file keeps them.
LEMMA Kept ==
  ASSUME KnownInv, OnceInv, RightInv, Grown,
         UNCHANGED <<requested, begun, work, states, imported>>, Waiting' \subseteq Waiting,
         writing' = NoFile \/ UNCHANGED <<writing, spc, group>>
  PROVE  KnownInv' /\ OnceInv' /\ RightInv'
<1>1. \A i \in DOMAIN out' :
        out'[i].type = "converted" => i \in DOMAIN out /\ out'[i] = out[i]
  BY DEF Grown
<1>2. \A f : Told(f).type = "converted"
  BY DEF Told
<1>3. \A f : Told(f) \in Range(out') => Told(f) \in Range(out)
  BY <1>1, <1>2 DEF Range
<1>4. KnownInv'
  <2>1. Waiting' \cup imported' \subseteq Range(requested')
    BY DEF KnownInv
  <2>2. \A i \in DOMAIN out' :
          out'[i].type = "converted" => out'[i].file \in Range(requested')
    BY <1>1 DEF KnownInv
  <2>3. writing' # NoFile => spc' = "saving" /\ writing'[2] = StateOf[Head(group')]
    BY DEF KnownInv
  <2> QED
    BY <2>1, <2>2, <2>3 DEF KnownInv
<1>5. OnceInv'
  <2> SUFFICES ASSUME NEW f \in Range(requested'), OwnState(f)'
               PROVE  /\ f \in Waiting' => f \notin imported' /\ Told(f) \notin Range(out')
                      /\ f \in imported' => Told(f) \notin Range(out')
                      /\ \A i, j \in DOMAIN out' :
                           out'[i] = Told(f) /\ out'[j] = Told(f) => i = j
                      /\ writing' # NoFile /\ f = Head(group') => writing'[1] = "work"
    BY DEF OnceInv
  <2>1. f \in Range(requested) /\ OwnState(f)
    BY RequestSame
  <2>2. /\ f \in Waiting => f \notin imported /\ Told(f) \notin Range(out)
        /\ f \in imported => Told(f) \notin Range(out)
        /\ \A i, j \in DOMAIN out : out[i] = Told(f) /\ out[j] = Told(f) => i = j
        /\ writing # NoFile /\ f = Head(group) => writing[1] = "work"
    BY <2>1 DEF OnceInv
  <2>3. \A i, j \in DOMAIN out' : out'[i] = Told(f) /\ out'[j] = Told(f) => i = j
    BY <1>1, <1>2, <2>2
  <2> QED
    BY <1>3, <2>2, <2>3
<1>6. RightInv'
  <2> SUFFICES ASSUME NEW f \in Range(requested'), OwnState(f)', Together(f)'
               PROVE  /\ Told(f) \in Range(out') => work'[StateOf[f]] = Converted(f)'
                      /\ f \in imported' => states'[StateOf[f]] = Converted(f)'
    BY DEF RightInv
  <2>1. f \in Range(requested) /\ OwnState(f) /\ Together(f)
    BY RequestSame, RequestSame2
  <2>2. Converted(f)' = Converted(f)
    BY RequestSame3
  <2>3. /\ Told(f) \in Range(out) => work[StateOf[f]] = Converted(f)
        /\ f \in imported => states[StateOf[f]] = Converted(f)
    BY <2>1 DEF RightInv
  <2> QED
    BY <1>3, <2>2, <2>3
<1> QED
  BY <1>4, <1>5, <1>6

\* No line is read yet, and no file imported: so it is when a script begins,
\* and when the lines were lost.
LEMMA NoneTold ==
  ASSUME out' = <<>>, Waiting' \cup imported' \subseteq Range(requested'),
         \A f \in Range(requested') : OwnState(f)' => f \notin Waiting' \/ f \notin imported',
         writing' # NoFile =>
           /\ spc' = "saving" /\ writing'[2] = StateOf[Head(group')]
           /\ \A f \in Range(requested') :
                f = Head(group') /\ OwnState(f)' => writing'[1] = "work",
         \A f \in Range(requested') : OwnState(f)' /\ Together(f)' /\ f \in imported'
           => states'[StateOf[f]] = Converted(f)'
  PROVE  KnownInv' /\ OnceInv' /\ RightInv'
<1>1. DOMAIN out' = {} /\ Range(out') = {}
  BY DEF Range
<1>2. KnownInv'
  BY <1>1 DEF KnownInv
<1>3. OnceInv'
  BY <1>1 DEF OnceInv
<1>4. RightInv'
  BY <1>1 DEF RightInv
<1> QED
  BY <1>2, <1>3, <1>4

LEMMA SameState ==
  ASSUME NEW f \in Range(requested), NEW g \in Range(requested), OwnState(f),
         StateOf[g] = StateOf[f]
  PROVE  f = g
BY DEF OwnState, Range

\* The file in progress is one that waits.
LEMMA HeadWaits ==
  ASSUME TypeInv, KnownInv, group # <<>>
  PROVE  /\ Head(group) \in Waiting /\ Head(group) \in Range(requested)
         /\ Head(group) \in Files /\ StateOf[Head(group)] \in States
         /\ Range(Tail(group)) \subseteq Range(group)
<1>1. group \in Seq(Files) /\ Len(group) \in Nat \ {0}
  <2>1. group \in Seq(Files)
    BY DEF TypeInv, TypeOK
  <2> QED
    BY <2>1, EmptySeq
<1>2. DOMAIN group = 1..Len(group) /\ 1 \in DOMAIN group /\ Head(group) = group[1]
  BY <1>1, LenProperties
<1>3. Head(group) \in Range(group)
  BY <1>2 DEF Range
<1>4. Head(group) \in Files
  BY <1>1, HeadTailProperties
<1>5. Range(Tail(group)) \subseteq Range(group)
  <2>1. /\ Tail(group) \in Seq(Files) /\ Len(Tail(group)) = Len(group) - 1
        /\ \A i \in 1..Len(Tail(group)) : Tail(group)[i] = group[i + 1]
    BY <1>1, HeadTailProperties
  <2>2. DOMAIN Tail(group) = 1..(Len(group) - 1)
    BY <2>1, LenProperties
  <2>3. \A i \in 1..(Len(group) - 1) : i + 1 \in DOMAIN group
    BY <1>1, <1>2
  <2> QED
    BY <2>1, <2>2, <2>3 DEF Range
<1>6. Head(group) \in Waiting
  BY <1>3 DEF Waiting
<1>7. Waiting \subseteq Range(requested)
  BY DEF KnownInv
<1>8. StateOf[Head(group)] \in States
  BY <1>4, CliConversionAssumption
<1> QED
  BY <1>4, <1>5, <1>6, <1>7, <1>8

LEMMA BeginKept ==
  ASSUME PlaceInv, KnownInv, Begin
  PROVE  KnownInv' /\ OnceInv' /\ RightInv'
<1>1. /\ out' = <<>> /\ imported' = {} /\ todo' = requested' /\ group' = <<>>
      /\ UNCHANGED writing /\ spc = "idle"
  BY DEF Begin, files
<1>2. writing' = NoFile
  BY <1>1 DEF KnownInv
<1>3. Waiting' \subseteq Range(requested')
  <2>1. Range(group') = {}
    BY <1>1 DEF Range
  <2> QED
    BY <1>1, <2>1 DEF Waiting
<1> QED
  BY <1>1, <1>2, <1>3, NoneTold

LEMMA LostKept ==
  ASSUME KnownInv, OnceInv, RightInv, TypeInv, LoseLines
  PROVE  KnownInv' /\ OnceInv' /\ RightInv'
<1>1. /\ out' = <<>>
      /\ UNCHANGED <<imported, writing, spc, group, todo, requested, begun, states>>
  BY DEF LoseLines, files, filter, history
<1>2. UNCHANGED Waiting
  BY <1>1 DEF Waiting
<1>3. Waiting' \cup imported' \subseteq Range(requested')
  BY <1>1, <1>2 DEF KnownInv
<1>4. \A f \in Range(requested') : OwnState(f)' => f \notin Waiting' \/ f \notin imported'
  <2> SUFFICES ASSUME NEW f \in Range(requested'), OwnState(f)'
               PROVE  f \notin Waiting' \/ f \notin imported'
    OBVIOUS
  <2>1. f \in Range(requested) /\ OwnState(f)
    BY <1>1, RequestSame
  <2> QED
    BY <1>1, <1>2, <2>1 DEF OnceInv
<1>5. writing' # NoFile =>
        /\ spc' = "saving" /\ writing'[2] = StateOf[Head(group')]
        /\ \A f \in Range(requested') :
             f = Head(group') /\ OwnState(f)' => writing'[1] = "work"
  <2> SUFFICES ASSUME writing' # NoFile
               PROVE  /\ spc' = "saving" /\ writing'[2] = StateOf[Head(group')]
                      /\ \A f \in Range(requested') :
                           f = Head(group') /\ OwnState(f)' => writing'[1] = "work"
    OBVIOUS
  <2>1. spc = "saving" /\ writing[2] = StateOf[Head(group)]
    BY <1>1 DEF KnownInv
  <2>2. ASSUME NEW f \in Range(requested'), f = Head(group'), OwnState(f)'
        PROVE  writing'[1] = "work"
    <3>1. f \in Range(requested) /\ OwnState(f) /\ f = Head(group)
      BY <1>1, <2>2, RequestSame
    <3> QED
      BY <1>1, <3>1 DEF OnceInv
  <2> QED
    BY <1>1, <2>1, <2>2
<1>6. \A f \in Range(requested') : OwnState(f)' /\ Together(f)' /\ f \in imported'
        => states'[StateOf[f]] = Converted(f)'
  <2> SUFFICES ASSUME NEW f \in Range(requested'), OwnState(f)', Together(f)', f \in imported'
               PROVE  states'[StateOf[f]] = Converted(f)'
    OBVIOUS
  <2>1. f \in Range(requested) /\ OwnState(f) /\ Together(f) /\ f \in imported
    BY <1>1, RequestSame, RequestSame2
  <2>2. Converted(f)' = Converted(f)
    BY <1>1, RequestSame3
  <2> QED
    BY <1>1, <2>1, <2>2 DEF RightInv
<1> QED
  BY <1>1, <1>3, <1>4, <1>5, <1>6, NoneTold

\* The file that is opened is not told of yet.
LEMMA OpenKept ==
  ASSUME TypeInv, KnownInv, OnceInv, RightInv, Open
  PROVE  KnownInv' /\ OnceInv' /\ RightInv'
<1>1. PICK h : h = Head(group)
  OBVIOUS
<1> SUFFICES ASSUME ~(\E exception : Die(exception, <<>>) /\ UNCHANGED <<work, writing>>)
             PROVE  KnownInv' /\ OnceInv' /\ RightInv'
  <2>1. CASE \E exception : Die(exception, <<>>) /\ UNCHANGED <<work, writing>>
    <3>1. PICK exception : Die(exception, <<>>) /\ UNCHANGED <<work, writing>>
      BY <2>1
    <3>2. /\ UNCHANGED <<requested, begun, todo, group, states, imported>>
          /\ writing' = NoFile /\ out \in Seq(Line)
      BY <3>1 DEF Open, KnownInv, TypeInv, TypeOK, filter, history
    <3>3. PICK none \in Seq(Line) : none = <<>> /\ \A i \in DOMAIN none : none[i].type # "converted"
      BY NoLines
    <3>4. Grown
      BY <3>1, <3>2, <3>3, DieGrown
    <3>5. Waiting' \subseteq Waiting
      BY <3>2 DEF Waiting
    <3> QED
      BY <3>1, <3>2, <3>4, <3>5, Kept
  <2> QED
    BY <2>1
<1>2. /\ spc = "save" /\ spc' = "saving"
      /\ work' = [work EXCEPT ![StateOf[h]] = <<Half>>]
      /\ writing' = <<"work", StateOf[h]>>
      /\ UNCHANGED <<requested, begun, todo, group, out, states, imported>>
  BY <1>1 DEF Open, filter, history
<1>3. h \in Waiting /\ h \in Range(requested) /\ StateOf[h] \in States
  BY <1>1, <1>2, HeadWaits DEF TypeInv
<1>4. UNCHANGED Waiting
  BY <1>2 DEF Waiting
<1>5. KnownInv'
  BY <1>1, <1>2, <1>4 DEF KnownInv
<1>6. OnceInv'
  <2> SUFFICES ASSUME NEW f \in Range(requested'), OwnState(f)'
               PROVE  /\ f \in Waiting' => f \notin imported' /\ Told(f) \notin Range(out')
                      /\ f \in imported' => Told(f) \notin Range(out')
                      /\ \A i, j \in DOMAIN out' :
                           out'[i] = Told(f) /\ out'[j] = Told(f) => i = j
                      /\ writing' # NoFile /\ f = Head(group') => writing'[1] = "work"
    BY DEF OnceInv
  <2>1. f \in Range(requested) /\ OwnState(f)
    BY <1>2, RequestSame
  <2> QED
    BY <1>2, <1>4, <2>1 DEF OnceInv
<1>7. RightInv'
  <2> SUFFICES ASSUME NEW f \in Range(requested'), OwnState(f)', Together(f)'
               PROVE  /\ Told(f) \in Range(out') => work'[StateOf[f]] = Converted(f)'
                      /\ f \in imported' => states'[StateOf[f]] = Converted(f)'
    BY DEF RightInv
  <2>1. f \in Range(requested) /\ OwnState(f) /\ Together(f)
    BY <1>2, RequestSame, RequestSame2
  <2>2. Converted(f)' = Converted(f)
    BY <1>2, RequestSame3
  <2>3. /\ Told(f) \in Range(out) => work[StateOf[f]] = Converted(f)
        /\ f \in imported => states[StateOf[f]] = Converted(f)
    BY <2>1 DEF RightInv
  <2>4. ASSUME Told(f) \in Range(out)
        PROVE  work'[StateOf[f]] = work[StateOf[f]]
    <3>1. f # h
      BY <1>3, <2>1, <2>4 DEF OnceInv
    <3>2. StateOf[f] # StateOf[h]
      BY <1>3, <2>1, <3>1, SameState
    <3> QED
      BY <1>2, <3>2 DEF TypeInv, TypeOK
  <2> QED
    BY <1>2, <2>2, <2>3, <2>4
<1> QED
  BY <1>5, <1>6, <1>7

\* The file is saved, where it was opened: it is told of, and is right.
LEMMA SaveKept ==
  ASSUME TypeInv, GroupInv, KnownInv, OnceInv, RightInv, Save
  PROVE  KnownInv' /\ OnceInv' /\ RightInv'
<1>1. PICK h : h = Head(group)
  OBVIOUS
<1>2. PICK t : t = Told(h) /\ t.type = "converted" /\ t.file = h
  <2>1. Told(h).type = "converted" /\ Told(h).file = h
    BY DEF Told
  <2> QED
    BY <2>1
<1>3. /\ spc = "saving" /\ group # <<>> /\ writing # NoFile /\ writing' = NoFile
      /\ UNCHANGED <<requested, begun, todo, imported>>
      /\ out \in Seq(Line) /\ requested \in Seq(Files)
  BY DEF Save, TypeInv, TypeOK, history
<1>4. /\ h \in Waiting /\ h \in Range(requested) /\ StateOf[h] \in States
      /\ Range(Tail(group)) \subseteq Range(group)
      /\ writing[2] = StateOf[h]
  BY <1>1, <1>3, HeadWaits DEF KnownInv
<1>5. CASE \E exception \in {"other", "interrupt"} :
             Die(exception, <<>>) /\ UNCHANGED <<dvars, group, work, states>>
  <2>1. PICK exception : Die(exception, <<>>) /\ UNCHANGED <<group, work, states>>
    BY <1>5
  <2>2. PICK none \in Seq(Line) : none = <<>> /\ \A i \in DOMAIN none : none[i].type # "converted"
    BY NoLines
  <2>3. Grown
    BY <1>3, <2>1, <2>2, DieGrown
  <2>4. Waiting' \subseteq Waiting
    BY <1>3, <2>1 DEF Waiting
  <2> QED
    BY <1>3, <2>1, <2>3, <2>4, Kept
<1>6. CASE /\ out' = out \o <<t>> /\ group' = Tail(group)
           /\ \/ /\ writing[1] = "work" /\ UNCHANGED states
                 /\ work' = [work EXCEPT ![StateOf[h]] = nso]
              \/ /\ writing[1] # "work" /\ UNCHANGED work
                 /\ states' = [states EXCEPT ![StateOf[h]] = nso]
  <2>1. PICK a \in Nat : a = Len(out) /\ DOMAIN out = 1..a
    BY <1>3, LenProperties
  <2>2. t \in Line
    BY <1>2, <1>3, <1>4, LineTypes, ElementOfSeq, LenProperties DEF Range
  <2>3. /\ DOMAIN out' = 1..(a + 1)
        /\ \A i \in 1..a : out'[i] = out[i]
        /\ out'[a + 1] = t
    <3>1. out' = Append(out, t)
      BY <1>3, <1>6, <2>2, AppendIsConcat
    <3> QED
      BY <1>3, <2>1, <2>2, <3>1, AppendProperties, LenProperties
  <2>4. \A i \in DOMAIN out' : (i \in DOMAIN out /\ out'[i] = out[i]) \/ (i = a + 1 /\ out'[i] = t)
    BY <2>1, <2>3
  <2>5. \A f : f # h => (Told(f) \in Range(out') => Told(f) \in Range(out))
    BY <1>2, <2>4 DEF Range, Told
  <2>6. Waiting' \subseteq Waiting
    BY <1>3, <1>4, <1>6 DEF Waiting
  <2>7. KnownInv'
    <3>1. Waiting' \cup imported' \subseteq Range(requested')
      BY <1>3, <2>6 DEF KnownInv
    <3>2. \A i \in DOMAIN out' :
            out'[i].type = "converted" => out'[i].file \in Range(requested')
      BY <1>2, <1>3, <1>4, <2>4 DEF KnownInv
    <3> QED
      BY <1>3, <3>1, <3>2 DEF KnownInv
  <2>8. OwnState(h) => /\ h \notin imported /\ Told(h) \notin Range(out)
                       /\ writing[1] = "work"
    BY <1>1, <1>3, <1>4 DEF OnceInv
  <2>9. OwnState(h) => /\ h \notin Waiting'
                       /\ Together(h) => nso = Converted(h)
    <3> SUFFICES ASSUME OwnState(h)
                 PROVE  h \notin Waiting' /\ (Together(h) => nso = Converted(h))
      OBVIOUS
    <3>1. PICK n \in 0..Len(requested), m \in 0..Len(requested), k \in Nat :
            Segment(requested, n, m) /\ Begun(m) /\ Underway(n, m, k)
      BY <1>3 DEF GroupInv
    <3>2. n \in Nat /\ m \in Nat /\ m <= Len(requested)
      BY <1>3, LenProperties
    <3>3. PICK b \in Seq(Files) : b = Batch(requested, n, m)
      BY <1>3, <3>2, BatchFiles
    <3>4. /\ k < Len(b) /\ group = SubSeq(b, k + 1, Len(b))
          /\ nso = begun \o SubSeq(b, 1, k + 1)
          /\ todo = SubSeq(requested, m + 1, Len(requested))
      BY <1>3, <3>1, <3>3 DEF Underway, Begun
    <3>5. h = b[k + 1] /\ group' = SubSeq(b, k + 2, Len(b))
      <4>1. /\ Head(SubSeq(b, k + 1, Len(b))) = b[k + 1]
            /\ Tail(SubSeq(b, k + 1, Len(b))) = SubSeq(b, k + 2, Len(b))
        BY <3>3, <3>4, RestHead
      <4>2. h = Head(group) /\ group' = Tail(group)
        BY <1>1, <1>6
      <4> QED
        BY <3>4, <4>1, <4>2, Zenon
    <3>6. /\ h \notin Range(SubSeq(b, k + 2, Len(b)))
          /\ h \notin Range(SubSeq(requested, m + 1, Len(requested)))
      <4>1. PICK r \in Seq(Files) : r = requested
        BY <1>3
      <4> QED
        BY <3>2, <3>3, <3>4, <3>5, <4>1, ComesOnce
    <3>7. h \notin Waiting'
      BY <1>3, <3>4, <3>5, <3>6 DEF Waiting
    <3>8. Together(h) => nso = Converted(h)
      <4> SUFFICES ASSUME Together(h) PROVE nso = Converted(h)
        OBVIOUS
      <4>1. h = Batch(requested, n, m)[k + 1] /\ k < Len(Batch(requested, n, m))
        BY <3>3, <3>4, <3>5
      <4>2. Converted(h) = begun \o SubSeq(Batch(requested, n, m), 1, k + 1)
        BY <1>3, <3>1, <3>2, <4>1, ConvertedIs
      <4> QED
        BY <3>3, <3>4, <4>2
    <3> QED
      BY <3>7, <3>8
  <2>10. OnceInv'
    <3> SUFFICES ASSUME NEW f \in Range(requested'), OwnState(f)'
                 PROVE  /\ f \in Waiting' => f \notin imported' /\ Told(f) \notin Range(out')
                        /\ f \in imported' => Told(f) \notin Range(out')
                        /\ \A i, j \in DOMAIN out' :
                             out'[i] = Told(f) /\ out'[j] = Told(f) => i = j
                        /\ writing' # NoFile /\ f = Head(group') => writing'[1] = "work"
      BY DEF OnceInv
    <3>1. f \in Range(requested) /\ OwnState(f)
      BY <1>3, RequestSame
    <3>2. /\ f \in Waiting => f \notin imported /\ Told(f) \notin Range(out)
          /\ f \in imported => Told(f) \notin Range(out)
          /\ \A i, j \in DOMAIN out : out[i] = Told(f) /\ out[j] = Told(f) => i = j
      BY <3>1 DEF OnceInv
    <3>3. CASE f = h
      <4>1. f \notin Waiting' /\ f \notin imported' /\ Told(f) \notin Range(out)
        BY <1>3, <2>8, <2>9, <3>1, <3>3
      <4>2. \A i \in DOMAIN out' : out'[i] = Told(f) => i = a + 1
        BY <2>4, <4>1 DEF Range
      <4> QED
        BY <1>3, <4>1, <4>2
    <3>4. CASE f # h
      <4>1. \A i \in DOMAIN out' : out'[i] = Told(f) => i \in DOMAIN out /\ out[i] = Told(f)
        BY <1>2, <2>4, <3>4 DEF Told
      <4>2. Told(f) \in Range(out') => Told(f) \in Range(out)
        BY <4>1 DEF Range
      <4> QED
        BY <1>3, <2>6, <3>2, <4>1, <4>2
    <3> QED
      BY <3>3, <3>4
  <2>11. RightInv'
    <3> SUFFICES ASSUME NEW f \in Range(requested'), OwnState(f)', Together(f)'
                 PROVE  /\ Told(f) \in Range(out') => work'[StateOf[f]] = Converted(f)'
                        /\ f \in imported' => states'[StateOf[f]] = Converted(f)'
      BY DEF RightInv
    <3>1. f \in Range(requested) /\ OwnState(f) /\ Together(f)
      BY <1>3, RequestSame, RequestSame2
    <3>2. Converted(f)' = Converted(f)
      BY <1>3, RequestSame3
    <3>3. /\ Told(f) \in Range(out) => work[StateOf[f]] = Converted(f)
          /\ f \in imported => states[StateOf[f]] = Converted(f)
      BY <3>1 DEF RightInv
    <3>4. CASE f = h
      <4>1. work' = [work EXCEPT ![StateOf[h]] = nso] /\ nso = Converted(h) /\ h \notin imported
        BY <1>6, <2>8, <2>9, <3>1, <3>4
      <4>2. work'[StateOf[h]] = nso
        BY <1>4, <4>1 DEF TypeInv, TypeOK
      <4> QED
        BY <1>3, <3>2, <3>4, <4>1, <4>2
    <3>5. CASE f # h
      <4>1. StateOf[f] # StateOf[h]
        BY <1>4, <3>1, <3>5, SameState
      <4>2. work'[StateOf[f]] = work[StateOf[f]] /\ states'[StateOf[f]] = states[StateOf[f]]
        <5>1. PICK s : s = StateOf[f] /\ s # StateOf[h]
          BY <4>1
        <5>2. DOMAIN work = States /\ DOMAIN states = States
          BY DEF TypeInv, TypeOK
        <5>3. s \in States
          <6>1. f \in Files
            BY <1>3, <3>1, ElementOfSeq, LenProperties DEF Range
          <6> QED
            BY <5>1, <6>1, CliConversionAssumption
        <5>4. work'[s] = work[s]
          BY <1>6, <5>1, <5>2, <5>3
        <5>5. states'[s] = states[s]
          BY <1>6, <5>1, <5>2, <5>3
        <5> QED
          BY <5>1, <5>4, <5>5
      <4> QED
        BY <1>3, <2>5, <3>2, <3>3, <3>5, <4>2
    <3> QED
      BY <3>4, <3>5
  <2> QED
    BY <2>7, <2>10, <2>11
<1> QED
  <2>1. \/ \E exception \in {"other", "interrupt"} :
             Die(exception, <<>>) /\ UNCHANGED <<dvars, group, work, states>>
        \/ /\ out' = out \o <<t>> /\ group' = Tail(group)
           /\ \/ /\ writing[1] = "work" /\ UNCHANGED states
                 /\ work' = [work EXCEPT ![StateOf[h]] = nso]
              \/ /\ writing[1] # "work" /\ UNCHANGED work
                 /\ states' = [states EXCEPT ![StateOf[h]] = nso]
    BY <1>1, <1>2, <1>4 DEF Save, Restore, Say, Told
  <2> QED
    BY <1>5, <1>6, <2>1

\* The line that is read, and the others.
LEMMA TailLines ==
  ASSUME out \in Seq(Line), out # <<>>, out' = Tail(out)
  PROVE  /\ 1 \in DOMAIN out /\ Head(out) = out[1] /\ Head(out) \in Line
         /\ \A i \in DOMAIN out' : i + 1 \in DOMAIN out /\ i + 1 # 1 /\ out'[i] = out[i + 1]
         /\ \A i \in DOMAIN out : i # 1 => i - 1 \in DOMAIN out' /\ out'[i - 1] = out[i]
         /\ \A i, j \in DOMAIN out' : i + 1 = j + 1 => i = j
<1>1. PICK L \in Nat : L = Len(out)
  BY LenProperties
<1>2. L # 0 /\ DOMAIN out = 1..L
  <2>1. L # 0
    BY <1>1, EmptySeq
  <2> QED
    BY <1>1, <2>1, LenProperties
<1>3. Head(out) = out[1] /\ Head(out) \in Line
  BY HeadTailProperties
<1>4. /\ out' \in Seq(Line) /\ Len(out') = L - 1
      /\ \A i \in 1..(L - 1) : out'[i] = out[i + 1]
  BY <1>1, HeadTailProperties
<1>5. L - 1 \in Nat /\ DOMAIN out' = 1..(L - 1)
  BY <1>2, <1>4, LenProperties
<1>6. \A i \in 1..(L - 1) : i + 1 \in 1..L /\ i + 1 # 1
  BY <1>2
<1>7. \A i \in 1..L : i # 1 => i - 1 \in 1..(L - 1) /\ (i - 1) + 1 = i
  BY <1>2
<1> QED
  BY <1>2, <1>3, <1>4, <1>5, <1>6, <1>7

\* A file is moved once; the state is right, and remains so.
LEMMA ReadKept ==
  ASSUME TypeInv, KnownInv, OnceInv, RightInv, ReadLine
  PROVE  KnownInv' /\ OnceInv' /\ RightInv'
<1>1. /\ out # <<>> /\ out' = Tail(out)
      /\ UNCHANGED <<requested, begun, spc, todo, group>>
      /\ out \in Seq(Line) /\ requested \in Seq(Files)
  BY DEF ReadLine, TypeInv, TypeOK, history
<1>2. /\ 1 \in DOMAIN out /\ Head(out) = out[1] /\ Head(out) \in Line
      /\ \A i \in DOMAIN out' : i + 1 \in DOMAIN out /\ i + 1 # 1 /\ out'[i] = out[i + 1]
      /\ \A i, j \in DOMAIN out' : i + 1 = j + 1 => i = j
  BY <1>1, TailLines
<1>3. \A f : Told(f) \in Range(out') => Told(f) \in Range(out)
  BY <1>2 DEF Range
<1>4. UNCHANGED Waiting
  BY <1>1 DEF Waiting
<1>5. \A i \in DOMAIN out' : out'[i].type = "converted" => out'[i].file \in Range(requested')
  BY <1>1, <1>2 DEF KnownInv
<1>6. \A f : (\A i, j \in DOMAIN out : out[i] = Told(f) /\ out[j] = Told(f) => i = j)
        => \A i, j \in DOMAIN out' : out'[i] = Told(f) /\ out'[j] = Told(f) => i = j
  BY <1>2
<1>7. CASE UNCHANGED <<states, work, writing, imported>>
  <2>1. KnownInv'
    BY <1>1, <1>4, <1>5, <1>7 DEF KnownInv
  <2>2. OnceInv'
    <3> SUFFICES ASSUME NEW f \in Range(requested'), OwnState(f)'
                 PROVE  /\ f \in Waiting' => f \notin imported' /\ Told(f) \notin Range(out')
                        /\ f \in imported' => Told(f) \notin Range(out')
                        /\ \A i, j \in DOMAIN out' :
                             out'[i] = Told(f) /\ out'[j] = Told(f) => i = j
                        /\ writing' # NoFile /\ f = Head(group') => writing'[1] = "work"
      BY DEF OnceInv
    <3>1. f \in Range(requested) /\ OwnState(f)
      BY <1>1, RequestSame
    <3>2. /\ f \in Waiting => f \notin imported /\ Told(f) \notin Range(out)
          /\ f \in imported => Told(f) \notin Range(out)
          /\ \A i, j \in DOMAIN out : out[i] = Told(f) /\ out[j] = Told(f) => i = j
          /\ writing # NoFile /\ f = Head(group) => writing[1] = "work"
      BY <3>1 DEF OnceInv
    <3> QED
      BY <1>1, <1>3, <1>4, <1>6, <1>7, <3>2
  <2>3. RightInv'
    <3> SUFFICES ASSUME NEW f \in Range(requested'), OwnState(f)', Together(f)'
                 PROVE  /\ Told(f) \in Range(out') => work'[StateOf[f]] = Converted(f)'
                        /\ f \in imported' => states'[StateOf[f]] = Converted(f)'
      BY DEF RightInv
    <3>1. f \in Range(requested) /\ OwnState(f) /\ Together(f)
      BY <1>1, RequestSame, RequestSame2
    <3>2. Converted(f)' = Converted(f)
      BY <1>1, RequestSame3
    <3> QED
      BY <1>3, <1>7, <3>1, <3>2 DEF RightInv
  <2> QED
    BY <2>1, <2>2, <2>3
<1>8. CASE Head(out).type = "converted" /\ CompleteImport(Head(out).file)
  <2>1. PICK g : g = Head(out).file
    OBVIOUS
  <2>2. Head(out) = Told(g)
    BY <1>2, <1>8, <2>1 DEF Line, Told
  <2>3. /\ g \in Range(requested) /\ Told(g) \in Range(out)
        /\ g \in Files /\ StateOf[g] \in States
    <3>1. g \in Range(requested) /\ Told(g) \in Range(out)
      BY <1>2, <1>8, <2>1, <2>2 DEF KnownInv, Range
    <3>2. g \in Files
      BY <1>1, <3>1, ElementOfSeq, LenProperties DEF Range
    <3> QED
      BY <3>1, <3>2, CliConversionAssumption
  <2>4. CASE /\ states' = [states EXCEPT ![StateOf[g]] = work[StateOf[g]]]
             /\ work' = [work EXCEPT ![StateOf[g]] = NoConfig]
             /\ writing' = IF writing = <<"work", StateOf[g]>> THEN <<"states", StateOf[g]>>
                           ELSE writing
             /\ imported' = imported \cup {g}
    <3>1. KnownInv'
      <4>1. Waiting' \cup imported' \subseteq Range(requested')
        BY <1>1, <1>4, <2>3, <2>4 DEF KnownInv
      <4>2. writing' # NoFile => spc' = "saving" /\ writing'[2] = StateOf[Head(group')]
        <5>1. writing # NoFile => spc = "saving" /\ writing[2] = StateOf[Head(group)]
          BY DEF KnownInv
        <5>2. CASE writing = <<"work", StateOf[g]>>
          <6>1. writing # NoFile
            BY <5>2 DEF NoFile
          <6> QED
            BY <1>1, <2>4, <5>1, <5>2, <6>1
        <5>3. CASE writing # <<"work", StateOf[g]>>
          BY <1>1, <2>4, <5>1, <5>3
        <5> QED
          BY <5>2, <5>3
      <4> QED
        BY <1>5, <4>1, <4>2 DEF KnownInv
    <3>2. OwnState(g) => g \notin Waiting /\ Told(g) \notin Range(out')
      <4> SUFFICES ASSUME OwnState(g) PROVE g \notin Waiting /\ Told(g) \notin Range(out')
        OBVIOUS
      <4>1. g \notin Waiting /\ \A i, j \in DOMAIN out : out[i] = Told(g) /\ out[j] = Told(g) => i = j
        BY <2>3 DEF OnceInv
      <4> QED
        BY <1>2, <2>2, <4>1 DEF Range
    <3>3. \A f \in Range(requested) : OwnState(f) /\ f # g => StateOf[f] # StateOf[g]
      BY <2>3, SameState
    <3>4. OnceInv'
      <4> SUFFICES ASSUME NEW f \in Range(requested'), OwnState(f)'
                   PROVE  /\ f \in Waiting' => f \notin imported' /\ Told(f) \notin Range(out')
                          /\ f \in imported' => Told(f) \notin Range(out')
                          /\ \A i, j \in DOMAIN out' :
                               out'[i] = Told(f) /\ out'[j] = Told(f) => i = j
                          /\ writing' # NoFile /\ f = Head(group') => writing'[1] = "work"
        BY DEF OnceInv
      <4>1. f \in Range(requested) /\ OwnState(f)
        BY <1>1, RequestSame
      <4>2. /\ f \in Waiting => f \notin imported /\ Told(f) \notin Range(out)
            /\ f \in imported => Told(f) \notin Range(out)
            /\ \A i, j \in DOMAIN out : out[i] = Told(f) /\ out[j] = Told(f) => i = j
            /\ writing # NoFile /\ f = Head(group) => writing[1] = "work"
        BY <4>1 DEF OnceInv
      <4>3. ASSUME writing' # NoFile, f = Head(group')
            PROVE  writing'[1] = "work"
        <5>1. CASE writing = <<"work", StateOf[g]>>
          <6>1. writing # NoFile
            BY <5>1 DEF NoFile
          <6>2. StateOf[f] = StateOf[g]
            BY <1>1, <4>3, <5>1, <6>1 DEF KnownInv
          <6>3. f = g
            BY <3>3, <4>1, <6>2
          <6>4. group # <<>>
            BY <6>1 DEF KnownInv, TypeInv
          <6>5. f \in Waiting
            BY <1>1, <4>3, <6>4, HeadWaits
          <6> QED
            BY <3>2, <4>1, <6>3, <6>5
        <5>2. CASE writing # <<"work", StateOf[g]>>
          BY <1>1, <2>4, <4>2, <4>3, <5>2
        <5> QED
          BY <5>1, <5>2
      <4> QED
        BY <1>3, <1>4, <1>6, <2>4, <3>2, <4>1, <4>2, <4>3
    <3>5. RightInv'
      <4> SUFFICES ASSUME NEW f \in Range(requested'), OwnState(f)', Together(f)'
                   PROVE  /\ Told(f) \in Range(out') => work'[StateOf[f]] = Converted(f)'
                          /\ f \in imported' => states'[StateOf[f]] = Converted(f)'
        BY DEF RightInv
      <4>1. f \in Range(requested) /\ OwnState(f) /\ Together(f)
        BY <1>1, RequestSame, RequestSame2
      <4>2. Converted(f)' = Converted(f)
        BY <1>1, RequestSame3
      <4>3. /\ Told(f) \in Range(out) => work[StateOf[f]] = Converted(f)
            /\ f \in imported => states[StateOf[f]] = Converted(f)
        BY <4>1 DEF RightInv
      <4>4. DOMAIN work = States /\ DOMAIN states = States
        BY DEF TypeInv, TypeOK
      <4>5. CASE f = g
        <5>1. states'[StateOf[g]] = work[StateOf[g]]
          BY <2>3, <2>4, <4>4
        <5> QED
          BY <2>3, <3>2, <4>1, <4>2, <4>3, <4>5, <5>1
      <4>6. CASE f # g
        <5>1. PICK s \in States : s = StateOf[f] /\ s # StateOf[g]
          <6>1. f \in Files
            BY <1>1, <4>1, ElementOfSeq, LenProperties DEF Range
          <6> QED
            BY <3>3, <4>1, <4>6, <6>1, CliConversionAssumption
        <5>2. work'[s] = work[s] /\ states'[s] = states[s]
          BY <2>4, <4>4, <5>1
        <5> QED
          BY <1>3, <2>4, <4>2, <4>3, <4>6, <5>1, <5>2
      <4> QED
        BY <4>5, <4>6
    <3> QED
      BY <3>1, <3>4, <3>5
  <2>5. CASE UNCHANGED <<states, work, writing, imported>>
    BY <1>7, <2>5
  <2> QED
    BY <1>8, <2>1, <2>4, <2>5 DEF CompleteImport
<1> QED
  BY <1>7, <1>8 DEF ReadLine

\* What the next group takes; a file that is left out is told of.
LEMMA GroupTaken ==
  ASSUME TypeInv, GroupInv, NextGroup, todo # <<>>
  PROVE  /\ Grown
         /\ Range(todo') \cup Range(group') \subseteq Range(todo)
         /\ \/ \E i \in DOMAIN out' : out'[i].type # "converted"
            \/ Range(todo) \subseteq Range(todo') \cup Range(group')
<1>1. requested \in Seq(Files) /\ todo \in Seq(Files) /\ spc = "group" /\ out \in Seq(Line)
  BY DEF TypeInv, TypeOK, NextGroup
<1>2. PICK r \in Seq(Files) : r = requested
  BY <1>1
<1>3. PICK L \in Nat : L = Len(r) /\ DOMAIN r = 1..L
  BY LenProperties
<1>4. PICK m \in 0..L : Begun(m)
  BY <1>1, <1>2, <1>3 DEF GroupInv
<1>5. /\ Cut(r, m) /\ todo = SubSeq(r, m + 1, Len(r))
      /\ Len(todo) = L - m /\ \A i \in 1..(L - m) : todo[i] = r[m + i]
  BY <1>2, <1>3, <1>4, RestOf DEF Begun
<1>6. PICK l \in m + 1..L :
        /\ Len(FirstGroup(todo)) = l - m
        /\ SubSeq(todo, Len(FirstGroup(todo)) + 1, Len(todo)) = SubSeq(r, l + 1, L)
        /\ ByIndex(FirstGroup(todo)) = Batch(r, m, l)
  BY <1>1, <1>3, <1>5, NextSegment
<1>7. l \in Nat /\ m \in Nat /\ m < l /\ l <= L /\ m \in 0..Len(r) /\ l \in 0..Len(r)
  BY <1>3
<1>8. PICK M : M = Members(r, m, l)
  OBVIOUS
<1>9. M \in SUBSET (m + 1..l) /\ M \in SUBSET DOMAIN r
  BY <1>3, <1>7, <1>8 DEF Members, Understood
<1>10. PICK b \in Seq(Files) : b = Batch(r, m, l) /\ b = Sorted(r, M)
  BY <1>3, <1>7, <1>8, BatchFiles DEF Batch
<1>11. Len(b) = Cardinality(M) /\ Cardinality(M) \in Nat /\ Range(b) = {r[i] : i \in M}
  BY <1>9, <1>10, SortedType, NthExists
<1>12. /\ todo' = SubSeq(r, l + 1, Len(r)) /\ group' = b
       /\ Say([i \in 1..((l - m) - Len(b)) |-> Text("format")])
  BY <1>3, <1>6, <1>10 DEF NextGroup
<1>13. PICK lines \in Seq(Line) :
         /\ lines = [i \in 1..((l - m) - Len(b)) |-> Text("format")]
         /\ \A i \in DOMAIN lines : lines[i].type # "converted"
  <2>1. PICK d \in Nat : d = l - m
    BY <1>7
  <2>2. [i \in 1..(d - Len(b)) |-> Text("format")] \in Seq(Line)
    BY <1>11, <2>1, FormatType
  <2> QED
    BY <2>1, <2>2, LineNames
<1>14. Grown /\ (lines # <<>> => \E i \in DOMAIN out' : out'[i].type # "converted")
  BY <1>1, <1>12, <1>13, PlainLines
<1>15. \A f : /\ f \in Range(todo) <=> \E i \in m + 1..L : r[i] = f
              /\ f \in Range(todo') <=> \E i \in l + 1..L : r[i] = f
  <2> SUFFICES ASSUME NEW f
               PROVE  /\ f \in Range(todo) <=> \E i \in m + 1..L : r[i] = f
                      /\ f \in Range(todo') <=> \E i \in l + 1..L : r[i] = f
    OBVIOUS
  <2>1. f \in Range(SubSeq(r, m + 1, Len(r))) <=> \E i \in m + 1..Len(r) : r[i] = f
    BY <1>7, RangeOfRest
  <2>2. f \in Range(SubSeq(r, l + 1, Len(r))) <=> \E i \in l + 1..Len(r) : r[i] = f
    BY <1>7, RangeOfRest
  <2> QED
    BY <1>3, <1>5, <1>12, <2>1, <2>2
<1>16. Range(todo') \cup Range(group') \subseteq Range(todo)
  <2>1. l + 1..L \subseteq m + 1..L /\ m + 1..l \subseteq m + 1..L
    BY <1>7
  <2>2. Range(todo') \subseteq Range(todo)
    BY <1>15, <2>1
  <2>3. Range(b) \subseteq Range(todo)
    BY <1>9, <1>11, <1>15, <2>1
  <2> QED
    BY <1>12, <2>2, <2>3
<1>17. lines = <<>> => Range(todo) \subseteq Range(todo') \cup Range(group')
  <2> SUFFICES ASSUME lines = <<>>
               PROVE  Range(todo) \subseteq Range(todo') \cup Range(group')
    OBVIOUS
  <2>1. Cardinality(M) >= l - m
    <3>1. DOMAIN lines = 1..((l - m) - Len(b)) /\ DOMAIN lines = {}
      BY <1>13
    <3>2. 1 \notin 1..((l - m) - Cardinality(M))
      BY <1>11, <3>1
    <3> QED
      BY <1>7, <1>11, <3>2
  <2>2. IsFiniteSet(m + 1..l) /\ Cardinality(m + 1..l) = l - m
    <3>1. m + 1 \in Int /\ l \in Int /\ ~(m + 1 > l) /\ l - (m + 1) + 1 = l - m
      BY <1>7
    <3> QED
      BY <3>1, FS_Interval
  <2>3. M = m + 1..l
    <3>1. /\ Cardinality(M) <= Cardinality(m + 1..l)
          /\ Cardinality(m + 1..l) = Cardinality(M) => m + 1..l = M
      BY <1>9, <2>2, FS_Subset
    <3> QED
      BY <1>7, <1>11, <2>1, <2>2, <3>1
  <2>4. m + 1..L \subseteq (m + 1..l) \cup (l + 1..L)
    BY <1>7
  <2>5. \A i \in m + 1..L : r[i] \in Range(todo') \cup Range(b)
    BY <1>11, <1>15, <2>3, <2>4
  <2> QED
    BY <1>12, <1>15, <2>5
<1> QED
  BY <1>14, <1>16, <1>17

LEMMA KeptStep ==
  ASSUME TypeInv, PlaceInv, GroupInv, KnownInv, OnceInv, RightInv, [Next]_vars
  PROVE  KnownInv' /\ OnceInv' /\ RightInv'
<1> USE DEF files, filter, history
<1>1. out \in Seq(Line) /\ (spc # "saving" => writing = NoFile)
  BY DEF TypeInv, TypeOK, KnownInv
<1>2. PICK none \in Seq(Line) : none = <<>> /\ \A i \in DOMAIN none : none[i].type # "converted"
  BY NoLines
<1>3. UNCHANGED <<todo, group>> => Waiting' \subseteq Waiting
  BY DEF Waiting
<1>4. CASE Begin
  BY <1>4, BeginKept
<1>5. CASE Startup \/ SingleDone \/ BackupDone \/ Final
  <2>1. /\ UNCHANGED <<requested, begun, work, states, imported, todo, group, writing>>
        /\ writing = NoFile
    BY <1>1, <1>5 DEF Startup, SingleDone, BackupDone, Final
  <2>2. UNCHANGED out \/ \E exception : Die(exception, <<>>)
    BY <1>5 DEF Startup, SingleDone, BackupDone, Final
  <2>3. Grown
    BY <1>1, <1>2, <2>2, SameLines, DieGrown
  <2> QED
    BY <1>3, <2>1, <2>3, Kept
<1>6. CASE CallStep \/ Reply
  <2>1. UNCHANGED <<requested, begun, work, states, imported, todo, group, writing, spc, out>>
    BY <1>6 DEF CallStep, Reply
  <2> QED
    BY <1>3, <2>1, SameLines, Kept
<1>7. CASE NextGroup
  <2>1. /\ UNCHANGED <<requested, begun, work, states, imported, writing>>
        /\ writing = NoFile
    BY <1>1, <1>7 DEF NextGroup
  <2>2. CASE todo = <<>>
    <3>1. UNCHANGED <<todo, group, out>>
      BY <1>7, <2>2 DEF NextGroup
    <3> QED
      BY <1>3, <2>1, <3>1, SameLines, Kept
  <2>3. CASE todo # <<>>
    <3>1. Grown /\ Range(todo') \cup Range(group') \subseteq Range(todo)
      BY <1>7, <2>3, GroupTaken
    <3>2. Waiting' \subseteq Waiting
      BY <3>1 DEF Waiting
    <3> QED
      BY <2>1, <3>1, <3>2, Kept
  <2> QED
    BY <2>2, <2>3
<1>8. CASE LoadDone \/ Sync \/ Recovered \/ Resync
  <2>1. /\ UNCHANGED <<requested, begun, work, states, imported, todo, group, writing>>
        /\ writing = NoFile
    BY <1>1, <1>8 DEF LoadDone, Sync, Recovered, Resync
  <2>2. UNCHANGED out \/ \E exception : GroupFails(exception)
    BY <1>8 DEF LoadDone, Sync, Recovered, Resync
  <2>3. Grown
    BY <1>1, <2>2, SameLines, FailsGrown
  <2> QED
    BY <1>3, <2>1, <2>3, Kept
<1>9. CASE Open
  BY <1>9, OpenKept
<1>10. CASE Save
  BY <1>10, SaveKept
<1>11. CASE RestoreDone
  <2>1. /\ UNCHANGED <<requested, begun, work, states, imported, todo, group, writing>>
        /\ writing = NoFile
    BY <1>1, <1>11 DEF RestoreDone
  <2>2. \/ UNCHANGED out
        \/ \E exception : Die(exception, <<>>)
        \/ \E exception : Die(exception, <<Text("restore_failed")>>)
    BY <1>11 DEF RestoreDone
  <2>3. PICK line \in Seq(Line) : /\ line = <<Text("restore_failed")>>
                                  /\ \A i \in DOMAIN line : line[i].type # "converted"
    BY LineNames
  <2>4. Grown
    BY <1>1, <1>2, <2>2, <2>3, SameLines, DieGrown
  <2> QED
    BY <1>3, <2>1, <2>4, Kept
<1>12. CASE Killed
  <2>1. /\ UNCHANGED <<requested, begun, work, states, imported, todo, group, out>>
        /\ writing' = NoFile
    BY <1>12 DEF Killed
  <2> QED
    BY <1>3, <2>1, SameLines, Kept
<1>13. CASE ReadLine
  BY <1>13, ReadKept
<1>14. CASE LoseLines
  BY <1>14, LostKept
<1>15. CASE UNCHANGED vars
  <2>1. UNCHANGED <<requested, begun, work, states, imported, todo, group, writing, spc, out>>
    BY <1>15 DEF vars
  <2> QED
    BY <1>3, <2>1, SameLines, Kept
<1> QED
  BY <1>4, <1>5, <1>6, <1>7, <1>8, <1>9, <1>10, <1>11, <1>12, <1>13, <1>14, <1>15
  DEF Next

----------------------------------------------------------------------------
(* Several files of one state                                              *)

LEMMA FitSame ==
  ASSUME UNCHANGED <<requested, begun>>, NEW s, NEW c
  PROVE  Fit(s, c)' <=> Fit(s, c)
BY DEF Fit, ConvertedAt, Understood

LEMMA UnsplitSame ==
  ASSUME UNCHANGED <<requested, begun>>, NEW s
  PROVE  Unsplit(s)' <=> Unsplit(s)
BY DEF Unsplit, Together, Understood

\* A step that moves no file, or ends the script.
LEMMA FitKept ==
  ASSUME FitInv, UNCHANGED <<requested, begun, work, states, imported, writing>>,
         \A f : Told(f) \in Range(out') => Told(f) \in Range(out),
         exit = "failed" => exit' = "failed"
  PROVE  FitInv'
<1> SUFFICES ASSUME exit' # "failed", NEW f \in Range(requested'), Unsplit(StateOf[f])'
             PROVE  /\ f \in imported' => \/ Fit(StateOf[f], states[StateOf[f]])'
                                         \/ writing' = <<"states", StateOf[f]>>
                    /\ Told(f) \in Range(out') => \/ work'[StateOf[f]] = NoConfig
                                                 \/ Fit(StateOf[f], work[StateOf[f]])'
                                                 \/ writing' = <<"work", StateOf[f]>>
                    /\ writing' = <<"states", StateOf[f]>> => work'[StateOf[f]] = NoConfig
  BY DEF FitInv
<1>1. PICK s : s = StateOf[f]
  OBVIOUS
<1>2. PICK c, d : c = states[s] /\ d = work[s]
  OBVIOUS
<1>3. f \in Range(requested) /\ Unsplit(s) /\ exit # "failed"
  BY <1>1, UnsplitSame
<1>4. /\ f \in imported => Fit(s, c) \/ writing = <<"states", s>>
      /\ Told(f) \in Range(out) => d = NoConfig \/ Fit(s, d) \/ writing = <<"work", s>>
      /\ writing = <<"states", s>> => d = NoConfig
  BY <1>1, <1>2, <1>3 DEF FitInv
<1>5. (Fit(s, c)' <=> Fit(s, c)) /\ (Fit(s, d)' <=> Fit(s, d))
  BY FitSame
<1>6. c = states'[s] /\ d = work'[s]
  BY <1>2
<1>7. (Fit(s, c) => Fit(s, states[s])') /\ (Fit(s, d) => Fit(s, work[s])')
  BY <1>5, <1>6 DEF Fit
<1> QED
  BY <1>1, <1>4, <1>6, <1>7

\* What is saved is what the file makes, wherever it is in its group.
LEMMA SavedFits ==
  ASSUME TypeInv, GroupInv, spc = "saving", NEW h, h = Head(group), Together(h)
  PROVE  Fit(StateOf[h], nso)
<1>1. requested \in Seq(Files)
  BY DEF TypeInv, TypeOK
<1>2. PICK n \in 0..Len(requested), m \in 0..Len(requested), k \in Nat :
        Segment(requested, n, m) /\ Begun(m) /\ Underway(n, m, k)
  BY DEF GroupInv
<1>3. n \in Nat /\ m \in Nat /\ m <= Len(requested)
  BY <1>1, LenProperties
<1>4. PICK b \in Seq(Files) : b = Batch(requested, n, m)
  BY <1>1, <1>3, BatchFiles
<1>5. /\ k < Len(b) /\ group = SubSeq(b, k + 1, Len(b))
      /\ nso = begun \o SubSeq(b, 1, k + 1)
  BY <1>2, <1>4 DEF Underway
<1>6. h = b[k + 1]
  <2>1. Head(SubSeq(b, k + 1, Len(b))) = b[k + 1]
    BY <1>4, <1>5, RestHead
  <2> QED
    BY <1>5, <2>1, Zenon
<1>7. h = Batch(requested, n, m)[k + 1] /\ k < Len(Batch(requested, n, m))
  BY <1>4, <1>5, <1>6
<1>8. Makes(h, begun \o SubSeq(Batch(requested, n, m), 1, k + 1))
  BY <1>1, <1>2, <1>3, <1>7, ConvertedAtIs
<1>9. Makes(h, nso)
  BY <1>4, <1>5, <1>8
<1> QED
  BY <1>9 DEF Fit, Makes

\* A file is opened in its place: what is moved from now on is not whole.
LEMMA OpenFits ==
  ASSUME TypeInv, KnownInv, FitInv, Open
  PROVE  FitInv'
<1>1. PICK h : h = Head(group)
  OBVIOUS
<1>2. CASE exit' = "failed"
  BY <1>2 DEF FitInv
<1>3. CASE exit' # "failed"
  <2>1. /\ spc = "save" /\ exit' = exit /\ writing = NoFile
        /\ work' = [work EXCEPT ![StateOf[h]] = <<Half>>]
        /\ writing' = <<"work", StateOf[h]>>
        /\ UNCHANGED <<requested, begun, out, states, imported>>
    BY <1>1, <1>3 DEF Open, Die, KnownInv, filter, history
  <2> SUFFICES ASSUME NEW f \in Range(requested'), Unsplit(StateOf[f])'
               PROVE  /\ f \in imported' => \/ Fit(StateOf[f], states[StateOf[f]])'
                                           \/ writing' = <<"states", StateOf[f]>>
                      /\ Told(f) \in Range(out') => \/ work'[StateOf[f]] = NoConfig
                                                   \/ Fit(StateOf[f], work[StateOf[f]])'
                                                   \/ writing' = <<"work", StateOf[f]>>
                      /\ writing' = <<"states", StateOf[f]>> => work'[StateOf[f]] = NoConfig
    BY DEF FitInv
  <2>2. PICK s : s = StateOf[f]
    OBVIOUS
  <2>3. PICK c, d : c = states[s] /\ d = work[s]
    OBVIOUS
  <2>4. f \in Range(requested) /\ Unsplit(s) /\ exit # "failed"
    BY <1>3, <2>1, <2>2, UnsplitSame
  <2>5. /\ f \in imported => Fit(s, c)
        /\ Told(f) \in Range(out) => d = NoConfig \/ Fit(s, d)
    BY <2>1, <2>2, <2>3, <2>4 DEF FitInv, NoFile
  <2>6. (Fit(s, c)' <=> Fit(s, c)) /\ (Fit(s, d)' <=> Fit(s, d))
    BY <2>1, FitSame
  <2>7. c = states'[s] /\ (s # StateOf[h] => d = work'[s])
    <3>1. s # StateOf[h] => work'[s] = work[s]
      <4>1. s \in States
        <5>1. f \in Files
          BY <2>4, ElementOfSeq, LenProperties DEF Range, TypeInv, TypeOK
        <5> QED
          BY <2>2, <5>1, CliConversionAssumption
      <4> QED
        BY <2>1, <4>1 DEF TypeInv, TypeOK
    <3> QED
      BY <2>1, <2>3, <3>1
  <2>8. /\ Fit(s, c) => Fit(s, states[s])'
        /\ s # StateOf[h] /\ Fit(s, d) => Fit(s, work[s])'
    BY <2>6, <2>7 DEF Fit
  <2>9. writing'[1] = "work"
    BY <2>1
  <2> QED
    BY <2>1, <2>2, <2>5, <2>7, <2>8, <2>9
<1> QED
  BY <1>2, <1>3

\* It is whole again, where it is now.
LEMMA SaveFits ==
  ASSUME TypeInv, GroupInv, KnownInv, FitInv, Save
  PROVE  FitInv'
<1>1. PICK h : h = Head(group)
  OBVIOUS
<1>2. PICK t : t = Told(h)
  OBVIOUS
<1>3. CASE exit' = "failed"
  BY <1>3 DEF FitInv
<1>4. CASE exit' # "failed"
  <2>1. /\ spc = "saving" /\ group # <<>> /\ writing # NoFile /\ writing' = NoFile
        /\ UNCHANGED <<requested, begun, imported, exit>>
        /\ out' = out \o <<t>>
        /\ out \in Seq(Line) /\ requested \in Seq(Files)
    BY <1>1, <1>2, <1>4 DEF Save, Restore, Say, Die, Told, TypeInv, TypeOK, history
  <2>2. h \in Range(requested) /\ h \in Files /\ StateOf[h] \in States /\ writing[2] = StateOf[h]
    BY <1>1, <2>1, HeadWaits DEF KnownInv
  <2>3. writing = <<"work", StateOf[h]>> \/ writing = <<"states", StateOf[h]>>
    <3>1. writing \in {"work", "states"} \X States
      BY <2>1 DEF TypeInv, TypeOK
    <3> QED
      BY <2>2, <3>1
  <2>4. \/ /\ writing = <<"work", StateOf[h]>> /\ UNCHANGED states
           /\ work' = [work EXCEPT ![StateOf[h]] = nso]
        \/ /\ writing = <<"states", StateOf[h]>> /\ UNCHANGED work
           /\ states' = [states EXCEPT ![StateOf[h]] = nso]
    BY <1>4, <2>2, <2>3 DEF Save, Die
  <2>5. \A f : Told(f) \in Range(out') => f = h \/ Told(f) \in Range(out)
    <3>1. t \in Line
      BY <1>2, <2>2, LineTypes
    <3>2. out' = Append(out, t)
      BY <2>1, <3>1, AppendIsConcat
    <3>3. PICK a \in Nat : a = Len(out) /\ DOMAIN out = 1..a
      BY <2>1, LenProperties
    <3>4. /\ DOMAIN out' = 1..(a + 1) /\ out'[a + 1] = t
          /\ \A i \in 1..a : out'[i] = out[i]
      BY <2>1, <3>1, <3>2, <3>3, AppendProperties, LenProperties
    <3>5. \A i \in DOMAIN out' : (i \in DOMAIN out /\ out'[i] = out[i]) \/ out'[i] = t
      BY <3>3, <3>4
    <3> QED
      BY <1>2, <3>5 DEF Range, Told
  <2> SUFFICES ASSUME NEW f \in Range(requested'), Unsplit(StateOf[f])'
               PROVE  /\ f \in imported' => \/ Fit(StateOf[f], states[StateOf[f]])'
                                           \/ writing' = <<"states", StateOf[f]>>
                      /\ Told(f) \in Range(out') => \/ work'[StateOf[f]] = NoConfig
                                                   \/ Fit(StateOf[f], work[StateOf[f]])'
                                                   \/ writing' = <<"work", StateOf[f]>>
                      /\ writing' = <<"states", StateOf[f]>> => work'[StateOf[f]] = NoConfig
    BY DEF FitInv
  <2>6. PICK s : s = StateOf[f]
    OBVIOUS
  <2>7. PICK c, d, e : c = states[s] /\ d = work[s] /\ e = nso
    OBVIOUS
  <2>8. f \in Range(requested) /\ Unsplit(s) /\ exit # "failed" /\ s \in States
    <3>1. f \in Range(requested) /\ Unsplit(s) /\ exit # "failed"
      BY <1>4, <2>1, <2>6, UnsplitSame
    <3>2. f \in Files
      BY <2>1, <3>1, ElementOfSeq, LenProperties DEF Range
    <3> QED
      BY <2>6, <3>1, <3>2, CliConversionAssumption
  <2>9. /\ f \in imported => Fit(s, c) \/ writing = <<"states", s>>
        /\ Told(f) \in Range(out) => d = NoConfig \/ Fit(s, d) \/ writing = <<"work", s>>
        /\ writing = <<"states", s>> => d = NoConfig
    BY <2>6, <2>7, <2>8 DEF FitInv
  <2>10. /\ Fit(s, c)' <=> Fit(s, c)
         /\ Fit(s, d)' <=> Fit(s, d)
         /\ Fit(s, e)' <=> Fit(s, e)
    BY <2>1, FitSame
  <2>11. writing' # <<"states", s>> /\ DOMAIN work = States /\ DOMAIN states = States
    BY <2>1 DEF NoFile, TypeInv, TypeOK
  <2>12. CASE s # StateOf[h]
    <3>1. states'[s] = c /\ work'[s] = d
      BY <2>4, <2>7, <2>8, <2>11, <2>12
    <3>2. writing # <<"states", s>> /\ writing # <<"work", s>> /\ f # h
      BY <2>3, <2>6, <2>12
    <3>3. (Fit(s, c) => Fit(s, states[s])') /\ (Fit(s, d) => Fit(s, work[s])')
      BY <2>10, <3>1 DEF Fit
    <3> QED
      BY <2>1, <2>5, <2>6, <2>9, <2>11, <3>1, <3>2, <3>3
  <2>13. CASE s = StateOf[h]
    <3>1. Fit(s, e)
      <4>1. Together(h)
        BY <2>2, <2>8, <2>13 DEF Unsplit, Range
      <4> QED
        BY <1>1, <2>1, <2>7, <2>13, <4>1, SavedFits
    <3>2. CASE /\ writing = <<"work", s>> /\ UNCHANGED states
               /\ work' = [work EXCEPT ![s] = nso]
      <4>1. states'[s] = c /\ work'[s] = e
        BY <2>7, <2>8, <2>11, <3>2
      <4>2. (Fit(s, c) => Fit(s, states[s])') /\ Fit(s, work[s])'
        BY <2>10, <3>1, <4>1 DEF Fit
      <4>3. writing # <<"states", s>>
        BY <3>2
      <4> QED
        BY <2>1, <2>6, <2>9, <2>11, <4>2, <4>3
    <3>3. CASE /\ writing = <<"states", s>> /\ UNCHANGED work
               /\ states' = [states EXCEPT ![s] = nso]
      <4>1. states'[s] = e /\ work'[s] = NoConfig
        BY <2>7, <2>8, <2>9, <2>11, <3>3
      <4>2. Fit(s, states[s])'
        BY <2>10, <3>1, <4>1 DEF Fit
      <4> QED
        BY <2>6, <2>11, <4>1, <4>2
    <3> QED
      BY <2>4, <2>13, <3>2, <3>3
  <2> QED
    BY <2>12, <2>13
<1> QED
  BY <1>3, <1>4

\* A file is moved whole, or while it is being written.
LEMMA ReadFits ==
  ASSUME TypeInv, KnownInv, FitInv, ReadLine
  PROVE  FitInv'
<1>1. /\ out # <<>> /\ out' = Tail(out)
      /\ UNCHANGED <<requested, begun, exit>>
      /\ out \in Seq(Line) /\ requested \in Seq(Files)
  BY DEF ReadLine, TypeInv, TypeOK, history
<1>2. /\ 1 \in DOMAIN out /\ Head(out) = out[1] /\ Head(out) \in Line
      /\ \A i \in DOMAIN out' : i + 1 \in DOMAIN out /\ i + 1 # 1 /\ out'[i] = out[i + 1]
  BY <1>1, TailLines
<1>3. \A f : Told(f) \in Range(out') => Told(f) \in Range(out)
  BY <1>2 DEF Range
<1>4. CASE UNCHANGED <<states, work, writing, imported>>
  BY <1>1, <1>3, <1>4, FitKept
<1>5. CASE Head(out).type = "converted" /\ CompleteImport(Head(out).file)
  <2>1. PICK g : g = Head(out).file
    OBVIOUS
  <2>2. Head(out) = Told(g)
    BY <1>2, <1>5, <2>1 DEF Line, Told
  <2>3. g \in Range(requested) /\ Told(g) \in Range(out)
    BY <1>2, <1>5, <2>1, <2>2 DEF KnownInv, Range
  <2>4. CASE /\ states' = [states EXCEPT ![StateOf[g]] = work[StateOf[g]]]
             /\ work' = [work EXCEPT ![StateOf[g]] = NoConfig]
             /\ writing' = IF writing = <<"work", StateOf[g]>> THEN <<"states", StateOf[g]>>
                           ELSE writing
             /\ imported' = imported \cup {g}
             /\ work[StateOf[g]] # NoConfig
    <3> SUFFICES ASSUME exit' # "failed", NEW f \in Range(requested'), Unsplit(StateOf[f])'
                 PROVE  /\ f \in imported' => \/ Fit(StateOf[f], states[StateOf[f]])'
                                             \/ writing' = <<"states", StateOf[f]>>
                        /\ Told(f) \in Range(out') => \/ work'[StateOf[f]] = NoConfig
                                                     \/ Fit(StateOf[f], work[StateOf[f]])'
                                                     \/ writing' = <<"work", StateOf[f]>>
                        /\ writing' = <<"states", StateOf[f]>> => work'[StateOf[f]] = NoConfig
      BY DEF FitInv
    <3>1. PICK s : s = StateOf[f]
      OBVIOUS
    <3>2. PICK c, d : c = states[s] /\ d = work[s]
      OBVIOUS
    <3>3. f \in Range(requested) /\ Unsplit(s) /\ exit # "failed" /\ s \in States
      <4>1. f \in Range(requested) /\ Unsplit(s) /\ exit # "failed"
        BY <1>1, <3>1, UnsplitSame
      <4>2. f \in Files
        BY <1>1, <4>1, ElementOfSeq, LenProperties DEF Range
      <4> QED
        BY <3>1, <4>1, <4>2, CliConversionAssumption
    <3>4. /\ f \in imported => Fit(s, c) \/ writing = <<"states", s>>
          /\ Told(f) \in Range(out) => d = NoConfig \/ Fit(s, d) \/ writing = <<"work", s>>
          /\ writing = <<"states", s>> => d = NoConfig
      BY <3>1, <3>2, <3>3 DEF FitInv
    <3>5. (Fit(s, c)' <=> Fit(s, c)) /\ (Fit(s, d)' <=> Fit(s, d))
      BY <1>1, FitSame
    <3>6. DOMAIN work = States /\ DOMAIN states = States
      BY DEF TypeInv, TypeOK
    <3>7. CASE s # StateOf[g]
      <4>1. states'[s] = c /\ work'[s] = d /\ f # g
        BY <2>4, <3>1, <3>2, <3>3, <3>6, <3>7
      <4>2. (Fit(s, c) => Fit(s, states[s])') /\ (Fit(s, d) => Fit(s, work[s])')
        BY <3>5, <4>1 DEF Fit
      <4>3. /\ writing' = <<"states", s>> <=> writing = <<"states", s>>
            /\ writing' = <<"work", s>> <=> writing = <<"work", s>>
        <5>1. CASE writing = <<"work", StateOf[g]>>
          BY <2>4, <3>7, <5>1
        <5>2. CASE writing # <<"work", StateOf[g]>>
          BY <2>4, <5>2
        <5> QED
          BY <5>1, <5>2
      <4> QED
        BY <1>3, <2>4, <3>1, <3>4, <4>1, <4>2, <4>3
    <3>8. CASE s = StateOf[g]
      <4>1. states'[s] = d /\ work'[s] = NoConfig
        BY <2>4, <3>2, <3>3, <3>6, <3>8
      <4>2. Fit(s, d) \/ writing = <<"work", s>>
        <5>1. Unsplit(StateOf[g]) /\ d # NoConfig
          BY <2>4, <3>2, <3>3, <3>8
        <5> QED
          BY <2>3, <3>2, <3>3, <3>8, <5>1 DEF FitInv
      <4>3. Fit(s, d) => Fit(s, states[s])'
        BY <3>5, <4>1 DEF Fit
      <4>4. writing = <<"work", s>> => writing' = <<"states", s>>
        BY <2>4, <3>8
      <4> QED
        BY <3>1, <4>1, <4>2, <4>3, <4>4
    <3> QED
      BY <3>7, <3>8
  <2> QED
    BY <1>4, <1>5, <2>1, <2>4 DEF CompleteImport
<1> QED
  BY <1>4, <1>5 DEF ReadLine

LEMMA FitStep ==
  ASSUME TypeInv, PlaceInv, GroupInv, KnownInv, FitInv, [Next]_vars
  PROVE  FitInv'
<1> USE DEF files, filter, history
<1>1. out \in Seq(Line) /\ (exit # "none" => spc = "idle")
  BY DEF TypeInv, TypeOK, PlaceInv
<1>2. CASE Begin
  <2>1. imported' = {} /\ out' = <<>> /\ writing' = NoFile
    BY <1>2 DEF Begin, KnownInv
  <2>2. Range(out') = {} /\ \A s : writing' # <<"states", s>>
    BY <2>1 DEF Range, NoFile
  <2> QED
    BY <2>1, <2>2 DEF FitInv
<1>3. CASE Open
  BY <1>3, OpenFits
<1>4. CASE Save
  BY <1>4, SaveFits
<1>5. CASE ReadLine
  BY <1>5, ReadFits
<1>6. CASE Killed
  BY <1>6 DEF Killed, FitInv
<1>7. CASE LoseLines
  <2>1. /\ out' = <<>>
        /\ UNCHANGED <<requested, begun, work, states, imported, writing, exit>>
    BY <1>7 DEF LoseLines
  <2>2. Range(out') = {}
    BY <2>1 DEF Range
  <2> QED
    BY <2>1, <2>2, FitKept
<1>8. CASE \/ Startup \/ CallStep \/ SingleDone \/ BackupDone \/ NextGroup \/ LoadDone
           \/ Sync \/ Recovered \/ Resync \/ RestoreDone \/ Final \/ Reply
           \/ UNCHANGED vars
  <2>1. UNCHANGED <<requested, begun, work, states, imported, writing>>
    BY <1>8 DEF Startup, CallStep, SingleDone, BackupDone, NextGroup, LoadDone, Sync,
                Recovered, Resync, RestoreDone, Final, Reply, vars
  <2>2. exit = "failed" => exit' = "failed"
    BY <1>1, <1>8 DEF Startup, CallStep, SingleDone, BackupDone, NextGroup, LoadDone, Sync,
                Recovered, Resync, RestoreDone, Final, Reply, vars
  <2>3. CASE exit' = "failed"
    BY <2>3 DEF FitInv
  <2>4. CASE exit' # "failed"
    <3>1. ~(\E exception, lines : Die(exception, lines))
      BY <2>4 DEF Die
    <3>2. \/ UNCHANGED out
          \/ NextGroup /\ todo # <<>>
          \/ \E exception : GroupFails(exception)
      BY <1>8, <3>1 DEF Startup, CallStep, SingleDone, BackupDone, NextGroup, LoadDone, Sync,
                Recovered, Resync, RestoreDone, Final, Reply, vars
    <3>3. Grown
      BY <1>1, <3>2, SameLines, FailsGrown, GroupTaken
    <3>4. \A f : Told(f).type = "converted"
      BY DEF Told
    <3>5. \A f : Told(f) \in Range(out') => Told(f) \in Range(out)
      BY <3>3, <3>4 DEF Grown, Range
    <3> QED
      BY <2>1, <2>2, <3>5, FitKept
  <2> QED
    BY <2>3, <2>4
<1> QED
  BY <1>2, <1>3, <1>4, <1>5, <1>6, <1>7, <1>8 DEF Next

----------------------------------------------------------------------------
(* What is missing                                                         *)

\* What went wrong is not forgotten before the next action.
LEMMA TroubleStays ==
  ASSUME TypeInv, PlaceInv, GroupInv, Trouble, [Next]_vars, ~Begin
  PROVE  Trouble'
<1> USE DEF Trouble, files, filter, history
<1>1. out \in Seq(Line)
  BY DEF TypeInv, TypeOK
<1>2. CASE \E i \in DOMAIN out : out[i].type # "converted"
  <2>1. CASE Grown
    BY <1>2, <2>1 DEF Grown
  <2>2. CASE LoseLines
    BY <2>2 DEF LoseLines
  <2>3. CASE ReadLine
    <3>1. PICK i \in DOMAIN out : out[i].type # "converted"
      BY <1>2
    <3>2. /\ Head(out) = out[1] /\ Head(out) \in Line
          /\ i # 1 => i - 1 \in DOMAIN out' /\ out'[i - 1] = out[i]
      BY <1>1, <2>3, TailLines DEF ReadLine
    <3>3. CASE i # 1
      BY <3>1, <3>2, <3>3
    <3>4. CASE i = 1
      <4>1. failed' = TRUE \/ error' = TRUE
        BY <2>3, <3>1, <3>2, <3>4 DEF ReadLine, Line
      <4> QED
        BY <4>1
    <3> QED
      BY <3>3, <3>4
  <2>4. CASE Save
    <3>1. (\E t : out' = out \o <<t>> /\ t \in Line) \/ (\E e : Die(e, <<>>))
      <4>1. spc = "saving" /\ group # <<>> /\ group \in Seq(Files)
        BY <2>4 DEF Save, TypeInv, TypeOK
      <4>2. Told(Head(group)) \in Line
        BY <4>1, HeadTailProperties, LineTypes
      <4> QED
        BY <2>4, <4>2 DEF Save, Restore, Say, Told
    <3>2. CASE \E e : Die(e, <<>>)
      BY <3>2 DEF Die
    <3>3. CASE \E t : out' = out \o <<t>> /\ t \in Line
      <4>1. PICK t \in Line : out' = Append(out, t)
        BY <1>1, <3>3, AppendIsConcat
      <4>2. \A i \in 1..Len(out) : i \in 1..Len(out') /\ out'[i] = out[i]
        BY <1>1, <4>1, AppendProperties, LenProperties
      <4>3. DOMAIN out = 1..Len(out) /\ DOMAIN out' = 1..Len(out')
        BY <1>1, <4>1, AppendProperties, LenProperties
      <4> QED
        BY <1>2, <4>2, <4>3
    <3> QED
      BY <3>1, <3>2, <3>3
  <2>5. CASE Startup \/ SingleDone \/ BackupDone \/ Final \/ RestoreDone \/ Open
    <3>1. UNCHANGED out \/ exit' = "failed"
      BY <2>5 DEF Startup, SingleDone, BackupDone, Final, RestoreDone, Open, Die
    <3> QED
      BY <1>2, <3>1
  <2>6. CASE CallStep \/ Reply \/ Killed \/ UNCHANGED vars
    <3>1. UNCHANGED out
      BY <2>6 DEF CallStep, Reply, Killed, vars
    <3> QED
      BY <1>2, <3>1
  <2>7. CASE LoadDone \/ Sync \/ Recovered \/ Resync
    <3>1. UNCHANGED out \/ \E exception : GroupFails(exception)
      BY <2>7 DEF LoadDone, Sync, Recovered, Resync
    <3> QED
      BY <1>1, <1>2, <3>1, FailsGrown
  <2>8. CASE NextGroup
    <3>1. Grown
      <4>1. CASE todo = <<>>
        BY <2>8, <4>1, SameLines DEF NextGroup
      <4>2. CASE todo # <<>>
        BY <2>8, <4>2, GroupTaken
      <4> QED
        BY <4>1, <4>2
    <3> QED
      BY <2>1, <3>1
  <2> QED
    BY <2>1, <2>2, <2>3, <2>4, <2>5, <2>6, <2>7, <2>8 DEF Next
<1>3. CASE failed \/ error \/ lost
  BY <1>3 DEF Next, Startup, CallStep, SingleDone, BackupDone, NextGroup, LoadDone, Sync,
              Recovered, Resync, Open, Save, RestoreDone, Final, Killed, ReadLine,
              CompleteImport, LoseLines, Reply, vars
<1>4. CASE exit = "failed"
  BY <1>4 DEF PlaceInv, Next, Startup, CallStep, SingleDone, BackupDone, NextGroup, LoadDone,
              Sync, Recovered, Resync, Open, Save, RestoreDone, Final, Killed, ReadLine,
              LoseLines, Reply, vars
<1> QED
  BY <1>2, <1>3, <1>4

\* Without trouble, a file that waits goes on to the next place.
LEMMA WaitingStays ==
  ASSUME TypeInv, PlaceInv, GroupInv, CompleteInv, [Next]_vars, ~Begin, ~Trouble, ~Trouble',
         NEW f, f \notin Spaced, f \in imported \cup Waiting \/ Told(f) \in Range(out)
  PROVE  f \in imported' \cup Waiting' \/ Told(f) \in Range(out')
<1> USE DEF files, filter, history
<1>1. out \in Seq(Line)
  BY DEF TypeInv, TypeOK
<1>2. CASE UNCHANGED <<imported, todo, group, out>>
  BY <1>2 DEF Waiting
<1>3. CASE \E exception : GroupFails(exception)
  BY <1>1, <1>3, FailsGrown
<1>4. CASE \E exception, lines : Die(exception, lines)
  BY <1>4 DEF Die, Trouble
<1>5. CASE NextGroup
  <2>1. group = <<>>
    BY <1>5 DEF NextGroup, CompleteInv
  <2>2. CASE todo = <<>>
    BY <1>2, <1>5, <2>2 DEF NextGroup
  <2>3. CASE todo # <<>>
    <3>1. /\ Grown
          /\ Range(todo) \subseteq Range(todo') \cup Range(group')
      BY <1>5, <2>3, GroupTaken DEF Trouble
    <3>2. Told(f) \in Range(out) => Told(f) \in Range(out')
      BY <3>1 DEF Grown, Range
    <3>3. f \in imported => f \in imported'
      BY <1>5 DEF NextGroup
    <3>4. f \in Range(todo) => f \in Waiting'
      BY <3>1 DEF Waiting
    <3>5. f \notin Range(group)
      BY <2>1 DEF Range
    <3> QED
      BY <3>2, <3>3, <3>4, <3>5 DEF Waiting
  <2> QED
    BY <2>2, <2>3
<1>6. CASE Save /\ ~(\E exception : Die(exception, <<>>))
  <2>1. PICK h : h = Head(group)
    OBVIOUS
  <2>2. /\ group # <<>> /\ group \in Seq(Files) /\ group' = Tail(group)
        /\ out' = out \o <<Told(h)>> /\ UNCHANGED <<todo, imported>>
    BY <1>6, <2>1 DEF Save, TypeInv, TypeOK, Restore, Say, Told
  <2>3. PICK t \in Line : t = Told(h)
    <3>1. h \in Files
      BY <2>1, <2>2, HeadTailProperties
    <3> QED
      BY <3>1, LineTypes
  <2>4. out' = Append(out, t)
    BY <1>1, <2>2, <2>3, AppendIsConcat
  <2>5. /\ DOMAIN out = 1..Len(out) /\ Len(out) \in Nat /\ DOMAIN out' = 1..(Len(out) + 1)
        /\ \A i \in 1..Len(out) : out'[i] = out[i]
        /\ out'[Len(out) + 1] = t
    BY <1>1, <2>4, AppendProperties, LenProperties
  <2>6. Told(f) \in Range(out) => Told(f) \in Range(out')
    BY <2>5 DEF Range
  <2>7. t \in Range(out')
    BY <2>5 DEF Range
  <2>8. f \in Range(group) => f = h \/ f \in Range(group')
    <3>1. PICK L \in Nat : L = Len(group)
      BY <2>2, LenProperties
    <3>2. DOMAIN group = 1..L /\ group[1] = h
      BY <2>1, <2>2, <3>1, LenProperties
    <3>3. /\ group' \in Seq(Files) /\ Len(group') = L - 1
          /\ \A i \in 1..(L - 1) : group'[i] = group[i + 1]
      BY <2>2, <3>1, HeadTailProperties
    <3>4. DOMAIN group' = 1..(L - 1)
      BY <3>3, LenProperties
    <3>5. \A i \in 1..L : i = 1 \/ (i - 1 \in 1..(L - 1) /\ (i - 1) + 1 = i)
      OBVIOUS
    <3> SUFFICES ASSUME NEW i \in 1..L, f = group[i]
                 PROVE  f = h \/ f \in Range(group')
      BY <3>2 DEF Range
    <3>6. CASE i = 1
      BY <3>2, <3>6
    <3>7. CASE i # 1
      <4>1. i - 1 \in DOMAIN group' /\ group'[i - 1] = f
        BY <3>3, <3>4, <3>5, <3>7
      <4> QED
        BY <4>1 DEF Range
    <3> QED
      BY <3>6, <3>7
  <2> QED
    BY <2>2, <2>3, <2>6, <2>7, <2>8 DEF Waiting
<1>7. CASE ReadLine
  <2>1. /\ Head(out) = out[1] /\ Head(out) \in Line
        /\ \A i \in DOMAIN out : i # 1 => i - 1 \in DOMAIN out' /\ out'[i - 1] = out[i]
        /\ UNCHANGED <<todo, group>>
    BY <1>1, <1>7, TailLines DEF ReadLine
  <2>2. /\ Head(out).type = "converted"
        /\ \/ imported' = imported \cup {Head(out).file}
           \/ Head(out).file \in Spaced /\ UNCHANGED imported
    <3>1. failed' # TRUE /\ error' # TRUE
      BY DEF Trouble
    <3> QED
      BY <1>7, <2>1, <3>1 DEF ReadLine, CompleteImport
  <2>3. Told(f) \in Range(out) => f \in imported' \/ Told(f) \in Range(out')
    <3> SUFFICES ASSUME NEW i \in DOMAIN out, out[i] = Told(f)
                 PROVE  f \in imported' \/ Told(f) \in Range(out')
      BY DEF Range
    <3>1. CASE i = 1
      BY <2>1, <2>2, <3>1 DEF Told
    <3>2. CASE i # 1
      BY <2>1, <3>2 DEF Range
    <3> QED
      BY <3>1, <3>2
  <2> QED
    BY <2>1, <2>2, <2>3 DEF Waiting
<1>8. CASE LoseLines
  BY <1>8 DEF LoseLines, Trouble
<1>9. CASE Startup \/ CallStep \/ SingleDone \/ BackupDone \/ RestoreDone \/ Final
           \/ Open \/ Killed \/ Reply \/ UNCHANGED vars
  <2>1. \/ UNCHANGED <<imported, todo, group, out>>
        \/ \E exception, lines : Die(exception, lines)
    BY <1>9 DEF Startup, CallStep, SingleDone, BackupDone, RestoreDone, Final, Open, Killed,
                Reply, vars
  <2> QED
    BY <1>2, <1>4, <2>1
<1>10. CASE LoadDone \/ Sync \/ Recovered \/ Resync
  <2>1. \/ UNCHANGED <<imported, todo, group, out>>
        \/ \E exception : GroupFails(exception)
    BY <1>10 DEF LoadDone, Sync, Recovered, Resync
  <2> QED
    BY <1>2, <1>3, <2>1
<1> QED
  BY <1>4, <1>5, <1>6, <1>7, <1>8, <1>9, <1>10 DEF Next

\* The places where no file of a group may be left.
Between == {"start", "backup", "group", "restore", "final", "single"}

LEMMA BetweenStep ==
  ASSUME TypeInv, PlaceInv, GroupInv, CompleteInv, [Next]_vars, ~Begin, ~Trouble, ~Trouble'
  PROVE  /\ spc' \in Between => group' = <<>>
         /\ action' = "convert" /\ (spc' = "final" \/ exit' = "ok") => Waiting' = {}
<1> USE DEF files, filter, history
<1>1. /\ spc \in Between => group = <<>>
      /\ action = "convert" /\ (spc = "final" \/ exit = "ok") => Waiting = {}
      /\ exit # "none" => spc = "idle"
      /\ out \in Seq(Line)
      /\ exit' # "failed"
      /\ ~(\E exception : GroupFails(exception))
  BY FailsGrown DEF CompleteInv, Between, PlaceInv, TypeInv, TypeOK, Trouble
<1>2. CASE /\ UNCHANGED <<action, todo, group>>
           /\ UNCHANGED <<spc, exit>> \/ spc' \notin Between
           /\ exit' = exit
  BY <1>1, <1>2 DEF Waiting, Between
<1>3. CASE Startup
  BY <1>1, <1>3 DEF Startup, Die, Between
<1>4. CASE SingleDone
  BY <1>1, <1>4 DEF SingleDone, Die, Between, PlaceInv
<1>5. CASE BackupDone \/ RestoreDone
  BY <1>1, <1>5 DEF BackupDone, RestoreDone, Die, Between
<1>6. CASE NextGroup
  <2>1. spc = "group" /\ group = <<>> /\ exit' = exit /\ exit # "ok"
    BY <1>1, <1>6 DEF NextGroup, Between
  <2>2. CASE todo = <<>>
    <3>1. todo' = <<>> /\ group' = <<>>
      BY <1>6, <2>1, <2>2 DEF NextGroup
    <3> QED
      BY <3>1 DEF Waiting, Range
  <2>3. CASE todo # <<>>
    BY <1>6, <2>1, <2>3 DEF NextGroup, Between
  <2> QED
    BY <2>2, <2>3
<1>7. CASE LoadDone \/ Sync \/ Recovered \/ Resync
  <2>1. /\ UNCHANGED <<action, todo, group, exit>> /\ exit # "ok"
        /\ spc' \in {"sync", "save", "recover", "resync"}
    BY <1>1, <1>7 DEF LoadDone, Sync, Recovered, Resync, Between
  <2> QED
    BY <2>1, <1>2 DEF Between
<1>8. CASE Open \/ Save
  BY <1>1, <1>8 DEF Open, Save, Restore, Die, Between
<1>9. CASE Final
  BY <1>1, <1>9 DEF Final, Die, Between, Waiting
<1>10. CASE Killed
  BY <1>1, <1>10 DEF Killed
<1>11. CASE CallStep \/ ReadLine \/ LoseLines \/ Reply \/ UNCHANGED vars
  <2>1. UNCHANGED <<action, todo, group, spc, exit>>
    BY <1>11 DEF CallStep, ReadLine, LoseLines, Reply, vars
  <2> QED
    BY <1>2, <2>1
<1> QED
  BY <1>3, <1>4, <1>5, <1>6, <1>7, <1>8, <1>9, <1>10, <1>11 DEF Next

LEMMA CompleteStep ==
  ASSUME TypeInv, PlaceInv, GroupInv, CompleteInv, [Next]_vars
  PROVE  CompleteInv'
<1> USE DEF files, filter, history
<1>1. CASE Begin
  <2>1. /\ spc' = "start" /\ group' = <<>> /\ todo' = requested' /\ exit' = "none"
        /\ result' = "none"
    BY <1>1 DEF Begin
  <2>2. \A f \in Range(requested') : f \in Waiting'
    BY <2>1 DEF Waiting
  <2> QED
    BY <2>1, <2>2 DEF CompleteInv
<1>2. CASE ~Begin
  <2>1. action' = "convert" /\ spc' = "idle" => exit' # "none"
    <3>1. \/ UNCHANGED <<action, spc, exit>>
          \/ spc' # "idle" \/ exit' \in {"ok", "failed"}
      BY <1>2 DEF Next, Startup, CallStep, SingleDone, BackupDone, NextGroup, LoadDone, Sync,
                  Recovered, Resync, Open, Save, RestoreDone, Final, Killed, ReadLine,
                  LoseLines, Reply, vars, Die, GroupFails, Restore
    <3> QED
      BY <3>1 DEF CompleteInv
  <2>2. result' = "success" => exit' = "ok" /\ out' = <<>> /\ ~failed' /\ ~error'
    <3> SUFFICES ASSUME result' = "success"
                 PROVE  exit' = "ok" /\ out' = <<>> /\ ~failed' /\ ~error'
      OBVIOUS
    <3>1. CASE Reply
      BY <3>1 DEF Reply
    <3>2. CASE ~Reply
      <4>1. UNCHANGED result
        BY <1>2, <3>2 DEF Next, Startup, CallStep, SingleDone, BackupDone, NextGroup, LoadDone,
                          Sync, Recovered, Resync, Open, Save, RestoreDone, Final, Killed,
                          ReadLine, LoseLines, vars
      <4>2. /\ exit = "ok" /\ out = <<>> /\ ~failed /\ ~error /\ spc = "idle"
            /\ cli = "closed"
        BY <4>1 DEF CompleteInv, PlaceInv
      <4>3. UNCHANGED vars \/ CallStep
        BY <1>2, <3>2, <4>2 DEF Next, Startup, SingleDone, BackupDone, NextGroup, LoadDone,
                          Sync, Recovered, Resync, Open, Save, RestoreDone, Final, Killed,
                          ReadLine, LoseLines
      <4>4. UNCHANGED <<exit, out, failed, error>>
        BY <4>3 DEF vars, CallStep
      <4> QED
        BY <4>2, <4>4
    <3> QED
      BY <3>1, <3>2
  <2>3. CASE Trouble'
    BY <2>1, <2>2, <2>3 DEF CompleteInv
  <2>4. CASE ~Trouble'
    <3>1. ~Trouble
      BY <1>2, <2>4, TroubleStays
    <3>2. /\ spc' \in Between => group' = <<>>
          /\ action' = "convert" /\ (spc' = "final" \/ exit' = "ok") => Waiting' = {}
      BY <1>2, <2>4, <3>1, BetweenStep
    <3>3. UNCHANGED <<action, requested>>
      BY <1>2 DEF Next, Startup, CallStep, SingleDone, BackupDone, NextGroup, LoadDone, Sync,
                  Recovered, Resync, Open, Save, RestoreDone, Final, Killed, ReadLine,
                  LoseLines, Reply, vars
    <3>4. action = "convert" =>
            \A f \in Range(requested) :
              f \notin Spaced => f \in imported \cup Waiting \/ Told(f) \in Range(out)
      BY <3>1 DEF CompleteInv
    <3>5. action' = "convert" =>
            \A f \in Range(requested') :
              f \notin Spaced => f \in imported' \cup Waiting' \/ Told(f) \in Range(out')
      BY <1>2, <2>4, <3>1, <3>3, <3>4, WaitingStays
    <3> QED
      BY <2>1, <2>2, <3>2, <3>5 DEF CompleteInv, Between
  <2> QED
    BY <2>3, <2>4
<1> QED
  BY <1>1, <1>2

----------------------------------------------------------------------------
(* The theorems                                                            *)

LEMMA ConvertInit == Init => TypeInv /\ GroupInv /\ ConvertInv
<1> SUFFICES ASSUME Init PROVE TypeInv /\ GroupInv /\ ConvertInv
  OBVIOUS
<1>1. /\ spc = "idle" /\ action = "none" /\ result = "none" /\ writing = NoFile
      /\ requested = <<>> /\ todo = <<>> /\ group = <<>> /\ out = <<>> /\ imported = {}
  BY DEF Init
<1>2. Range(todo) = {} /\ Range(group) = {} /\ Range(requested) = {} /\ DOMAIN out = {}
  BY <1>1 DEF Range
<1>3. GroupInv
  BY <1>1 DEF GroupInv
<1>4. KnownInv /\ OnceInv /\ RightInv /\ FitInv /\ CompleteInv
  BY <1>1, <1>2 DEF KnownInv, OnceInv, RightInv, FitInv, CompleteInv, Waiting
<1> QED
  BY <1>3, <1>4, TypeInit DEF ConvertInv

\* The invariants together.
Whole == IInv /\ GiveUpInv /\ TypeInv /\ GroupInv /\ ConvertInv

LEMMA WholeStep == Whole /\ [Next]_vars => Whole'
<1> SUFFICES ASSUME Whole, [Next]_vars PROVE Whole'
  OBVIOUS
<1>1. IInv' /\ GiveUpInv' /\ TypeInv'
  BY NextIInv, NextGiveUpInv, TypeStep DEF Whole
<1>2. PlaceInv /\ CallInv /\ BackupInv
  BY DEF Whole, IInv
<1>3. GroupInv'
  BY <1>2, GroupStep DEF Whole
<1>4. KnownInv' /\ OnceInv' /\ RightInv'
  BY <1>2, KeptStep DEF Whole, ConvertInv
<1>5. FitInv'
  BY <1>2, FitStep DEF Whole, ConvertInv
<1>6. CompleteInv'
  BY <1>2, CompleteStep DEF Whole, ConvertInv
<1> QED
  BY <1>1, <1>3, <1>4, <1>5, <1>6 DEF Whole, ConvertInv

\* What is imported for a file is what the device made of the files of its set
\* up to it, whatever failed, was killed, or was converted before.
THEOREM ImportIsRight == Spec => []ImportedRight
<1>1. Init => Whole
  BY InitIInv, ConvertInit DEF Whole, GiveUpInv, Init, D!Init
<1>2. Whole => ImportedRight
  <2> SUFFICES ASSUME Whole, NEW f \in imported, OwnState(f), Together(f)
               PROVE  states[StateOf[f]] = Converted(f)
    BY DEF ImportedRight
  <2>1. f \in Range(requested)
    BY DEF Whole, ConvertInv, KnownInv
  <2> QED
    BY <2>1 DEF Whole, ConvertInv, RightInv
<1> QED
  BY <1>1, <1>2, WholeStep, PTL DEF Spec

\* Success is reported only when each file that was asked for, and whose line is
\* recognised, has become a state, and that state is whole and of this action:
\* what the file makes, or another that goes to the same state.  The exit status
\* alone does not tell.
THEOREM SuccessIsComplete == Spec => []SuccessComplete
<1>1. Init => Whole
  BY InitIInv, ConvertInit DEF Whole, GiveUpInv, Init, D!Init
<1>2. Whole => SuccessComplete
  <2> SUFFICES ASSUME Whole, action = "convert", result = "success", ~lost,
                      NEW i \in DOMAIN requested, requested[i] \notin Spaced
               PROVE  /\ requested[i] \in imported
                      /\ (\A j \in DOMAIN requested :
                            StateOf[requested[j]] = StateOf[requested[i]]
                              => Together(requested[j]))
                         => Made(StateOf[requested[i]])
    BY DEF SuccessComplete
  <2>1. exit = "ok" /\ out = <<>> /\ ~failed /\ ~error
    BY DEF Whole, ConvertInv, CompleteInv
  <2>2. DOMAIN out = {} /\ Range(out) = {}
    BY <2>1 DEF Range
  <2>3. ~Trouble
    BY <2>1, <2>2 DEF Trouble
  <2>4. Waiting = {} /\ requested[i] \in Range(requested)
    BY <2>1, <2>3 DEF Whole, ConvertInv, CompleteInv, Range
  <2>5. requested[i] \in imported
    BY <2>2, <2>3, <2>4 DEF Whole, ConvertInv, CompleteInv
  <2>6. \A s : writing # <<"states", s>>
    <3>1. spc = "idle"
      BY <2>1 DEF Whole, IInv, PlaceInv
    <3> QED
      BY <3>1 DEF Whole, ConvertInv, KnownInv, NoFile
  <2>7. ASSUME Unsplit(StateOf[requested[i]])
        PROVE  Made(StateOf[requested[i]])
    <3>1. PICK f \in Range(requested) : f = requested[i] /\ f \in imported
      BY <2>4, <2>5
    <3>2. Fit(StateOf[f], states[StateOf[f]])
      BY <2>1, <2>6, <2>7, <3>1 DEF Whole, ConvertInv, FitInv
    <3> QED
      BY <3>1, <3>2 DEF Fit, Made
  <2> QED
    BY <2>5, <2>7 DEF Unsplit
<1> QED
  BY <1>1, <1>2, WholeStep, PTL DEF Spec
=============================================================================
