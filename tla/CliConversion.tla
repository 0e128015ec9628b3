---------------------------- MODULE CliConversion -----------------------------
(***************************************************************************)
(* The scripts that work with the device's own CLI, and the actions that   *)
(* start them: import-convert-cli-files (cli2netconf.py, config_op.py),    *)
(* save-default-config and load-default-config (common_op.py).  A script   *)
(* uses the device through Devcli, and NSO to read back what the device    *)
(* has made of a file.  The action reads its output while it runs and      *)
(* moves each converted file to the state store as soon as it is told of.  *)
(***************************************************************************)
EXTENDS Sequences, Naturals, FiniteSets

CONSTANTS
  Files, Half, NoConfig,
  SetOf,     (* file names are set:index.ext; ":index" may be missing       *)
  IndexOf,   (* .. and is 0 then                                            *)
  BadNames,  (* file names of another form                                  *)
  Spaced,    (* files with a space in their path, or that of the result     *)
  States,    (* names of states                                             *)
  StateOf,   (* the name of a file without directory and extension          *)
  Plans,     (* the actions that are asked for, one after another           *)
  Requests,  (* the files to convert at a time, in the order of their names *)
  Lossy      (* output left in the pipe when the script exits is lost       *)

Actions == {"convert", "save-default", "load-default"}

ASSUME CliConversionAssumption ==
  /\ Half \notin Files
  /\ BadNames \subseteq Files /\ Spaced \subseteq Files
  /\ IndexOf \in [Files -> Nat]
  /\ StateOf \in [Files -> States]
  /\ DOMAIN SetOf = Files
  /\ Plans \subseteq Seq(Actions)
  /\ Requests \subseteq Seq(Files)
  /\ Lossy \in BOOLEAN

VARIABLES
  device, kept, call, cli, tries, raised,   \* Devcli
  plan,      \* actions still to be asked for
  action,    \* the action in progress
  spc,       \* where its script is
  requested, \* the files it converts
  todo,      \* files whose groups have not begun
  group,     \* files of the group in progress
  pending,   \* the exception being handled by group_cli2netconf()
  nso,       \* the device configuration in NSO
  work,      \* the files in the directory drned-ncs
  writing,   \* the file that is open for writing: <<directory, state>>
  states,    \* the state files
  out,       \* lines of output not read yet
  exit,      \* exit status of the script
  failed,    \* filter.failures is not empty
  error,     \* filter.devcli_error is set
  result,    \* of the action
  begun,     \* history: configuration of the device when the script began
  default,   \* history: what the last save-default-config has saved, if done
  imported,  \* history: files whose state was moved to the store
  gave_up,   \* history: a critical exception, or the device is not restored
  lost       \* history: output was lost

dvars   == <<device, kept, call, cli, tries, raised>>
files   == <<nso, work, writing>>
filter  == <<states, failed, error, imported>>
history == <<begun, default, gave_up>>
vars    == <<dvars, plan, action, requested, spc, todo, group, pending, files, out, exit,
             filter, result, history, lost>>

D == INSTANCE Devcli

SPC == {"idle", "start", "backup", "group", "load", "sync", "recover", "resync",
        "save", "saving", "restore", "final", "single"}
Line == [type : {"converted"}, file : Files] \cup
        [type : {"format", "failed", "restore_failed", "fatal"}]
NoFile == <<>>

TypeOK ==
  /\ D!TypeOK
  /\ plan \in Seq(Actions)
  /\ action \in Actions \cup {"none"}
  /\ spc \in SPC
  /\ {requested, todo, group} \subseteq Seq(Files)
  /\ pending \in D!Exceptions \cup {"none"}
  /\ nso \in D!Config
  /\ {work, states} \subseteq [States -> D!Config \cup {NoConfig}]
  /\ writing \in {NoFile} \cup ({"work", "states"} \X States)
  /\ out \in Seq(Line)
  /\ exit \in {"none", "ok", "failed"}
  /\ {failed, error, gave_up, lost} \subseteq BOOLEAN
  /\ result \in {"none", "success", "failure"}
  /\ begun \in D!Config
  /\ default \in D!Config \cup {NoConfig}
  /\ imported \subseteq Files

\* The default configuration is on the device from earlier, or not.
Init ==
  /\ D!Init
  /\ plan \in Plans
  /\ action = "none" /\ spc = "idle"
  /\ requested = <<>> /\ todo = <<>> /\ group = <<>>
  /\ pending = "none"
  /\ nso = <<>>
  /\ work = [s \in States |-> NoConfig] /\ states = work
  /\ writing = NoFile
  /\ out = <<>> /\ exit = "none"
  /\ failed = FALSE /\ error = FALSE
  /\ result = "none"
  /\ begun = <<>> /\ default = NoConfig
  /\ imported = {} /\ gave_up = FALSE /\ lost = FALSE

----------------------------------------------------------------------------
(* The order of the files                                                  *)

\* The positions of the files whose names are understood.
Understood(q) == {i \in DOMAIN q : q[i] \notin BadNames}

\* Of the positions in S, those up to i when they are ordered by index.
UpTo(q, S, i) == {j \in S : \/ IndexOf[q[j]] < IndexOf[q[i]]
                            \/ IndexOf[q[j]] = IndexOf[q[i]] /\ j <= i}

\* sorted(key=index), a stable sort, of the files at the positions in S
Sorted(q, S) ==
  [k \in 1..Cardinality(S) |-> q[CHOOSE i \in S : Cardinality(UpTo(q, S, i)) = k]]

\* Mutant: the files of a group are taken in the order of their names.
ByName(q) == SelectSeq(q, LAMBDA f : f \notin BadNames)

\* The files of a group as they are loaded.
ByIndex(q) == Sorted(q, Understood(q))

\* itertools.groupby(): the files up to the next one of another set.
FirstGroup(q) ==
  LET fits(n) == \A i, j \in 1..n : {q[i], q[j]} \cap BadNames = {}
                                      => SetOf[q[i]] = SetOf[q[j]]
  IN SubSeq(q, 1, CHOOSE n \in 1..Len(q) :
                    fits(n) /\ (n = Len(q) \/ ~fits(n + 1)))

----------------------------------------------------------------------------
(* The script                                                              *)

Text(type) == [type |-> type]
Say(lines) == out' = out \o lines

\* The script starts: the driver is loaded, the device's node in NSO found.
Begin ==
  /\ spc = "idle" /\ out = <<>> /\ plan # <<>>
  /\ action = "none" \/ result # "none"
  /\ action' = Head(plan) /\ plan' = Tail(plan)
  /\ spc' = "start"
  /\ IF action' = "convert" THEN requested' \in Requests ELSE requested' = <<>>
  /\ todo' = requested'
  /\ group' = <<>> /\ pending' = "none"
  /\ exit' = "none" /\ result' = "none"
  /\ failed' = FALSE /\ error' = FALSE /\ imported' = {}
  /\ begun' = device /\ gave_up' = FALSE /\ lost' = FALSE
  /\ default' = IF action' = "save-default" THEN NoConfig ELSE default
  /\ UNCHANGED <<dvars, files, out, states>>

\* What is printed when an exception ends the script: nothing the action
\* knows, "failed to authenticate", "device communication failure: .." with
\* or without a known reason, or a traceback.
LastWords(exception) ==
  LET caught == action = "convert" \/ (action = "load-default" /\ spc # "start")
  IN IF caught /\ exception = "devcli" THEN {<<>>}
     ELSE IF caught /\ exception = "device" THEN {<<>>, <<Text("fatal")>>}
     ELSE {<<Text("fatal")>>}

\* The exception leaves the script.
Die(exception, lines) ==
  /\ \E words \in LastWords(exception) : Say(lines \o words)
  /\ exit' = "failed"
  /\ spc' = "idle"

Startup ==
  /\ spc = "start"
  /\ \/ /\ spc' = IF action = "convert" THEN "backup" ELSE "single"
        /\ IF action = "convert" THEN D!Start("save", "drned-backup")
           ELSE IF action = "save-default" THEN D!Start("save", "drned-init")
           ELSE D!Start("restore", "drned-init")
        /\ UNCHANGED <<out, exit>>
     \/ /\ \E exception \in {"devcli", "other", "interrupt"} : Die(exception, <<>>)
        /\ UNCHANGED dvars
  /\ UNCHANGED <<plan, action, requested, todo, group, pending, files, filter, result,
                 history, lost>>

\* The device is busy with a call.
CallStep ==
  /\ D!Step
  /\ gave_up' = (gave_up \/ raised' \in {"auth", "device"})
  /\ UNCHANGED <<plan, action, requested, spc, todo, group, pending, files, out, exit,
                 filter, result, begun, default, lost>>

Returned == cli = "closed"

\* The default configuration is saved, or restored.
SingleDone ==
  /\ spc = "single" /\ Returned
  /\ IF raised # "none" THEN Die(raised, <<>>)
     ELSE IF action = "load-default" THEN spc' = "final" /\ UNCHANGED <<out, exit>>
     ELSE spc' = "idle" /\ exit' = "ok" /\ UNCHANGED out
  /\ default' = IF raised = "none" /\ action = "save-default" THEN device ELSE default
  /\ UNCHANGED <<dvars, plan, action, requested, todo, group, pending, files, filter,
                 result, begun, gave_up, lost>>

BackupDone ==
  /\ spc = "backup" /\ Returned
  /\ IF raised # "none" THEN Die(raised, <<>>)
     ELSE spc' = "group" /\ UNCHANGED <<out, exit>>
  /\ UNCHANGED <<dvars, plan, action, requested, todo, group, pending, files, filter,
                 result, history, lost>>

\* The next group, and its first file; or no more groups.
NextGroup ==
  /\ spc = "group"
  /\ IF todo = <<>>
     THEN spc' = "final" /\ UNCHANGED <<dvars, todo, group, out>>
     ELSE LET q == FirstGroup(todo)
              g == ByIndex(q)
          IN /\ todo' = SubSeq(todo, Len(q) + 1, Len(todo))
             /\ group' = g
             /\ Say([i \in 1..(Len(q) - Len(g)) |-> Text("format")])
             /\ IF g = <<>> THEN UNCHANGED <<spc, dvars>>
                ELSE spc' = "load" /\ D!Start("load", Head(g))
  /\ UNCHANGED <<plan, action, requested, pending, files, exit, filter, result, history, lost>>

\* The backup is restored, after a group.
Restore(lines) ==
  /\ Say(lines)
  /\ spc' = "restore"
  /\ D!Start("restore", "drned-backup")
  /\ UNCHANGED exit

\* Mutant: the subclasses of DevcliException are caught with it.
GroupFailsAny(exception) ==
  IF exception \in {"devcli", "auth", "device"} THEN Restore(<<Text("failed")>>)
  ELSE Die(exception, <<>>) /\ UNCHANGED dvars

\* "these are critical - don't try to recover"
GroupFails(exception) ==
  IF exception = "devcli" THEN Restore(<<Text("failed")>>)
  ELSE Die(exception, <<>>) /\ UNCHANGED dvars

LoadDone ==
  /\ spc = "load" /\ Returned
  /\ IF raised # "none" THEN GroupFails(raised)
     ELSE spc' = "sync" /\ UNCHANGED <<dvars, out, exit>>
  /\ UNCHANGED <<plan, action, requested, todo, group, pending, files, filter, result,
                 history, lost>>

\* sync_from(); "except BaseException: restore, sync, raise".
Sync ==
  /\ spc = "sync"
  /\ \/ nso' = device /\ spc' = "save" /\ UNCHANGED <<dvars, pending>>
     \/ /\ pending' \in {"devcli", "other", "interrupt"}
        /\ spc' = "recover"
        /\ D!Start("restore", "drned-backup")
        /\ UNCHANGED nso
  /\ UNCHANGED <<plan, action, requested, todo, group, work, writing, out, exit, filter,
                 result, history, lost>>

Recovered ==
  /\ spc = "recover" /\ Returned
  /\ IF raised # "none" THEN GroupFails(raised)
     ELSE spc' = "resync" /\ UNCHANGED <<dvars, out, exit>>
  /\ UNCHANGED <<plan, action, requested, todo, group, pending, files, filter, result,
                 history, lost>>

Resync ==
  /\ spc = "resync"
  /\ \/ nso' = device /\ GroupFails(pending)
     \/ /\ UNCHANGED nso
        /\ \E exception \in {"devcli", "other", "interrupt"} : GroupFails(exception)
  /\ UNCHANGED <<plan, action, requested, todo, group, pending, work, writing, filter,
                 result, history, lost>>

\* device.save(): the target is opened and cut, or cannot be opened ..
Open ==
  /\ spc = "save"
  /\ \/ /\ LET s == StateOf[Head(group)]
           IN /\ work' = [work EXCEPT ![s] = <<Half>>]
              /\ writing' = <<"work", s>>
        /\ spc' = "saving"
        /\ UNCHANGED <<out, exit>>
     \/ /\ \E exception \in {"other", "interrupt"} : Die(exception, <<>>)
        /\ UNCHANGED <<work, writing>>
  /\ UNCHANGED <<dvars, plan, action, requested, todo, group, pending, nso, filter, result,
                 history, lost>>

\* .. and written to, wherever it has been moved.  The next file of the group
\* is loaded on top of this one, or the device is restored.
Save ==
  /\ spc = "saving"
  /\ writing' = NoFile
  /\ \/ /\ IF writing[1] = "work"
           THEN work' = [work EXCEPT ![writing[2]] = nso] /\ UNCHANGED states
           ELSE states' = [states EXCEPT ![writing[2]] = nso] /\ UNCHANGED work
        /\ group' = Tail(group)
        /\ LET told == <<[type |-> "converted", file |-> Head(group)]>>
           IN IF group' = <<>> THEN Restore(told)
              ELSE /\ Say(told)
                   /\ spc' = "load"
                   /\ D!Start("load", Head(group'))
                   /\ UNCHANGED exit
     \/ /\ \E exception \in {"other", "interrupt"} : Die(exception, <<>>)
        /\ UNCHANGED <<dvars, group, work, states>>
  /\ UNCHANGED <<plan, action, requested, todo, pending, nso, failed, error, imported,
                 result, history, lost>>

\* Mutant: the failure to restore the device is only reported.
RestoreDoneAnyhow ==
  /\ spc = "restore" /\ Returned
  /\ IF raised \in {"none", "devcli"} THEN spc' = "group" /\ UNCHANGED <<out, exit>>
     ELSE Die(raised, <<>>)
  /\ gave_up' = (gave_up \/ raised # "none")
  /\ UNCHANGED <<dvars, plan, action, requested, todo, group, pending, files, filter,
                 result, begun, default, lost>>

\* "this is serious, the device is left configured somehow"
RestoreDone ==
  /\ spc = "restore" /\ Returned
  /\ IF raised = "none" THEN spc' = "group" /\ UNCHANGED <<out, exit>>
     ELSE Die(raised, IF raised \in {"devcli", "auth", "device"}
                      THEN <<Text("restore_failed")>> ELSE <<>>)
  /\ gave_up' = (gave_up \/ raised # "none")
  /\ UNCHANGED <<dvars, plan, action, requested, todo, group, pending, files, filter,
                 result, begun, default, lost>>

\* The last sync_from().
Final ==
  /\ spc = "final"
  /\ \/ nso' = device /\ spc' = "idle" /\ exit' = "ok" /\ UNCHANGED out
     \/ /\ \E exception \in {"devcli", "other", "interrupt"} : Die(exception, <<>>)
        /\ UNCHANGED nso
  /\ UNCHANGED <<dvars, plan, action, requested, todo, group, pending, work, writing,
                 filter, result, history, lost>>

\* After an abort or a silence timeout, when SIGINT does not help.
Killed ==
  /\ spc # "idle"
  /\ spc' = "idle" /\ exit' = "failed"
  /\ D!Return("interrupt")
  /\ writing' = NoFile
  /\ UNCHANGED <<device, kept, plan, action, requested, todo, group, pending, nso, work,
                 out, filter, result, history, lost>>

----------------------------------------------------------------------------
(* The action                                                              *)

\* complete_import()
CompleteImport(f) ==
  LET s == StateOf[f]
  IN IF work[s] # NoConfig
     THEN /\ states' = [states EXCEPT ![s] = work[s]]
          /\ work' = [work EXCEPT ![s] = NoConfig]
          /\ writing' = IF writing = <<"work", s>> THEN <<"states", s>> ELSE writing
          /\ imported' = imported \cup {f}
          /\ UNCHANGED failed
     ELSE /\ failed' = TRUE
          /\ UNCHANGED <<states, work, writing, imported>>

\* A line of output goes to ConvertMatch.match(), or DevcliLogMatch.match().  In
\* a "converted" line the pattern has "[^ ]*" for either path: the line is none
\* that it knows when there is a space in one of them.
ReadLine ==
  /\ out # <<>>
  /\ out' = Tail(out)
  /\ LET line == Head(out)
     IN \/ /\ line.type = "converted" /\ line.file \notin Spaced
           /\ CompleteImport(line.file)
           /\ UNCHANGED error
        \/ /\ line.type = "converted" /\ line.file \in Spaced
           /\ UNCHANGED <<states, work, writing, imported, failed, error>>
        \/ /\ line.type = "fatal"
           /\ error' = TRUE
           /\ UNCHANGED <<states, work, writing, imported, failed>>
        \/ /\ line.type \in {"format", "failed", "restore_failed"}
           /\ failed' = TRUE
           /\ UNCHANGED <<states, work, writing, imported, error>>
  /\ UNCHANGED <<dvars, plan, action, requested, spc, todo, group, pending, nso, exit,
                 result, history, lost>>

LoseLines ==
  /\ Lossy
  /\ exit # "none" /\ out # <<>>
  /\ out' = <<>>
  /\ lost' = TRUE
  /\ UNCHANGED <<dvars, plan, action, requested, spc, todo, group, pending, files, exit,
                 filter, result, history>>

\* Mutant: a group that failed does not matter if others did not.
ReplyByStatus ==
  /\ exit # "none" /\ out = <<>> /\ result = "none"
  /\ result' = IF error \/ exit # "ok" THEN "failure" ELSE "success"
  /\ UNCHANGED <<dvars, plan, action, requested, spc, todo, group, pending, files, out,
                 exit, filter, history, lost>>

\* The result of perform(); ActionError counts as a failure.
Reply ==
  /\ exit # "none" /\ out = <<>> /\ result = "none"
  /\ result' = IF error \/ failed \/ exit # "ok" THEN "failure" ELSE "success"
  /\ UNCHANGED <<dvars, plan, action, requested, spc, todo, group, pending, files, out,
                 exit, filter, history, lost>>

Next ==
  \/ Begin \/ Startup \/ CallStep \/ SingleDone \/ BackupDone \/ NextGroup
  \/ LoadDone \/ Sync \/ Recovered \/ Resync \/ Open \/ Save \/ RestoreDone
  \/ Final \/ Killed \/ ReadLine \/ LoseLines \/ Reply

Spec == Init /\ [][Next]_vars

----------------------------------------------------------------------------
(* Properties                                                              *)

\* A script that ends well has left the device in a known configuration, and
\* NSO knows it, whatever failed on the way: a conversion, in the one it found;
\* load-default-config, in the one that was last saved as the default, though
\* conversions have saved theirs meanwhile.
DeviceRestored ==
  exit = "ok" =>
    /\ action = "convert" => device = begun /\ nso = begun
    /\ action = "load-default" /\ default # NoConfig
         => device = default /\ nso = default

\* What the file at position i is to be converted to: the initial configuration
\* with the files of its set up to this one, by index, on top of one another.
ConvertedAt(i) ==
  LET set == {j \in Understood(requested) : SetOf[requested[j]] = SetOf[requested[i]]}
  IN begun \o Sorted(requested, UpTo(requested, set, i))

Converted(f) == ConvertedAt(CHOOSE i \in DOMAIN requested : requested[i] = f)

\* Nothing else is converted to the state of the file ..
OwnState(f) == \A i, j \in DOMAIN requested :
                 StateOf[requested[i]] = StateOf[f] /\ StateOf[requested[j]] = StateOf[f]
                   => i = j

\* .. and no file of another set comes between two of its set, by name.
Together(f) == \A i, j, k \in Understood(requested) :
                 i <= j /\ j <= k /\ SetOf[requested[i]] = SetOf[f]
                                  /\ SetOf[requested[k]] = SetOf[f]
                   => SetOf[requested[j]] = SetOf[f]

\* A state is imported from what the device made of its own file and of the
\* files of the same set before it, and nothing of another group or of a failed
\* attempt is in it, unless two files are converted to that state, or the set
\* is split.
ImportedRight ==
  \A f \in imported : OwnState(f) /\ Together(f) => states[StateOf[f]] = Converted(f)

\* The state has been made of one of the files that are converted to it.
Made(s) == \E i \in Understood(requested) :
             StateOf[requested[i]] = s /\ states[s] = ConvertedAt(i)

\* Success means that each file has become a state, though the script exits
\* with 0 when groups failed, and that the state is a whole conversion of this
\* action: where several files are converted to one state, by name, it may be
\* that of another of them, but no part of one and nothing that was left behind.
\* Not so a file with a space in its path, or any if the run directory has one:
\* it is converted, the action does not hear of it, and reports success.
SuccessComplete ==
  action = "convert" /\ result = "success" /\ ~lost
    => \A i \in DOMAIN requested : requested[i] \notin Spaced
         => /\ requested[i] \in imported
            /\ (\A j \in DOMAIN requested :
                  StateOf[requested[j]] = StateOf[requested[i]] => Together(requested[j]))
               => Made(StateOf[requested[i]])

\* Once the device does not answer, or could not be restored, the script leaves
\* it alone: no other group is loaded, no recovery is tried.
GivesUp == [][gave_up /\ gave_up' => cli' = "closed"]_vars
=============================================================================
