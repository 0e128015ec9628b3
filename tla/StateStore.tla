----------------------------- MODULE StateStore -----------------------------
(***************************************************************************)
(* The directory of device states: the files of XmnrBase (base_op.py) and  *)
(* the operations of config_op.py that change them.  A state is a file     *)
(* with one of four extensions; next to it are `.load', the metadata that  *)
(* makes DrNED load it in override mode, and `.disabled', the flag that    *)
(* makes walk and explore skip it.                                         *)
(*                                                                         *)
(* Every system call on the directory is a step.  Sessions run their       *)
(* operations concurrently: nothing locks the directory.  An operation may *)
(* fail at any call that can, and the Python VM may be restarted (crash).  *)
(***************************************************************************)
EXTENDS Naturals, Sequences, FiniteSets, Functions, TLC

CONSTANTS
  Names,      (* state names                                                *)
  Sessions,   (* user sessions                                              *)
  Given,      (* the sets of state files there may be at first              *)
  Recorded,   (* the states one record-state writes: n, n-1, ...            *)
  Imported,   (* the states that the files of one import map to             *)
  Kinds,      (* the operations that are asked for                          *)
  MaxOps      (* bound: operations asked for in a behaviour                 *)

\* In the order of state_name_to_existing_filename().
StateSuffixes == <<".state.xml", ".xml", ".state.cfg", ".cfg">>
File     == Names \X Range(StateSuffixes)
OwnFile  == Names \X {".state.xml", ".state.cfg"}
Name(f)  == f[1]

AllKinds == {"delete", "disable", "enable", "record", "import", "convert"}
Writers  == {"record", "import", "convert"}

ASSUME StateStoreAssumption ==
  /\ Given \subseteq SUBSET File
  /\ \A g \in Given : \A f1, f2 \in g : Name(f1) = Name(f2) => f1 = f2
  /\ Recorded \cup Imported \subseteq Seq(Names)
  /\ Kinds \subseteq AllKinds
  /\ MaxOps \in Nat

VARIABLES
  content,   \* of a file: "none", "partial" (created, not complete), "whole"
  meta,      \* files with a .load file
  flag,      \* files with a .disabled file
  pc,        \* where the operation of a session is
  op,        \* its parameters
  files,     \* files an operation on existing states has still to process
  names,     \* states a writing operation has still to write
  conflicts, \* ImportOp.verify_filenames(): the states that were there
  cur,       \* the file being removed or written
  asked,     \* number of operations asked for
  suspect    \* history: names to which one of the listed mishaps occurred

store == <<content, meta, flag>>
local == <<files, names, conflicts, cur>>
vars  == <<store, pc, op, local, asked, suspect>>

NoFile == <<>>
PC == {"idle", "next", "remove", "rm_meta", "rm_flag", "touch", "unlink",
       "load", "open", "save", "write_meta"}

TypeOK ==
  /\ content \in [File -> {"none", "partial", "whole"}]
  /\ meta \subseteq File
  /\ flag \subseteq File
  /\ pc \in [Sessions -> PC]
  /\ op \in [Sessions -> [kind : AllKinds \cup {"none"}, overwrite : BOOLEAN,
                          skip : BOOLEAN, suffix : Range(StateSuffixes),
                          scope : SUBSET Names]]
  /\ files \in [Sessions -> SUBSET File]
  /\ names \in [Sessions -> Seq(Names)]
  /\ conflicts \in [Sessions -> SUBSET Names]
  /\ cur \in [Sessions -> File \cup {NoFile}]
  /\ asked \in 0..MaxOps
  /\ suspect \subseteq Names

NoOp == [kind |-> "none", overwrite |-> FALSE, skip |-> FALSE,
         suffix |-> ".state.xml", scope |-> {}]

\* States recorded earlier, some of them disabled, or put there by the user.
Init ==
  /\ \E g \in Given :
       /\ content = [f \in File |-> IF f \in g THEN "whole" ELSE "none"]
       /\ meta = g \cap OwnFile
       /\ flag \in SUBSET g
  /\ pc = [s \in Sessions |-> "idle"]
  /\ op = [s \in Sessions |-> NoOp]
  /\ files = [s \in Sessions |-> {}]
  /\ names = [s \in Sessions |-> <<>>]
  /\ conflicts = [s \in Sessions |-> {}]
  /\ cur = [s \in Sessions |-> NoFile]
  /\ asked = 0
  /\ suspect = {}

----------------------------------------------------------------------------
(* XmnrBase: names and files                                               *)

Exists(f) == content[f] # "none"
FilesOf(n) == {f \in File : Name(f) = n /\ Exists(f)}

\* Mutant: only the files XMNR itself writes as XML are looked for.
ExistingXml(n) ==
  IF Exists(<<n, ".state.xml">>) THEN <<n, ".state.xml">> ELSE NoFile

\* state_name_to_existing_filename(): the first of the extensions.
Existing(n) ==
  LET there == {i \in DOMAIN StateSuffixes : Exists(<<n, StateSuffixes[i]>>)}
  IN IF there = {} THEN NoFile
     ELSE <<n, StateSuffixes[CHOOSE i \in there : \A j \in there : i <= j]>>

\* Mutant: the pattern is matched against whatever is in the directory.
ListedWithFlags(pattern) ==
  {f \in File : Exists(f) /\ Name(f) \in pattern}
    \cup {<<f[1], ".disabled">> : f \in {g \in flag : Name(g) \in pattern}}

\* get_state_files_by_pattern(), the pattern being the names it matches: a
\* .cfg file is not listed when the .xml file of the same stem is there.
Hides == (".state.cfg" :> ".state.xml") @@ (".cfg" :> ".xml")
Listed(pattern) ==
  {f \in File : /\ Exists(f) /\ Name(f) \in pattern
                /\ f[2] \in DOMAIN Hides => ~Exists(<<f[1], Hides[f[2]]>>)}

----------------------------------------------------------------------------
(* An operation begins and ends                                            *)

\* Operations that may work on the same state at a time: enable-state with any
\* other, and deletions.
Harmless(k1, k2) == "enable" \in {k1, k2} \/ {k1, k2} = {"delete"}

\* The names that an operation of that kind should have left alone by now.
Busy(s, kind) ==
  UNION {op[t].scope : t \in {r \in Sessions \ {s} : ~Harmless(op[r].kind, kind)}}

Begin(s, o) ==
  /\ pc[s] = "idle"
  /\ asked < MaxOps
  /\ asked' = asked + 1
  /\ op' = [op EXCEPT ![s] = o]
  /\ suspect' = suspect \cup (o.scope \cap Busy(s, o.kind))

\* The operation replies, with success or failure.
Reply(s) ==
  /\ pc' = [pc EXCEPT ![s] = "idle"]
  /\ op' = [op EXCEPT ![s] = NoOp]
  /\ files' = [files EXCEPT ![s] = {}]
  /\ names' = [names EXCEPT ![s] = <<>>]
  /\ conflicts' = [conflicts EXCEPT ![s] = {}]
  /\ cur' = [cur EXCEPT ![s] = NoFile]

Goto(s, l) == pc' = [pc EXCEPT ![s] = l]

\* delete-state, disable-state, enable-state: get_state_filenames() for a name
\* or for a pattern; "no such states" is a failure without any effect.
BeginOnStates(s, kind) ==
  /\ kind \in Kinds \cap {"delete", "disable", "enable"}
  /\ \/ \E n \in Names :
          /\ Existing(n) # NoFile
          /\ Begin(s, [NoOp EXCEPT !.kind = kind, !.scope = {n}])
          /\ files' = [files EXCEPT ![s] = {Existing(n)}]
     \/ \E pattern \in SUBSET Names :
          /\ Listed(pattern) # {}
          /\ Begin(s, [NoOp EXCEPT !.kind = kind,
                                   !.scope = {Name(f) : f \in Listed(pattern)}])
          /\ files' = [files EXCEPT ![s] = Listed(pattern)]
  /\ Goto(s, "next")
  /\ UNCHANGED <<store, names, conflicts, cur>>

\* record-state, perhaps including rollbacks.
BeginRecord(s) ==
  /\ "record" \in Kinds
  /\ \E todo \in Recorded, overwrite \in BOOLEAN,
        suffix \in {".state.xml", ".state.cfg"} :
       /\ Begin(s, [kind |-> "record", overwrite |-> overwrite, skip |-> FALSE,
                    suffix |-> suffix, scope |-> Range(todo)])
       /\ names' = [names EXCEPT ![s] = todo]
  /\ Goto(s, "next")
  /\ UNCHANGED <<store, files, conflicts, cur>>

\* import-state-files and import-convert-cli-files: the states that are there,
\* and the states that are written: only the conversion drops the conflicting
\* ones, which it does here when it comes to them.
Conflicting(states) == {n \in Range(states) : Existing(n) # NoFile}
Written(kind, skip, states) ==
  IF kind = "convert" /\ skip THEN Range(states) \ Conflicting(states)
                              ELSE Range(states)

\* verify_filenames() fails when there are conflicts and no way to resolve them
\* is given.  The YANG model makes overwrite and skip-existing exclusive.  Two
\* files may map to one state.
BeginImport(s, kind) ==
  /\ kind \in Kinds \cap {"import", "convert"}
  /\ \E states \in Imported, overwrite, skip \in BOOLEAN,
        suffix \in {".state.xml", ".state.cfg"} :
       /\ ~(overwrite /\ skip)
       /\ Conflicting(states) = {} \/ overwrite \/ skip
       /\ Written(kind, skip, states) # {}
       /\ kind = "convert" => suffix = ".state.xml"
       /\ Begin(s, [kind |-> kind, overwrite |-> overwrite, skip |-> skip,
                    suffix |-> suffix, scope |-> Written(kind, skip, states)])
       /\ names' = [names EXCEPT ![s] = states]
       /\ conflicts' = [conflicts EXCEPT ![s] = Conflicting(states)]
  /\ Goto(s, "next")
  /\ UNCHANGED <<store, files, cur>>

----------------------------------------------------------------------------
(* remove_state_file(cur), for delete-state and for overwriting            *)

\* os.remove() of the state; if it is gone by now, the operation fails.
Remove(s) ==
  /\ pc[s] = "remove"
  /\ \/ /\ Exists(cur[s])
        /\ content' = [content EXCEPT ![cur[s]] = "none"]
        /\ Goto(s, "rm_meta")
        /\ UNCHANGED <<op, local>>
     \/ Reply(s) /\ UNCHANGED content
  /\ UNCHANGED <<meta, flag, asked, suspect>>

RemoveMeta(s) ==
  /\ pc[s] = "rm_meta"
  /\ meta' = meta \ {cur[s]}
  /\ Goto(s, "rm_flag")
  /\ UNCHANGED <<content, flag, op, local, asked, suspect>>

\* Mutant: the flag of a removed state is left behind.
KeepFlag(s) ==
  /\ pc[s] = "rm_flag"
  /\ Goto(s, IF op[s].kind = "delete" THEN "next"
             ELSE IF op[s].kind = "record" THEN "open" ELSE "load")
  /\ UNCHANGED <<store, op, local, asked, suspect>>

RemoveFlag(s) ==
  /\ pc[s] = "rm_flag"
  /\ flag' = flag \ {cur[s]}
  /\ Goto(s, IF op[s].kind = "delete" THEN "next"
             ELSE IF op[s].kind = "record" THEN "open" ELSE "load")
  /\ UNCHANGED <<content, meta, op, local, asked, suspect>>

----------------------------------------------------------------------------
(* delete-state, disable-state and enable-state, one file after another    *)

NextFile(s) ==
  /\ pc[s] = "next"
  /\ op[s].kind \notin Writers
  /\ \/ files[s] = {} /\ Reply(s)
     \/ \E f \in files[s] :
          /\ files' = [files EXCEPT ![s] = @ \ {f}]
          /\ cur' = [cur EXCEPT ![s] = f]
          /\ Goto(s, IF op[s].kind = "delete" THEN "remove"
                     ELSE IF op[s].kind = "disable" THEN "touch" ELSE "unlink")
          /\ UNCHANGED <<op, names, conflicts>>
  /\ UNCHANGED <<store, asked, suspect>>

\* Whether the state is still there is not looked at.
Touch(s) ==
  /\ pc[s] = "touch"
  /\ \/ /\ flag' = flag \cup {cur[s]}
        /\ Goto(s, "next")
        /\ UNCHANGED <<op, local>>
     \/ Reply(s) /\ UNCHANGED flag
  /\ UNCHANGED <<content, meta, asked, suspect>>

Unlink(s) ==
  /\ pc[s] = "unlink"
  /\ \/ /\ flag' = flag \ {cur[s]}
        /\ Goto(s, "next")
        /\ UNCHANGED <<op, local>>
     \/ Reply(s) /\ UNCHANGED flag
  /\ UNCHANGED <<content, meta, asked, suspect>>

----------------------------------------------------------------------------
(* record-state and the imports, one state after another                   *)

\* The file that has to be removed before the state is written.
InTheWay(s, n) ==
  IF \/ op[s].kind = "record"
     \/ op[s].kind = "import" /\ n \in conflicts[s] /\ op[s].overwrite
  THEN Existing(n) ELSE NoFile

\* Mutant: record-state never finds that "state already exists".
RefusesImport(s, n) ==
  /\ op[s].kind = "import" /\ op[s].overwrite
  /\ n \in conflicts[s] /\ Existing(n) = NoFile

\* "state already exists", or the state to be overwritten has disappeared.
Refuses(s, n) ==
  \/ op[s].kind = "record" /\ ~op[s].overwrite /\ Existing(n) # NoFile
  \/ /\ op[s].kind = "import" /\ op[s].overwrite
     /\ n \in conflicts[s] /\ Existing(n) = NoFile

\* A state of a conversion that skips it.
Dropped(s, n) == op[s].kind = "convert" /\ op[s].skip /\ n \in conflicts[s]

NoMoreStates(s) ==
  /\ pc[s] = "next"
  /\ op[s].kind \in Writers
  /\ \/ names[s] = <<>>
     \/ names[s] # <<>> /\ Refuses(s, Head(names[s]))
     \/ op[s].kind = "record"  \* a rollback cannot be loaded
     \/ op[s].kind = "convert" \* DrNED's conversion ends early
  /\ Reply(s)
  /\ UNCHANGED <<store, asked, suspect>>

\* A state that is skipped, or cannot be converted, is left out.
NotConverted(s) ==
  /\ pc[s] = "next"
  /\ op[s].kind = "convert" /\ names[s] # <<>>
  /\ names' = [names EXCEPT ![s] = Tail(@)]
  /\ UNCHANGED <<store, pc, op, files, conflicts, cur, asked, suspect>>

NextState(s) ==
  LET n == Head(names[s])
  IN /\ pc[s] = "next"
     /\ op[s].kind \in Writers
     /\ names[s] # <<>>
     /\ ~Refuses(s, n) /\ ~Dropped(s, n)
     /\ IF InTheWay(s, n) # NoFile
        THEN cur' = [cur EXCEPT ![s] = InTheWay(s, n)] /\ Goto(s, "remove")
        ELSE Goto(s, IF op[s].kind = "import" THEN "load" ELSE "open")
             /\ UNCHANGED cur
     /\ UNCHANGED <<store, op, files, names, conflicts, asked, suspect>>

\* import_file() up to the point where the new state is in a temporary file.
Load(s) ==
  /\ pc[s] = "load"
  /\ \/ Goto(s, "open") /\ UNCHANGED <<op, local>>
     \/ Reply(s)
  /\ UNCHANGED <<store, asked, suspect>>

\* open(.., "wb"), or shutil.move() begins.  The mishap of an import that
\* writes next to another file of the state, or over a flagged one.
Open(s) ==
  LET n == Head(names[s])
      f == <<n, op[s].suffix>>
  IN /\ pc[s] = "open"
     /\ content' = [content EXCEPT ![f] = "partial"]
     /\ cur' = [cur EXCEPT ![s] = f]
     /\ suspect' = IF FilesOf(n) # {} /\ (op[s].skip \/ op[s].kind = "convert")
                   THEN suspect \cup {n} ELSE suspect
     /\ Goto(s, "save")
     /\ UNCHANGED <<meta, flag, op, files, names, conflicts, asked>>

\* save_config() and write(), or shutil.move(): done, or failed with an
\* incomplete file left.  What is written to a file that has been deleted
\* since it was opened is lost.
Save(s) ==
  /\ pc[s] = "save"
  /\ \/ /\ content' = [content EXCEPT ![cur[s]] =
                         IF Exists(cur[s]) THEN "whole" ELSE "none"]
        /\ Goto(s, "write_meta")
        /\ UNCHANGED <<op, local, suspect>>
     \/ /\ suspect' = suspect \cup {Name(cur[s])}
        /\ Reply(s)
        /\ UNCHANGED content
  /\ UNCHANGED <<meta, flag, asked>>

\* Mutant: the imports write no metadata.
WriteMetadataOfRecord(s) ==
  /\ pc[s] = "write_meta"
  /\ meta' = IF op[s].kind = "record" THEN meta \cup {cur[s]} ELSE meta
  /\ names' = [names EXCEPT ![s] = Tail(@)]
  /\ Goto(s, "next")
  /\ UNCHANGED <<content, flag, op, files, conflicts, cur, asked, suspect>>

\* The file is opened, or cannot be: then the state has no metadata.
WriteMetadata(s) ==
  /\ pc[s] = "write_meta"
  /\ \/ /\ meta' = meta \cup {cur[s]}
        /\ names' = [names EXCEPT ![s] = Tail(@)]
        /\ Goto(s, "next")
        /\ UNCHANGED <<op, files, conflicts, cur, suspect>>
     \/ /\ suspect' = suspect \cup {Name(cur[s])}
        /\ Reply(s)
        /\ UNCHANGED meta
  /\ UNCHANGED <<content, flag, asked>>

\* The Python VM is restarted: all operations in progress are gone.
Crash ==
  /\ \E s \in Sessions : pc[s] # "idle"
  /\ suspect' = suspect \cup UNION {op[s].scope : s \in Sessions}
  /\ pc' = [s \in Sessions |-> "idle"]
  /\ op' = [s \in Sessions |-> NoOp]
  /\ files' = [s \in Sessions |-> {}]
  /\ names' = [s \in Sessions |-> <<>>]
  /\ conflicts' = [s \in Sessions |-> {}]
  /\ cur' = [s \in Sessions |-> NoFile]
  /\ UNCHANGED <<store, asked>>

Step(s) ==
  \/ \E kind \in Kinds : BeginOnStates(s, kind) \/ BeginImport(s, kind)
  \/ BeginRecord(s)
  \/ NextFile(s) \/ NoMoreStates(s) \/ NotConverted(s) \/ NextState(s)
  \/ Remove(s) \/ RemoveMeta(s) \/ RemoveFlag(s)
  \/ Touch(s) \/ Unlink(s) \/ Load(s) \/ Open(s) \/ Save(s) \/ WriteMetadata(s)

Next == Crash \/ \E s \in Sessions : Step(s)

Spec == Init /\ [][Next]_vars
----------------------------------------------------------------------------
(* Properties.  A name is sound when no operation is in progress on it and *)
(* none of the mishaps happened to it: two operations on it at a time      *)
(* (unless Harmless), a crash or a failed write in the middle of one, a    *)
(* skipping import or a conversion on top of a state.  Nothing else leaves *)
(* the directory in disorder.                                              *)

Sound(n) == n \notin suspect /\ \A s \in Sessions : n \notin op[s].scope

\* A state has one file, whatever formats it was recorded and imported in, so
\* that deleting it does not bring an older file to light.
OneFile == \A n \in Names : Sound(n) => Cardinality(FilesOf(n)) <= 1

\* A disabled-flag or metadata never waits for a state that is recorded later.
NoOrphan ==
  \A f \in meta \cup flag : Sound(Name(f)) => Exists(f)

\* A state that XMNR wrote is complete, and DrNED will load it in override
\* mode.
WholeAndLabelled ==
  \A f \in OwnFile :
    Sound(Name(f)) /\ Exists(f) => content[f] = "whole" /\ f \in meta

\* A state that was there when an operation began is removed or written over
\* only by delete-state and with the overwrite parameter.
NoSilentReplace ==
  [][\A f \in File :
       content[f] = "whole" /\ content'[f] # "whole" /\ Name(f) \notin suspect'
         => \E s \in Sessions :
              /\ Name(f) \in op[s].scope
              /\ \/ op[s].kind = "delete" \/ op[s].overwrite
                 \/ op[s].kind = "import" /\ Name(f) \notin conflicts[s]]_vars

----------------------------------------------------------------------------
(* What a comment or a test says, and the code does not keep               *)

\* test/unit/test_actions.py:529 "reimport with skipping already existing
\* states": import-state-files with skip-existing writes them all the same.
SkipKeepsExisting ==
  [][\A s \in Sessions :
       pc[s] = "open" /\ pc'[s] = "save" /\ op[s].skip
         => Head(names[s]) \notin conflicts[s]]_vars

=============================================================================
