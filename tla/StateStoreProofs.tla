-------------------------- MODULE StateStoreProofs --------------------------
(***************************************************************************)
(* Proofs about StateStore, for any names, sessions, files given, and any  *)
(* number of operations.                                                   *)
(***************************************************************************)
EXTENDS StateStore, SequenceTheorems, FiniteSetTheorems, TLAPS

(* The two halves of TypeOK. *)

Operations == [kind : AllKinds \cup {"none"}, overwrite : BOOLEAN,
               skip : BOOLEAN, suffix : Range(StateSuffixes), scope : SUBSET Names]

LocalTypes ==
  /\ pc \in [Sessions -> PC]
  /\ op \in [Sessions -> Operations]
  /\ files \in [Sessions -> SUBSET File]
  /\ names \in [Sessions -> Seq(Names)]
  /\ conflicts \in [Sessions -> SUBSET Names]
  /\ cur \in [Sessions -> File \cup {NoFile}]

StoreTypes ==
  /\ content \in [File -> {"none", "partial", "whole"}]
  /\ meta \subseteq File
  /\ flag \subseteq File
  /\ asked \in 0..MaxOps
  /\ suspect \subseteq Names

Types == LocalTypes /\ StoreTypes

(***************************************************************************)
(* The inductive invariant.  The properties are about names that are at    *)
(* rest; what makes them inductive is what the directory looks like while  *)
(* an operation is at work on a name, which the label of the operation     *)
(* tells, and that on a name without mishaps no two operations are at work *)
(* that disturb each other.                                                *)
(***************************************************************************)

(* What a session has at hand, whatever the others do. *)

\* A file is removed by delete-state, or to be written anew.
RemovalInv(s) ==
  pc[s] \in {"remove", "rm_meta", "rm_flag"} =>
    /\ cur[s] \in File /\ Name(cur[s]) \in op[s].scope
    /\ op[s].kind \in {"delete", "record", "import"}
    /\ op[s].kind # "delete" =>
         /\ names[s] # <<>> /\ Head(names[s]) = Name(cur[s])
         /\ op[s].overwrite
         /\ op[s].kind = "import" => Name(cur[s]) \in conflicts[s]

\* A flag is created by disable-state.
TouchInv(s) ==
  pc[s] = "touch" =>
    cur[s] \in File /\ Name(cur[s]) \in op[s].scope /\ op[s].kind = "disable"

\* A state is written that is next on the list and is not to be skipped.
WritingInv(s) ==
  /\ pc[s] = "load" => op[s].kind = "import"
  /\ pc[s] \in {"load", "open", "save", "write_meta"} =>
       op[s].kind \in Writers /\ names[s] # <<>>
  /\ pc[s] \in {"load", "open"} => Head(names[s]) \in op[s].scope
  /\ pc[s] \in {"save", "write_meta"} =>
       cur[s] \in File /\ Name(cur[s]) \in op[s].scope

\* All that is still to be processed is in the scope of the operation.
ScopeInv(s) ==
  /\ pc[s] = "idle" => files[s] = {} /\ names[s] = <<>>
  /\ \A f \in files[s] : Name(f) \in op[s].scope
  /\ \A n \in Range(names[s]) : n \in op[s].scope \/ Dropped(s, n)
  /\ op[s].kind = "import" /\ conflicts[s] # {} => op[s].overwrite \/ op[s].skip

SessionInv(s) == RemovalInv(s) /\ TouchInv(s) /\ WritingInv(s) /\ ScopeInv(s)

\* Two operations on a name make it suspect, unless they are harmless.
Exclusive ==
  \A s, t \in Sessions : s # t =>
    \A n \in op[s].scope \cap op[t].scope :
      n \notin suspect => Harmless(op[s].kind, op[t].kind)

(* What the directory holds of a name without mishaps: the properties, with *)
(* the exceptions that last while an operation is at work.                  *)

Single(n) == \A f, g \in FilesOf(n) : f = g

\* The metadata outlives the file until the second call of its removal.
MetaInv(n) ==
  \A f \in meta :
    Name(f) = n /\ ~Exists(f) => \E s \in Sessions : pc[s] = "rm_meta" /\ cur[s] = f

\* The flag outlives the file until the third call of its removal.
FlagInv(n) ==
  \A f \in flag :
    Name(f) = n /\ ~Exists(f) =>
      \E s \in Sessions : pc[s] \in {"rm_meta", "rm_flag"} /\ cur[s] = f

\* A file that is being written is incomplete, then without metadata.
OwnInv(n) ==
  \A f \in OwnFile : Name(f) = n /\ Exists(f) =>
    /\ content[f] = "whole" \/ \E s \in Sessions : pc[s] = "save" /\ cur[s] = f
    /\ f \in meta \/ \E s \in Sessions : pc[s] \in {"save", "write_meta"} /\ cur[s] = f

DirInv(n) == Single(n) /\ MetaInv(n) /\ FlagInv(n) /\ OwnInv(n)

(* What a session relies upon in a name without mishaps. *)

\* Of a state that has been removed no file is left.
GoneInv(s, n) ==
  pc[s] \in {"rm_meta", "rm_flag"} /\ Name(cur[s]) = n => FilesOf(n) = {}

\* The states whose file is removed before they are written.
Replaces(s, n) ==
  \/ op[s].kind = "record"
  \/ op[s].kind = "import" /\ op[s].overwrite /\ n \in conflicts[s]

\* They have no file when they are about to be written.
RoomInv(s, n) ==
  pc[s] \in {"load", "open"} /\ Head(names[s]) = n /\ Replaces(s, n)
    => FilesOf(n) = {}

\* A state that was not there when the import began has no file but the one
\* that this import writes, perhaps twice.
NewInv(s, n) ==
  op[s].kind = "import" /\ n \in op[s].scope \ conflicts[s]
    => FilesOf(n) \subseteq {<<n, op[s].suffix>>}

\* Nobody takes away or spoils what is being written.
WrittenInv(s, n) ==
  /\ pc[s] = "save" /\ Name(cur[s]) = n => Exists(cur[s])
  /\ pc[s] = "write_meta" /\ Name(cur[s]) = n => content[cur[s]] = "whole"

\* Nobody takes away what is being disabled.
PresentInv(s, n) ==
  op[s].kind = "disable" =>
    /\ \A f \in files[s] : Name(f) = n => Exists(f)
    /\ pc[s] = "touch" /\ Name(cur[s]) = n => Exists(cur[s])

WorkInv(s, n) ==
  /\ GoneInv(s, n) /\ RoomInv(s, n) /\ NewInv(s, n)
  /\ WrittenInv(s, n) /\ PresentInv(s, n)

NameInv(n) == DirInv(n) /\ \A t \in Sessions : WorkInv(t, n)

IInv ==
  /\ Types
  /\ \A s \in Sessions : SessionInv(s)
  /\ Exclusive
  /\ \A n \in Names \ suspect : NameInv(n)

----------------------------------------------------------------------------
(* Files and names                                                         *)

\* Files are pairs of a name and an extension.
LEMMA Domains ==
  /\ DOMAIN StateSuffixes = 1..4
  /\ Range(StateSuffixes) = {".state.xml", ".xml", ".state.cfg", ".cfg"}
  /\ OwnFile \subseteq File
  /\ NoFile \notin File
  /\ \A f \in File : Name(f) \in Names /\ f = <<Name(f), f[2]>>
  /\ \A n \in Names, x \in Range(StateSuffixes) : <<n, x>> \in File /\ Name(<<n, x>>) = n
<1>1. DOMAIN StateSuffixes = 1..4
  BY DEF StateSuffixes
<1>2. Range(StateSuffixes) = {".state.xml", ".xml", ".state.cfg", ".cfg"}
  BY DEF StateSuffixes, Range
<1>3. OwnFile \subseteq File
  BY <1>2 DEF OwnFile, File
<1>4. NoFile \notin File
  BY DEF NoFile, File
<1>5. \A f \in File : Name(f) \in Names /\ f = <<Name(f), f[2]>>
  BY DEF File, Name
<1>6. \A n \in Names, x \in Range(StateSuffixes) : <<n, x>> \in File /\ Name(<<n, x>>) = n
  BY DEF File, Name
<1>7. QED
  BY <1>1, <1>2, <1>3, <1>4, <1>5, <1>6

\* state_name_to_existing_filename() finds a file of the state iff there is one.
LEMMA ExistingIsThere ==
  ASSUME NEW n \in Names
  PROVE  \/ Existing(n) = NoFile /\ FilesOf(n) = {}
         \/ Existing(n) \in FilesOf(n) /\ Existing(n) \in File /\ Existing(n) # NoFile
<1> DEFINE there == {i \in DOMAIN StateSuffixes : Exists(<<n, StateSuffixes[i]>>)}
           i0 == CHOOSE i \in there : \A j \in there : i <= j
<1>1. CASE there = {}
  <2>1. Existing(n) = NoFile
    BY <1>1 DEF Existing
  <2>2. ASSUME NEW f \in FilesOf(n) PROVE FALSE
    <3>1. f \in File /\ Name(f) = n /\ Exists(f)
      BY DEF FilesOf
    <3>2. PICK i \in DOMAIN StateSuffixes : f = <<n, StateSuffixes[i]>>
      BY <3>1, Domains DEF Range, File
    <3>3. Exists(<<n, StateSuffixes[i]>>)
      BY <3>1, <3>2
    <3>4. QED
      BY <1>1, <3>3
  <2>3. QED
    BY <2>1, <2>2
<1>2. CASE there # {}
  <2>1. there \subseteq 1..4
    BY Domains
  <2>2. \E i \in there : \A j \in there : i <= j
    <3>1. CASE 1 \in there
      BY <3>1, <2>1
    <3>2. CASE 1 \notin there /\ 2 \in there
      BY <3>2, <2>1
    <3>3. CASE 1 \notin there /\ 2 \notin there /\ 3 \in there
      BY <3>3, <2>1
    <3>4. CASE 1 \notin there /\ 2 \notin there /\ 3 \notin there
      BY <3>4, <2>1, <1>2
    <3>5. QED
      BY <3>1, <3>2, <3>3, <3>4
  <2>3. i0 \in there
    BY <2>2
  <2>4. Existing(n) = <<n, StateSuffixes[i0]>>
    BY <1>2 DEF Existing
  <2>5. StateSuffixes[i0] \in Range(StateSuffixes)
    BY <2>3 DEF Range
  <2>6. Existing(n) \in File /\ Name(Existing(n)) = n
    BY <2>4, <2>5, Domains
  <2>7. Exists(Existing(n))
    BY <2>3, <2>4
  <2>8. QED
    BY <2>6, <2>7, Domains DEF FilesOf
<1>3. QED
  BY <1>1, <1>2

----------------------------------------------------------------------------
(* Types                                                                   *)

\* TypeOK, in two halves.
LEMMA TypeParts == TypeOK <=> LocalTypes /\ StoreTypes
BY DEF TypeOK, LocalTypes, StoreTypes, Operations

\* What an idle session has in place of an operation.
LEMMA NoOpType == NoOp \in Operations
  BY Domains DEF NoOp, Operations

\* A reply clears what the session has at hand.
LEMMA ReplyType ==
  ASSUME LocalTypes, NEW s \in Sessions, Reply(s)
  PROVE  LocalTypes'
<1>1. "idle" \in PC
  BY DEF PC
<1>2. <<>> \in Seq(Names)
  OBVIOUS
<1>3. QED
  BY NoOpType, <1>1, <1>2 DEF LocalTypes, Reply

\* A session goes from label to label.
LEMMA GotoType ==
  ASSUME LocalTypes, NEW s \in Sessions, NEW l \in PC, Goto(s, l)
  PROVE  pc' \in [Sessions -> PC]
BY DEF LocalTypes, Goto

\* The parameters of an operation that begins.
LEMMA BeginType ==
  ASSUME LocalTypes, StoreTypes, NEW s \in Sessions, NEW o \in Operations, Begin(s, o)
  PROVE  /\ op' \in [Sessions -> Operations]
         /\ asked' \in 0..MaxOps
         /\ suspect' \subseteq Names
<1>1. op' \in [Sessions -> Operations]
  BY DEF Begin, LocalTypes
<1>2. asked' \in 0..MaxOps
  BY StateStoreAssumption DEF Begin, StoreTypes
<1>3. o.scope \subseteq Names
  BY DEF Operations
<1>4. suspect' \subseteq Names
  BY <1>3 DEF Begin, StoreTypes
<1>5. QED
  BY <1>1, <1>2, <1>4

\* The directory as it is at first.
LEMMA TypeInit == Init => LocalTypes /\ StoreTypes
<1> SUFFICES ASSUME Init PROVE LocalTypes /\ StoreTypes OBVIOUS
<1>1. "idle" \in PC
  BY DEF PC
<1>2. <<>> \in Seq(Names)
  OBVIOUS
<1>3. LocalTypes
  BY NoOpType, <1>1, <1>2 DEF Init, LocalTypes
<1>4. PICK g \in Given : /\ content = [f \in File |-> IF f \in g THEN "whole" ELSE "none"]
                         /\ meta = g \cap OwnFile
                         /\ flag \in SUBSET g
  BY DEF Init
<1>5. g \subseteq File
  BY StateStoreAssumption
<1>6. asked \in 0..MaxOps
  BY StateStoreAssumption DEF Init
<1>7. suspect = {}
  BY DEF Init
<1>8. QED
  BY <1>3, <1>4, <1>5, <1>6, <1>7 DEF StoreTypes

\* The files that a pattern lists exist and match it.
LEMMA ListedType ==
  ASSUME NEW p \in SUBSET Names
  PROVE  \A f \in Listed(p) : f \in File /\ Name(f) \in p /\ Exists(f)
BY DEF Listed

\* delete-state, disable-state and enable-state begin.
LEMMA BeginOnStatesType ==
  ASSUME LocalTypes, StoreTypes, NEW s \in Sessions, NEW kind \in Kinds, BeginOnStates(s, kind)
  PROVE  LocalTypes' /\ StoreTypes'
<1>1. kind \in AllKinds
  BY DEF BeginOnStates, AllKinds
<1>2. \A sc \in SUBSET Names : [NoOp EXCEPT !.kind = kind, !.scope = sc] \in Operations
  BY <1>1, NoOpType DEF Operations
<1>3. "next" \in PC
  BY DEF PC
<1>4. op' \in [Sessions -> Operations] /\ asked' \in 0..MaxOps /\ suspect' \subseteq Names
      /\ files' \in [Sessions -> SUBSET File]
  <2>1. CASE \E n \in Names :
          /\ Existing(n) # NoFile
          /\ Begin(s, [NoOp EXCEPT !.kind = kind, !.scope = {n}])
          /\ files' = [files EXCEPT ![s] = {Existing(n)}]
    <3>1. PICK n \in Names :
          /\ Existing(n) # NoFile
          /\ Begin(s, [NoOp EXCEPT !.kind = kind, !.scope = {n}])
          /\ files' = [files EXCEPT ![s] = {Existing(n)}]
      BY <2>1
    <3>2. [NoOp EXCEPT !.kind = kind, !.scope = {n}] \in Operations
      BY <1>2
    <3>3. Existing(n) \in File
      BY <3>1, ExistingIsThere
    <3>4. files' \in [Sessions -> SUBSET File]
      BY <3>1, <3>3 DEF LocalTypes
    <3>5. QED
      BY <3>1, <3>2, <3>4, BeginType
  <2>2. CASE \E pattern \in SUBSET Names :
          /\ Listed(pattern) # {}
          /\ Begin(s, [NoOp EXCEPT !.kind = kind,
                                   !.scope = {Name(f) : f \in Listed(pattern)}])
          /\ files' = [files EXCEPT ![s] = Listed(pattern)]
    <3>1. PICK pattern \in SUBSET Names :
          /\ Begin(s, [NoOp EXCEPT !.kind = kind,
                                   !.scope = {Name(f) : f \in Listed(pattern)}])
          /\ files' = [files EXCEPT ![s] = Listed(pattern)]
      BY <2>2
    <3>2. {Name(f) : f \in Listed(pattern)} \in SUBSET Names
      BY ListedType
    <3>3. [NoOp EXCEPT !.kind = kind, !.scope = {Name(f) : f \in Listed(pattern)}] \in Operations
      BY <1>2, <3>2
    <3>4. files' \in [Sessions -> SUBSET File]
      BY <3>1, ListedType DEF LocalTypes
    <3>5. QED
      BY <3>1, <3>3, <3>4, BeginType
  <2>3. QED
    BY <2>1, <2>2 DEF BeginOnStates
<1>5. pc' \in [Sessions -> PC]
  BY <1>3, GotoType DEF BeginOnStates
<1>6. UNCHANGED <<content, meta, flag, names, conflicts, cur>>
  BY DEF BeginOnStates, store
<1>7. QED
  BY <1>4, <1>5, <1>6 DEF LocalTypes, StoreTypes

\* record-state begins.
LEMMA BeginRecordType ==
  ASSUME LocalTypes, StoreTypes, NEW s \in Sessions, BeginRecord(s)
  PROVE  LocalTypes' /\ StoreTypes'
<1>1. PICK todo \in Recorded, overwrite \in BOOLEAN, suffix \in {".state.xml", ".state.cfg"} :
       /\ Begin(s, [kind |-> "record", overwrite |-> overwrite, skip |-> FALSE,
                    suffix |-> suffix, scope |-> Range(todo)])
       /\ names' = [names EXCEPT ![s] = todo]
  BY DEF BeginRecord
<1>2. todo \in Seq(Names)
  BY StateStoreAssumption
<1>3. Range(todo) \subseteq Names
  BY <1>2 DEF Range
<1>4. [kind |-> "record", overwrite |-> overwrite, skip |-> FALSE,
                    suffix |-> suffix, scope |-> Range(todo)] \in Operations
  BY <1>3, Domains DEF Operations, AllKinds
<1>5. "next" \in PC
  BY DEF PC
<1>6. pc' \in [Sessions -> PC]
  BY <1>5, GotoType DEF BeginRecord
<1>7. op' \in [Sessions -> Operations] /\ asked' \in 0..MaxOps /\ suspect' \subseteq Names
  BY <1>1, <1>4, BeginType
<1>8. names' \in [Sessions -> Seq(Names)]
  BY <1>1, <1>2 DEF LocalTypes
<1>9. UNCHANGED <<content, meta, flag, files, conflicts, cur>>
  BY DEF BeginRecord, store
<1>10. QED
  BY <1>6, <1>7, <1>8, <1>9 DEF LocalTypes, StoreTypes

\* The states that an import is about.
LEMMA ImportTypes ==
  ASSUME NEW states \in Imported, NEW kind, NEW skip
  PROVE  /\ states \in Seq(Names)
         /\ Conflicting(states) \subseteq Names
         /\ Written(kind, skip, states) \subseteq Names
<1>1. states \in Seq(Names)
  BY StateStoreAssumption
<1>2. Range(states) \subseteq Names
  BY <1>1 DEF Range
<1>3. QED
  BY <1>1, <1>2 DEF Conflicting, Written

\* import-state-files and import-convert-cli-files begin.
LEMMA BeginImportType ==
  ASSUME LocalTypes, StoreTypes, NEW s \in Sessions, NEW kind \in Kinds, BeginImport(s, kind)
  PROVE  LocalTypes' /\ StoreTypes'
<1>1. PICK states \in Imported, overwrite \in BOOLEAN, skip \in BOOLEAN,
           suffix \in {".state.xml", ".state.cfg"} :
       /\ Begin(s, [kind |-> kind, overwrite |-> overwrite, skip |-> skip,
                    suffix |-> suffix, scope |-> Written(kind, skip, states)])
       /\ names' = [names EXCEPT ![s] = states]
       /\ conflicts' = [conflicts EXCEPT ![s] = Conflicting(states)]
  BY DEF BeginImport
<1>2. kind \in AllKinds
  BY DEF BeginImport, AllKinds
<1>3. [kind |-> kind, overwrite |-> overwrite, skip |-> skip,
       suffix |-> suffix, scope |-> Written(kind, skip, states)] \in Operations
  BY <1>2, ImportTypes, Domains DEF Operations
<1>5. "next" \in PC
  BY DEF PC
<1>6. pc' \in [Sessions -> PC]
  BY <1>5, GotoType DEF BeginImport
<1>7. op' \in [Sessions -> Operations] /\ asked' \in 0..MaxOps /\ suspect' \subseteq Names
  BY <1>1, <1>3, BeginType
<1>8. names' \in [Sessions -> Seq(Names)] /\ conflicts' \in [Sessions -> SUBSET Names]
  BY <1>1, ImportTypes DEF LocalTypes
<1>10. UNCHANGED <<content, meta, flag, files, cur>>
  BY DEF BeginImport, store
<1>11. QED
  BY <1>6, <1>7, <1>8, <1>10 DEF LocalTypes, StoreTypes

----------------------------------------------------------------------------
(* What a session has at hand                                              *)

Same(t) ==
  /\ pc'[t] = pc[t] /\ op'[t] = op[t] /\ files'[t] = files[t] /\ names'[t] = names[t]
  /\ conflicts'[t] = conflicts[t] /\ cur'[t] = cur[t]

\* What a step of session s keeps.
Kept(s) == LocalTypes' /\ StoreTypes' /\ SessionInv(s)'

\* At these labels only ScopeInv says something.
LEMMA Away ==
  ASSUME NEW s, pc'[s] \in {"idle", "next", "unlink"}, ScopeInv(s)'
  PROVE  SessionInv(s)'
BY DEF SessionInv, RemovalInv, TouchInv, WritingInv

\* After the reply there is nothing at hand.
LEMMA ReplyKeeps ==
  ASSUME LocalTypes, NEW s \in Sessions, Reply(s)
  PROVE  LocalTypes' /\ SessionInv(s)'
<1>1. LocalTypes'
  BY ReplyType
<1>2. /\ pc'[s] = "idle" /\ op'[s] = NoOp /\ files'[s] = {} /\ names'[s] = <<>>
  BY DEF LocalTypes, Reply
<1>3. ScopeInv(s)'
  BY <1>2 DEF ScopeInv, NoOp, Range
<1>4. QED
  BY <1>1, <1>2, <1>3, Away

LEMMA BeginOnStatesKeeps ==
  ASSUME Types, NEW s \in Sessions, SessionInv(s), NEW kind \in Kinds, BeginOnStates(s, kind)
  PROVE  Kept(s)
<1>1. LocalTypes' /\ StoreTypes'
  BY BeginOnStatesType DEF Types
<1>2. pc'[s] = "next"
  BY DEF Types, LocalTypes, BeginOnStates, Goto
<1>3. kind \in {"delete", "disable", "enable"}
  BY DEF BeginOnStates
<1>4. op'[s].kind = kind /\ \A f \in files'[s] : Name(f) \in op'[s].scope
  <2>1. CASE \E n \in Names :
          /\ Existing(n) # NoFile
          /\ Begin(s, [NoOp EXCEPT !.kind = kind, !.scope = {n}])
          /\ files' = [files EXCEPT ![s] = {Existing(n)}]
    <3>1. PICK n \in Names :
          /\ Existing(n) # NoFile
          /\ Begin(s, [NoOp EXCEPT !.kind = kind, !.scope = {n}])
          /\ files' = [files EXCEPT ![s] = {Existing(n)}]
      BY <2>1
    <3>2. files'[s] = {Existing(n)}
      BY <3>1 DEF Types, LocalTypes
    <3>3. op'[s] = [NoOp EXCEPT !.kind = kind, !.scope = {n}]
      BY <3>1 DEF Begin, Types, LocalTypes
    <3>4. op'[s].scope = {n} /\ op'[s].kind = kind
      BY <3>3 DEF NoOp
    <3>5. Existing(n) \in FilesOf(n)
      BY <3>1, ExistingIsThere
    <3>6. QED
      BY <3>2, <3>4, <3>5 DEF FilesOf
  <2>2. CASE \E pattern \in SUBSET Names :
          /\ Listed(pattern) # {}
          /\ Begin(s, [NoOp EXCEPT !.kind = kind,
                                   !.scope = {Name(f) : f \in Listed(pattern)}])
          /\ files' = [files EXCEPT ![s] = Listed(pattern)]
    <3>1. PICK pattern \in SUBSET Names :
          /\ Begin(s, [NoOp EXCEPT !.kind = kind,
                                   !.scope = {Name(f) : f \in Listed(pattern)}])
          /\ files' = [files EXCEPT ![s] = Listed(pattern)]
      BY <2>2
    <3>2. files'[s] = Listed(pattern)
      BY <3>1 DEF Types, LocalTypes
    <3>3. op'[s] = [NoOp EXCEPT !.kind = kind, !.scope = {Name(f) : f \in Listed(pattern)}]
      BY <3>1 DEF Begin, Types, LocalTypes
    <3>4. op'[s].scope = {Name(f) : f \in Listed(pattern)} /\ op'[s].kind = kind
      BY <3>3 DEF NoOp
    <3>5. QED
      BY <3>2, <3>4
  <2>3. QED
    BY <2>1, <2>2 DEF BeginOnStates
<1>5. op'[s].kind # "import"
  BY <1>3, <1>4
<1>6. names'[s] = <<>>
  BY DEF BeginOnStates, SessionInv, ScopeInv, Begin
<1>7. ScopeInv(s)'
  BY <1>2, <1>4, <1>5, <1>6 DEF ScopeInv, Range
<1>8. QED
  BY <1>1, <1>2, <1>7, Away DEF Kept

LEMMA BeginRecordKeeps ==
  ASSUME Types, NEW s \in Sessions, SessionInv(s), BeginRecord(s)
  PROVE  Kept(s)
<1>1. LocalTypes' /\ StoreTypes'
  BY BeginRecordType DEF Types
<1>2. PICK todo \in Recorded, overwrite \in BOOLEAN, suffix \in {".state.xml", ".state.cfg"} :
       /\ Begin(s, [kind |-> "record", overwrite |-> overwrite, skip |-> FALSE,
                    suffix |-> suffix, scope |-> Range(todo)])
       /\ names' = [names EXCEPT ![s] = todo]
  BY DEF BeginRecord
<1>3. pc'[s] = "next"
  BY DEF Types, LocalTypes, BeginRecord, Goto
<1>4. files'[s] = {}
  BY <1>2 DEF BeginRecord, Begin, SessionInv, ScopeInv
<1>5. op'[s].kind = "record" /\ op'[s].scope = Range(todo)
  BY <1>2 DEF Begin, Types, LocalTypes
<1>6. names'[s] = todo
  BY <1>2 DEF Types, LocalTypes
<1>7. ScopeInv(s)'
  BY <1>3, <1>4, <1>5, <1>6 DEF ScopeInv
<1>8. QED
  BY <1>1, <1>3, <1>7, Away DEF Kept

LEMMA BeginImportKeeps ==
  ASSUME Types, NEW s \in Sessions, SessionInv(s), NEW kind \in Kinds, BeginImport(s, kind)
  PROVE  Kept(s)
<1>1. LocalTypes' /\ StoreTypes'
  BY BeginImportType DEF Types
<1>2. PICK states \in Imported, overwrite \in BOOLEAN, skip \in BOOLEAN,
           suffix \in {".state.xml", ".state.cfg"} :
       /\ Conflicting(states) = {} \/ overwrite \/ skip
       /\ Begin(s, [kind |-> kind, overwrite |-> overwrite, skip |-> skip,
                    suffix |-> suffix, scope |-> Written(kind, skip, states)])
       /\ names' = [names EXCEPT ![s] = states]
       /\ conflicts' = [conflicts EXCEPT ![s] = Conflicting(states)]
  BY DEF BeginImport
<1>3. pc'[s] = "next"
  BY DEF Types, LocalTypes, BeginImport, Goto
<1>4. files'[s] = {}
  BY <1>2 DEF BeginImport, Begin, SessionInv, ScopeInv
<1>5. op'[s].kind = kind /\ op'[s].overwrite = overwrite /\ op'[s].skip = skip
      /\ op'[s].scope = Written(kind, skip, states)
  BY <1>2 DEF Begin, Types, LocalTypes
<1>6. names'[s] = states /\ conflicts'[s] = Conflicting(states)
  BY <1>2 DEF Types, LocalTypes
<1>7. \A n \in Range(states) :
        \/ n \in Written(kind, skip, states)
        \/ kind = "convert" /\ skip /\ n \in Conflicting(states)
  BY DEF Written
<1>8. ScopeInv(s)'
  BY <1>2, <1>3, <1>4, <1>5, <1>6, <1>7 DEF ScopeInv, Dropped
<1>9. QED
  BY <1>1, <1>3, <1>8, Away DEF Kept

LEMMA NextFileKeeps ==
  ASSUME Types, NEW s \in Sessions, SessionInv(s), NextFile(s)
  PROVE  Kept(s)
<1>1. StoreTypes'
  BY DEF NextFile, Types, StoreTypes, store
<1>2. CASE Reply(s)
  BY <1>1, <1>2, ReplyKeeps DEF Kept, Types
<1>3. CASE ~Reply(s)
  <2>1. PICK f \in files[s] :
          /\ files' = [files EXCEPT ![s] = @ \ {f}]
          /\ cur' = [cur EXCEPT ![s] = f]
          /\ Goto(s, IF op[s].kind = "delete" THEN "remove"
                     ELSE IF op[s].kind = "disable" THEN "touch" ELSE "unlink")
          /\ UNCHANGED <<op, names, conflicts>>
    BY <1>3 DEF NextFile
  <2>2. f \in File
    BY DEF Types, LocalTypes
  <2>3. pc'[s] = IF op[s].kind = "delete" THEN "remove"
                 ELSE IF op[s].kind = "disable" THEN "touch" ELSE "unlink"
    BY <2>1 DEF Types, LocalTypes, Goto
  <2>4. LocalTypes'
    <3>1. pc' \in [Sessions -> PC]
      BY <2>1 DEF Types, LocalTypes, Goto, PC
    <3>2. files' \in [Sessions -> SUBSET File]
      BY <2>1 DEF Types, LocalTypes
    <3>3. cur' \in [Sessions -> File \cup {NoFile}]
      BY <2>1, <2>2 DEF Types, LocalTypes
    <3>4. QED
      BY <2>1, <3>1, <3>2, <3>3 DEF Types, LocalTypes
  <2>5. /\ cur'[s] = f /\ files'[s] = files[s] \ {f} /\ op'[s] = op[s]
        /\ names'[s] = names[s] /\ conflicts'[s] = conflicts[s]
    BY <2>1 DEF Types, LocalTypes
  <2>6. Name(f) \in op[s].scope
    BY DEF SessionInv, ScopeInv
  <2>7. ScopeInv(s)'
    BY <2>3, <2>5 DEF SessionInv, ScopeInv, Dropped
  <2>8. RemovalInv(s)'
    BY <2>2, <2>3, <2>5, <2>6 DEF RemovalInv
  <2>9. TouchInv(s)'
    BY <2>2, <2>3, <2>5, <2>6 DEF TouchInv
  <2>10. WritingInv(s)'
    BY <2>3 DEF WritingInv
  <2>11. QED
    BY <1>1, <2>4, <2>7, <2>8, <2>9, <2>10 DEF SessionInv, Kept
<1>4. QED
  BY <1>2, <1>3

LEMMA NoMoreStatesKeeps ==
  ASSUME Types, NEW s \in Sessions, SessionInv(s), NoMoreStates(s)
  PROVE  Kept(s)
<1>1. StoreTypes'
  BY DEF NoMoreStates, Types, StoreTypes, store
<1>2. QED
  BY <1>1, ReplyKeeps DEF NoMoreStates, Kept, Types

\* The states that are left when the first one has been dealt with.
LEMMA Shorter ==
  ASSUME NEW q \in Seq(Names), q # <<>>
  PROVE  /\ Tail(q) \in Seq(Names) /\ Range(Tail(q)) \subseteq Range(q)
         /\ Head(q) \in Range(q) /\ Head(q) \in Names
<1>1. Tail(q) \in Seq(Names) /\ Len(Tail(q)) = Len(q) - 1
      /\ \A i \in 1..Len(Tail(q)) : Tail(q)[i] = q[i + 1]
  BY HeadTailProperties
<1>2. Len(q) \in Nat /\ Len(q) # 0
  BY EmptySeq
<1>3. DOMAIN q = 1..Len(q) /\ DOMAIN Tail(q) = 1..Len(Tail(q))
  BY <1>1
<1>4. \A i \in DOMAIN Tail(q) : i + 1 \in DOMAIN q /\ Tail(q)[i] = q[i + 1]
  BY <1>1, <1>2, <1>3
<1>5. Range(Tail(q)) \subseteq Range(q)
  BY <1>4 DEF Range
<1>6. 1 \in DOMAIN q /\ Head(q) = q[1]
  BY <1>2, <1>3
<1>7. QED
  BY <1>1, <1>5, <1>6 DEF Range

LEMMA NotConvertedKeeps ==
  ASSUME Types, NEW s \in Sessions, SessionInv(s), NotConverted(s)
  PROVE  Kept(s)
<1>1. StoreTypes'
  BY DEF NotConverted, Types, StoreTypes, store
<1>2. names[s] \in Seq(Names) /\ names[s] # <<>>
  BY DEF NotConverted, Types, LocalTypes
<1>3. names' = [names EXCEPT ![s] = Tail(names[s])]
  BY DEF NotConverted
<1>4. LocalTypes'
  BY <1>2, <1>3, Shorter DEF NotConverted, Types, LocalTypes
<1>5. names'[s] = Tail(names[s])
  BY <1>3 DEF Types, LocalTypes
<1>6. ScopeInv(s)'
  BY <1>2, <1>5, Shorter DEF NotConverted, ScopeInv, SessionInv, Dropped
<1>7. pc'[s] = "next"
  BY DEF NotConverted
<1>8. QED
  BY <1>1, <1>4, <1>6, <1>7, Away DEF Kept

LEMMA NextStateKeeps ==
  ASSUME Types, NEW s \in Sessions, SessionInv(s), NextState(s)
  PROVE  Kept(s)
<1> DEFINE n == Head(names[s])
<1>1. StoreTypes'
  BY DEF NextState, Types, StoreTypes, store
<1>2. names[s] \in Seq(Names) /\ names[s] # <<>>
  BY DEF NextState, Types, LocalTypes
<1>3. n \in Names /\ n \in Range(names[s])
  BY <1>2, Shorter
<1>4. n \in op[s].scope
  BY <1>3 DEF NextState, SessionInv, ScopeInv
<1>5. UNCHANGED <<op, files, names, conflicts>>
  BY DEF NextState
<1>6. op[s].kind \in {"record", "import", "convert"}
  BY DEF NextState, Writers
<1>7. CASE InTheWay(s, n) # NoFile
  <2>1. cur' = [cur EXCEPT ![s] = InTheWay(s, n)] /\ pc' = [pc EXCEPT ![s] = "remove"]
    BY <1>7 DEF NextState, Goto
  <2>2. InTheWay(s, n) = Existing(n)
    BY <1>7 DEF InTheWay
  <2>3. Existing(n) \in File /\ Name(Existing(n)) = n
    BY <1>3, <1>7, <2>2, ExistingIsThere DEF FilesOf
  <2>4. LocalTypes'
    <3>1. pc' \in [Sessions -> PC]
      BY <2>1 DEF Types, LocalTypes, PC
    <3>2. cur' \in [Sessions -> File \cup {NoFile}]
      BY <2>1, <2>2, <2>3 DEF Types, LocalTypes
    <3>3. QED
      BY <1>5, <3>1, <3>2 DEF Types, LocalTypes
  <2>5. pc'[s] = "remove" /\ cur'[s] = Existing(n)
    BY <2>1, <2>2 DEF Types, LocalTypes
  <2>6. op[s].kind \in {"record", "import"}
    BY <1>7 DEF InTheWay
  <2>7. op[s].overwrite
    <3>1. CASE op[s].kind = "record"
      BY <1>7, <2>2, <3>1 DEF NextState, Refuses
    <3>2. CASE op[s].kind # "record"
      BY <1>7, <3>2 DEF InTheWay
    <3>3. QED
      BY <3>1, <3>2
  <2>8. op[s].kind = "import" => n \in conflicts[s]
    BY <1>7 DEF InTheWay
  <2>9. RemovalInv(s)'
    BY <1>2, <1>4, <1>5, <2>3, <2>5, <2>6, <2>7, <2>8 DEF RemovalInv
  <2>10. TouchInv(s)' /\ WritingInv(s)'
    BY <2>5 DEF TouchInv, WritingInv
  <2>11. ScopeInv(s)'
    BY <1>5, <2>5 DEF ScopeInv, SessionInv, Dropped
  <2>12. QED
    BY <1>1, <2>4, <2>9, <2>10, <2>11 DEF Kept, SessionInv
<1>8. CASE InTheWay(s, n) = NoFile
  <2>1. pc' = [pc EXCEPT ![s] = IF op[s].kind = "import" THEN "load" ELSE "open"] /\ cur' = cur
    BY <1>8 DEF NextState, Goto
  <2>2. LocalTypes'
    BY <1>5, <2>1 DEF Types, LocalTypes, PC
  <2>3. pc'[s] = IF op[s].kind = "import" THEN "load" ELSE "open"
    BY <2>1 DEF Types, LocalTypes
  <2>4. WritingInv(s)'
    BY <1>2, <1>4, <1>5, <1>6, <2>3 DEF WritingInv, Writers
  <2>5. RemovalInv(s)' /\ TouchInv(s)'
    BY <2>3 DEF RemovalInv, TouchInv
  <2>6. ScopeInv(s)'
    BY <1>5, <2>3 DEF ScopeInv, SessionInv, Dropped
  <2>7. QED
    BY <1>1, <2>2, <2>4, <2>5, <2>6 DEF Kept, SessionInv
<1>9. QED
  BY <1>7, <1>8

LEMMA RemoveKeeps ==
  ASSUME Types, NEW s \in Sessions, SessionInv(s), Remove(s)
  PROVE  Kept(s)
<1>1. StoreTypes'
  BY DEF Remove, Types, StoreTypes
<1>2. CASE Reply(s)
  BY <1>1, <1>2, ReplyKeeps DEF Kept, Types
<1>3. CASE pc' = [pc EXCEPT ![s] = "rm_meta"] /\ UNCHANGED <<op, files, names, conflicts, cur>>
  <2>1. LocalTypes'
    BY <1>3 DEF Types, LocalTypes, PC
  <2>2. pc'[s] = "rm_meta"
    BY <1>3 DEF Types, LocalTypes
  <2>3. SessionInv(s)'
    BY <1>3, <2>2 DEF Remove, SessionInv, RemovalInv, TouchInv, WritingInv,
       ScopeInv, Dropped
  <2>4. QED
    BY <1>1, <2>1, <2>3 DEF Kept
<1>4. QED
  BY <1>2, <1>3 DEF Remove, Goto, local

LEMMA RemoveMetaKeeps ==
  ASSUME Types, NEW s \in Sessions, SessionInv(s), RemoveMeta(s)
  PROVE  Kept(s)
<1>1. StoreTypes'
  BY DEF RemoveMeta, Types, StoreTypes
<1>2. pc' = [pc EXCEPT ![s] = "rm_flag"] /\ UNCHANGED <<op, files, names, conflicts, cur>>
  BY DEF RemoveMeta, Goto, local
<1>3. LocalTypes'
  BY <1>2 DEF Types, LocalTypes, PC
<1>4. pc'[s] = "rm_flag"
  BY <1>2 DEF Types, LocalTypes
<1>5. SessionInv(s)'
  BY <1>2, <1>4 DEF RemoveMeta, SessionInv, RemovalInv, TouchInv, WritingInv,
     ScopeInv, Dropped
<1>6. QED
  BY <1>1, <1>3, <1>5 DEF Kept

LEMMA RemoveFlagKeeps ==
  ASSUME Types, NEW s \in Sessions, SessionInv(s), RemoveFlag(s)
  PROVE  Kept(s)
<1>1. StoreTypes'
  BY DEF RemoveFlag, Types, StoreTypes
<1>2. pc' = [pc EXCEPT ![s] = IF op[s].kind = "delete" THEN "next"
             ELSE IF op[s].kind = "record" THEN "open" ELSE "load"]
      /\ UNCHANGED <<op, files, names, conflicts, cur>>
  BY DEF RemoveFlag, Goto, local
<1>3. LocalTypes'
  BY <1>2 DEF Types, LocalTypes, PC
<1>4. pc'[s] = IF op[s].kind = "delete" THEN "next"
               ELSE IF op[s].kind = "record" THEN "open" ELSE "load"
  BY <1>2 DEF Types, LocalTypes
<1>5. RemovalInv(s)' /\ TouchInv(s)'
  BY <1>4 DEF RemovalInv, TouchInv
<1>6. ScopeInv(s)'
  BY <1>2, <1>4 DEF SessionInv, ScopeInv, Dropped
<1>7. WritingInv(s)'
  BY <1>2, <1>4 DEF RemoveFlag, SessionInv, RemovalInv, WritingInv, Writers
<1>8. QED
  BY <1>1, <1>3, <1>5, <1>6, <1>7 DEF Kept, SessionInv

LEMMA TouchKeeps ==
  ASSUME Types, NEW s \in Sessions, SessionInv(s), Touch(s) \/ Unlink(s)
  PROVE  Kept(s)
<1>1. StoreTypes'
  <2>1. UNCHANGED <<content, meta, asked, suspect>>
    BY DEF Touch, Unlink
  <2>2. flag' \subseteq File
    <3>1. CASE Touch(s)
      BY <3>1 DEF Touch, SessionInv, TouchInv, Types, StoreTypes
    <3>2. CASE Unlink(s)
      BY <3>2 DEF Unlink, Types, StoreTypes
    <3>3. QED
      BY <3>1, <3>2
  <2>3. QED
    BY <2>1, <2>2 DEF Types, StoreTypes
<1>2. CASE Reply(s)
  BY <1>1, <1>2, ReplyKeeps DEF Kept, Types
<1>3. CASE pc' = [pc EXCEPT ![s] = "next"] /\ UNCHANGED <<op, files, names, conflicts, cur>>
  <2>1. LocalTypes'
    BY <1>3 DEF Types, LocalTypes, PC
  <2>2. pc'[s] = "next"
    BY <1>3 DEF Types, LocalTypes
  <2>3. ScopeInv(s)'
    BY <1>3, <2>2 DEF SessionInv, ScopeInv, Dropped
  <2>4. QED
    BY <1>1, <2>1, <2>2, <2>3, Away DEF Kept
<1>4. QED
  BY <1>2, <1>3 DEF Touch, Unlink, Goto, local

LEMMA LoadKeeps ==
  ASSUME Types, NEW s \in Sessions, SessionInv(s), Load(s)
  PROVE  Kept(s)
<1>1. StoreTypes'
  BY DEF Load, Types, StoreTypes, store
<1>2. CASE Reply(s)
  BY <1>1, <1>2, ReplyKeeps DEF Kept, Types
<1>3. CASE pc' = [pc EXCEPT ![s] = "open"] /\ UNCHANGED <<op, files, names, conflicts, cur>>
  <2>1. LocalTypes'
    BY <1>3 DEF Types, LocalTypes, PC
  <2>2. pc'[s] = "open"
    BY <1>3 DEF Types, LocalTypes
  <2>3. SessionInv(s)'
    BY <1>3, <2>2 DEF Load, SessionInv, RemovalInv, TouchInv, WritingInv,
       ScopeInv, Dropped
  <2>4. QED
    BY <1>1, <2>1, <2>3 DEF Kept
<1>4. QED
  BY <1>2, <1>3 DEF Load, Goto, local

LEMMA OpenKeeps ==
  ASSUME Types, NEW s \in Sessions, SessionInv(s), Open(s)
  PROVE  Kept(s)
<1> DEFINE n == Head(names[s])
           f == <<n, op[s].suffix>>
<1>1. names[s] \in Seq(Names) /\ names[s] # <<>> /\ n \in op[s].scope /\ op[s].kind \in Writers
  BY DEF Open, Types, LocalTypes, SessionInv, WritingInv
<1>2. op[s].scope \subseteq Names /\ op[s].suffix \in Range(StateSuffixes)
  BY DEF Types, LocalTypes, Operations
<1>3. f \in File /\ Name(f) = n
  BY <1>1, <1>2, Domains
<1>4. /\ content' = [content EXCEPT ![f] = "partial"]
      /\ cur' = [cur EXCEPT ![s] = f]
      /\ pc' = [pc EXCEPT ![s] = "save"]
      /\ suspect' \subseteq suspect \cup {n}
      /\ UNCHANGED <<meta, flag, op, files, names, conflicts, asked>>
  BY DEF Open, Goto
<1> HIDE DEF f, n
<1>5. StoreTypes'
  BY <1>1, <1>2, <1>4 DEF Types, StoreTypes
<1>6. LocalTypes'
  BY <1>3, <1>4 DEF Types, LocalTypes, PC
<1>7. pc'[s] = "save" /\ cur'[s] = f
  BY <1>4 DEF Types, LocalTypes
<1>8. SessionInv(s)'
  BY <1>1, <1>3, <1>4, <1>7 DEF SessionInv, RemovalInv, TouchInv, WritingInv,
     ScopeInv, Dropped
<1>9. QED
  BY <1>5, <1>6, <1>8 DEF Kept

LEMMA SaveKeeps ==
  ASSUME Types, NEW s \in Sessions, SessionInv(s), Save(s)
  PROVE  Kept(s)
<1>0. cur[s] \in File /\ Name(cur[s]) \in op[s].scope
  BY DEF Save, SessionInv, WritingInv
<1>1. StoreTypes'
  <2>1. Name(cur[s]) \in Names
    BY <1>0, Domains
  <2>2. suspect' \subseteq Names
    BY <2>1 DEF Save, Types, StoreTypes
  <2>3. content' \in [File -> {"none", "partial", "whole"}]
    BY DEF Save, Types, StoreTypes
  <2>4. QED
    BY <2>2, <2>3 DEF Save, Types, StoreTypes
<1>2. CASE Reply(s)
  BY <1>1, <1>2, ReplyKeeps DEF Kept, Types
<1>3. CASE pc' = [pc EXCEPT ![s] = "write_meta"] /\ UNCHANGED <<op, files, names, conflicts, cur>>
  <2>1. LocalTypes'
    BY <1>3 DEF Types, LocalTypes, PC
  <2>2. pc'[s] = "write_meta"
    BY <1>3 DEF Types, LocalTypes
  <2>3. SessionInv(s)'
    BY <1>3, <2>2 DEF Save, SessionInv, RemovalInv, TouchInv, WritingInv,
       ScopeInv, Dropped
  <2>4. QED
    BY <1>1, <2>1, <2>3 DEF Kept
<1>4. QED
  BY <1>2, <1>3 DEF Save, Goto, local

LEMMA WriteMetadataKeeps ==
  ASSUME Types, NEW s \in Sessions, SessionInv(s), WriteMetadata(s)
  PROVE  Kept(s)
<1>0. /\ cur[s] \in File /\ Name(cur[s]) \in op[s].scope
      /\ names[s] \in Seq(Names) /\ names[s] # <<>>
  BY DEF WriteMetadata, SessionInv, WritingInv, Types, LocalTypes
<1>1. StoreTypes'
  <2>1. Name(cur[s]) \in Names
    BY <1>0, Domains
  <2>2. suspect' \subseteq Names
    BY <2>1 DEF WriteMetadata, Types, StoreTypes
  <2>3. meta' \subseteq File
    BY <1>0 DEF WriteMetadata, Types, StoreTypes
  <2>4. QED
    BY <2>2, <2>3 DEF WriteMetadata, Types, StoreTypes
<1>2. CASE Reply(s)
  BY <1>1, <1>2, ReplyKeeps DEF Kept, Types
<1>3. CASE /\ pc' = [pc EXCEPT ![s] = "next"] /\ names' = [names EXCEPT ![s] = Tail(names[s])]
           /\ UNCHANGED <<op, files, conflicts, cur>>
  <2>1. LocalTypes'
    BY <1>0, <1>3, Shorter DEF Types, LocalTypes, PC
  <2>2. pc'[s] = "next" /\ names'[s] = Tail(names[s])
    BY <1>3 DEF Types, LocalTypes
  <2>3. ScopeInv(s)'
    BY <1>0, <1>3, <2>2, Shorter DEF SessionInv, ScopeInv, Dropped
  <2>4. QED
    BY <1>1, <2>1, <2>2, <2>3, Away DEF Kept
<1>4. QED
  BY <1>2, <1>3 DEF WriteMetadata, Goto

----------------------------------------------------------------------------
(* The other sessions                                                      *)

Framed(s) == \A t \in Sessions \ {s} : Same(t)

\* What a session has at hand is nobody else's business.
LEMMA SameKeeps ==
  ASSUME NEW t, Same(t), SessionInv(t)
  PROVE  SessionInv(t)'
BY DEF Same, SessionInv, RemovalInv, TouchInv, WritingInv, ScopeInv, Dropped

\* The reply of one session is nothing to the others.
LEMMA ReplyFrame ==
  ASSUME LocalTypes, NEW s \in Sessions, Reply(s)
  PROVE  Framed(s)
BY DEF LocalTypes, Reply, Framed, Same

\* A step leaves the other sessions alone, and takes no name off the list.
LEMMA StepFrame ==
  ASSUME Types, NEW s \in Sessions, Step(s)
  PROVE  Framed(s) /\ suspect \subseteq suspect'
<1> USE DEF Types
<1>1. ASSUME NEW kind \in Kinds, BeginOnStates(s, kind) PROVE Framed(s) /\ suspect \subseteq suspect'
  <2>1. PICK o, fs : Begin(s, o) /\ files' = [files EXCEPT ![s] = fs]
    BY <1>1 DEF BeginOnStates
  <2>2. QED
    BY <1>1, <2>1 DEF BeginOnStates, Begin, LocalTypes, Framed, Same, Goto
<1>2. ASSUME NEW kind \in Kinds, BeginImport(s, kind) PROVE Framed(s) /\ suspect \subseteq suspect'
  <2>1. PICK o, ns, cs : Begin(s, o) /\ names' = [names EXCEPT ![s] = ns] /\ conflicts' = [conflicts EXCEPT ![s] = cs]
    BY <1>2 DEF BeginImport
  <2>2. QED
    BY <1>2, <2>1 DEF BeginImport, Begin, LocalTypes, Framed, Same, Goto
<1>3. CASE BeginRecord(s)
  <2>1. PICK o, ns : Begin(s, o) /\ names' = [names EXCEPT ![s] = ns]
    BY <1>3 DEF BeginRecord
  <2>2. QED
    BY <1>3, <2>1 DEF BeginRecord, Begin, LocalTypes, Framed, Same, Goto
<1>4. CASE Reply(s) /\ suspect \subseteq suspect'
  BY <1>4, ReplyFrame
<1>5. CASE NextFile(s)
  BY <1>4, <1>5 DEF NextFile, LocalTypes, Framed, Same, Goto
<1>6. CASE NoMoreStates(s)
  BY <1>4, <1>6 DEF NoMoreStates
<1>7. CASE NotConverted(s)
  BY <1>7 DEF NotConverted, LocalTypes, Framed, Same
<1>8. CASE NextState(s)
  BY <1>8 DEF NextState, LocalTypes, Framed, Same, Goto
<1>9. CASE Remove(s)
  BY <1>4, <1>9 DEF Remove, LocalTypes, Framed, Same, Goto, local
<1>10. CASE RemoveMeta(s)
  BY <1>10 DEF RemoveMeta, LocalTypes, Framed, Same, Goto, local
<1>11. CASE RemoveFlag(s)
  BY <1>11 DEF RemoveFlag, LocalTypes, Framed, Same, Goto, local
<1>12. CASE Touch(s)
  BY <1>4, <1>12 DEF Touch, LocalTypes, Framed, Same, Goto, local
<1>13. CASE Unlink(s)
  BY <1>4, <1>13 DEF Unlink, LocalTypes, Framed, Same, Goto, local
<1>14. CASE Load(s)
  BY <1>4, <1>14 DEF Load, LocalTypes, Framed, Same, Goto, local
<1>15. CASE Open(s)
  BY <1>15 DEF Open, LocalTypes, Framed, Same, Goto
<1>16. CASE Save(s)
  BY <1>4, <1>16 DEF Save, LocalTypes, Framed, Same, Goto, local
<1>17. CASE WriteMetadata(s)
  BY <1>4, <1>17 DEF WriteMetadata, LocalTypes, Framed, Same, Goto
<1>18. QED
  BY <1>1, <1>2, <1>3, <1>5, <1>6, <1>7, <1>8, <1>9, <1>10, <1>11, <1>12,
     <1>13, <1>14, <1>15, <1>16, <1>17 DEF Step

\* What becomes of the operation of a session.
LEMMA StepOperation ==
  ASSUME Types, NEW s \in Sessions, Step(s)
  PROVE  op'[s] = op[s] \/ op'[s] = NoOp \/ \E o : Begin(s, o)
<1> USE DEF Types
<1>1. ASSUME NEW kind \in Kinds, BeginOnStates(s, kind) \/ BeginImport(s, kind) PROVE \E o : Begin(s, o)
  BY <1>1 DEF BeginOnStates, BeginImport
<1>3. BeginRecord(s) => \E o : Begin(s, o)
  BY DEF BeginRecord
<1>4. Reply(s) => op'[s] = NoOp
  BY DEF Reply, LocalTypes
<1>5. QED
  BY <1>1, <1>3, <1>4 DEF Step, NextFile, NoMoreStates, NotConverted,
     NextState, Remove, RemoveMeta,
     RemoveFlag, Touch, Unlink, Load, Open, Save, WriteMetadata

\* An operation that begins makes the names suspect that are being worked on.
LEMMA ExclusiveStep ==
  ASSUME Types, Exclusive, NEW s \in Sessions, Step(s)
  PROVE  Exclusive'
<1> SUFFICES ASSUME NEW r \in Sessions, NEW t \in Sessions, r # t,
                    NEW n \in op'[r].scope \cap op'[t].scope, n \notin suspect'
             PROVE  Harmless(op'[r].kind, op'[t].kind)
  BY DEF Exclusive, Harmless
<1>1. \A k1, k2 : Harmless(k1, k2) <=> Harmless(k2, k1)
  BY DEF Harmless
<1>2. n \notin suspect /\ Framed(s)
  BY StepFrame
<1>3. ASSUME NEW u \in Sessions, u # s, n \in op'[u].scope, n \in op'[s].scope
      PROVE  Harmless(op'[u].kind, op'[s].kind)
  <2>1. op'[u] = op[u]
    BY <1>2, <1>3 DEF Framed, Same
  <2>2. CASE op'[s] = op[s]
    BY <1>2, <1>3, <2>1, <2>2 DEF Exclusive
  <2>3. CASE op'[s] = NoOp
    BY <1>3, <2>3 DEF NoOp
  <2>4. CASE \E o : Begin(s, o)
    <3>1. PICK o : Begin(s, o)
      BY <2>4
    <3>2. op'[s] = o /\ suspect' = suspect \cup (o.scope \cap Busy(s, o.kind))
      BY <3>1 DEF Begin, Types, LocalTypes
    <3>3. n \notin Busy(s, o.kind)
      BY <1>3, <3>2
    <3>4. QED
      BY <1>3, <2>1, <3>2, <3>3 DEF Busy
  <2>5. QED
    BY <2>2, <2>3, <2>4, StepOperation
<1>4. CASE r = s
  BY <1>1, <1>3, <1>4
<1>5. CASE t = s
  BY <1>3, <1>5
<1>6. CASE r # s /\ t # s
  BY <1>2, <1>6 DEF Framed, Same, Exclusive
<1>7. QED
  BY <1>4, <1>5, <1>6

\* What is kept of the files of a name.
LEMMA WorkFrame ==
  ASSUME NEW t \in Sessions, Same(t), SessionInv(t), NEW n \in Names, WorkInv(t, n),
         LocalTypes,
         \A f \in File : Name(f) = n =>
           /\ Exists(f)' <=> Exists(f)
           /\ content[f] = "whole" => content'[f] = "whole"
  PROVE  WorkInv(t, n)'
<1>1. FilesOf(n)' = FilesOf(n)
  BY DEF FilesOf
<1>2. files[t] \subseteq File
  BY DEF LocalTypes
<1>3. GoneInv(t, n)'
  BY <1>1 DEF WorkInv, GoneInv, Same
<1>4. RoomInv(t, n)'
  BY <1>1 DEF WorkInv, RoomInv, Replaces, Same
<1>5. NewInv(t, n)'
  BY <1>1 DEF WorkInv, NewInv, Same
<1>6. WrittenInv(t, n)'
  <2>1. pc[t] \in {"save", "write_meta"} => cur[t] \in File
    BY DEF SessionInv, WritingInv
  <2>2. Exists(cur[t])' <=> content'[cur'[t]] # "none"
    BY DEF Exists
  <2>3. Exists(cur[t]) <=> content[cur[t]] # "none"
    BY DEF Exists
  <2>4. QED
    BY <2>1, <2>2, <2>3 DEF WorkInv, WrittenInv, Same, Exists
<1>7. PresentInv(t, n)'
  <2>1. pc[t] = "touch" => cur[t] \in File
    BY DEF SessionInv, TouchInv
  <2>2. QED
    BY <1>2, <2>1 DEF WorkInv, PresentInv, Same, Exists
<1>8. QED
  BY <1>3, <1>4, <1>5, <1>6, <1>7 DEF WorkInv

\* The session that steps is not the one that an exception of DirInv is for.
LEMMA DirFrame ==
  ASSUME NEW s \in Sessions, Framed(s), NEW n \in Names, DirInv(n), StoreTypes,
         \A f \in File : Name(f) = n =>
           content'[f] = content[f] /\ (f \in meta' <=> f \in meta) /\ (f \in flag' <=> f \in flag),
         meta' \subseteq File, flag' \subseteq File,
         pc[s] \in {"rm_meta", "rm_flag", "save", "write_meta"} => Name(cur[s]) # n
  PROVE  DirInv(n)'
<1>1. \A f \in File : Name(f) = n => (Exists(f)' <=> Exists(f))
  BY DEF Exists
<1>2. FilesOf(n)' = FilesOf(n)
  BY <1>1 DEF FilesOf
<1>3. \A t \in Sessions : \A f : Name(f) = n /\ cur[t] = f /\ pc[t] \in {"rm_meta", "rm_flag", "save", "write_meta"}
        => cur'[t] = f /\ pc'[t] = pc[t]
  BY DEF Framed, Same
<1>4. Single(n)'
  BY <1>2 DEF DirInv, Single
<1>5. MetaInv(n)'
  BY <1>1, <1>3 DEF DirInv, MetaInv
<1>6. FlagInv(n)'
  BY <1>1, <1>3 DEF DirInv, FlagInv
<1>7. OwnInv(n)'
  BY <1>1, <1>3, Domains DEF DirInv, OwnInv
<1>8. QED
  BY <1>4, <1>5, <1>6, <1>7 DEF DirInv

\* Who works on a name with a writer, or disables what another one removes.
LEMMA Alone ==
  ASSUME LocalTypes, Exclusive, NEW s \in Sessions, NEW t \in Sessions \ {s},
         NEW n, n \notin suspect, n \in op[s].scope, n \in op[t].scope
  PROVE  /\ op[s].kind \in Writers => op[t].kind = "enable"
         /\ op[s].kind = "delete" => op[t].kind \in {"enable", "delete"}
<1>1. Harmless(op[s].kind, op[t].kind)
  BY DEF Exclusive
<1>2. op[t].kind \in AllKinds \cup {"none"}
  BY DEF LocalTypes, Operations
<1>3. QED
  BY <1>1, <1>2 DEF Harmless, Writers, AllKinds

----------------------------------------------------------------------------
(* Steps that leave the directory as it is                                 *)

\* When the directory is not touched, it is about the stepping session only.
LEMMA QuietStep ==
  ASSUME IInv, NEW s \in Sessions, Framed(s), suspect \subseteq suspect',
         UNCHANGED store, pc[s] \notin {"rm_meta", "rm_flag", "save", "write_meta"},
         NEW n \in Names \ suspect', WorkInv(s, n)'
  PROVE  NameInv(n)'
<1>1. NameInv(n)
  BY DEF IInv
<1>2. content' = content /\ meta' = meta /\ flag' = flag
  BY DEF store
<1>3. DirInv(n)'
  <2>1. meta' \subseteq File /\ flag' \subseteq File
    BY <1>2 DEF IInv, Types, StoreTypes
  <2>2. QED
    BY <1>1, <1>2, <2>1, DirFrame DEF NameInv, IInv, Types
<1>4. ASSUME NEW t \in Sessions \ {s} PROVE WorkInv(t, n)'
  <2>1. Same(t)
    BY DEF Framed
  <2>2. SessionInv(t) /\ WorkInv(t, n) /\ LocalTypes
    BY <1>1 DEF IInv, NameInv, Types
  <2>3. \A f \in File : /\ Exists(f)' <=> Exists(f)
                        /\ content[f] = "whole" => content'[f] = "whole"
    BY <1>2 DEF Exists
  <2>4. QED
    BY <2>1, <2>2, <2>3, WorkFrame
<1>5. QED
  BY <1>3, <1>4 DEF NameInv

\* After the reply a session relies upon nothing.
LEMMA AfterReply ==
  ASSUME LocalTypes, NEW s \in Sessions, Reply(s), NEW n
  PROVE  WorkInv(s, n)'
<1>1. pc'[s] = "idle" /\ op'[s] = NoOp
  BY DEF LocalTypes, Reply
<1>2. QED
  BY <1>1 DEF WorkInv, GoneInv, RoomInv, Replaces, NewInv, WrittenInv,
     PresentInv, NoOp

LEMMA BeginOnStatesNames ==
  ASSUME IInv, NEW s \in Sessions, NEW kind \in Kinds, BeginOnStates(s, kind),
         NEW n \in Names \ suspect'
  PROVE  NameInv(n)'
<1>1. Types /\ Step(s)
  BY DEF IInv, Step
<1>2. Framed(s) /\ suspect \subseteq suspect'
  BY <1>1, StepFrame
<1>3. UNCHANGED store /\ pc[s] = "idle"
  BY DEF BeginOnStates, Begin
<1>4. pc'[s] = "next"
  BY <1>1 DEF BeginOnStates, Goto, Types, LocalTypes
<1>5. kind \in {"delete", "disable", "enable"}
  BY DEF BeginOnStates
<1>6. op'[s].kind = kind /\ \A f \in files'[s] : Exists(f)
  <2>1. CASE \E m \in Names :
          /\ Existing(m) # NoFile
          /\ Begin(s, [NoOp EXCEPT !.kind = kind, !.scope = {m}])
          /\ files' = [files EXCEPT ![s] = {Existing(m)}]
    <3>1. PICK m \in Names :
          /\ Existing(m) # NoFile
          /\ Begin(s, [NoOp EXCEPT !.kind = kind, !.scope = {m}])
          /\ files' = [files EXCEPT ![s] = {Existing(m)}]
      BY <2>1
    <3>2. files'[s] = {Existing(m)}
      BY <1>1, <3>1 DEF Types, LocalTypes
    <3>3. op'[s] = [NoOp EXCEPT !.kind = kind, !.scope = {m}]
      BY <1>1, <3>1 DEF Begin, Types, LocalTypes
    <3>4. Existing(m) \in FilesOf(m)
      BY <3>1, ExistingIsThere
    <3>5. op'[s].kind = kind
      BY <3>3 DEF NoOp
    <3>6. QED
      BY <3>2, <3>4, <3>5 DEF FilesOf
  <2>2. CASE \E pattern \in SUBSET Names :
          /\ Listed(pattern) # {}
          /\ Begin(s, [NoOp EXCEPT !.kind = kind,
                                   !.scope = {Name(f) : f \in Listed(pattern)}])
          /\ files' = [files EXCEPT ![s] = Listed(pattern)]
    <3>1. PICK pattern \in SUBSET Names :
          /\ Begin(s, [NoOp EXCEPT !.kind = kind,
                                   !.scope = {Name(f) : f \in Listed(pattern)}])
          /\ files' = [files EXCEPT ![s] = Listed(pattern)]
      BY <2>2
    <3>2. files'[s] = Listed(pattern)
      BY <1>1, <3>1 DEF Types, LocalTypes
    <3>3. op'[s] = [NoOp EXCEPT !.kind = kind, !.scope = {Name(f) : f \in Listed(pattern)}]
      BY <1>1, <3>1 DEF Begin, Types, LocalTypes
    <3>4. op'[s].kind = kind
      BY <3>3 DEF NoOp
    <3>5. QED
      BY <3>2, <3>4, ListedType
  <2>3. QED
    BY <2>1, <2>2 DEF BeginOnStates
<1>7. \A f : Exists(f)' <=> Exists(f)
  BY <1>3 DEF Exists, store
<1>8. PresentInv(s, n)'
  BY <1>4, <1>6, <1>7 DEF PresentInv
<1>9. WorkInv(s, n)'
  BY <1>4, <1>5, <1>6, <1>8 DEF WorkInv, GoneInv, RoomInv, NewInv, WrittenInv
<1>10. QED
  BY <1>2, <1>3, <1>9, QuietStep

LEMMA BeginRecordNames ==
  ASSUME IInv, NEW s \in Sessions, BeginRecord(s), NEW n \in Names \ suspect'
  PROVE  NameInv(n)'
<1>1. Types /\ Step(s)
  BY DEF IInv, Step
<1>2. Framed(s) /\ suspect \subseteq suspect'
  BY <1>1, StepFrame
<1>3. UNCHANGED store /\ pc[s] = "idle"
  BY DEF BeginRecord, Begin
<1>4. pc'[s] = "next"
  BY <1>1 DEF BeginRecord, Goto, Types, LocalTypes
<1>5. op'[s].kind = "record"
  BY <1>1 DEF BeginRecord, Begin, Types, LocalTypes
<1>6. WorkInv(s, n)'
  BY <1>4, <1>5 DEF WorkInv, GoneInv, RoomInv, NewInv, WrittenInv, PresentInv
<1>7. QED
  BY <1>2, <1>3, <1>6, QuietStep

LEMMA BeginImportNames ==
  ASSUME IInv, NEW s \in Sessions, NEW kind \in Kinds, BeginImport(s, kind),
         NEW n \in Names \ suspect'
  PROVE  NameInv(n)'
<1>1. Types /\ Step(s)
  BY DEF IInv, Step
<1>2. Framed(s) /\ suspect \subseteq suspect'
  BY <1>1, StepFrame
<1>3. UNCHANGED store /\ pc[s] = "idle"
  BY DEF BeginImport, Begin
<1>4. pc'[s] = "next"
  BY <1>1 DEF BeginImport, Goto, Types, LocalTypes
<1>5. PICK states \in Imported, overwrite \in BOOLEAN, skip \in BOOLEAN,
           suffix \in {".state.xml", ".state.cfg"} :
       /\ Begin(s, [kind |-> kind, overwrite |-> overwrite, skip |-> skip,
                    suffix |-> suffix, scope |-> Written(kind, skip, states)])
       /\ conflicts' = [conflicts EXCEPT ![s] = Conflicting(states)]
  BY DEF BeginImport
<1>6. op'[s].kind = kind /\ op'[s].scope = Written(kind, skip, states)
      /\ conflicts'[s] = Conflicting(states)
  BY <1>1, <1>5 DEF Begin, Types, LocalTypes
<1>7. kind \in {"import", "convert"}
  BY DEF BeginImport
<1>8. NewInv(s, n)'
  <2>1. SUFFICES ASSUME n \in op'[s].scope \ conflicts'[s] PROVE FilesOf(n)' = {}
    BY DEF NewInv
  <2>2. Existing(n) = NoFile
    BY <1>6, <2>1 DEF Written, Conflicting
  <2>3. FilesOf(n) = {}
    BY <2>2, ExistingIsThere
  <2>4. content' = content
    BY <1>3 DEF store
  <2>5. QED
    BY <2>3, <2>4 DEF FilesOf, Exists
<1>9. WorkInv(s, n)'
  BY <1>4, <1>6, <1>7, <1>8 DEF WorkInv, GoneInv, RoomInv, WrittenInv,
     PresentInv
<1>10. QED
  BY <1>2, <1>3, <1>9, QuietStep

LEMMA NextFileNames ==
  ASSUME IInv, NEW s \in Sessions, NextFile(s), NEW n \in Names \ suspect'
  PROVE  NameInv(n)'
<1>1. Types /\ Step(s) /\ LocalTypes
  BY DEF IInv, Step, Types
<1>2. Framed(s) /\ suspect \subseteq suspect'
  BY <1>1, StepFrame
<1>3. UNCHANGED store /\ pc[s] = "next"
  BY DEF NextFile
<1>4. WorkInv(s, n)'
  <2>1. CASE Reply(s)
    BY <1>1, <2>1, AfterReply
  <2>2. CASE ~Reply(s)
    <3>1. PICK f \in files[s] :
            /\ files' = [files EXCEPT ![s] = @ \ {f}]
            /\ cur' = [cur EXCEPT ![s] = f]
            /\ Goto(s, IF op[s].kind = "delete" THEN "remove"
                     ELSE IF op[s].kind = "disable" THEN "touch" ELSE "unlink")
            /\ op' = op
      BY <2>2 DEF NextFile
    <3>2. pc'[s] \in {"remove", "touch", "unlink"}
      BY <1>1, <3>1 DEF LocalTypes, Goto
    <3>3. cur'[s] = f /\ files'[s] \subseteq files[s]
      BY <1>1, <3>1 DEF LocalTypes
    <3>4. \A g : Exists(g)' <=> Exists(g)
      BY <1>3 DEF Exists, store
    <3>5. PresentInv(s, n)
      BY <1>2 DEF IInv, NameInv, WorkInv
    <3>6. PresentInv(s, n)'
      BY <3>1, <3>2, <3>3, <3>4, <3>5 DEF PresentInv
    <3>7. op'[s].kind # "import"
      BY <3>1 DEF NextFile, Writers
    <3>8. QED
      BY <3>2, <3>6, <3>7 DEF WorkInv, GoneInv, RoomInv, NewInv, WrittenInv
  <2>3. QED
    BY <2>1, <2>2
<1>5. QED
  BY <1>2, <1>3, <1>4, QuietStep

LEMMA NoMoreStatesNames ==
  ASSUME IInv, NEW s \in Sessions, NoMoreStates(s), NEW n \in Names \ suspect'
  PROVE  NameInv(n)'
<1>1. Types /\ Step(s) /\ LocalTypes
  BY DEF IInv, Step, Types
<1>2. Framed(s) /\ suspect \subseteq suspect'
  BY <1>1, StepFrame
<1>3. UNCHANGED store /\ pc[s] = "next" /\ Reply(s)
  BY DEF NoMoreStates
<1>4. QED
  BY <1>1, <1>2, <1>3, QuietStep, AfterReply

LEMMA NotConvertedNames ==
  ASSUME IInv, NEW s \in Sessions, NotConverted(s), NEW n \in Names \ suspect'
  PROVE  NameInv(n)'
<1>1. Types /\ Step(s)
  BY DEF IInv, Step
<1>2. Framed(s) /\ suspect \subseteq suspect'
  BY <1>1, StepFrame
<1>3. UNCHANGED store /\ pc[s] = "next" /\ pc'[s] = "next" /\ op'[s].kind = "convert"
  BY DEF NotConverted
<1>4. WorkInv(s, n)'
  BY <1>3 DEF WorkInv, GoneInv, RoomInv, NewInv, WrittenInv, PresentInv
<1>5. QED
  BY <1>2, <1>3, <1>4, QuietStep

LEMMA NextStateNames ==
  ASSUME IInv, NEW s \in Sessions, NextState(s), NEW n \in Names \ suspect'
  PROVE  NameInv(n)'
<1>1. Types /\ Step(s) /\ LocalTypes /\ SessionInv(s)
  BY DEF IInv, Step, Types
<1>2. Framed(s) /\ suspect \subseteq suspect'
  BY <1>1, StepFrame
<1>3. UNCHANGED store /\ pc[s] = "next" /\ UNCHANGED <<op, files, names, conflicts>>
  BY DEF NextState
<1>4. FilesOf(n)' = FilesOf(n)
  BY <1>3 DEF store, FilesOf, Exists
<1>5. pc'[s] \in {"remove", "load", "open"}
  BY <1>1 DEF NextState, Goto, LocalTypes
<1>6. op[s].kind \in Writers
  BY DEF NextState
<1>7. NewInv(s, n)'
  BY <1>2, <1>3, <1>4 DEF IInv, NameInv, WorkInv, NewInv
<1>8. RoomInv(s, n)'
  <2>1. SUFFICES ASSUME pc'[s] \in {"load", "open"}, Head(names[s]) = n, Replaces(s, n)
                 PROVE  FilesOf(n) = {}
    BY <1>3, <1>4 DEF RoomInv, Replaces
  <2>2. InTheWay(s, n) = NoFile
    BY <1>1, <2>1 DEF NextState, Goto, LocalTypes
  <2>3. Existing(n) = NoFile
    BY <2>1, <2>2 DEF InTheWay, Replaces
  <2>4. QED
    BY <2>3, ExistingIsThere
<1>9. WorkInv(s, n)'
  BY <1>3, <1>5, <1>6, <1>7, <1>8 DEF WorkInv, GoneInv, WrittenInv,
     PresentInv, Writers
<1>10. QED
  BY <1>2, <1>3, <1>9, QuietStep

LEMMA LoadNames ==
  ASSUME IInv, NEW s \in Sessions, Load(s), NEW n \in Names \ suspect'
  PROVE  NameInv(n)'
<1>1. Types /\ Step(s) /\ LocalTypes /\ SessionInv(s)
  BY DEF IInv, Step, Types
<1>2. Framed(s) /\ suspect \subseteq suspect'
  BY <1>1, StepFrame
<1>3. UNCHANGED store /\ pc[s] = "load"
  BY DEF Load
<1>4. CASE Reply(s)
  BY <1>1, <1>2, <1>3, <1>4, QuietStep, AfterReply
<1>5. CASE pc' = [pc EXCEPT ![s] = "open"] /\ UNCHANGED <<op, files, names, conflicts, cur>>
  <2>1. pc'[s] = "open"
    BY <1>1, <1>5 DEF LocalTypes
  <2>2. FilesOf(n)' = FilesOf(n)
    BY <1>3 DEF store, FilesOf, Exists
  <2>3. WorkInv(s, n)
    BY <1>2 DEF IInv, NameInv
  <2>4. op[s].kind = "import"
    BY <1>1, <1>3 DEF SessionInv, WritingInv
  <2>5. RoomInv(s, n)' /\ NewInv(s, n)'
    BY <1>3, <1>5, <2>1, <2>2, <2>3 DEF WorkInv, RoomInv, Replaces, NewInv
  <2>6. WorkInv(s, n)'
    BY <1>5, <2>1, <2>4, <2>5 DEF WorkInv, GoneInv, WrittenInv, PresentInv
  <2>7. QED
    BY <1>2, <1>3, <2>6, QuietStep
<1>6. QED
  BY <1>4, <1>5 DEF Load, Goto, local

----------------------------------------------------------------------------
(* Steps on the files of a name                                            *)

\* A step on the files of one name is nothing to another name.
LEMMA OtherName ==
  ASSUME IInv, NEW s \in Sessions, Framed(s), suspect \subseteq suspect',
         NEW m \in Names, StoreTypes',
         \A f \in File : Name(f) # m =>
           content'[f] = content[f] /\ (f \in meta' <=> f \in meta) /\ (f \in flag' <=> f \in flag),
         pc[s] \in {"rm_meta", "rm_flag", "save", "write_meta"} => Name(cur[s]) = m,
         NEW n \in Names \ suspect', n # m, WorkInv(s, n)'
  PROVE  NameInv(n)'
<1>1. NameInv(n)
  BY DEF IInv
<1>2. \A f \in File : Name(f) = n =>
        content'[f] = content[f] /\ (f \in meta' <=> f \in meta) /\ (f \in flag' <=> f \in flag)
  OBVIOUS
<1>3. DirInv(n)'
  <2>1. meta' \subseteq File /\ flag' \subseteq File
    BY DEF StoreTypes
  <2>2. pc[s] \in {"rm_meta", "rm_flag", "save", "write_meta"} => Name(cur[s]) # n
    OBVIOUS
  <2>3. QED
    BY <1>1, <1>2, <2>1, <2>2, DirFrame DEF NameInv, IInv, Types
<1>4. ASSUME NEW t \in Sessions \ {s} PROVE WorkInv(t, n)'
  <2>1. Same(t)
    BY DEF Framed
  <2>2. SessionInv(t) /\ WorkInv(t, n) /\ LocalTypes
    BY <1>1 DEF IInv, NameInv, Types
  <2>3. \A f \in File : Name(f) = n =>
          /\ Exists(f)' <=> Exists(f)
          /\ content[f] = "whole" => content'[f] = "whole"
    BY <1>2 DEF Exists
  <2>4. QED
    BY <2>1, <2>2, <2>3, WorkFrame
<1>5. QED
  BY <1>3, <1>4 DEF NameInv

\* The metadata and the flags are not what the other sessions rely upon.
LEMMA OthersWork ==
  ASSUME IInv, NEW s \in Sessions, Framed(s), suspect \subseteq suspect',
         NEW n \in Names \ suspect',
         \A f \in File : Name(f) = n =>
           /\ Exists(f)' <=> Exists(f)
           /\ content[f] = "whole" => content'[f] = "whole"
  PROVE  \A t \in Sessions \ {s} : WorkInv(t, n)'
<1>1. SUFFICES ASSUME NEW t \in Sessions \ {s} PROVE WorkInv(t, n)'
  OBVIOUS
<1>2. Same(t)
  BY DEF Framed
<1>3. SessionInv(t) /\ WorkInv(t, n) /\ LocalTypes
  BY DEF IInv, NameInv, Types
<1>4. QED
  BY <1>2, <1>3, WorkFrame

\* The other sessions stay where they are.
LEMMA Witnesses ==
  ASSUME NEW s, Framed(s)
  PROVE  \A t \in Sessions \ {s} : pc'[t] = pc[t] /\ cur'[t] = cur[t]
BY DEF Framed, Same

\* Nobody else relies upon a file that is removed.
LEMMA RemoveNames ==
  ASSUME IInv, NEW s \in Sessions, Remove(s), NEW n \in Names \ suspect'
  PROVE  NameInv(n)'
<1>1. Types /\ Step(s) /\ LocalTypes /\ StoreTypes /\ SessionInv(s)
  BY DEF IInv, Step, Types
<1>2. Framed(s) /\ suspect \subseteq suspect'
  BY <1>1, StepFrame
<1>3. pc[s] = "remove"
  BY DEF Remove
<1>4. CASE Reply(s) /\ content' = content
  <2>1. UNCHANGED store
    BY <1>4 DEF Remove, store
  <2>2. QED
    BY <1>1, <1>2, <1>3, <1>4, <2>1, QuietStep, AfterReply
<1>5. CASE /\ Exists(cur[s]) /\ content' = [content EXCEPT ![cur[s]] = "none"]
           /\ pc' = [pc EXCEPT ![s] = "rm_meta"] /\ UNCHANGED <<op, files, names, conflicts, cur>>
  <2> DEFINE f0 == cur[s]
             m == Name(f0)
  <2>1. /\ f0 \in File /\ m \in op[s].scope /\ op[s].kind \in {"delete", "record", "import"}
    BY <1>1, <1>3 DEF SessionInv, RemovalInv
  <2>2. m \in Names
    BY <2>1, Domains
  <2>3. pc'[s] = "rm_meta"
    BY <1>1, <1>5 DEF LocalTypes
  <2>4. StoreTypes' /\ UNCHANGED <<meta, flag>>
    BY <1>1, <1>5 DEF Remove, StoreTypes
  <2>5. \A f \in File : content'[f] = IF f = f0 THEN "none" ELSE content[f]
    BY <1>1, <1>5 DEF StoreTypes
  <2>6. \A f \in File : Exists(f)' <=> Exists(f) /\ f # f0
    BY <2>5 DEF Exists
  <2> HIDE DEF f0, m
  <2>7. FilesOf(n)' = FilesOf(n) \ {f0}
    BY <2>6 DEF FilesOf
  <2>8. NameInv(n)
    BY <1>2 DEF IInv
  <2>9. WorkInv(s, n)'
    <3>1. GoneInv(s, n)'
      <4>1. SUFFICES ASSUME m = n PROVE FilesOf(n)' = {}
        BY <1>5 DEF GoneInv, m, f0
      <4>2. f0 \in FilesOf(n)
        BY <1>5, <2>1, <4>1 DEF FilesOf, m, f0
      <4>3. QED
        BY <2>7, <2>8, <4>2 DEF NameInv, DirInv, Single
    <3>2. NewInv(s, n)'
      BY <1>5, <2>7, <2>8 DEF NameInv, WorkInv, NewInv
    <3>3. QED
      BY <1>5, <2>1, <2>3, <3>1, <3>2 DEF WorkInv, RoomInv, WrittenInv,
         PresentInv
  <2>10. CASE n # m
    <3>1. \A f \in File : Name(f) # m => content'[f] = content[f]
      BY <2>5 DEF m
    <3>2. QED
      BY <1>2, <1>3, <2>2, <2>4, <2>9, <2>10, <3>1, OtherName
  <2>11. CASE n = m
    <3>1. ASSUME NEW t \in Sessions \ {s} PROVE WorkInv(t, n)'
      <4>1. Same(t)
        BY <1>2 DEF Framed
      <4>2. WorkInv(t, n) /\ SessionInv(t)
        BY <2>8 DEF IInv, NameInv
      <4>3. n \in op[t].scope => op[t].kind \in {"enable", "delete"}
        <5>1. op[s].kind # "delete" => op[s].kind \in Writers
          BY <2>1 DEF Writers
        <5>2. Exclusive /\ n \notin suspect
          BY <1>2 DEF IInv
        <5>3. op[s].kind \in Writers /\ n \in op[t].scope => op[t].kind = "enable"
          BY <1>1, <2>1, <2>11, <5>2, Alone
        <5>4. op[s].kind = "delete" /\ n \in op[t].scope => op[t].kind \in {"enable", "delete"}
          BY <1>1, <2>1, <2>11, <5>2, Alone
        <5>5. QED
          BY <5>1, <5>3, <5>4
      <4>4. GoneInv(t, n)'
        BY <2>7, <4>1, <4>2 DEF WorkInv, GoneInv, Same
      <4>5. RoomInv(t, n)'
        BY <2>7, <4>1, <4>2 DEF WorkInv, RoomInv, Replaces, Same
      <4>6. NewInv(t, n)'
        BY <2>7, <4>1, <4>2 DEF WorkInv, NewInv, Same
      <4>7. WrittenInv(t, n)'
        <5>1. pc[t] \in {"save", "write_meta"} => Name(cur[t]) # n
          BY <4>2, <4>3 DEF SessionInv, WritingInv, Writers
        <5>2. QED
          BY <4>1, <5>1 DEF WrittenInv, Same
      <4>8. PresentInv(t, n)'
        <5>1. op[t].kind = "disable" => n \notin op[t].scope
          BY <4>3
        <5>2. op[t].kind = "disable" => \A f \in files[t] : Name(f) # n
          BY <4>2, <5>1 DEF SessionInv, ScopeInv
        <5>3. op[t].kind = "disable" /\ pc[t] = "touch" => Name(cur[t]) # n
          BY <4>2, <5>1 DEF SessionInv, TouchInv
        <5>4. QED
          BY <4>1, <5>2, <5>3 DEF PresentInv, Same
      <4>9. QED
        BY <4>4, <4>5, <4>6, <4>7, <4>8 DEF WorkInv
    <3>2. \A t \in Sessions \ {s} : pc'[t] = pc[t] /\ cur'[t] = cur[t]
      BY <1>2, Witnesses
    <3>3. cur'[s] = f0
      BY <1>5 DEF f0
    <3>4. Single(n)'
      BY <2>7, <2>8 DEF NameInv, DirInv, Single
    <3>5. MetaInv(n)'
      <4>1. SUFFICES ASSUME NEW f \in meta, Name(f) = n, ~Exists(f)'
                     PROVE  \E t \in Sessions : pc'[t] = "rm_meta" /\ cur'[t] = f
        BY <2>4 DEF MetaInv
      <4>2. f \in File
        BY <1>1 DEF StoreTypes
      <4>3. CASE f = f0
        BY <2>3, <3>3, <4>3
      <4>4. CASE f # f0
        <5>1. ~Exists(f)
          BY <2>6, <4>1, <4>2, <4>4
        <5>2. PICK t \in Sessions : pc[t] = "rm_meta" /\ cur[t] = f
          BY <2>8, <4>1, <5>1 DEF NameInv, DirInv, MetaInv
        <5>3. QED
          BY <1>3, <3>2, <5>2
      <4>5. QED
        BY <4>3, <4>4
    <3>6. FlagInv(n)'
      <4>1. SUFFICES ASSUME NEW f \in flag, Name(f) = n, ~Exists(f)'
                     PROVE  \E t \in Sessions : pc'[t] \in {"rm_meta", "rm_flag"} /\ cur'[t] = f
        BY <2>4 DEF FlagInv
      <4>2. f \in File
        BY <1>1 DEF StoreTypes
      <4>3. CASE f = f0
        BY <2>3, <3>3, <4>3
      <4>4. CASE f # f0
        <5>1. ~Exists(f)
          BY <2>6, <4>1, <4>2, <4>4
        <5>2. PICK t \in Sessions : pc[t] \in {"rm_meta", "rm_flag"} /\ cur[t] = f
          BY <2>8, <4>1, <5>1 DEF NameInv, DirInv, FlagInv
        <5>3. QED
          BY <1>3, <3>2, <5>2
      <4>5. QED
        BY <4>3, <4>4
    <3>7. OwnInv(n)'
      <4>1. SUFFICES ASSUME NEW f \in OwnFile, Name(f) = n, Exists(f)'
                     PROVE  /\ content'[f] = "whole" \/ \E t \in Sessions : pc'[t] = "save" /\ cur'[t] = f
                            /\ f \in meta \/ \E t \in Sessions : pc'[t] \in {"save", "write_meta"} /\ cur'[t] = f
        BY <2>4 DEF OwnInv
      <4>2. f \in File /\ Exists(f) /\ content'[f] = content[f]
        BY <2>5, <2>6, <4>1, Domains
      <4>3. /\ content[f] = "whole" \/ \E t \in Sessions : pc[t] = "save" /\ cur[t] = f
            /\ f \in meta \/ \E t \in Sessions : pc[t] \in {"save", "write_meta"} /\ cur[t] = f
        BY <2>8, <4>1, <4>2 DEF NameInv, DirInv, OwnInv
      <4>4. QED
        BY <1>3, <3>2, <4>2, <4>3
    <3>8. QED
      BY <2>9, <3>1, <3>4, <3>5, <3>6, <3>7 DEF NameInv, DirInv
  <2>12. QED
    BY <2>10, <2>11
<1>6. QED
  BY <1>4, <1>5 DEF Remove, Goto, local

\* The metadata goes after the file.
LEMMA RemoveMetaNames ==
  ASSUME IInv, NEW s \in Sessions, RemoveMeta(s), NEW n \in Names \ suspect'
  PROVE  NameInv(n)'
<1> DEFINE f0 == cur[s]
           m == Name(f0)
<1>1. Types /\ Step(s) /\ LocalTypes /\ StoreTypes /\ SessionInv(s)
  BY DEF IInv, Step, Types
<1>2. Framed(s) /\ suspect \subseteq suspect'
  BY <1>1, StepFrame
<1>3. /\ pc[s] = "rm_meta" /\ content' = content /\ flag' = flag /\ meta' = meta \ {f0}
      /\ UNCHANGED <<op, files, names, conflicts, cur>>
  BY DEF RemoveMeta, local
<1>4. f0 \in File /\ m \in op[s].scope /\ op[s].kind \in {"delete", "record", "import"}
  BY <1>1, <1>3 DEF SessionInv, RemovalInv
<1>5. m \in Names
  BY <1>4, Domains
<1>6. pc'[s] = "rm_flag" /\ cur'[s] = f0
  BY <1>1, <1>3 DEF RemoveMeta, Goto, LocalTypes
<1>7. \A f : Exists(f)' <=> Exists(f)
  BY <1>3 DEF Exists
<1>8. FilesOf(n)' = FilesOf(n)
  BY <1>7 DEF FilesOf
<1>9. NameInv(n) /\ WorkInv(s, n)
  BY <1>2 DEF IInv, NameInv
<1>10. WorkInv(s, n)'
  <2>1. GoneInv(s, n)'
    BY <1>3, <1>8, <1>9 DEF WorkInv, GoneInv
  <2>2. NewInv(s, n)'
    BY <1>3, <1>8, <1>9 DEF WorkInv, NewInv
  <2>3. QED
    BY <1>3, <1>4, <1>6, <2>1, <2>2 DEF WorkInv, RoomInv, WrittenInv,
       PresentInv
<1>11. CASE n # m
  <2>1. StoreTypes'
    BY <1>1 DEF RemoveMeta, StoreTypes
  <2>2. \A f \in File : Name(f) # m => (f \in meta' <=> f \in meta)
    BY <1>3
  <2> HIDE DEF m, f0
  <2>3. QED
    BY <1>2, <1>3, <1>5, <1>10, <1>11, <2>1, <2>2, OtherName DEF m, f0
<1>12. CASE n = m
  <2>1. \A t \in Sessions \ {s} : WorkInv(t, n)'
    BY <1>2, <1>3, <1>7, OthersWork
  <2>2. \A t \in Sessions \ {s} : pc'[t] = pc[t] /\ cur'[t] = cur[t]
    BY <1>2, Witnesses
  <2>3. FilesOf(n) = {}
    BY <1>3, <1>9, <1>12 DEF WorkInv, GoneInv
  <2>4. Single(n)'
    BY <1>8, <2>3 DEF Single
  <2>5. MetaInv(n)'
    <3>1. SUFFICES ASSUME NEW f \in meta', Name(f) = n, ~Exists(f)
                   PROVE  \E t \in Sessions : pc'[t] = "rm_meta" /\ cur'[t] = f
      BY <1>7 DEF MetaInv
    <3>2. PICK t \in Sessions : pc[t] = "rm_meta" /\ cur[t] = f
      BY <1>3, <1>9, <3>1 DEF NameInv, DirInv, MetaInv
    <3>3. t # s
      BY <1>3, <3>1, <3>2
    <3>4. QED
      BY <2>2, <3>2, <3>3
  <2>6. FlagInv(n)'
    BY <1>3, <1>6, <1>7, <1>9, <2>2 DEF NameInv, DirInv, FlagInv
  <2>7. OwnInv(n)'
    BY <1>7, <2>3, Domains DEF OwnInv, FilesOf
  <2>8. QED
    BY <1>10, <2>1, <2>4, <2>5, <2>6, <2>7 DEF NameInv, DirInv
<1>13. QED
  BY <1>11, <1>12

\* The flag goes last; then there is room for the new file.
LEMMA RemoveFlagNames ==
  ASSUME IInv, NEW s \in Sessions, RemoveFlag(s), NEW n \in Names \ suspect'
  PROVE  NameInv(n)'
<1> DEFINE f0 == cur[s]
           m == Name(f0)
<1>1. Types /\ Step(s) /\ LocalTypes /\ StoreTypes /\ SessionInv(s)
  BY DEF IInv, Step, Types
<1>2. Framed(s) /\ suspect \subseteq suspect'
  BY <1>1, StepFrame
<1>3. /\ pc[s] = "rm_flag" /\ content' = content /\ meta' = meta /\ flag' = flag \ {f0}
      /\ UNCHANGED <<op, files, names, conflicts, cur>>
  BY DEF RemoveFlag, local
<1>4. /\ f0 \in File /\ m \in op[s].scope /\ op[s].kind \in {"delete", "record", "import"}
      /\ op[s].kind # "delete" => Head(names[s]) = m
  BY <1>1, <1>3 DEF SessionInv, RemovalInv
<1>5. m \in Names
  BY <1>4, Domains
<1>6. pc'[s] = IF op[s].kind = "delete" THEN "next"
               ELSE IF op[s].kind = "record" THEN "open" ELSE "load"
  BY <1>1 DEF RemoveFlag, Goto, LocalTypes
<1>7. \A f : Exists(f)' <=> Exists(f)
  BY <1>3 DEF Exists
<1>8. FilesOf(n)' = FilesOf(n)
  BY <1>7 DEF FilesOf
<1>9. NameInv(n) /\ WorkInv(s, n)
  BY <1>2 DEF IInv, NameInv
<1>10. WorkInv(s, n)'
  <2>1. RoomInv(s, n)'
    BY <1>3, <1>4, <1>6, <1>8, <1>9 DEF WorkInv, GoneInv, RoomInv
  <2>2. NewInv(s, n)'
    BY <1>3, <1>8, <1>9 DEF WorkInv, NewInv
  <2>3. QED
    BY <1>3, <1>4, <1>6, <2>1, <2>2 DEF WorkInv, GoneInv, WrittenInv,
       PresentInv
<1>11. CASE n # m
  <2>1. StoreTypes'
    BY <1>1 DEF RemoveFlag, StoreTypes
  <2>2. \A f \in File : Name(f) # m => (f \in flag' <=> f \in flag)
    BY <1>3
  <2> HIDE DEF m, f0
  <2>3. QED
    BY <1>2, <1>3, <1>5, <1>10, <1>11, <2>1, <2>2, OtherName DEF m, f0
<1>12. CASE n = m
  <2>1. \A t \in Sessions \ {s} : WorkInv(t, n)'
    BY <1>2, <1>3, <1>7, OthersWork
  <2>2. \A t \in Sessions \ {s} : pc'[t] = pc[t] /\ cur'[t] = cur[t]
    BY <1>2, Witnesses
  <2>3. FilesOf(n) = {}
    BY <1>3, <1>9, <1>12 DEF WorkInv, GoneInv
  <2>4. Single(n)'
    BY <1>8, <2>3 DEF Single
  <2>5. MetaInv(n)'
    BY <1>3, <1>7, <1>9, <2>2 DEF NameInv, DirInv, MetaInv
  <2>6. FlagInv(n)'
    <3>1. SUFFICES ASSUME NEW f \in flag', Name(f) = n, ~Exists(f)
                   PROVE  \E t \in Sessions : pc'[t] \in {"rm_meta", "rm_flag"} /\ cur'[t] = f
      BY <1>7 DEF FlagInv
    <3>2. PICK t \in Sessions : pc[t] \in {"rm_meta", "rm_flag"} /\ cur[t] = f
      BY <1>3, <1>9, <3>1 DEF NameInv, DirInv, FlagInv
    <3>3. t # s
      BY <1>3, <3>1, <3>2
    <3>4. QED
      BY <2>2, <3>2, <3>3
  <2>7. OwnInv(n)'
    BY <1>7, <2>3, Domains DEF OwnInv, FilesOf
  <2>8. QED
    BY <1>10, <2>1, <2>4, <2>5, <2>6, <2>7 DEF NameInv, DirInv
<1>13. QED
  BY <1>11, <1>12

\* The flag that disable-state creates is one of a file that exists.
LEMMA FlaggingNames ==
  ASSUME IInv, NEW s \in Sessions, Touch(s) \/ Unlink(s), NEW n \in Names \ suspect'
  PROVE  NameInv(n)'
<1>1. Types /\ Step(s) /\ LocalTypes /\ StoreTypes /\ SessionInv(s)
  BY DEF IInv, Step, Types
<1>2. Framed(s) /\ suspect \subseteq suspect'
  BY <1>1, StepFrame
<1>3. /\ pc[s] \in {"touch", "unlink"} /\ content' = content /\ meta' = meta
      /\ flag' = flag \/ (pc[s] = "touch" /\ flag' = flag \cup {cur[s]}) \/ flag' \subseteq flag
  BY DEF Touch, Unlink
<1>4. \A f : Exists(f)' <=> Exists(f)
  BY <1>3 DEF Exists
<1>5. FilesOf(n)' = FilesOf(n)
  BY <1>4 DEF FilesOf
<1>6. NameInv(n) /\ WorkInv(s, n)
  BY <1>2 DEF IInv, NameInv
<1>7. WorkInv(s, n)'
  <2>1. CASE Reply(s)
    BY <1>1, <2>1, AfterReply
  <2>2. CASE pc' = [pc EXCEPT ![s] = "next"] /\ UNCHANGED <<op, files, names, conflicts, cur>>
    <3>1. pc'[s] = "next"
      BY <1>1, <2>2 DEF LocalTypes
    <3>2. NewInv(s, n)'
      BY <1>5, <1>6, <2>2 DEF WorkInv, NewInv
    <3>3. PresentInv(s, n)'
      BY <1>4, <1>6, <2>2, <3>1 DEF WorkInv, PresentInv
    <3>4. QED
      BY <3>1, <3>2, <3>3 DEF WorkInv, GoneInv, RoomInv, WrittenInv
  <2>3. QED
    BY <2>1, <2>2 DEF Touch, Unlink, Goto, local
<1>8. \A t \in Sessions \ {s} : WorkInv(t, n)'
  BY <1>2, <1>3, <1>4, OthersWork
<1>9. \A t \in Sessions \ {s} : pc'[t] = pc[t] /\ cur'[t] = cur[t]
  BY <1>2, Witnesses
<1>10. Single(n)'
  BY <1>5, <1>6 DEF NameInv, DirInv, Single
<1>11. MetaInv(n)'
  BY <1>3, <1>4, <1>6, <1>9 DEF NameInv, DirInv, MetaInv
<1>12. OwnInv(n)'
  BY <1>3, <1>4, <1>6, <1>9 DEF NameInv, DirInv, OwnInv
<1>13. FlagInv(n)'
  <2>1. SUFFICES ASSUME NEW f \in flag', Name(f) = n, ~Exists(f)
                 PROVE  \E t \in Sessions : pc'[t] \in {"rm_meta", "rm_flag"} /\ cur'[t] = f
    BY <1>4 DEF FlagInv
  <2>2. f \in flag
    <3>1. CASE flag' \subseteq flag
      BY <3>1
    <3>2. CASE pc[s] = "touch" /\ flag' = flag \cup {cur[s]}
      <4>1. op[s].kind = "disable"
        BY <1>1, <3>2 DEF SessionInv, TouchInv
      <4>2. f # cur[s]
        BY <1>6, <2>1, <3>2, <4>1 DEF WorkInv, PresentInv
      <4>3. QED
        BY <3>2, <4>2
    <3>3. QED
      BY <1>3, <3>1, <3>2
  <2>3. PICK t \in Sessions : pc[t] \in {"rm_meta", "rm_flag"} /\ cur[t] = f
    BY <1>6, <2>1, <2>2 DEF NameInv, DirInv, FlagInv
  <2>4. QED
    BY <1>3, <1>9, <2>3
<1>14. QED
  BY <1>7, <1>8, <1>10, <1>11, <1>12, <1>13 DEF NameInv, DirInv

\* A file is created where there is no other one of the state: removed by this
\* operation, or not there when it began.
LEMMA OpenNames ==
  ASSUME IInv, NEW s \in Sessions, Open(s), NEW n \in Names \ suspect'
  PROVE  NameInv(n)'
<1> DEFINE m == Head(names[s])
           f0 == <<m, op[s].suffix>>
<1>1. Types /\ Step(s) /\ LocalTypes /\ StoreTypes /\ SessionInv(s)
  BY DEF IInv, Step, Types
<1>2. Framed(s) /\ suspect \subseteq suspect'
  BY <1>1, StepFrame
<1>3. /\ pc[s] = "open" /\ content' = [content EXCEPT ![f0] = "partial"]
      /\ pc' = [pc EXCEPT ![s] = "save"] /\ cur' = [cur EXCEPT ![s] = f0]
      /\ suspect' = IF FilesOf(m) # {} /\ (op[s].skip \/ op[s].kind = "convert")
                    THEN suspect \cup {m} ELSE suspect
      /\ UNCHANGED <<meta, flag, op, files, names, conflicts>>
  BY DEF Open, Goto
<1>4. m \in op[s].scope /\ op[s].kind \in Writers
  BY <1>1, <1>3 DEF SessionInv, WritingInv
<1>5. f0 \in File /\ Name(f0) = m /\ m \in Names
  <2>1. m \in Names /\ op[s].suffix \in Range(StateSuffixes)
    BY <1>1, <1>4 DEF LocalTypes, Operations
  <2>2. QED
    BY <2>1, Domains
<1> HIDE DEF f0, m
<1>6. pc'[s] = "save" /\ cur'[s] = f0
  BY <1>1, <1>3 DEF LocalTypes
<1>7. \A f \in File : content'[f] = IF f = f0 THEN "partial" ELSE content[f]
  BY <1>1, <1>3 DEF StoreTypes
<1>8. \A f \in File : Exists(f)' <=> Exists(f) \/ f = f0
  BY <1>7 DEF Exists
<1>9. NameInv(n) /\ WorkInv(s, n)
  BY <1>2 DEF IInv, NameInv
<1>10. CASE n # m
  <2>1. StoreTypes'
    BY <1>1, <1>2, <1>3, <1>5 DEF Open, StoreTypes
  <2>2. \A f \in File : Name(f) # m => content'[f] = content[f]
    BY <1>5, <1>7
  <2>3. FilesOf(n)' = FilesOf(n)
    BY <1>5, <1>8, <1>10 DEF FilesOf
  <2>4. WorkInv(s, n)'
    <3>1. NewInv(s, n)'
      BY <1>3, <1>9, <2>3 DEF WorkInv, NewInv
    <3>2. QED
      BY <1>3, <1>4, <1>5, <1>6, <1>10, <3>1
      DEF WorkInv, GoneInv, RoomInv, WrittenInv, PresentInv, Writers
  <2>5. QED
    BY <1>2, <1>3, <1>5, <1>10, <2>1, <2>2, <2>4, OtherName
<1>11. CASE n = m
  <2>1. FilesOf(n)' = FilesOf(n) \cup {f0}
    BY <1>5, <1>8, <1>11 DEF FilesOf
  <2>2. FilesOf(n) \subseteq {f0}
    <3>1. FilesOf(n) = {} \/ (~op[s].skip /\ op[s].kind # "convert")
      BY <1>3, <1>11
    <3>2. CASE op[s].kind = "record"
      BY <1>3, <1>9, <1>11, <3>2 DEF WorkInv, RoomInv, Replaces, m
    <3>3. CASE op[s].kind = "import" /\ n \notin conflicts[s]
      <4>1. n \in op[s].scope \ conflicts[s]
        BY <1>4, <1>11, <3>3
      <4>2. QED
        BY <1>9, <1>11, <3>3, <4>1 DEF WorkInv, NewInv, f0
    <3>4. CASE op[s].kind = "import" /\ n \in conflicts[s] /\ ~op[s].skip
      <4>1. op[s].overwrite
        BY <1>1, <3>4 DEF SessionInv, ScopeInv
      <4>2. QED
        BY <1>3, <1>9, <1>11, <3>4, <4>1 DEF WorkInv, RoomInv, Replaces, m
    <3>5. QED
      BY <1>4, <3>1, <3>2, <3>3, <3>4 DEF Writers
  <2>4. WorkInv(s, n)'
    <3>1. NewInv(s, n)'
      BY <1>3, <1>11, <2>1, <2>2 DEF NewInv, f0
    <3>2. WrittenInv(s, n)'
      BY <1>6, <1>7, <1>5 DEF WrittenInv, Exists
    <3>3. QED
      BY <1>3, <1>4, <1>6, <3>1, <3>2
      DEF WorkInv, GoneInv, RoomInv, PresentInv, Writers
  <2>5. ASSUME NEW t \in Sessions \ {s} PROVE WorkInv(t, n)'
    <3>1. Same(t)
      BY <1>2 DEF Framed
    <3>2. WorkInv(t, n) /\ SessionInv(t)
      BY <1>9 DEF IInv, NameInv
    <3>3. n \in op[t].scope => op[t].kind = "enable"
      <4>1. Exclusive /\ n \notin suspect
        BY <1>2 DEF IInv
      <4>2. QED
        BY <1>1, <1>4, <1>11, <4>1, Alone
    <3>4. GoneInv(t, n)'
      BY <3>1, <3>2, <3>3 DEF GoneInv, SessionInv, RemovalInv, Same
    <3>5. RoomInv(t, n)'
      BY <3>1, <3>2, <3>3 DEF RoomInv, Replaces, SessionInv, WritingInv, Same,
         Writers
    <3>6. NewInv(t, n)'
      BY <3>1, <3>3 DEF NewInv, Same
    <3>7. WrittenInv(t, n)'
      BY <3>1, <3>2, <3>3 DEF WrittenInv, SessionInv, WritingInv, Same, Writers
    <3>8. PresentInv(t, n)'
      <4>1. op[t].kind = "disable" => \A f \in files[t] : Name(f) # n
        BY <3>2, <3>3 DEF SessionInv, ScopeInv
      <4>2. op[t].kind = "disable" /\ pc[t] = "touch" => Name(cur[t]) # n
        BY <3>2, <3>3 DEF SessionInv, TouchInv
      <4>3. QED
        BY <3>1, <4>1, <4>2 DEF PresentInv, Same
    <3>9. QED
      BY <3>4, <3>5, <3>6, <3>7, <3>8 DEF WorkInv
  <2>6. \A t \in Sessions \ {s} : pc'[t] = pc[t] /\ cur'[t] = cur[t]
    BY <1>2, Witnesses
  <2>7. Single(n)'
    BY <2>1, <2>2 DEF Single
  <2>8. meta \subseteq File /\ flag \subseteq File
    BY <1>1 DEF StoreTypes
  <2>9. MetaInv(n)'
    BY <1>3, <1>8, <1>9, <2>6, <2>8 DEF NameInv, DirInv, MetaInv
  <2>10. FlagInv(n)'
    BY <1>3, <1>8, <1>9, <2>6, <2>8 DEF NameInv, DirInv, FlagInv
  <2>11. OwnInv(n)'
    <3>1. SUFFICES ASSUME NEW f \in OwnFile, Name(f) = n, Exists(f)'
                   PROVE  /\ content'[f] = "whole" \/ \E t \in Sessions : pc'[t] = "save" /\ cur'[t] = f
                          /\ f \in meta \/ \E t \in Sessions : pc'[t] \in {"save", "write_meta"} /\ cur'[t] = f
      BY <1>3 DEF OwnInv
    <3>2. CASE f = f0
      BY <1>6, <3>2
    <3>3. CASE f # f0
      <4>1. f \in File /\ Exists(f) /\ content'[f] = content[f]
        BY <1>7, <1>8, <3>1, <3>3, Domains
      <4>2. /\ content[f] = "whole" \/ \E t \in Sessions : pc[t] = "save" /\ cur[t] = f
            /\ f \in meta \/ \E t \in Sessions : pc[t] \in {"save", "write_meta"} /\ cur[t] = f
        BY <1>9, <3>1, <4>1 DEF NameInv, DirInv, OwnInv
      <4>3. QED
        BY <1>3, <2>6, <4>1, <4>2
    <3>4. QED
      BY <3>2, <3>3
  <2>12. QED
    BY <2>4, <2>5, <2>7, <2>9, <2>10, <2>11 DEF NameInv, DirInv
<1>12. QED
  BY <1>10, <1>11

\* A file that could not be written makes its name suspect.
LEMMA SaveNames ==
  ASSUME IInv, NEW s \in Sessions, Save(s), NEW n \in Names \ suspect'
  PROVE  NameInv(n)'
<1> DEFINE f0 == cur[s]
           m == Name(f0)
<1>1. Types /\ Step(s) /\ LocalTypes /\ StoreTypes /\ SessionInv(s)
  BY DEF IInv, Step, Types
<1>2. Framed(s) /\ suspect \subseteq suspect'
  BY <1>1, StepFrame
<1>3. pc[s] = "save" /\ meta' = meta /\ flag' = flag
  BY DEF Save
<1>4. f0 \in File /\ m \in op[s].scope /\ op[s].kind \in Writers
  BY <1>1, <1>3 DEF SessionInv, WritingInv
<1>5. m \in Names
  BY <1>4, Domains
<1>6. NameInv(n) /\ WorkInv(s, n)
  BY <1>2 DEF IInv, NameInv
<1>7. CASE Reply(s) /\ content' = content /\ m \in suspect'
  <2>1. n # m
    BY <1>7
  <2>2. StoreTypes'
    BY <1>1, <1>5 DEF Save, StoreTypes
  <2>3. WorkInv(s, n)'
    BY <1>1, <1>7, AfterReply
  <2> HIDE DEF m, f0
  <2>4. QED
    BY <1>2, <1>3, <1>5, <1>7, <2>1, <2>2, <2>3, OtherName DEF m, f0
<1>8. CASE /\ content' = [content EXCEPT ![f0] = IF Exists(f0) THEN "whole" ELSE "none"]
           /\ pc' = [pc EXCEPT ![s] = "write_meta"] /\ UNCHANGED <<op, files, names, conflicts, cur, suspect>>
  <2>1. pc'[s] = "write_meta" /\ cur'[s] = f0
    BY <1>1, <1>8 DEF LocalTypes
  <2>2. \A f \in File : content'[f] = IF f = f0 /\ Exists(f0) THEN "whole" ELSE content[f]
    BY <1>1, <1>8 DEF StoreTypes, Exists
  <2>3. \A f \in File : /\ Exists(f)' <=> Exists(f)
                        /\ content[f] = "whole" => content'[f] = "whole"
    BY <2>2 DEF Exists
  <2>4. FilesOf(n)' = FilesOf(n)
    BY <2>3 DEF FilesOf
  <2>5. WorkInv(s, n)'
    <3>1. NewInv(s, n)'
      BY <1>6, <1>8, <2>4 DEF WorkInv, NewInv
    <3>2. WrittenInv(s, n)'
      BY <1>3, <1>4, <1>6, <2>1, <2>2 DEF WorkInv, WrittenInv
    <3>3. QED
      BY <1>4, <1>8, <2>1, <3>1, <3>2 DEF WorkInv, GoneInv, RoomInv,
         PresentInv, Writers
  <2>6. \A t \in Sessions \ {s} : WorkInv(t, n)'
    BY <1>2, <2>3, OthersWork
  <2>7. \A t \in Sessions \ {s} : pc'[t] = pc[t] /\ cur'[t] = cur[t]
    BY <1>2, Witnesses
  <2>8. Single(n)'
    BY <1>6, <2>4 DEF NameInv, DirInv, Single
  <2>9. meta \subseteq File /\ flag \subseteq File
    BY <1>1 DEF StoreTypes
  <2>10. MetaInv(n)'
    BY <1>3, <1>6, <2>3, <2>7, <2>9 DEF NameInv, DirInv, MetaInv
  <2>11. FlagInv(n)'
    BY <1>3, <1>6, <2>3, <2>7, <2>9 DEF NameInv, DirInv, FlagInv
  <2>12. OwnInv(n)'
    <3>1. SUFFICES ASSUME NEW f \in OwnFile, Name(f) = n, Exists(f)'
                   PROVE  /\ content'[f] = "whole" \/ \E t \in Sessions : pc'[t] = "save" /\ cur'[t] = f
                          /\ f \in meta \/ \E t \in Sessions : pc'[t] \in {"save", "write_meta"} /\ cur'[t] = f
      BY <1>3 DEF OwnInv
    <3>2. f \in File /\ Exists(f)
      BY <2>3, <3>1, Domains
    <3>3. /\ content[f] = "whole" \/ \E t \in Sessions : pc[t] = "save" /\ cur[t] = f
          /\ f \in meta \/ \E t \in Sessions : pc[t] \in {"save", "write_meta"} /\ cur[t] = f
      BY <1>6, <3>1, <3>2 DEF NameInv, DirInv, OwnInv
    <3>4. CASE f = f0
      BY <2>1, <2>2, <3>2, <3>4
    <3>5. CASE f # f0
      BY <2>2, <2>7, <3>2, <3>3, <3>5
    <3>6. QED
      BY <3>4, <3>5
  <2>13. QED
    BY <2>5, <2>6, <2>8, <2>10, <2>11, <2>12 DEF NameInv, DirInv
<1>9. QED
  BY <1>7, <1>8 DEF Save, Goto, local

\* The metadata is written for a file that is there and complete; when it cannot
\* be, the name becomes suspect.
LEMMA WriteMetadataNames ==
  ASSUME IInv, NEW s \in Sessions, WriteMetadata(s), NEW n \in Names \ suspect'
  PROVE  NameInv(n)'
<1> DEFINE f0 == cur[s]
           m == Name(f0)
<1>1. Types /\ Step(s) /\ LocalTypes /\ StoreTypes /\ SessionInv(s)
  BY DEF IInv, Step, Types
<1>2. Framed(s) /\ suspect \subseteq suspect'
  BY <1>1, StepFrame
<1>3. pc[s] = "write_meta" /\ content' = content /\ flag' = flag
  BY DEF WriteMetadata
<1>4. f0 \in File /\ m \in op[s].scope /\ op[s].kind \in Writers
  BY <1>1, <1>3 DEF SessionInv, WritingInv
<1>5. m \in Names
  BY <1>4, Domains
<1>6. \A f : Exists(f)' <=> Exists(f)
  BY <1>3 DEF Exists
<1>7. FilesOf(n)' = FilesOf(n)
  BY <1>6 DEF FilesOf
<1>8. NameInv(n) /\ WorkInv(s, n)
  BY <1>2 DEF IInv, NameInv
<1>9. CASE Reply(s) /\ meta' = meta /\ m \in suspect'
  <2>1. n # m
    BY <1>9
  <2>2. StoreTypes'
    BY <1>1, <1>5, <1>9 DEF WriteMetadata, StoreTypes
  <2>3. WorkInv(s, n)'
    BY <1>1, <1>9, AfterReply
  <2> HIDE DEF m, f0
  <2>4. QED
    BY <1>2, <1>3, <1>5, <1>9, <2>1, <2>2, <2>3, OtherName DEF m, f0
<1>10. CASE /\ meta' = meta \cup {f0} /\ pc' = [pc EXCEPT ![s] = "next"]
            /\ UNCHANGED <<op, files, conflicts, cur, suspect>>
  <2>1. pc'[s] = "next"
    BY <1>1, <1>10 DEF LocalTypes
  <2>2. WorkInv(s, n)'
    <3>1. NewInv(s, n)'
      BY <1>3, <1>7, <1>8, <1>10 DEF WorkInv, NewInv
    <3>2. QED
      BY <1>3, <1>4, <1>10, <2>1, <3>1 DEF WorkInv, GoneInv, RoomInv, WrittenInv,
         PresentInv, Writers
  <2>3. CASE n # m
    <3>1. StoreTypes'
      BY <1>1, <1>4, <1>10 DEF WriteMetadata, StoreTypes
    <3>2. \A f \in File : Name(f) # m => (f \in meta' <=> f \in meta)
      BY <1>3, <1>10
    <3> HIDE DEF m, f0
    <3>3. QED
      BY <1>2, <1>3, <1>5, <1>10, <2>2, <2>3, <3>1, <3>2, OtherName DEF m, f0
  <2>4. CASE n = m
    <3>1. \A t \in Sessions \ {s} : WorkInv(t, n)'
      BY <1>2, <1>3, <1>6, <1>10, OthersWork
    <3>2. \A t \in Sessions \ {s} : pc'[t] = pc[t] /\ cur'[t] = cur[t]
      BY <1>2, Witnesses
    <3>3. content[f0] = "whole"
      BY <1>3, <1>8, <1>10, <2>4 DEF WorkInv, WrittenInv
    <3>4. Exists(f0)
      BY <3>3 DEF Exists
    <3>5. Single(n)'
      BY <1>7, <1>8 DEF NameInv, DirInv, Single
    <3>6. MetaInv(n)'
      BY <1>3, <1>6, <1>8, <1>10, <3>2, <3>4 DEF NameInv, DirInv, MetaInv
    <3>7. FlagInv(n)'
      BY <1>3, <1>6, <1>8, <1>10, <3>2 DEF NameInv, DirInv, FlagInv
    <3>8. OwnInv(n)'
      <4>1. SUFFICES ASSUME NEW f \in OwnFile, Name(f) = n, Exists(f)
                     PROVE  /\ content[f] = "whole" \/ \E t \in Sessions : pc'[t] = "save" /\ cur'[t] = f
                            /\ f \in meta' \/ \E t \in Sessions : pc'[t] \in {"save", "write_meta"} /\ cur'[t] = f
        BY <1>3, <1>6, <1>10 DEF OwnInv
      <4>2. /\ content[f] = "whole" \/ \E t \in Sessions : pc[t] = "save" /\ cur[t] = f
            /\ f \in meta \/ \E t \in Sessions : pc[t] \in {"save", "write_meta"} /\ cur[t] = f
        BY <1>8, <4>1 DEF NameInv, DirInv, OwnInv
      <4>3. CASE f = f0
        BY <1>3, <1>10, <3>3, <4>3
      <4>4. CASE f # f0
        BY <1>3, <1>10, <3>2, <4>2, <4>4
      <4>5. QED
        BY <4>3, <4>4
    <3>9. QED
      BY <2>2, <3>1, <3>5, <3>6, <3>7, <3>8 DEF NameInv, DirInv
  <2>5. QED
    BY <2>3, <2>4
<1>11. QED
  BY <1>9, <1>10 DEF WriteMetadata, Goto

----------------------------------------------------------------------------
(* The invariant and the properties                                        *)

\* The invariant holds at first.
LEMMA InitIInv == Init => IInv
<1> SUFFICES ASSUME Init PROVE IInv OBVIOUS
<1>1. Types
  BY TypeInit DEF Types
<1>2. \A s \in Sessions : pc[s] = "idle" /\ op[s] = NoOp /\ files[s] = {} /\ names[s] = <<>>
  BY DEF Init
<1>3. \A s \in Sessions : SessionInv(s)
  BY <1>2 DEF SessionInv, RemovalInv, TouchInv, WritingInv, ScopeInv, NoOp,
     Range
<1>4. Exclusive
  BY <1>2 DEF Exclusive, NoOp
<1>5. ASSUME NEW n \in Names PROVE NameInv(n)
  <2>1. PICK g \in Given : /\ content = [f \in File |-> IF f \in g THEN "whole" ELSE "none"]
                           /\ meta = g \cap OwnFile /\ flag \in SUBSET g
    BY DEF Init
  <2>2. g \subseteq File /\ \A f1, f2 \in g : Name(f1) = Name(f2) => f1 = f2
    BY StateStoreAssumption
  <2>3. \A f \in File : Exists(f) <=> f \in g
    BY <2>1 DEF Exists
  <2>4. Single(n)
    BY <2>2, <2>3 DEF Single, FilesOf
  <2>5. MetaInv(n) /\ FlagInv(n)
    BY <2>1, <2>2, <2>3 DEF MetaInv, FlagInv
  <2>6. OwnInv(n)
    BY <2>1, <2>3, Domains DEF OwnInv
  <2>7. \A t \in Sessions : WorkInv(t, n)
    BY <1>2 DEF WorkInv, GoneInv, RoomInv, NewInv, WrittenInv, PresentInv, NoOp
  <2>8. QED
    BY <2>4, <2>5, <2>6, <2>7 DEF NameInv, DirInv
<1>6. QED
  BY <1>1, <1>3, <1>4, <1>5 DEF IInv

\* Types, and what the sessions have at hand, after a step of one of them.
LEMMA SessionStep ==
  ASSUME IInv, NEW s \in Sessions, Step(s)
  PROVE  Types' /\ \A t \in Sessions : SessionInv(t)'
<1>1. Types /\ SessionInv(s)
  BY DEF IInv
<1>2. Kept(s)
  BY <1>1, BeginOnStatesKeeps, BeginRecordKeeps, BeginImportKeeps,
     NextFileKeeps, NoMoreStatesKeeps,
     NotConvertedKeeps, NextStateKeeps, RemoveKeeps, RemoveMetaKeeps,
     RemoveFlagKeeps, TouchKeeps,
     LoadKeeps, OpenKeeps, SaveKeeps, WriteMetadataKeeps DEF Step
<1>3. ASSUME NEW t \in Sessions \ {s} PROVE SessionInv(t)'
  <2>1. Same(t)
    BY <1>1, StepFrame DEF Framed
  <2>2. SessionInv(t)
    BY DEF IInv
  <2>3. QED
    BY <2>1, <2>2, SameKeeps
<1>4. QED
  BY <1>2, <1>3 DEF Kept, Types

\* The names without mishaps, after a step of one session.
LEMMA NameStep ==
  ASSUME IInv, NEW s \in Sessions, Step(s), NEW n \in Names \ suspect'
  PROVE  NameInv(n)'
BY BeginOnStatesNames, BeginRecordNames, BeginImportNames, NextFileNames,
   NoMoreStatesNames,
   NotConvertedNames, NextStateNames, RemoveNames, RemoveMetaNames,
   RemoveFlagNames, FlaggingNames,
   LoadNames, OpenNames, SaveNames, WriteMetadataNames DEF Step

\* Those who were at work are gone; the names they worked on are suspect.
LEMMA CrashStep ==
  ASSUME IInv, Crash
  PROVE  IInv'
<1>1. Types
  BY DEF IInv
<1>2. /\ UNCHANGED <<content, meta, flag, asked>>
      /\ suspect' = suspect \cup UNION {op[s].scope : s \in Sessions}
  BY DEF Crash, store
<1>3. suspect' \subseteq Names
  BY <1>1, <1>2 DEF Types, LocalTypes, StoreTypes, Operations
<1>4. StoreTypes'
  BY <1>1, <1>2, <1>3 DEF Types, StoreTypes
<1>5. LocalTypes'
  <2>1. "idle" \in PC
    BY DEF PC
  <2>2. <<>> \in Seq(Names)
    OBVIOUS
  <2>3. QED
    BY <2>1, <2>2, NoOpType DEF Crash, LocalTypes
<1>6. \A s \in Sessions : pc'[s] = "idle" /\ op'[s] = NoOp /\ files'[s] = {} /\ names'[s] = <<>>
  BY DEF Crash
<1>7. \A s \in Sessions : SessionInv(s)'
  BY <1>6 DEF SessionInv, RemovalInv, TouchInv, WritingInv, ScopeInv, NoOp,
     Range
<1>8. Exclusive'
  BY <1>6 DEF Exclusive, NoOp
<1>9. ASSUME NEW n \in Names \ suspect' PROVE NameInv(n)'
  <2>1. NameInv(n)
    BY <1>2 DEF IInv
  <2>2. \A t \in Sessions : n \notin op[t].scope
    BY <1>2
  <2>3. \A t \in Sessions : pc[t] \in {"rm_meta", "rm_flag", "save", "write_meta"} => Name(cur[t]) # n
    BY <2>2 DEF IInv, SessionInv, RemovalInv, WritingInv
  <2>4. \A f : Exists(f)' <=> Exists(f)
    BY <1>2 DEF Exists
  <2>5. FilesOf(n)' = FilesOf(n)
    BY <2>4 DEF FilesOf
  <2>6. Single(n)'
    BY <2>1, <2>5 DEF NameInv, DirInv, Single
  <2>7. MetaInv(n)'
    BY <1>2, <2>1, <2>3, <2>4 DEF NameInv, DirInv, MetaInv
  <2>8. FlagInv(n)'
    BY <1>2, <2>1, <2>3, <2>4 DEF NameInv, DirInv, FlagInv
  <2>9. OwnInv(n)'
    BY <1>2, <2>1, <2>3, <2>4 DEF NameInv, DirInv, OwnInv
  <2>10. \A t \in Sessions : WorkInv(t, n)'
    BY <1>6 DEF WorkInv, GoneInv, RoomInv, NewInv, WrittenInv, PresentInv, NoOp
  <2>11. QED
    BY <2>6, <2>7, <2>8, <2>9, <2>10 DEF NameInv, DirInv
<1>10. QED
  BY <1>4, <1>5, <1>7, <1>8, <1>9 DEF IInv, Types

\* Nothing changes.
LEMMA StutterStep ==
  ASSUME IInv, UNCHANGED vars
  PROVE  IInv'
<1>1. UNCHANGED <<content, meta, flag, pc, op, files, names, conflicts, cur, asked, suspect>>
  BY DEF vars, store, local
<1>2. \A f : Exists(f)' <=> Exists(f)
  BY <1>1 DEF Exists
<1>3. \A n : FilesOf(n)' = FilesOf(n)
  BY <1>2 DEF FilesOf
<1>4. Types'
  BY <1>1 DEF IInv, Types, LocalTypes, StoreTypes
<1>5. \A t \in Sessions : SessionInv(t)'
  BY <1>1 DEF IInv, SessionInv, RemovalInv, TouchInv, WritingInv, ScopeInv,
     Dropped
<1>6. Exclusive'
  BY <1>1 DEF IInv, Exclusive
<1>7. ASSUME NEW n \in Names \ suspect' PROVE NameInv(n)'
  <2>1. NameInv(n)
    BY <1>1, <1>7 DEF IInv
  <2>2. DirInv(n)'
    BY <1>1, <1>2, <1>3, <2>1 DEF NameInv, DirInv, Single, MetaInv, FlagInv,
       OwnInv
  <2>3. \A t \in Sessions : WorkInv(t, n)'
    BY <1>1, <1>2, <1>3, <2>1 DEF NameInv, WorkInv, GoneInv, RoomInv,
       Replaces, NewInv, WrittenInv, PresentInv
  <2>4. QED
    BY <2>2, <2>3 DEF NameInv
<1>8. QED
  BY <1>4, <1>5, <1>6, <1>7 DEF IInv

\* Every step keeps the invariant.
LEMMA NextIInv == IInv /\ [Next]_vars => IInv'
<1>1. ASSUME IInv, NEW s \in Sessions, Step(s) PROVE IInv'
  <2>1. Types' /\ \A t \in Sessions : SessionInv(t)'
    BY <1>1, SessionStep
  <2>2. Exclusive'
    BY <1>1, ExclusiveStep DEF IInv
  <2>3. \A n \in Names \ suspect' : NameInv(n)'
    BY <1>1, NameStep
  <2>4. QED
    BY <2>1, <2>2, <2>3 DEF IInv
<1>2. QED
  BY <1>1, CrashStep, StutterStep DEF Next

\* It holds forever.
LEMMA Invariance == Spec => []IInv
<1>1. QED
  BY InitIInv, NextIInv, PTL DEF Spec

\* The variables have their types in every behaviour.
THEOREM TypeCorrect == Spec => []TypeOK
<1>1. IInv => TypeOK
  BY TypeParts DEF IInv, Types
<1>2. QED
  BY <1>1, Invariance, PTL

\* In a sound name nothing is in progress, which is what DirInv excepts.
LEMMA AtRest ==
  ASSUME IInv, NEW n \in Names, Sound(n)
  PROVE  /\ DirInv(n)
         /\ \A t \in Sessions : pc[t] \in {"rm_meta", "rm_flag", "save", "write_meta"} => Name(cur[t]) # n
<1>1. n \notin suspect /\ \A t \in Sessions : n \notin op[t].scope
  BY DEF Sound
<1>2. DirInv(n)
  BY <1>1 DEF IInv, NameInv
<1>3. QED
  BY <1>1, <1>2 DEF IInv, SessionInv, RemovalInv, WritingInv

\* However record-state, the imports and the deletions of any number of
\* sessions interleave, a state without mishaps has one file.
THEOREM OneFilePerState == Spec => []OneFile
<1>1. IInv => OneFile
  <2>1. SUFFICES ASSUME IInv, NEW n \in Names, Sound(n) PROVE Cardinality(FilesOf(n)) <= 1
    BY DEF OneFile
  <2>2. \A f, g \in FilesOf(n) : f = g
    BY <2>1, AtRest DEF DirInv, Single
  <2>3. CASE FilesOf(n) = {}
    BY <2>3, FS_EmptySet
  <2>4. CASE FilesOf(n) # {}
    <3>1. PICK f : FilesOf(n) = {f}
      BY <2>2, <2>4
    <3>2. QED
      BY <3>1, FS_Singleton
  <2>5. QED
    BY <2>3, <2>4
<1>2. QED
  BY <1>1, Invariance, PTL

\* No metadata or disabled-flag outlives its state.
THEOREM NothingLeftBehind == Spec => []NoOrphan
<1>1. IInv => NoOrphan
  <2>1. SUFFICES ASSUME IInv, NEW f \in meta \cup flag, Sound(Name(f)) PROVE Exists(f)
    BY DEF NoOrphan
  <2>2. f \in File
    BY <2>1 DEF IInv, Types, StoreTypes
  <2>3. Name(f) \in Names
    BY <2>2, Domains
  <2>4. QED
    BY <2>1, <2>3, AtRest DEF DirInv, MetaInv, FlagInv
<1>2. QED
  BY <1>1, Invariance, PTL

\* A state that XMNR wrote is complete and has its metadata.
THEOREM RecordedWhole == Spec => []WholeAndLabelled
<1>1. IInv => WholeAndLabelled
  <2>1. SUFFICES ASSUME IInv, NEW f \in OwnFile, Sound(Name(f)), Exists(f)
                 PROVE  content[f] = "whole" /\ f \in meta
    BY DEF WholeAndLabelled
  <2>2. Name(f) \in Names
    BY Domains
  <2>3. QED
    BY <2>1, <2>2, AtRest DEF DirInv, OwnInv
<1>2. QED
  BY <1>1, Invariance, PTL

\* The step of NoSilentReplace.
Replace ==
  \A f \in File :
       content[f] = "whole" /\ content'[f] # "whole" /\ Name(f) \notin suspect'
         => \E s \in Sessions :
              /\ Name(f) \in op[s].scope
              /\ \/ op[s].kind = "delete" \/ op[s].overwrite
                 \/ op[s].kind = "import" /\ Name(f) \notin conflicts[s]

\* A state that was there is removed or written over only by an operation that
\* was told to.
THEOREM ReplacedKnowingly == Spec => NoSilentReplace
<1>1. IInv /\ [Next]_vars => [Replace]_vars
  <2>1. SUFFICES ASSUME IInv, Next, NEW f \in File, content[f] = "whole", content'[f] # "whole",
                        Name(f) \notin suspect'
                 PROVE  \E s \in Sessions :
                          /\ Name(f) \in op[s].scope
                          /\ \/ op[s].kind = "delete" \/ op[s].overwrite
                             \/ op[s].kind = "import" /\ Name(f) \notin conflicts[s]
    BY DEF Replace
  <2>2. content' # content
    BY <2>1
  <2>3. PICK s \in Sessions : Step(s)
    BY <2>1, <2>2 DEF Next, Crash, store
  <2>4. Types /\ StoreTypes /\ SessionInv(s)
    BY <2>1 DEF IInv, Types
  <2>5. suspect \subseteq suspect'
    BY <2>3, <2>4, StepFrame
  <2>6. Remove(s) \/ Open(s) \/ Save(s)
    BY <2>2, <2>3 DEF Step, BeginOnStates, BeginRecord, BeginImport, NextFile,
       NoMoreStates, NotConverted,
       NextState, RemoveMeta, RemoveFlag, Touch, Unlink, Load, WriteMetadata,
       store
  <2>7. CASE Remove(s)
    <3>1. content' = [content EXCEPT ![cur[s]] = "none"]
      BY <2>2, <2>7 DEF Remove
    <3>2. f = cur[s]
      BY <2>1, <2>4, <3>1 DEF StoreTypes
    <3>3. QED
      BY <2>4, <2>7, <3>2 DEF Remove, SessionInv, RemovalInv
  <2>8. CASE Open(s)
    <3> DEFINE m == Head(names[s])
    <3>1. /\ pc[s] = "open" /\ content' = [content EXCEPT ![<<m, op[s].suffix>>] = "partial"]
          /\ suspect' = IF FilesOf(m) # {} /\ (op[s].skip \/ op[s].kind = "convert")
                        THEN suspect \cup {m} ELSE suspect
      BY <2>8 DEF Open
    <3>2. m \in op[s].scope /\ op[s].kind \in Writers
      BY <2>4, <3>1 DEF SessionInv, WritingInv
    <3>3. f = <<m, op[s].suffix>>
      BY <2>1, <2>4, <3>1 DEF StoreTypes
    <3>4. Name(f) = m
      BY <3>3 DEF Name
    <3>5. f \in FilesOf(m)
      BY <2>1, <3>4 DEF FilesOf, Exists
    <3>6. ~op[s].skip /\ op[s].kind # "convert"
      BY <2>1, <3>1, <3>4, <3>5
    <3>7. m \in Names \ suspect
      BY <2>1, <2>5, <3>4, Domains
    <3>8. WorkInv(s, m)
      BY <2>1, <3>7 DEF IInv, NameInv
    <3>9. op[s].kind # "record"
      BY <3>1, <3>5, <3>8 DEF WorkInv, RoomInv, Replaces
    <3>10. m \in conflicts[s] /\ op[s].kind = "import" => op[s].overwrite
      BY <2>4, <3>6 DEF SessionInv, ScopeInv
    <3>11. QED
      BY <3>2, <3>4, <3>6, <3>9, <3>10 DEF Writers
  <2>9. CASE Save(s)
    <3>1. content' = [content EXCEPT ![cur[s]] = IF Exists(cur[s]) THEN "whole" ELSE "none"]
      BY <2>2, <2>9 DEF Save
    <3>2. QED
      BY <2>1, <2>4, <3>1 DEF StoreTypes, Exists
  <2>10. QED
    BY <2>6, <2>7, <2>8, <2>9
<1>2. NoSilentReplace <=> [][Replace]_vars
  BY DEF NoSilentReplace, Replace
<1>3. QED
  BY <1>1, <1>2, Invariance, PTL DEF Spec

=============================================================================
