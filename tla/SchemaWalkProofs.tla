------------------------- MODULE SchemaWalkProofs --------------------------
(***************************************************************************)
(* Proofs about SchemaWalkTest: what a walk visits, for any schemas, and   *)
(* where an iteration leaves the device, for any files, failures, empty    *)
(* commits and commits of other sessions.                                  *)
(***************************************************************************)
EXTENDS SchemaWalkTest, RollbackHistoryProofs, FiniteSetTheorems, WellFoundedInduction

(***************************************************************************)
(* The inductive invariant of an iteration: what is left of its operations,*)
(* and where the device and the rollback files are then.                   *)
(***************************************************************************)
RollbackNewest == RollbackOps("latest", 0)
ThenCommit == CommitCompare \o RollbackNewest
ThenCompare == LastCompare \o RollbackNewest

\* The two commits of the iteration are the last ones of the device.
First == commit_id[call.base + 1]
Second == commit_id[call.base + 2]

\* No other session has committed since the first one.
Followed(n) == ~raced /\ First # None /\ n = First + 1

IterationRound ==
  \/ ops \in {CommitRollback, ThenCommit} /\ Len(commit_id) = call.base
  \/ ops \in {ThenCompare, RollbackNewest} /\ Len(commit_id) = call.base + 1
  \/ /\ ops = CommitCompare /\ Len(commit_id) = call.base + 1
     /\ Followed(Len(log) + IF committing = "full" THEN 0 ELSE 1) => cand.dev = set_start
     /\ committing # "no" => Steady
  \/ /\ ops \in {LastCompare, <<>>} /\ Len(commit_id) = call.base + 2 /\ Steady
     /\ Followed(Second) => cand.dev = set_start

IterationInv ==
  /\ phase \in {"walk", "iteration"} => test = NoTest
  /\ phase = "walk" => ops = <<>> /\ Steady
  /\ phase = "iteration" => IterationRound /\ ConfigBefore(call.base + 1) = set_start

(***************************************************************************)
(* The inductive invariant of a walk.                                      *)
(***************************************************************************)
Leaves == Walker!Leaves
Choices == Walker!Choices

WalkTypeOK ==
  /\ schema \in Schemas
  /\ wpc \in {"invite", "prune", "yielded", "advance", "end"}
  /\ at \in Nat \ {0} /\ more \in BOOLEAN
  /\ value \in [Leaves -> Nat] /\ \A l \in Leaves : value[l] \in 1..schema.values[l]
  /\ joined \subseteq Leaves /\ valid \subseteq joined
  /\ done \subseteq Leaves /\ has_done \subseteq done /\ participated \subseteq Leaves
  /\ index \in [Choices -> Nat] /\ \A c \in Choices : index[c] \in 1..schema.cases[c]

\* next_iteration() has not come to this leaf.
Ahead(l) == wpc \in {"prune", "yielded"} \/ (wpc = "advance" /\ at <= l)

\* Who takes part in the iteration is yielded, but for what is pruned.
ValidInv == \A l \in joined \ cut : Ahead(l) => l \in valid

\* The values before the one that is next, and that one when it is yielded.
SeenInv ==
  \A l \in Leaves \ cut :
    /\ \A v \in 1..value[l] - 1 : <<l, v>> \in seen
    /\ l \in joined /\ Ahead(l) /\ wpc # "prune" => <<l, value[l]>> \in seen
    /\ l \in done => \A v \in 1..schema.values[l] : <<l, v>> \in seen

\* A leaf in no case takes part in each iteration.
Free(l) == \A p \in DOMAIN schema.above[l] : schema.case[l][schema.above[l][p]] = 0

\* What has taken part and is not done asks for more.
MoreInv ==
  wpc = "advance" =>
    \A l \in Leaves : l < at => /\ l \in participated \ done => more
                                /\ l \notin cut /\ Free(l) => l \in participated

FreeInv == wpc \in {"prune", "yielded", "advance"} => \A l \in Leaves : Free(l) => l \in joined

\* The choice that a leaf is in has been met.
MetInv == wpc # "invite" => \A l \in Leaves, c \in Choices : Walker!Own(l, c) => c \in choices

\* As long as a choice has not moved the leaves of its case that may finish
\* are those that have joined.
JoinedInv ==
  wpc \in {"prune", "yielded", "advance"} =>
    \A m \in joined, l \in Leaves : \A c \in Walker!Above(m) \ turned :
      Walker!Own(l, c) /\ schema.case[l][c] = index[c] => l \in joined

\* A choice that is past a case has left no leaf of it behind.
PassedInv ==
  \A l \in Leaves : \A c \in Choices \ skipped :
    /\ Walker!Selectable(l) /\ Walker!Own(l, c)
    /\ c \in choice_done \/ schema.case[l][c] < index[c]
    => l \in done

\* At the end of the walk none is left.
EndInv ==
  wpc = "end" => \A l \in Leaves \ cut :
    Walker!Selectable(l) /\ (\A c \in skipped : ~Walker!Own(l, c)) => l \in done

WalkInv ==
  /\ ValidInv /\ SeenInv /\ MoreInv /\ FreeInv
  /\ MetInv /\ JoinedInv /\ PassedInv /\ EndInv

----------------------------------------------------------------------------
(* Schemas                                                                 *)

\* The least number of a set.
LEMMA Least ==
  ASSUME NEW S \in SUBSET Nat, S # {}
  PROVE  \E m \in S : \A n \in S : m <= n
<1>. DEFINE Below == {1..n : n \in S}
<1>1. \A n \in S : 1..n \in FiniteSubsetsOf(Nat)
  BY FS_Interval DEF FiniteSubsetsOf
<1>2. Below \subseteq FiniteSubsetsOf(Nat) /\ Below # {}
  BY <1>1
<1>3. IsWellFoundedOn(StrictSubsetOrdering(Nat), FiniteSubsetsOf(Nat))
  BY FS_StrictSubsetOrderingWellFounded
<1>4. \E b \in Below : \A c \in Below : <<c, b>> \notin StrictSubsetOrdering(Nat)
  <2>. HIDE DEF Below
  <2>. QED
    BY <1>2, <1>3, WFMin
<1>5. PICK m \in S : \A n \in S : <<1..n, 1..m>> \notin StrictSubsetOrdering(Nat)
  BY <1>4
<1>6. ASSUME NEW n \in S, n < m
      PROVE  FALSE
  <2>1. 1..n \subseteq 1..m /\ m \in 1..m /\ m \notin 1..n
    BY <1>6
  <2>2. <<1..n, 1..m>> \in StrictSubsetOrdering(Nat)
    BY <2>1 DEF StrictSubsetOrdering
  <2>3. QED
    BY <1>5, <2>2
<1>7. QED
  BY <1>6

LEMMA SchemaTypes ==
  ASSUME WalkTypeOK
  PROVE  /\ Leaves = 1..Len(schema.values) /\ Len(schema.values) \in Nat
         /\ \A l \in Leaves : schema.values[l] \in Nat \ {0}
         /\ \A l \in Leaves : schema.above[l] \in Seq(Choices) /\ Walker!Above(l) \subseteq Choices
         /\ \A l \in Leaves, c \in Choices : schema.case[l][c] \in Nat
         /\ \A c \in Choices : schema.cases[c] \in Nat \ {0}
<1>1. Walker!IsSchema(schema)
  BY SchemaAssumption DEF WalkTypeOK
<1>2. /\ schema.values \in Seq(Nat \ {0}) /\ schema.cases \in Seq(Nat \ {0})
      /\ schema.above \in [Leaves -> Seq(Choices)] /\ schema.case \in [Leaves -> [Choices -> Nat]]
  BY <1>1 DEF Walker!IsSchema, Leaves, Choices, Walker!Leaves, Walker!Choices
<1>3. Leaves = 1..Len(schema.values) /\ Len(schema.values) \in Nat
  BY <1>2 DEF Leaves, Walker!Leaves
<1>4. /\ \A l \in Leaves : schema.values[l] \in Nat \ {0}
      /\ \A c \in Choices : schema.cases[c] \in Nat \ {0}
  BY <1>2 DEF Leaves, Walker!Leaves, Choices, Walker!Choices
<1>5. ASSUME NEW l \in Leaves
      PROVE  schema.above[l] \in Seq(Choices) /\ Walker!Above(l) \subseteq Choices
  BY <1>2 DEF Walker!Above
<1>6. \A l \in Leaves, c \in Choices : schema.case[l][c] \in Nat
  BY <1>2
<1>7. QED
  BY <1>3, <1>4, <1>5, <1>6

\* A leaf that is in a case is in the case of an innermost choice.
LEMMA OwnOrFree ==
  ASSUME WalkTypeOK, NEW l \in Leaves, ~Free(l)
  PROVE  \E c \in Choices : Walker!Own(l, c)
<1> DEFINE S == {p \in DOMAIN schema.above[l] : schema.case[l][schema.above[l][p]] # 0}
<1>1. schema.above[l] \in Seq(Choices)
  BY SchemaTypes
<1>2. S \subseteq Nat /\ S # {}
  BY <1>1 DEF Free
<1>3. PICK p \in S : \A q \in S : p <= q
  <2> HIDE DEF S
  <2> QED
    BY <1>2, Least
<1>4. \A i \in 1..p - 1 : schema.case[l][schema.above[l][i]] = 0
  <2> SUFFICES ASSUME NEW i \in 1..p - 1, schema.case[l][schema.above[l][i]] # 0
               PROVE  FALSE
    OBVIOUS
  <2>1. p \in 1..Len(schema.above[l])
    BY <1>1
  <2>2. i \in S /\ i < p
    BY <1>1, <2>1
  <2>3. QED
    BY <1>2, <1>3, <2>2
<1>5. schema.above[l][p] \in Choices /\ p \in DOMAIN schema.above[l]
  BY <1>1
<1>6. Walker!Own(l, schema.above[l][p])
  BY <1>3, <1>4, <1>5 DEF Walker!Own
<1>7. QED
  BY <1>5, <1>6

\* A choice that a leaf is in is above it, and the leaf is in a case of it if it
\* can be selected.
LEMMA OwnAbove ==
  ASSUME WalkTypeOK, NEW l \in Leaves, NEW c, Walker!Own(l, c)
  PROVE  /\ c \in Walker!Above(l) /\ c \in Choices
         /\ Walker!Selectable(l) => schema.case[l][c] \in 1..schema.cases[c]
<1>1. c \in Walker!Above(l) /\ schema.case[l][c] # 0
  BY DEF Walker!Own, Walker!Above
<1>2. c \in Choices
  BY <1>1, SchemaTypes
<1>3. QED
  BY <1>1, <1>2, SchemaTypes DEF Walker!Selectable

\* Above the choice that a leaf is in the other leaves of that choice are in
\* the same cases.
LEMMA JoinTogether ==
  ASSUME WalkTypeOK, NEW l \in Leaves, NEW m \in Leaves, NEW c \in Walker!Above(m),
         Walker!Own(l, c), Walker!Joins(l, c), \A d \in Walker!Above(m) : Walker!Joins(m, d)
  PROVE  \A d \in Walker!Above(l) : Walker!Joins(l, d)
<1>1. PICK p \in DOMAIN schema.above[l] :
        schema.above[l][p] = c /\ \A i \in 1..p - 1 : schema.case[l][schema.above[l][i]] = 0
  BY DEF Walker!Own
<1>2. PICK q \in DOMAIN schema.above[m] : schema.above[m][q] = c
  BY DEF Walker!Above
<1>3. \A i \in p + 1..Len(schema.above[l]) :
        /\ \E j \in q + 1..Len(schema.above[m]) : schema.above[m][j] = schema.above[l][i]
        /\ schema.case[m][schema.above[l][i]] = schema.case[l][schema.above[l][i]]
  <2>1. Walker!IsSchema(schema)
    BY SchemaAssumption DEF WalkTypeOK
  <2>2. \A x, y \in DOMAIN schema.values :
          \A i \in DOMAIN schema.above[x], j \in DOMAIN schema.above[y] :
            schema.above[x][i] = schema.above[y][j] =>
              \A k \in i + 1..Len(schema.above[x]) :
                /\ \E n \in j + 1..Len(schema.above[y]) : schema.above[y][n] = schema.above[x][k]
                /\ schema.case[y][schema.above[x][k]] = schema.case[x][schema.above[x][k]]
    BY <2>1, Zenon DEF Walker!IsSchema
  <2>3. l \in DOMAIN schema.values /\ m \in DOMAIN schema.values
    BY DEF Leaves, Walker!Leaves
  <2>4. schema.above[l][p] = schema.above[m][q]
    BY <1>1, <1>2
  <2>5. p \in DOMAIN schema.above[l] /\ q \in DOMAIN schema.above[m]
    OBVIOUS
  <2>6. \A i \in DOMAIN schema.above[l], j \in DOMAIN schema.above[m] :
          schema.above[l][i] = schema.above[m][j] =>
            \A k \in i + 1..Len(schema.above[l]) :
              /\ \E n \in j + 1..Len(schema.above[m]) : schema.above[m][n] = schema.above[l][k]
              /\ schema.case[m][schema.above[l][k]] = schema.case[l][schema.above[l][k]]
    BY <2>2, <2>3, Zenon
  <2>7. QED
    BY <2>4, <2>5, <2>6, Zenon
<1>4. schema.above[l] \in Seq(Choices) /\ schema.above[m] \in Seq(Choices)
  BY SchemaTypes
<1>5. ASSUME NEW i \in DOMAIN schema.above[l]
      PROVE  Walker!Joins(l, schema.above[l][i])
  <2>1. CASE i < p
    <3>1. i \in 1..p - 1
      BY <1>1, <1>4, <2>1
    <3>2. QED
      BY <1>1, <3>1 DEF Walker!Joins
  <2>2. CASE i = p
    BY <1>1, <2>2
  <2>3. CASE i > p
    <3>1. i \in p + 1..Len(schema.above[l])
      BY <1>1, <1>4, <2>3
    <3>2. PICK j \in q + 1..Len(schema.above[m]) : schema.above[m][j] = schema.above[l][i]
      BY <1>3, <3>1
    <3>3. j \in DOMAIN schema.above[m]
      BY <1>2, <1>4, <3>2
    <3>4. Walker!Joins(m, schema.above[l][i])
      BY <3>2, <3>3 DEF Walker!Above
    <3>5. QED
      BY <1>3, <3>1, <3>4 DEF Walker!Joins
  <2>4. QED
    BY <1>1, <1>4, <2>1, <2>2, <2>3
<1>6. QED
  BY <1>5 DEF Walker!Above

----------------------------------------------------------------------------
(* The steps of a walk                                                     *)

WalkStep == Walker!WalkNext \/ UNCHANGED walk_vars

\* The choices that the leaf at hand increments, when it does.
Turns == Walker!Incremented(at, done' \cup has_done')

LEMMA TurnsTypes ==
  ASSUME WalkTypeOK, at \in Leaves
  PROVE  /\ Turns \subseteq Walker!Above(at) /\ Turns \subseteq Choices
         /\ \A c \in Turns : Walker!AllDone(c, done' \cup has_done')
<1>1. Turns \subseteq Walker!Above(at)
  BY DEF Turns, Walker!Incremented, Walker!Above
<1>2. Walker!Above(at) \subseteq Choices
  BY SchemaTypes
<1>3. \A c \in Turns : Walker!AllDone(c, done' \cup has_done')
  BY DEF Turns, Walker!Incremented
<1>4. QED
  BY <1>1, <1>2, <1>3

\* What next_iteration() does at a leaf.
Stays ==
  /\ UNCHANGED <<has_done, done, choices, index, choice_done, turned, skipped>>
  /\ \/ at \notin joined /\ value' = value
     \/ /\ at \in joined /\ value[at] # schema.values[at]
        /\ value' = [value EXCEPT ![at] = @ + 1]

Finishes ==
  /\ at \in joined /\ value[at] = schema.values[at]
  /\ value' = [value EXCEPT ![at] = 1]
  /\ done' = done \cup {at} /\ has_done' = has_done \cup {at}
  /\ index' = [c \in Choices |-> IF c \notin Turns THEN index[c]
                                 ELSE IF Walker!Wraps(c) THEN 1 ELSE index[c] + 1]
  /\ choice_done' = choice_done \cup {c \in Turns : Walker!Wraps(c)}
  /\ turned' = turned \cup Turns /\ skipped' = skipped \cup (Turns \cap turned)
  /\ choices' = choices

LEMMA Advances ==
  ASSUME WalkTypeOK, Walker!AdvanceLeaf
  PROVE  /\ wpc = "advance" /\ at \in Leaves /\ at' = at + 1
         /\ UNCHANGED <<schema, wpc, joined, seen, cut>>
         /\ participated' = participated \cup (valid \cap {at})
         /\ more' = (more \/ at \in participated' \ done')
         /\ valid' = valid \ {at}
         /\ Stays \/ Finishes
<1>1. /\ wpc = "advance" /\ at \in Leaves /\ at' = at + 1
      /\ UNCHANGED <<schema, wpc, joined, seen, cut>>
      /\ participated' = participated \cup (valid \cap {at})
      /\ more' = (more \/ at \in participated' \ done')
      /\ valid' = valid \ {at}
  BY DEF Walker!AdvanceLeaf, Leaves
<1>2. CASE at \in joined /\ value[at] = schema.values[at]
  <2>1. Walker!DoneWalk(at) /\ value' = [value EXCEPT ![at] = 1]
    BY <1>2 DEF Walker!AdvanceLeaf
  <2>2. Finishes
    BY <1>2, <2>1 DEF Walker!DoneWalk, Finishes, Turns, Choices
  <2>3. QED
    BY <1>1, <2>2
<1>3. CASE ~(at \in joined /\ value[at] = schema.values[at])
  <2>1. /\ value' = [value EXCEPT ![at] = IF at \in joined THEN @ + 1 ELSE @]
        /\ UNCHANGED <<has_done, done, choices, index, choice_done, turned, skipped>>
    BY <1>3 DEF Walker!AdvanceLeaf, Walker!choosing
  <2>2. value[at] \in Nat /\ value \in [Leaves -> Nat]
    BY <1>1 DEF WalkTypeOK
  <2>3. Stays
    <3>1. CASE at \in joined
      BY <1>3, <2>1, <3>1 DEF Stays
    <3>2. CASE at \notin joined
      <4>1. value' = value
        BY <2>1, <2>2, <3>2
      <4>2. QED
        BY <2>1, <3>2, <4>1 DEF Stays
    <3>3. QED
      BY <3>1, <3>2
  <2>4. QED
    BY <1>1, <2>3
<1>4. QED
  BY <1>2, <1>3

LEMMA SchemaKept ==
  ASSUME WalkStep
  PROVE  /\ schema' = schema /\ UNCHANGED <<Leaves, Choices>>
         /\ \A l : Free(l)' = Free(l)
         /\ \A l, c : Walker!Own(l, c)' = Walker!Own(l, c)
         /\ \A l : Walker!Above(l)' = Walker!Above(l)
         /\ \A l : Walker!Selectable(l)' <=> Walker!Selectable(l)
<1>1. schema' = schema
  BY DEF WalkStep, walk_vars, Walker!WalkNext, Walker!Invite, Walker!Prune, Walker!Yield,
     Walker!NextIteration, Walker!AdvanceLeaf, Walker!Decide
<1>2. QED
  BY <1>1 DEF Leaves, Choices, Walker!Leaves, Walker!Choices, Free, Walker!Own, Walker!Above,
     Walker!Selectable

LEMMA WalkTypeStep == WalkTypeOK /\ WalkStep => WalkTypeOK'
<1> SUFFICES ASSUME WalkTypeOK, WalkStep
             PROVE  WalkTypeOK'
  OBVIOUS
<1>0. schema' = schema /\ UNCHANGED <<Leaves, Choices>>
  BY SchemaKept
<1>1. CASE Walker!Invite
  <2>1. /\ joined' \subseteq Leaves /\ valid' = joined' /\ has_done' = {} /\ wpc' = "prune"
        /\ UNCHANGED <<schema, at, value, participated, done, index, more>>
    BY <1>1 DEF Walker!Invite, Leaves
  <2>2. QED
    BY <1>0, <2>1 DEF WalkTypeOK
<1>2. CASE Walker!Prune
  <2>1. /\ valid' \subseteq valid
        /\ UNCHANGED <<schema, wpc, at, value, joined, participated, has_done, done, index, more>>
    BY <1>2 DEF Walker!Prune, Walker!choosing
  <2>2. QED
    BY <1>0, <2>1 DEF WalkTypeOK
<1>3. CASE Walker!Yield \/ Walker!NextIteration \/ Walker!Decide \/ UNCHANGED walk_vars
  <2>1. /\ wpc' \in {"invite", "prune", "yielded", "advance", "end"}
        /\ at' = at \/ at' = 1
        /\ UNCHANGED <<schema, value, joined, valid, participated, has_done, done, index>>
    BY <1>3 DEF Walker!Yield, Walker!NextIteration, Walker!Decide, walk_vars, Walker!choosing,
       WalkTypeOK
  <2>2. more' \in BOOLEAN
    <3>1. more' = more \/ more' = FALSE
      BY <1>3 DEF Walker!Yield, Walker!NextIteration, Walker!Decide, walk_vars
    <3>2. QED
      BY <3>1, Zenon DEF WalkTypeOK
  <2>3. at' \in Nat \ {0}
    BY <2>1 DEF WalkTypeOK
  <2>4. QED
    BY <1>0, <2>1, <2>2, <2>3 DEF WalkTypeOK
<1>4. CASE Walker!AdvanceLeaf
  <2>1. /\ wpc = "advance" /\ at \in Leaves /\ at' = at + 1
        /\ UNCHANGED <<schema, wpc, joined, seen, cut>>
        /\ participated' = participated \cup (valid \cap {at})
        /\ more' = (more \/ at \in participated' \ done')
        /\ valid' = valid \ {at}
        /\ Stays \/ Finishes
    BY <1>4, Advances
  <2>2. /\ value \in [Leaves -> Nat] /\ \A l \in Leaves : value[l] \in 1..schema.values[l]
        /\ index \in [Choices -> Nat] /\ \A c \in Choices : index[c] \in 1..schema.cases[c]
        /\ \A l \in Leaves : schema.values[l] \in Nat \ {0}
        /\ \A c \in Choices : schema.cases[c] \in Nat \ {0}
        /\ joined \subseteq Leaves /\ done \subseteq Leaves /\ has_done \subseteq done
    BY SchemaTypes DEF WalkTypeOK
  <2>3. /\ value' \in [Leaves -> Nat] /\ \A l \in Leaves : value'[l] \in 1..schema.values[l]
        /\ done' \subseteq Leaves /\ has_done' \subseteq done'
    <3>1. CASE Stays
      BY <2>1, <2>2, <3>1 DEF Stays
    <3>2. CASE Finishes
      BY <2>1, <2>2, <3>2 DEF Finishes
    <3>3. QED
      BY <2>1, <3>1, <3>2
  <2>4. index' \in [Choices -> Nat] /\ \A c \in Choices : index'[c] \in 1..schema.cases[c]
    <3>1. CASE Stays
      BY <2>2, <3>1 DEF Stays
    <3>2. CASE Finishes
      <4>1. \A c \in Choices : index'[c] = IF c \notin Turns THEN index[c]
                                           ELSE IF Walker!Wraps(c) THEN 1 ELSE index[c] + 1
        BY <3>2 DEF Finishes
      <4>2. \A c \in Choices : index'[c] \in 1..schema.cases[c]
        BY <2>2, <4>1 DEF Walker!Wraps
      <4>3. \A c \in Choices : (IF c \notin Turns THEN index[c]
                                ELSE IF Walker!Wraps(c) THEN 1 ELSE index[c] + 1) \in Nat
        BY <2>2
      <4>4. index' \in [Choices -> Nat]
        BY <3>2, <4>3 DEF Finishes
      <4>5. QED
        BY <4>2, <4>4
    <3>3. QED
      BY <2>1, <3>1, <3>2
  <2>5. at' \in Nat \ {0} /\ participated' \subseteq Leaves /\ valid' \subseteq joined'
    <3>1. /\ at \in Nat \ {0} /\ participated \subseteq Leaves /\ valid \subseteq joined
          /\ joined \subseteq Leaves
      BY DEF WalkTypeOK
    <3>2. at' \in Nat \ {0}
      BY <2>1, <3>1
    <3>3. participated' \subseteq Leaves
      BY <2>1, <3>1
    <3>4. valid' \subseteq joined'
      BY <2>1, <3>1
    <3>5. QED
      BY <3>2, <3>3, <3>4
  <2>7. more' \in BOOLEAN
    <3>1. more' = (more \/ at \in participated' \ done')
      BY <2>1
    <3>2. (more \/ at \in participated' \ done') \in BOOLEAN
      OBVIOUS
    <3>3. QED
      BY <3>1, <3>2, Zenon
  <2>6. QED
    BY <1>0, <2>1, <2>3, <2>4, <2>5, <2>7 DEF WalkTypeOK
<1>5. QED
  BY <1>1, <1>2, <1>3, <1>4 DEF WalkStep, Walker!WalkNext

\* Where the iteration is, and what has been yielded.
LEMMA SeenStep == WalkTypeOK /\ ValidInv /\ SeenInv /\ WalkStep => ValidInv' /\ SeenInv'
<1> SUFFICES ASSUME WalkTypeOK, ValidInv, SeenInv, WalkStep
             PROVE  ValidInv' /\ SeenInv'
  OBVIOUS
<1>0. schema' = schema /\ UNCHANGED <<Leaves, Choices>>
  BY SchemaKept
<1>1. CASE Walker!Invite
  <2>1. /\ joined' \subseteq Leaves /\ valid' = joined' /\ wpc' = "prune"
        /\ UNCHANGED <<schema, value, done, seen, cut>>
    BY <1>1 DEF Walker!Invite, Leaves
  <2>2. ValidInv'
    BY <2>1 DEF ValidInv
  <2>3. SeenInv'
    BY <1>0, <2>1 DEF SeenInv
  <2>4. QED
    BY <2>2, <2>3
<1>2. CASE Walker!Prune
  <2>1. PICK out : valid' = valid \ out /\ cut' = cut \cup out
    BY <1>2 DEF Walker!Prune
  <2>2. wpc = "prune" /\ UNCHANGED <<schema, wpc, at, value, joined, done, seen>>
    BY <1>2 DEF Walker!Prune
  <2>3. ValidInv'
    BY <2>1, <2>2 DEF ValidInv, Ahead
  <2>4. SeenInv'
    BY <1>0, <2>1, <2>2 DEF SeenInv, Ahead
  <2>5. QED
    BY <2>3, <2>4
<1>3. CASE Walker!Yield
  <2>1. /\ wpc = "prune" /\ wpc' = "yielded"
        /\ seen' = seen \cup {<<l, value[l]>> : l \in valid}
        /\ UNCHANGED <<schema, value, joined, valid, done, cut>>
    BY <1>3 DEF Walker!Yield
  <2>2. ValidInv'
    BY <2>1 DEF ValidInv, Ahead
  <2>3. \A l \in joined \ cut : l \in valid
    BY <2>1 DEF ValidInv, Ahead
  <2>4. SeenInv'
    <3> SUFFICES ASSUME NEW l \in Leaves, l \notin cut
                 PROVE  /\ \A v \in 1..value[l] - 1 : <<l, v>> \in seen'
                        /\ l \in joined => <<l, value[l]>> \in seen'
                        /\ l \in done => \A v \in 1..schema.values[l] : <<l, v>> \in seen'
      BY <1>0, <2>1 DEF SeenInv
    <3>1. seen \subseteq seen'
      BY <2>1
    <3>2. /\ \A v \in 1..value[l] - 1 : <<l, v>> \in seen
          /\ l \in done => \A v \in 1..schema.values[l] : <<l, v>> \in seen
      BY DEF SeenInv
    <3>3. l \in joined => <<l, value[l]>> \in seen'
      BY <2>1, <2>3
    <3>4. QED
      BY <3>1, <3>2, <3>3
  <2>5. QED
    BY <2>2, <2>4
<1>4. CASE Walker!NextIteration
  <2>1. /\ wpc = "yielded" /\ wpc' = "advance"
        /\ UNCHANGED <<schema, value, joined, valid, done, seen, cut>>
    BY <1>4 DEF Walker!NextIteration
  <2>2. ValidInv' /\ SeenInv'
    BY <1>0, <2>1 DEF ValidInv, SeenInv, Ahead
  <2>3. QED
    BY <2>2
<1>5. CASE Walker!Decide
  <2>1. /\ wpc' \in {"invite", "end"}
        /\ UNCHANGED <<schema, value, joined, valid, done, seen, cut>>
    BY <1>5 DEF Walker!Decide
  <2>2. ValidInv' /\ SeenInv'
    BY <1>0, <2>1 DEF ValidInv, SeenInv, Ahead
  <2>3. QED
    BY <2>2
<1>6. CASE Walker!AdvanceLeaf
  <2>1. /\ wpc = "advance" /\ at \in Leaves /\ at' = at + 1
        /\ UNCHANGED <<schema, wpc, joined, seen, cut>>
        /\ valid' = valid \ {at}
        /\ Stays \/ Finishes
    BY <1>6, Advances
  <2>2. at \in Nat /\ Leaves \subseteq Nat
    BY <2>1, SchemaTypes
  <2>3. \A l \in Leaves : Ahead(l)' => Ahead(l) /\ l # at
    BY <2>1, <2>2 DEF Ahead
  <2>4. ValidInv'
    BY <2>1, <2>3 DEF ValidInv, WalkTypeOK
  <2>5. ASSUME NEW l \in Leaves, l \notin cut
        PROVE  /\ \A v \in 1..value'[l] - 1 : <<l, v>> \in seen
               /\ l \in joined /\ Ahead(l)' => <<l, value'[l]>> \in seen
               /\ l \in done' => \A v \in 1..schema.values[l] : <<l, v>> \in seen
    <3>1. /\ \A v \in 1..value[l] - 1 : <<l, v>> \in seen
          /\ l \in joined /\ Ahead(l) => <<l, value[l]>> \in seen
          /\ l \in done => \A v \in 1..schema.values[l] : <<l, v>> \in seen
      BY <2>1, <2>5 DEF SeenInv
    <3>2. value \in [Leaves -> Nat] /\ value[l] \in Nat
      BY DEF WalkTypeOK
    <3>3. CASE l # at
      <4>1. value'[l] = value[l] /\ (l \in done' => l \in done)
        BY <2>1, <3>2, <3>3 DEF Stays, Finishes
      <4>2. QED
        BY <2>3, <3>1, <4>1
    <3>4. CASE l = at
      <4>1. Ahead(l) /\ ~Ahead(l)'
        BY <2>1, <2>2, <3>4 DEF Ahead
      <4>2. CASE Stays
        <5>1. \/ value'[l] = value[l]
              \/ l \in joined /\ value'[l] = value[l] + 1
          BY <3>2, <3>4, <4>2 DEF Stays
        <5>2. \A v \in 1..value'[l] - 1 : <<l, v>> \in seen
          BY <3>1, <3>2, <4>1, <5>1
        <5>3. done' = done
          BY <4>2 DEF Stays
        <5>4. QED
          BY <3>1, <4>1, <5>2, <5>3
      <4>3. CASE Finishes
        <5>1. value'[l] = 1 /\ l \in joined /\ value[l] = schema.values[l]
          BY <3>2, <3>4, <4>3 DEF Finishes
        <5>2. \A v \in 1..schema.values[l] : <<l, v>> \in seen
          BY <3>1, <3>2, <4>1, <5>1
        <5>3. QED
          BY <4>1, <5>1, <5>2
      <4>4. QED
        BY <2>1, <4>2, <4>3
    <3>5. QED
      BY <3>3, <3>4
  <2>6. SeenInv'
    BY <1>0, <2>1, <2>5 DEF SeenInv
  <2>7. QED
    BY <2>4, <2>6
<1>7. CASE UNCHANGED walk_vars
  BY <1>0, <1>7 DEF walk_vars, ValidInv, SeenInv, Ahead
<1>8. QED
  BY <1>1, <1>2, <1>3, <1>4, <1>5, <1>6, <1>7 DEF WalkStep, Walker!WalkNext

\* The leaves that are in no case.
LEMMA MoreStep ==
  WalkTypeOK /\ ValidInv /\ MoreInv /\ FreeInv /\ WalkStep => MoreInv' /\ FreeInv'
<1> SUFFICES ASSUME WalkTypeOK, ValidInv, MoreInv, FreeInv, WalkStep
             PROVE  MoreInv' /\ FreeInv'
  OBVIOUS
<1>0. schema' = schema /\ UNCHANGED <<Leaves, Choices>> /\ \A l : Free(l)' = Free(l)
  BY SchemaKept
<1>1. CASE Walker!Invite
  <2>1. /\ joined' = {l \in Leaves : \A c \in Walker!Above(l) : Walker!Joins(l, c)}
        /\ wpc' = "prune"
    BY <1>1 DEF Walker!Invite, Leaves
  <2>2. ASSUME NEW l \in Leaves, Free(l)
        PROVE  l \in joined'
    <3>1. \A c \in Walker!Above(l) : schema.case[l][c] = 0
      BY <2>2 DEF Free, Walker!Above
    <3>2. \A c \in Walker!Above(l) : Walker!Joins(l, c)
      BY <3>1 DEF Walker!Joins
    <3>3. QED
      BY <2>1, <3>2
  <2>3. FreeInv'
    BY <1>0, <2>2 DEF FreeInv
  <2>4. MoreInv'
    BY <2>1 DEF MoreInv
  <2>5. QED
    BY <2>3, <2>4
<1>2. CASE Walker!Prune \/ Walker!Yield \/ Walker!NextIteration \/ Walker!Decide
           \/ UNCHANGED walk_vars
  <2>1. /\ joined' = joined
        /\ \/ wpc' \in {"invite", "end"}
           \/ wpc \in {"prune", "yielded"} /\ wpc' \in {"prune", "yielded"}
           \/ wpc \in {"prune", "yielded"} /\ wpc' = "advance" /\ at' = 1
           \/ UNCHANGED <<wpc, at, participated, done, more, cut>>
    BY <1>2 DEF Walker!Prune, Walker!Yield, Walker!NextIteration, Walker!Decide, walk_vars
  <2>2. FreeInv'
    BY <1>0, <2>1 DEF FreeInv
  <2>3. MoreInv'
    <3>1. CASE wpc' = "advance" /\ at' = 1
      <4>1. \A l \in Leaves : ~(l < 1)
        BY SchemaTypes
      <4>2. QED
        BY <1>0, <3>1, <4>1 DEF MoreInv
    <3>2. CASE UNCHANGED <<wpc, at, participated, done, more, cut>>
      BY <1>0, <3>2 DEF MoreInv
    <3>3. CASE wpc' # "advance"
      BY <3>3 DEF MoreInv
    <3>4. QED
      BY <2>1, <3>1, <3>2, <3>3
  <2>4. QED
    BY <2>2, <2>3
<1>3. CASE Walker!AdvanceLeaf
  <2>1. /\ wpc = "advance" /\ at \in Leaves /\ at' = at + 1
        /\ UNCHANGED <<schema, wpc, joined, seen, cut>>
        /\ participated' = participated \cup (valid \cap {at})
        /\ more' = (more \/ at \in participated' \ done')
        /\ Stays \/ Finishes
    BY <1>3, Advances
  <2>2. done \subseteq done'
    BY <2>1 DEF Stays, Finishes
  <2>3. ASSUME NEW l \in Leaves, l < at'
        PROVE  /\ l \in participated' \ done' => more'
               /\ l \notin cut /\ Free(l) => l \in participated'
    <3>1. l < at \/ l = at
      BY <2>1, <2>3, SchemaTypes
    <3>2. CASE l < at
      <4>1. (l \in participated \ done => more) /\ (l \notin cut /\ Free(l) => l \in participated)
        BY <2>1, <3>2 DEF MoreInv
      <4>2. l # at
        BY <2>1, <3>2, SchemaTypes
      <4>3. QED
        BY <2>1, <2>2, <4>1, <4>2
    <3>3. CASE l = at
      <4>1. ASSUME l \notin cut, Free(l)
            PROVE  l \in participated'
        <5>1. l \in joined
          BY <2>1, <4>1 DEF FreeInv
        <5>2. at <= at
          BY <2>1, SchemaTypes
        <5>3. Ahead(l)
          BY <2>1, <3>3, <5>2 DEF Ahead
        <5>4. l \in valid
          BY <4>1, <5>1, <5>3 DEF ValidInv
        <5>5. QED
          BY <2>1, <3>3, <5>4
      <4>2. QED
        BY <2>1, <3>3, <4>1
    <3>4. QED
      BY <3>1, <3>2, <3>3
  <2>4. MoreInv'
    BY <1>0, <2>1, <2>3 DEF MoreInv
  <2>5. FreeInv'
    BY <1>0, <2>1 DEF FreeInv
  <2>6. QED
    BY <2>4, <2>5
<1>4. QED
  BY <1>1, <1>2, <1>3 DEF WalkStep, Walker!WalkNext

\* Each choice is met in the first iteration.
LEMMA MetStep == WalkTypeOK /\ MetInv /\ WalkStep => MetInv'
<1> SUFFICES ASSUME WalkTypeOK, MetInv, WalkStep
             PROVE  MetInv'
  OBVIOUS
<1>0. schema' = schema /\ UNCHANGED <<Leaves, Choices>>
      /\ \A l, c : Walker!Own(l, c)' = Walker!Own(l, c)
  BY SchemaKept
<1>1. CASE Walker!Invite
  <2>1. choices' = choices \cup UNION {Walker!Met(l) : l \in Leaves}
    BY <1>1 DEF Walker!Invite, Leaves
  <2>2. ASSUME NEW l \in Leaves, NEW c \in Choices, Walker!Own(l, c)
        PROVE  c \in Walker!Met(l)
    <3>1. PICK p \in DOMAIN schema.above[l] :
            /\ schema.above[l][p] = c /\ schema.case[l][c] # 0
            /\ \A i \in 1..p - 1 : schema.case[l][schema.above[l][i]] = 0
      BY <2>2 DEF Walker!Own
    <3>2. \A d \in Walker!Within(l, p) : Walker!Joins(l, d)
      BY <3>1 DEF Walker!Within, Walker!Joins
    <3>3. QED
      BY <3>1, <3>2 DEF Walker!Met
  <2>3. QED
    BY <1>0, <2>1, <2>2 DEF MetInv
<1>2. CASE ~Walker!Invite
  <2>1. choices' = choices /\ (wpc = "invite" => wpc' = "invite")
    <3>1. CASE Walker!AdvanceLeaf
      BY <3>1, Advances DEF Stays, Finishes
    <3>2. CASE Walker!Prune \/ Walker!Yield \/ Walker!NextIteration \/ Walker!Decide
               \/ UNCHANGED walk_vars
      BY <3>2 DEF Walker!Prune, Walker!Yield, Walker!NextIteration, Walker!Decide, walk_vars,
         Walker!choosing
    <3>3. QED
      BY <1>2, <3>1, <3>2 DEF WalkStep, Walker!WalkNext
  <2>2. CASE wpc = "invite"
    BY <2>1, <2>2 DEF MetInv
  <2>3. CASE wpc # "invite"
    BY <1>0, <2>1, <2>3 DEF MetInv
  <2>4. QED
    BY <2>2, <2>3
<1>3. QED
  BY <1>1, <1>2

\* A choice moves when the leaves of its case are done.
LEMMA PassedStep ==
  WalkTypeOK /\ JoinedInv /\ PassedInv /\ WalkStep => JoinedInv' /\ PassedInv'
<1> SUFFICES ASSUME WalkTypeOK, JoinedInv, PassedInv, WalkStep
             PROVE  JoinedInv' /\ PassedInv'
  OBVIOUS
<1>0. /\ schema' = schema /\ UNCHANGED <<Leaves, Choices>>
      /\ \A l, c : Walker!Own(l, c)' = Walker!Own(l, c)
      /\ \A l : Walker!Above(l)' = Walker!Above(l)
      /\ \A l : Walker!Selectable(l)' <=> Walker!Selectable(l)
  BY SchemaKept
<1>1. CASE Walker!Invite
  <2>1. /\ joined' = {l \in Leaves : \A c \in Walker!Above(l) : Walker!Joins(l, c)}
        /\ UNCHANGED <<index, choice_done, skipped, done>>
    BY <1>1 DEF Walker!Invite, Leaves
  <2>2. ASSUME NEW m \in joined', NEW l \in Leaves, NEW c \in Walker!Above(m),
               Walker!Own(l, c), schema.case[l][c] = index[c]
        PROVE  l \in joined'
    <3>1. m \in Leaves /\ \A d \in Walker!Above(m) : Walker!Joins(m, d)
      BY <2>1
    <3>2. Walker!Joins(l, c)
      BY <2>2 DEF Walker!Joins
    <3>3. \A d \in Walker!Above(l) : Walker!Joins(l, d)
      BY <2>2, <3>1, <3>2, JoinTogether
    <3>4. QED
      BY <2>1, <3>3
  <2>3. JoinedInv'
    BY <1>0, <2>1, <2>2 DEF JoinedInv
  <2>4. PassedInv'
    BY <1>0, <2>1 DEF PassedInv
  <2>5. QED
    BY <2>3, <2>4
<1>2. CASE Walker!Prune \/ Walker!Yield \/ Walker!NextIteration \/ Walker!Decide
           \/ UNCHANGED walk_vars
  <2>1. /\ UNCHANGED <<joined, index, choice_done, turned, skipped, done>>
        /\ wpc' \in {"invite", "end"} \/ wpc' = wpc
           \/ (wpc \in {"prune", "yielded"} /\ wpc' \in {"prune", "yielded", "advance"})
    BY <1>2 DEF Walker!Prune, Walker!Yield, Walker!NextIteration, Walker!Decide, walk_vars,
       Walker!choosing
  <2>2. JoinedInv'
    BY <1>0, <2>1 DEF JoinedInv
  <2>3. PassedInv'
    BY <1>0, <2>1 DEF PassedInv
  <2>4. QED
    BY <2>2, <2>3
<1>3. CASE Walker!AdvanceLeaf /\ Stays
  <2>1. wpc' = wpc /\ UNCHANGED <<joined, index, choice_done, turned, skipped, done>>
    BY <1>3, Advances DEF Stays
  <2>2. QED
    BY <1>0, <2>1 DEF JoinedInv, PassedInv
<1>4. CASE Walker!AdvanceLeaf /\ Finishes
  <2>1. /\ wpc = "advance" /\ wpc' = wpc /\ joined' = joined /\ at \in Leaves /\ at \in joined
        /\ done' = done \cup {at} /\ has_done' = has_done \cup {at}
        /\ choice_done' = choice_done \cup {c \in Turns : Walker!Wraps(c)}
        /\ turned' = turned \cup Turns /\ skipped' = skipped \cup (Turns \cap turned)
    BY <1>4, Advances DEF Finishes
  <2>2. \A c \in Choices : index'[c] = IF c \notin Turns THEN index[c]
                                       ELSE IF Walker!Wraps(c) THEN 1 ELSE index[c] + 1
    BY <1>4 DEF Finishes
  <2>3. /\ Turns \subseteq Walker!Above(at) /\ Turns \subseteq Choices
        /\ \A c \in Turns : Walker!AllDone(c, done' \cup has_done')
    BY <2>1, TurnsTypes
  <2>4. done' \cup has_done' = done'
    BY <2>1 DEF WalkTypeOK
  <2>5. JoinedInv'
    <3> SUFFICES ASSUME NEW m \in joined, NEW l \in Leaves, NEW c \in Walker!Above(m),
                        c \notin turned', Walker!Own(l, c), schema.case[l][c] = index'[c]
                 PROVE  l \in joined
      BY <1>0, <2>1 DEF JoinedInv
    <3>1. c \notin Turns /\ c \notin turned
      BY <2>1
    <3>2. index'[c] = index[c]
      BY <2>2, <3>1, OwnAbove
    <3>3. QED
      BY <2>1, <3>1, <3>2 DEF JoinedInv
  <2>6. PassedInv'
    <3> SUFFICES ASSUME NEW l \in Leaves, NEW c \in Choices, c \notin skipped', Walker!Own(l, c),
                        Walker!Selectable(l),
                        c \in choice_done' \/ schema.case[l][c] < index'[c]
                 PROVE  l \in done'
      BY <1>0 DEF PassedInv
    <3>1. c \notin skipped /\ (c \in Turns => c \notin turned)
      BY <2>1
    <3>2. c \in Walker!Above(l) /\ schema.case[l][c] \in 1..schema.cases[c]
      BY OwnAbove
    <3>3. index[c] \in Nat /\ schema.cases[c] \in Nat
      BY SchemaTypes DEF WalkTypeOK
    <3>4. CASE c \in choice_done \/ schema.case[l][c] < index[c]
      <4>1. l \in done
        BY <3>1, <3>4 DEF PassedInv
      <4>2. QED
        BY <2>1, <4>1
    <3>5. CASE ~(c \in choice_done \/ schema.case[l][c] < index[c])
      <4>1. c \in Turns
        BY <2>1, <2>2, <3>5
      <4>2. schema.case[l][c] = index[c]
        <5>1. CASE Walker!Wraps(c)
          BY <3>2, <3>3, <3>5, <5>1 DEF Walker!Wraps
        <5>2. CASE ~Walker!Wraps(c)
          <6>1. c \notin choice_done'
            BY <2>1, <3>5, <5>2
          <6>2. index'[c] = index[c] + 1
            BY <2>2, <4>1, <5>2
          <6>3. schema.case[l][c] < index[c] + 1
            BY <6>1, <6>2
          <6>4. QED
            BY <3>2, <3>3, <3>5, <6>3
        <5>3. QED
          BY <5>1, <5>2
      <4>3. l \in joined
        BY <2>1, <2>3, <3>1, <4>1, <4>2 DEF JoinedInv
      <4>4. Walker!AllDone(c, done')
        BY <2>3, <2>4, <4>1
      <4>5. QED
        BY <3>2, <4>2, <4>3, <4>4 DEF Walker!AllDone
    <3>6. QED
      BY <3>4, <3>5
  <2>7. QED
    BY <2>5, <2>6
<1>5. QED
  BY <1>1, <1>2, <1>3, <1>4, Advances DEF WalkStep, Walker!WalkNext

\* The walk ends when no choice and no leaf asks for more.
LEMMA EndStep ==
  WalkTypeOK /\ MoreInv /\ MetInv /\ PassedInv /\ EndInv /\ WalkStep => EndInv'
<1> SUFFICES ASSUME WalkTypeOK, MoreInv, MetInv, PassedInv, EndInv, WalkStep
             PROVE  EndInv'
  OBVIOUS
<1>0. /\ schema' = schema /\ UNCHANGED <<Leaves, Choices>>
      /\ \A l, c : Walker!Own(l, c)' = Walker!Own(l, c)
      /\ \A l : Walker!Selectable(l)' <=> Walker!Selectable(l)
  BY SchemaKept
<1>1. CASE Walker!Decide
  <2>1. /\ wpc = "advance" /\ at \notin Leaves
        /\ wpc' = IF more \/ choices \ choice_done # {} THEN "invite" ELSE "end"
        /\ UNCHANGED <<done, skipped, cut>>
    BY <1>1 DEF Walker!Decide, Leaves, Walker!choosing
  <2>2. CASE wpc' = "end"
    <3>1. ~more /\ choices \subseteq choice_done
      BY <2>1, <2>2
    <3>2. \A l \in Leaves : l < at
      <4>1. at \in Nat \ {0} /\ Leaves = 1..Len(schema.values) /\ Len(schema.values) \in Nat
        BY SchemaTypes DEF WalkTypeOK
      <4>2. QED
        BY <2>1, <4>1
    <3>3. ASSUME NEW l \in Leaves, l \notin cut, Walker!Selectable(l),
                 \A c \in skipped : ~Walker!Own(l, c)
          PROVE  l \in done
      <4>1. CASE Free(l)
        BY <2>1, <3>1, <3>2, <3>3, <4>1 DEF MoreInv
      <4>2. CASE ~Free(l)
        <5>1. PICK c \in Choices : Walker!Own(l, c)
          BY <4>2, OwnOrFree
        <5>2. c \in choice_done /\ c \notin skipped
          BY <2>1, <3>1, <3>3, <5>1 DEF MetInv
        <5>3. QED
          BY <3>3, <5>1, <5>2 DEF PassedInv
      <4>3. QED
        BY <4>1, <4>2
    <3>4. QED
      BY <1>0, <2>1, <3>3 DEF EndInv
  <2>3. CASE wpc' # "end"
    BY <2>3 DEF EndInv
  <2>4. QED
    BY <2>2, <2>3
<1>2. CASE UNCHANGED walk_vars
  BY <1>0, <1>2 DEF walk_vars, EndInv
<1>3. CASE Walker!Invite \/ Walker!Prune \/ Walker!Yield \/ Walker!NextIteration
           \/ Walker!AdvanceLeaf
  <2>1. wpc' # "end"
    BY <1>3 DEF Walker!Invite, Walker!Prune, Walker!Yield, Walker!NextIteration, Walker!AdvanceLeaf
  <2>2. QED
    BY <2>1 DEF EndInv
<1>4. QED
  BY <1>1, <1>2, <1>3 DEF WalkStep, Walker!WalkNext

LEMMA WalkStarts == Walker!WalkInit => WalkTypeOK /\ WalkInv
<1> SUFFICES ASSUME Walker!WalkInit
             PROVE  WalkTypeOK /\ WalkInv
  OBVIOUS
<1>1. /\ schema \in Schemas /\ wpc = "invite" /\ at = 1 /\ more = FALSE
      /\ value = [l \in Leaves |-> 1]
      /\ joined = {} /\ valid = {} /\ participated = {} /\ has_done = {} /\ done = {}
      /\ index = [c \in Choices |-> 1] /\ choice_done = {}
  BY DEF Walker!WalkInit, Leaves, Choices
<1>2. Walker!IsSchema(schema)
  BY <1>1, SchemaAssumption
<1>3. schema.values \in Seq(Nat \ {0}) /\ schema.cases \in Seq(Nat \ {0})
  BY <1>2 DEF Walker!IsSchema
<1>4. WalkTypeOK
  <2>1. /\ \A l \in Leaves : schema.values[l] \in Nat \ {0}
        /\ \A c \in Choices : schema.cases[c] \in Nat \ {0}
    BY <1>3 DEF Leaves, Choices, Walker!Leaves, Walker!Choices
  <2>2. \A n \in Nat \ {0} : 1 \in 1..n
    OBVIOUS
  <2>3. /\ \A l \in Leaves : value[l] \in 1..schema.values[l]
        /\ \A c \in Choices : index[c] \in 1..schema.cases[c]
    <3>1. (\A l \in Leaves : value[l] = 1) /\ (\A c \in Choices : index[c] = 1)
      BY <1>1
    <3>2. QED
      BY <2>1, <2>2, <3>1
  <2>4. value \in [Leaves -> Nat] /\ index \in [Choices -> Nat]
    <3>1. 1 \in Nat
      OBVIOUS
    <3>2. QED
      BY <1>1, <3>1
  <2>5. at \in Nat \ {0} /\ more \in BOOLEAN
    <3>1. at \in Nat \ {0}
      BY <1>1
    <3>2. more \in BOOLEAN
      BY <1>1, Zenon
    <3>3. QED
      BY <3>1, <3>2
  <2>6. wpc \in {"invite", "prune", "yielded", "advance", "end"}
    BY <1>1
  <2>7. /\ joined \subseteq Leaves /\ valid \subseteq joined /\ done \subseteq Leaves
        /\ has_done \subseteq done /\ participated \subseteq Leaves
    BY <1>1
  <2>8. QED
    BY <1>1, <2>3, <2>4, <2>5, <2>6, <2>7, Zenon DEF WalkTypeOK
<1>5. ValidInv /\ SeenInv /\ MoreInv /\ FreeInv /\ MetInv /\ JoinedInv /\ EndInv
  BY <1>1 DEF ValidInv, SeenInv, MoreInv, FreeInv, MetInv, JoinedInv, EndInv
<1>6. PassedInv
  <2> SUFFICES ASSUME NEW l \in Leaves, NEW c \in Choices, Walker!Selectable(l), Walker!Own(l, c),
                      c \in choice_done \/ schema.case[l][c] < index[c]
               PROVE  FALSE
    BY DEF PassedInv
  <2>1. schema.case[l][c] \in 1..schema.cases[c] /\ schema.cases[c] \in Nat
    BY <1>4, OwnAbove, SchemaTypes
  <2>2. QED
    BY <1>1, <2>1
<1>7. QED
  BY <1>4, <1>5, <1>6 DEF WalkInv

LEMMA WalkInvStep == WalkTypeOK /\ WalkInv /\ WalkStep => WalkTypeOK' /\ WalkInv'
BY WalkTypeStep, SeenStep, MoreStep, MetStep, PassedStep, EndStep DEF WalkInv

\* A step of the test is a step of the walk, or leaves the walk as it is.
LEMMA TestWalks == [AnyNext]_<<vars, walk_vars>> => WalkStep
<1> SUFFICES ASSUME [AnyNext]_<<vars, walk_vars>>
             PROVE  WalkStep
  OBVIOUS
<1>1. CASE WalkerStep
  BY <1>1 DEF WalkerStep, WalkStep, Walker!WalkNext
<1>2. CASE SkipIteration
  BY <1>2 DEF SkipIteration, WalkStep, Walker!WalkNext
<1>3. CASE BeginIteration
  BY <1>3 DEF BeginIteration, WalkStep
<1>4. CASE EndIteration
  BY <1>4 DEF EndIteration, WalkStep, Walker!WalkNext
<1>5. CASE EndWalk
  BY <1>5 DEF EndWalk, WalkStep
<1>6. CASE UNCHANGED walk_vars
  BY <1>6 DEF WalkStep
<1>7. QED
  BY <1>1, <1>2, <1>3, <1>4, <1>5, <1>6 DEF AnyNext, TestStep

LEMMA WalkInvariant == TestSpec => [](WalkTypeOK /\ WalkInv)
<1>1. AnyInit => WalkTypeOK /\ WalkInv
  BY WalkStarts DEF AnyInit, WalkInit
<1>2. QED
  BY <1>1, TestWalks, WalkInvStep, PTL DEF TestSpec

\* A walk that ends has yielded each leaf that was never pruned with each of its
\* values, for any schema, however its choices are nested and in whatever order
\* its leaves come, but for leaves of choices incremented twice in an iteration
\* and for a leaf that waits for a case its choice does not have: one with
\* cli-full-command and cli-hide-in-submode (node.py:428-447) never joins.
THEOREM WalkVisits == TestSpec => []AllVisited
<1>1. WalkInv => AllVisited
  <2> SUFFICES ASSUME WalkInv, wpc = "end", NEW l \in Leaves, l \notin cut, Walker!Selectable(l),
                      \A c \in skipped : ~Walker!Own(l, c), NEW v \in 1..schema.values[l]
               PROVE  <<l, v>> \in seen
    BY DEF AllVisited, Walker!AllVisited, Leaves
  <2>1. l \in done
    BY DEF WalkInv, EndInv
  <2>2. QED
    BY <2>1 DEF WalkInv, SeenInv
<1>2. QED
  BY <1>1, WalkInvariant, PTL

----------------------------------------------------------------------------
(* The iterations of a walk                                                *)

LEMMA IterationLists ==
  /\ CommitRollback \in Seq(Ops)
  /\ CommitRollback # <<>> /\ Head(CommitRollback).do = "load" /\ Tail(CommitRollback) = ThenCommit
  /\ ThenCommit # <<>> /\ Head(ThenCommit).do = "commit" /\ Tail(ThenCommit) = ThenCompare
  /\ ThenCompare # <<>> /\ Head(ThenCompare).do = "compare" /\ Tail(ThenCompare) = RollbackNewest
  /\ RollbackNewest # <<>> /\ Head(RollbackNewest).do = "latest"
  /\ Tail(RollbackNewest) = CommitCompare
<1>1. Do("load") \in Ops /\ Do("commit") \in Ops /\ Do("compare") \in Ops
  BY DEF Do, Ops, OpNames
<1>2. CommitCompare \in Seq(Ops) /\ LastCompare \in Seq(Ops) /\ <<Do("load")>> \in Seq(Ops)
      /\ <<Do("commit")>> \in Seq(Ops)
  BY <1>1 DEF CommitCompare, LastCompare
<1>3. "latest" \in OpNames /\ 0 \in Nat
  BY DEF OpNames
<1>4. RollbackNewest \in Seq(Ops)
  BY <1>3, OpsTypes DEF RollbackNewest
<1>5. ThenCompare \in Seq(Ops) /\ ThenCompare = <<Do("compare")>> \o RollbackNewest
  BY <1>1, <1>4, Prefixed DEF ThenCompare, LastCompare
<1>6. ThenCommit = <<Do("commit")>> \o ThenCompare
  <2>1. CommitCompare = <<Do("commit")>> \o LastCompare
    BY <1>1 DEF CommitCompare, LastCompare
  <2>2. (<<Do("commit")>> \o LastCompare) \o RollbackNewest
         = <<Do("commit")>> \o (LastCompare \o RollbackNewest)
    BY <1>2, <1>4, ConcatAssociative
  <2>3. QED
    BY <2>1, <2>2 DEF ThenCommit, ThenCompare
<1>7. ThenCommit \in Seq(Ops)
  BY <1>1, <1>5, <1>6, Prefixed
<1>8. CommitRollback = <<Do("load")>> \o ThenCommit
  BY <1>2, <1>4, ConcatAssociative DEF CommitRollback, LoadOps, ThenCommit, RollbackNewest
<1>9. /\ CommitRollback \in Seq(Ops)
      /\ CommitRollback # <<>> /\ Head(CommitRollback) = Do("load")
      /\ Tail(CommitRollback) = ThenCommit
  BY <1>1, <1>7, <1>8, Prefixed
<1>10. ThenCommit # <<>> /\ Head(ThenCommit) = Do("commit") /\ Tail(ThenCommit) = ThenCompare
  BY <1>1, <1>5, <1>6, Prefixed
<1>11. ThenCompare # <<>> /\ Head(ThenCompare) = Do("compare") /\ Tail(ThenCompare) = RollbackNewest
  BY <1>1, <1>4, <1>5, Prefixed
<1>12. RollbackNewest # <<>> /\ Head(RollbackNewest).do = "latest"
       /\ Tail(RollbackNewest) = CommitCompare
  BY <1>3, RollbackLists DEF RollbackNewest
<1>13. \A name : Do(name).do = name
  BY DEF Do
<1>14. QED
  BY <1>9, <1>10, <1>11, <1>12, <1>13

\* What becomes of the lists of ids and rollback files.
LEMMA IdsAndFiles ==
  ASSUME TypeInv, OpStep
  PROVE  /\ Commits => /\ commit_id' = commit_id
                       /\ Len(log') = Len(log) + (IF committing' = "full" THEN 1 ELSE 0)
         /\ Records => /\ Len(commit_id') = Len(commit_id) + 1
                       /\ \A k \in 1..Len(commit_id) : commit_id'[k] = commit_id[k]
                       /\ commit_id'[Len(commit_id) + 1] = IF committing = "empty" THEN 0 ELSE Len(log)
<1>0. commit_id \in Seq(Nat) /\ log \in Seq(Snapshots) /\ running \in Snapshots
      /\ Len(log) \in Nat
  BY DEF TypeInv, TypeOK, IdsTypeOK, NsoTypeOK
<1>1. ASSUME Commits
      PROVE  /\ commit_id' = commit_id
             /\ Len(log') = Len(log) + (IF committing' = "full" THEN 1 ELSE 0)
  <2>1. Commit
    BY <1>1 DEF Commits, OpStep, Commit, RecordId, RollBack, Load, LoadSession, Compare, ids
  <2>2. \/ committing' = "empty" /\ log' = log
        \/ committing' = "full" /\ log' = Append(log, running)
    BY <2>1 DEF Commit, nso
  <2>3. Len(Append(log, running)) = Len(log) + 1
    BY <1>0, Extended
  <2>4. QED
    BY <1>0, <2>1, <2>2, <2>3 DEF Commit
<1>2. ASSUME Records
      PROVE  /\ Len(commit_id') = Len(commit_id) + 1
             /\ \A k \in 1..Len(commit_id) : commit_id'[k] = commit_id[k]
             /\ commit_id'[Len(commit_id) + 1] = IF committing = "empty" THEN 0 ELSE Len(log)
  <2>1. RecordId
    BY <1>2 DEF Records, OpStep, Commit, RecordId, RollBack, Load, LoadSession, Compare, At
  <2>2. PICK id \in Nat : /\ id = IF committing = "empty" THEN 0 ELSE Len(log)
                          /\ commit_id' = Append(commit_id, id)
    BY <1>0, <2>1 DEF RecordId, None
  <2>3. QED
    BY <1>0, <2>2, Extended
<1>3. QED
  BY <1>1, <1>2

LEMMA IdTypes ==
  ASSUME TypeInv
  PROVE  /\ call.base \in Nat /\ commit_id \in Seq(Nat) /\ Len(log) \in Nat /\ Len(commit_id) \in Nat
         /\ \A k \in 1..Len(commit_id) : commit_id[k] \in Nat /\ commit_id[k] <= Len(log)
         /\ before \in Seq(Configs) /\ Len(before) \in Nat /\ Len(before) >= Len(commit_id)
         /\ committing \in {"no", "empty", "full"}
<1>1. /\ commit_id \in Seq(Nat) /\ \A k \in DOMAIN commit_id : commit_id[k] <= Len(log)
      /\ before \in Seq(Configs) /\ committing \in {"no", "empty", "full"}
      /\ Len(before) = Len(commit_id) + IF committing = "no" THEN 0 ELSE 1
      /\ log \in Seq(Snapshots) /\ call.base \in Nat
  BY DEF TypeInv, TypeOK, IdsTypeOK, PlaceTypeOK, NsoTypeOK
<1>2. DOMAIN commit_id = 1..Len(commit_id) /\ Len(commit_id) \in Nat
  BY <1>1
<1>3. \A k \in 1..Len(commit_id) : commit_id[k] \in Nat /\ commit_id[k] <= Len(log)
  BY <1>1, <1>2
<1>4. Len(log) \in Nat /\ Len(before) \in Nat /\ Len(before) >= Len(commit_id)
  BY <1>1, <1>2
<1>5. QED
  BY <1>1, <1>2, <1>3, <1>4

\* What an iteration has come to is not disturbed by its own operations.
Going == IterationRound /\ ConfigBefore(call.base + 1) = set_start

LEMMA IterationKeeps ==
  ASSUME TypeInv, Going, OpStep \/ OtherCommit, call'.base = call.base, UNCHANGED set_start
  PROVE  (ConfigBefore(call.base + 1) = set_start)'
<1>1. /\ call.base \in Nat /\ Len(commit_id) \in Nat /\ Len(before) \in Nat
      /\ Len(commit_id) <= Len(before)
  BY DEF TypeInv, TypeOK, IdsTypeOK, PlaceTypeOK
<1>2. call.base <= Len(commit_id)
  BY <1>1 DEF Going, IterationRound
<1>3. call.base + 1 \in 1..Len(before) + 1
  BY <1>1, <1>2
<1>4. PICK i : i = call.base + 1
  OBVIOUS
<1>5. ConfigBefore(i)' = ConfigBefore(i)
  BY <1>3, <1>4, PastKept DEF Past
<1>6. call'.base + 1 = i
  BY <1>4
<1>7. QED
  BY <1>4, <1>5, <1>6 DEF Going, ConfigBefore

LEMMA IterationStep ==
  ASSUME TypeInv, CommitInv, HistoryInv, Going, OpStep
  PROVE  Going'
<1>0. /\ call.base \in Nat /\ commit_id \in Seq(Nat) /\ Len(log) \in Nat /\ Len(commit_id) \in Nat
      /\ \A k \in 1..Len(commit_id) : commit_id[k] \in Nat /\ commit_id[k] <= Len(log)
      /\ before \in Seq(Configs) /\ Len(before) \in Nat /\ Len(before) >= Len(commit_id)
  BY IdTypes
<1>1. /\ ops # <<>> /\ call'.base = call.base /\ UNCHANGED <<raced, set_start>>
      /\ \/ Commits \/ Records
         \/ Does("load") \/ (Does("session") /\ cand'.dev = saved)
         \/ (Does("compare") /\ cand' = cand)
         \/ /\ \E name \in {"rollback", "latest", "undo", "rollback+", "rollback-"} : Does(name)
            /\ RollBack
  BY OpKinds DEF marks
<1>2. (ConfigBefore(call.base + 1) = set_start)'
  BY <1>1, IterationKeeps
<1>3. CASE ops = CommitRollback /\ Len(commit_id) = call.base
  <2>1. Does("load")
    BY <1>1, <1>3, IterationLists DEF Commits, Records, Does
  <2>2. ops' = ThenCommit /\ commit_id' = commit_id
    BY <1>3, <2>1, IterationLists DEF Does, ids
  <2>3. IterationRound'
    BY <1>1, <1>3, <2>2 DEF IterationRound
  <2>4. QED
    BY <1>2, <2>3 DEF Going
<1>4. CASE ops = ThenCommit /\ Len(commit_id) = call.base
  <2>1. Commits \/ Records
    BY <1>1, <1>4, IterationLists DEF Does
  <2>2. \/ ops' = ThenCommit /\ commit_id' = commit_id
        \/ ops' = ThenCompare /\ Len(commit_id') = Len(commit_id) + 1
    BY <1>4, <2>1, IterationLists, IdsAndFiles DEF Commits, Records
  <2>3. IterationRound'
    BY <1>1, <1>4, <2>2 DEF IterationRound
  <2>4. QED
    BY <1>2, <2>3 DEF Going
<1>5. CASE ops = ThenCompare /\ Len(commit_id) = call.base + 1
  <2>1. Does("compare")
    BY <1>1, <1>5, IterationLists DEF Commits, Records, Does
  <2>2. ops' = RollbackNewest /\ commit_id' = commit_id
    BY <1>5, <2>1, IterationLists DEF Does, ids
  <2>3. IterationRound'
    BY <1>1, <1>5, <2>2 DEF IterationRound
  <2>4. QED
    BY <1>2, <2>3 DEF Going
<1>6. CASE ops = RollbackNewest /\ Len(commit_id) = call.base + 1
  <2>1. Does("latest") /\ RollBack
    BY <1>1, <1>6, IterationLists DEF Commits, Records, Does
  <2>2. /\ ops' = CommitCompare /\ committing' = "no"
        /\ UNCHANGED <<commit_id, log, call, raced, set_start>>
    BY <1>1, <1>6, <2>1, IterationLists DEF Does, ids
  <2>3. Len(log) # 0 /\ cand' = log[Len(log)]
    BY <1>6, <2>1, IterationLists DEF RollBack, Target, None
  <2>4. ASSUME Followed(Len(log) + 1)
        PROVE  cand'.dev = set_start
    <3>1. ~raced /\ First # None /\ First = Len(log)
      BY <1>0, <1>6, <2>4 DEF Followed, First
    <3>2. log[First].dev = before[call.base + 1]
      BY <1>0, <1>6, <3>1 DEF HistoryInv, IdsHoldBefore, First
    <3>3. before[call.base + 1] = set_start
      BY <1>0, <1>6 DEF Going, ConfigBefore
    <3>4. QED
      BY <2>3, <3>1, <3>2, <3>3
  <2>5. Followed(Len(log) + 1)' <=> Followed(Len(log) + 1)
    BY <2>2 DEF Followed, First
  <2>6. IterationRound'
    BY <1>6, <2>2, <2>4, <2>5 DEF IterationRound
  <2>7. QED
    BY <1>2, <2>6 DEF Going
<1>7. CASE /\ ops = CommitCompare /\ Len(commit_id) = call.base + 1
           /\ Followed(Len(log) + IF committing = "full" THEN 0 ELSE 1) => cand.dev = set_start
           /\ committing # "no" => Steady
  <2>1. CASE Commits
    <3>1. /\ commit_id' = commit_id /\ ops' = CommitCompare /\ UNCHANGED <<cand, call, raced, set_start>>
          /\ Len(log') = Len(log) + (IF committing' = "full" THEN 1 ELSE 0)
          /\ committing = "no" /\ Steady'
      BY <1>1, <1>7, <2>1, IdsAndFiles DEF Commits, Steady
    <3>2. Len(log') + (IF committing' = "full" THEN 0 ELSE 1) = Len(log) + 1
      BY <1>0, <3>1
    <3>3. \A n : Followed(n)' <=> Followed(n)
      BY <3>1 DEF Followed, First
    <3>4. Followed(Len(log) + 1) => cand.dev = set_start
      BY <1>7, <3>1
    <3>5. PICK n : n = Len(log') + (IF committing' = "full" THEN 0 ELSE 1)
      OBVIOUS
    <3>6. (Followed(n) => cand.dev = set_start)'
      BY <3>1, <3>2, <3>3, <3>4, <3>5
    <3>8. (Followed(Len(log) + IF committing = "full" THEN 0 ELSE 1) => cand.dev = set_start)'
      BY <3>5, <3>6 DEF Followed
    <3>9. IterationRound'
      BY <1>1, <1>7, <3>1, <3>8 DEF IterationRound
    <3>7. QED
      BY <1>2, <3>9 DEF Going
  <2>2. CASE Records
    <3>1. /\ Len(commit_id') = call.base + 2 /\ ops' = LastCompare
          /\ \A k \in 1..Len(commit_id) : commit_id'[k] = commit_id[k]
          /\ commit_id'[call.base + 2] = IF committing = "empty" THEN 0 ELSE Len(log)
          /\ committing # "no" /\ UNCHANGED nso
      <4>1. call.base + 2 = Len(commit_id) + 1
        BY <1>0, <1>7
      <4>2. ops' = LastCompare /\ committing # "no" /\ UNCHANGED nso
        BY <1>7, <2>2, OpLists DEF Records
      <4>3. QED
        BY <2>2, <4>1, <4>2, IdsAndFiles
    <3>2. Steady'
      BY <1>7, <3>1 DEF Steady, nso
    <3>3. First' = First /\ Second' = IF committing = "empty" THEN 0 ELSE Len(log)
      BY <1>0, <1>1, <1>7, <3>1 DEF First, Second
    <3>4. ASSUME Followed(Second)'
          PROVE  cand'.dev = set_start'
      <4>1. ~raced /\ First # None /\ Second' = First + 1 /\ First \in Nat
        BY <1>0, <1>1, <1>7, <3>3, <3>4 DEF Followed, First
      <4>2. committing = "full"
        <5>1. committing \in {"no", "empty", "full"}
          BY DEF TypeInv, TypeOK, IdsTypeOK
        <5>2. QED
          BY <3>1, <3>3, <4>1, <5>1
      <4>3. Followed(Len(log))
        BY <3>3, <4>1, <4>2 DEF Followed
      <4>4. Len(log) + 0 = Len(log)
        BY <1>0
      <4>5. cand.dev = set_start
        BY <1>7, <4>2, <4>3, <4>4
      <4>6. QED
        BY <1>1, <3>1, <4>5 DEF nso
    <3>5. IterationRound'
      BY <1>1, <3>1, <3>2, <3>4 DEF IterationRound
    <3>6. QED
      BY <1>2, <3>5 DEF Going
  <2>3. QED
    BY <1>1, <1>7, <2>1, <2>2, OpLists DEF Does
<1>8. CASE /\ ops \in {LastCompare, <<>>} /\ Len(commit_id) = call.base + 2 /\ Steady
           /\ Followed(Second) => cand.dev = set_start
  <2>1. Does("compare") /\ cand' = cand
    BY <1>1, <1>8, OpLists DEF Commits, Records, Does
  <2>2. ops' = <<>> /\ UNCHANGED <<running, cand, commit_id, call, raced, set_start>>
    BY <1>1, <1>8, <2>1, OpLists DEF Does, ids
  <2>3. IterationRound'
    BY <1>8, <2>2 DEF IterationRound, Followed, First, Second, Steady
  <2>4. QED
    BY <1>2, <2>3 DEF Going
<1>9. QED
  BY <1>3, <1>4, <1>5, <1>6, <1>7, <1>8 DEF Going, IterationRound

\* A commit of another session is not taken for the one of the rollback.
LEMMA IterationAndOthers ==
  ASSUME TypeInv, Going, OtherCommit
  PROVE  Going'
<1>0. /\ call.base \in Nat /\ Len(log) \in Nat /\ Len(commit_id) \in Nat
      /\ \A k \in 1..Len(commit_id) : commit_id[k] \in Nat /\ commit_id[k] <= Len(log)
      /\ committing \in {"no", "empty", "full"}
  BY IdTypes
<1>1. /\ running'.dev = running.dev /\ cand'.dev = cand.dev /\ Len(log') = Len(log) + 1
      /\ UNCHANGED <<commit_id, committing, before, ops, call, set_start>>
      /\ raced' = (raced \/ committing = "full")
  BY OthersKeep DEF place, marks, OtherCommit
<1>2. (ConfigBefore(call.base + 1) = set_start)'
  BY <1>1, IterationKeeps
<1>3. First' = First /\ Second' = Second /\ (Steady => Steady') /\ (~raced' => ~raced)
      /\ \A n : Followed(n)' => Followed(n)
  BY <1>1 DEF First, Second, Steady, Followed
<1>4. CASE Len(commit_id) = call.base + 1
  <2>1. First \in Nat /\ First <= Len(log)
    BY <1>0, <1>4 DEF First
  <2>2. (~Followed(Len(log) + IF committing = "full" THEN 0 ELSE 1))'
    <3>1. CASE committing = "full"
      BY <1>1, <3>1 DEF Followed
    <3>2. CASE committing # "full"
      <4>1. First' + 1 # Len(log') + 1
        BY <1>0, <1>1, <1>3, <2>1
      <4>2. QED
        BY <1>1, <3>2, <4>1 DEF Followed
    <3>3. QED
      BY <3>1, <3>2
  <2>3. ops' = ops /\ Len(commit_id') = call'.base + 1 /\ committing' = committing
    BY <1>1, <1>4
  <2>4. IterationRound'
    BY <1>0, <1>3, <1>4, <2>2, <2>3 DEF Going, IterationRound
  <2>5. QED
    BY <1>2, <2>4 DEF Going
<1>5. CASE Len(commit_id) # call.base + 1
  <2>1. IterationRound'
    BY <1>1, <1>3, <1>5 DEF Going, IterationRound
  <2>2. QED
    BY <1>2, <2>1 DEF Going
<1>6. QED
  BY <1>4, <1>5

----------------------------------------------------------------------------
(* The whole test                                                          *)

LEMMA NoTestType == NoTest \in TestType
<1>1. CommitRollback \in Seq(Ops)
  BY IterationLists
<1>2. <<>> \in Seq(Files) /\ <<>> \in Seq(Seq(Files)) /\ <<>> \in Seq(Ops) /\ FALSE \in BOOLEAN
  BY EmptySeq
<1>3. QED
  BY <1>1, <1>2 DEF NoTest, TestType

\* A step of the test is a step of RollbackHistory, or begins or ends an
\* iteration, or ends the walk.
LEMMA AnySteps ==
  ASSUME [AnyNext]_<<vars, walk_vars>>
  PROVE  [Next]_vars \/ BeginIteration \/ EndIteration \/ EndWalk
<1>1. CASE WalkerStep \/ SkipIteration
  BY <1>1 DEF WalkerStep, SkipIteration
<1>2. CASE OtherCommit
  BY <1>2 DEF Next
<1>3. CASE Operation \/ InitFile \/ InitDone \/ BeginSet \/ SetFile \/ BeginEnd
           \/ NextTarget \/ EndSet \/ EndTest \/ Done
  BY <1>3 DEF Next
<1>4. CASE UNCHANGED <<vars, walk_vars>>
  BY <1>4
<1>5. QED
  BY <1>1, <1>2, <1>3, <1>4 DEF AnyNext, TestStep

\* What these steps do.
LEMMA Framed ==
  ASSUME BeginIteration \/ EndIteration \/ EndWalk, TypeInv, IterationInv
  PROVE  /\ UNCHANGED <<nso, ids, tsets, queue, targets, test, set_base, init_stop, saved, failed_at>>
         /\ ops = <<>> /\ phase \in {"walk", "iteration"} /\ Steady
         /\ \/ /\ phase' = "teardown" /\ ops' = RestoreOps /\ UNCHANGED <<call, set_start>>
            \/ phase' = "walk" /\ ops' = ops /\ UNCHANGED <<call, set_start>>
            \/ /\ phase' = "iteration" /\ set_start' = cand.dev
               /\ \E f \in Files : call' = [file |-> <<f>>, base |-> Len(commit_id), last |-> 0]
               /\ ops' = CommitRollback
<1>1. CASE BeginIteration
  <2>1. /\ phase = "walk" /\ phase' = "iteration" /\ set_start' = cand.dev
        /\ \E f \in Files : call' = [file |-> <<f>>, base |-> Len(commit_id), last |-> 0]
        /\ ops' = test.op
        /\ UNCHANGED <<nso, ids, tsets, queue, targets, test, set_base, init_stop, saved, failed_at>>
    BY <1>1 DEF BeginIteration, Enter, None
  <2>2. test = NoTest /\ ops = <<>> /\ Steady
    BY <2>1 DEF IterationInv
  <2>3. QED
    BY <2>1, <2>2 DEF NoTest
<1>2. CASE EndIteration
  <2>1. /\ phase = "iteration" /\ ops = <<>>
        /\ \/ phase' = "walk" /\ ops' = ops
           \/ phase' = "teardown" /\ ops' = RestoreOps
        /\ UNCHANGED <<nso, ids, tsets, queue, call, targets, marks, failed_at>>
    BY <1>2 DEF EndIteration, Idle
  <2>2. Steady
    BY <2>1, IterationLists, OpLists DEF IterationInv, IterationRound
  <2>3. QED
    BY <2>1, <2>2 DEF marks
<1>3. CASE EndWalk
  <2>1. /\ phase = "walk" /\ phase' = "teardown" /\ ops' = RestoreOps
        /\ UNCHANGED <<nso, ids, tsets, queue, call, targets, marks, failed_at>>
    BY <1>3 DEF EndWalk
  <2>2. QED
    BY <2>1 DEF marks, IterationInv
<1>4. QED
  BY <1>1, <1>2, <1>3

\* The invariants of RollbackHistory are those of the walk, too.
BaseInv == TypeInv /\ CommitInv /\ HistoryInv

LEMMA BaseStep == BaseInv /\ IterationInv /\ [AnyNext]_<<vars, walk_vars>> => BaseInv'
<1> SUFFICES ASSUME TypeInv, CommitInv, HistoryInv, IterationInv,
                    [AnyNext]_<<vars, walk_vars>>
             PROVE  TypeInv' /\ CommitInv' /\ HistoryInv'
  BY DEF BaseInv
<1>1. CASE [Next]_vars
  BY <1>1, TypeStep, CommitStep, HistoryStep
<1>2. CASE BeginIteration \/ EndIteration \/ EndWalk
  <2>1. /\ UNCHANGED <<nso, ids, tsets, queue, targets, test, set_base, init_stop, saved, failed_at>>
        /\ ops = <<>>
        /\ \/ /\ phase' = "teardown" /\ ops' = RestoreOps /\ UNCHANGED <<call, set_start>>
           \/ phase' = "walk" /\ ops' = ops /\ UNCHANGED <<call, set_start>>
           \/ /\ phase' = "iteration" /\ set_start' = cand.dev
              /\ \E f \in Files : call' = [file |-> <<f>>, base |-> Len(commit_id), last |-> 0]
              /\ ops' = CommitRollback
    BY <1>2, Framed
  <2>2. committing = "no" /\ committing' = "no"
    BY <2>1 DEF CommitInv, ids
  <2>3. CommitInv'
    BY <2>2 DEF CommitInv
  <2>4. HistoryInv'
    BY <2>1, HistoryFrame DEF nso
  <2>5. NsoTypeOK' /\ IdsTypeOK'
    BY <2>1 DEF TypeInv, TypeOK, NsoTypeOK, IdsTypeOK, nso, ids
  <2>6. PlaceTypeOK'
    <3>1. phase' \in Phases
      BY <2>1 DEF Phases
    <3>2. ops' \in Seq(Ops)
      BY <2>1, IterationLists, OpsTypes DEF TypeInv, TypeOK, PlaceTypeOK
    <3>3. call' \in [file : Seq(Files), base : Nat, last : Nat] /\ call'.last <= Len(log')
      <4>1. CASE call' = call
        BY <2>1, <4>1 DEF TypeInv, TypeOK, PlaceTypeOK, nso
      <4>2. CASE call' # call
        <5>1. PICK f \in Files : call' = [file |-> <<f>>, base |-> Len(commit_id), last |-> 0]
          BY <2>1, <4>2
        <5>2. Len(commit_id) \in Nat /\ Len(log) \in Nat /\ log' = log
          BY <2>1, IdTypes DEF nso
        <5>3. <<f>> \in Seq(Files)
          OBVIOUS
        <5>4. QED
          BY <5>1, <5>2, <5>3
      <4>3. QED
        BY <4>1, <4>2
    <3>4. tsets' \in Seq(Seq(Files)) /\ queue' \in Seq(Files) /\ targets' \in Seq(Nat)
      BY <2>1 DEF TypeInv, TypeOK, PlaceTypeOK
    <3>5. QED
      BY <3>1, <3>2, <3>3, <3>4 DEF PlaceTypeOK
  <2>7. MarksTypeOK'
    <3>1. set_start' \in Configs
      BY <2>1 DEF TypeInv, TypeOK, MarksTypeOK, NsoTypeOK, Snapshots
    <3>2. QED
      BY <2>1, <3>1 DEF TypeInv, TypeOK, MarksTypeOK, ids
  <2>8. PlaceInv'
    BY <2>1, <2>2 DEF TypeInv, PlaceInv, ids
  <2>9. QED
    BY <2>3, <2>4, <2>5, <2>6, <2>7, <2>8 DEF TypeInv, TypeOK
<1>3. QED
  BY <1>1, <1>2, AnySteps

LEMMA IterationInvStep == BaseInv /\ IterationInv /\ [AnyNext]_<<vars, walk_vars>> => IterationInv'
<1> SUFFICES ASSUME TypeInv, CommitInv, HistoryInv, IterationInv,
                    [AnyNext]_<<vars, walk_vars>>
             PROVE  IterationInv'
  BY DEF BaseInv
<1>1. CASE BeginIteration \/ EndIteration \/ EndWalk
  <2>1. /\ UNCHANGED <<nso, ids, tsets, queue, targets, test, set_base, init_stop, saved, failed_at>>
        /\ ops = <<>> /\ phase \in {"walk", "iteration"} /\ Steady
        /\ \/ /\ phase' = "teardown" /\ ops' = RestoreOps /\ UNCHANGED <<call, set_start>>
           \/ phase' = "walk" /\ ops' = ops /\ UNCHANGED <<call, set_start>>
           \/ /\ phase' = "iteration" /\ set_start' = cand.dev
              /\ \E f \in Files : call' = [file |-> <<f>>, base |-> Len(commit_id), last |-> 0]
              /\ ops' = CommitRollback
    BY <1>1, Framed
  <2>2. Steady' /\ test' = NoTest
    BY <2>1 DEF Steady, nso, IterationInv
  <2>3. CASE phase' = "iteration"
    <3>1. /\ set_start' = cand.dev /\ call'.base = Len(commit_id) /\ ops' = CommitRollback
          /\ commit_id' = commit_id /\ before' = before /\ running' = running
      BY <2>1, <2>3 DEF ids, nso
    <3>2. committing = "no"
      BY <2>1 DEF CommitInv
    <3>3. Len(before) = Len(commit_id) /\ Len(commit_id) \in Nat
      BY <3>2, IdTypes DEF TypeInv, TypeOK, IdsTypeOK
    <3>4. ConfigBefore(call.base + 1)' = running.dev
      BY <3>1, <3>3 DEF ConfigBefore
    <3>5. IterationRound'
      BY <3>1 DEF IterationRound
    <3>6. QED
      BY <2>1, <2>2, <2>3, <3>1, <3>4, <3>5 DEF IterationInv, Steady
  <2>4. CASE phase' # "iteration"
    BY <2>1, <2>2, <2>4 DEF IterationInv
  <2>5. QED
    BY <2>3, <2>4
<1>2. CASE OtherCommit
  <2>1. /\ running'.dev = running.dev /\ cand'.dev = cand.dev
        /\ UNCHANGED <<place, marks>>
    BY <1>2, OthersKeep
  <2>2. Going => Going'
    BY <1>2, IterationAndOthers
  <2>3. QED
    BY <2>1, <2>2 DEF IterationInv, Going, Steady, place, marks
<1>3. CASE OpStep
  <2>1. ops # <<>> /\ UNCHANGED <<phase, test>>
    BY <1>3, OpKinds DEF marks
  <2>2. Going => Going'
    BY <1>3, IterationStep
  <2>3. phase # "walk"
    BY <2>1 DEF IterationInv
  <2>4. QED
    BY <2>1, <2>2, <2>3 DEF IterationInv, Going
<1>4. CASE Fail
  <2>1. ops # <<>> /\ phase' \notin {"walk", "iteration"}
    BY <1>4 DEF Fail
  <2>2. QED
    BY <2>1 DEF IterationInv
<1>5. CASE PlanStep
  <2>1. phase' \notin {"walk", "iteration"}
    BY <1>5 DEF PlanStep, InitFile, InitDone, BeginSet, SetFile, BeginEnd, NextTarget, EndSet,
       EndTest, Done, Idle
  <2>2. QED
    BY <2>1 DEF IterationInv
<1>6. CASE UNCHANGED vars
  BY <1>6 DEF vars, nso, ids, place, marks, IterationInv, IterationRound, Followed, First, Second,
     Steady, ConfigBefore
<1>7. QED
  BY <1>1, <1>2, <1>3, <1>4, <1>5, <1>6, AnySteps DEF Next, Operation, OpStep, PlanStep

LEMMA TestBegins == AnyInit => BaseInv /\ IterationInv
<1> SUFFICES ASSUME AnyInit
             PROVE  BaseInv /\ IterationInv
  OBVIOUS
<1>1. InitDevice /\ (WalkInit \/ Init)
  BY DEF AnyInit, WalkInit, Init
<1>2. /\ ops = <<>> /\ committing = "no" /\ cand = running
  BY <1>1 DEF InitDevice
<1>3. CommitInv /\ HistoryInv
  BY <1>1, <1>2, HistoryBegins DEF CommitInv
<1>4. CASE WalkInit
  <2>1. test = NoTest /\ phase = "walk" /\ tsets = <<>> /\ queue = <<>>
    BY <1>4 DEF WalkInit
  <2>2. <<>> \in Seq(Files) /\ <<>> \in Seq(Seq(Files))
    BY EmptySeq
  <2>3. test \in TestType /\ phase \in Phases
    BY <2>1, NoTestType DEF Phases
  <2>4. TypeInv
    BY <1>1, <2>1, <2>2, <2>3, TypeBegins
  <2>5. IterationInv
    BY <1>2, <2>1 DEF IterationInv, Steady
  <2>6. QED
    BY <1>3, <2>4, <2>5 DEF BaseInv
<1>5. CASE Init
  <2>1. TypeInv
    <3>1. test \in TestType /\ Len(test.sets) > 0
      BY <1>5, RollbackAssumption DEF Init
    <3>2. phase = "init" /\ tsets = test.sets /\ queue = test.init
      BY <1>5 DEF Init
    <3>3. tsets \in Seq(Seq(Files)) /\ queue \in Seq(Files) /\ tsets # <<>>
      BY <3>1, <3>2 DEF TestType
    <3>4. phase \in Phases
      BY <3>2 DEF Phases
    <3>5. QED
      BY <1>1, <3>1, <3>3, <3>4, TypeBegins
  <2>2. IterationInv
    BY <1>5 DEF Init, IterationInv
  <2>3. QED
    BY <1>3, <2>1, <2>2 DEF BaseInv
<1>6. QED
  BY <1>1, <1>4, <1>5

\* An iteration of test_walk_direct that has changed something leaves the device
\* as it was, whatever is loaded and whichever iterations were empty, when no
\* other session has committed in between.
THEOREM IterationReturns == TestSpec => []IterationComesBack
<1>1. IterationInv => IterationComesBack
  <2> SUFFICES ASSUME IterationInv, Idle("iteration"), ~raced, First # None, Second = First + 1
               PROVE  cand.dev = set_start
    BY DEF IterationComesBack, First, Second
  <2>1. IterationRound /\ ops = <<>>
    BY DEF IterationInv, Idle
  <2>2. Followed(Second)
    BY DEF Followed
  <2>3. QED
    BY <2>1, <2>2, IterationLists, OpLists DEF IterationRound
<1>2. QED
  BY <1>1, TestBegins, BaseStep, IterationInvStep, PTL DEF TestSpec

\* The types of RollbackHistory hold in a walk as well.
THEOREM WalkTypeCorrect == TestSpec => []TypeOK
<1>1. BaseInv => TypeOK
  BY DEF BaseInv, TypeInv
<1>2. QED
  BY <1>1, TestBegins, BaseStep, IterationInvStep, PTL DEF TestSpec
=============================================================================
