----------------------------- MODULE SchemaWalk -----------------------------
(***************************************************************************)
(* drned/drned/walker.py, choice.py and the walk of node.py: iterations    *)
(* over the leaves of a YANG schema in which each leaf takes one value     *)
(* after another, and each choice one case after another when what is in   *)
(* the case is done.                                                       *)
(*                                                                         *)
(* A leaf is a number.  schema.values[l] is how many values it has;        *)
(* schema.above[l] are the nodes above it that have a Choice, innermost    *)
(* first; schema.case[l][c] is the case of c that it is in.  A container   *)
(* with cli-full-command leaves is a choice, too: its first case is None,  *)
(* and its other leaves are above it without being in a case (0).  One of   *)
(* the cli-full-command leaves may be in none that the choice has: hidden  *)
(* by cli-hide-in-submode it is not a child of the choice, and waits to be *)
(* its current one all the same (a number above those of the cases).       *)
(* schema.list[l] are the leaves that go with l when it is disabled: those *)
(* of its list when it is a key.  schema.prunable are the leaves that when *)
(* and must statements, and the other rules of the pruning, may disable.   *)
(***************************************************************************)
EXTENDS Naturals, Sequences

CONSTANT Schemas

VARIABLES
  schema,       (* the schema                                              *)
  wpc,          (* where gen_walk() is                                     *)
  at,           (* the leaf that next_iteration() is at                    *)
  value,        (* value[l]: leaf.value, as its position in leaf.walk      *)
  joined,       (* leaves with joined_walk                                 *)
  valid,        (* leaves with valid                                       *)
  participated, (* leaves with participated                                *)
  has_done,     (* leaves with has_done_walk                               *)
  done,         (* leaves with done                                        *)
  choices,      (* Walker.choices: the choices that have been met          *)
  index,        (* Choice.indexes, from 1                                  *)
  choice_done,  (* choices with done                                       *)
  turned,       (* history: choices incremented in this iteration          *)
  skipped,      (* history: choices incremented twice in an iteration      *)
  more,         (* next_iteration(): more                                  *)
  seen,         (* history: leaves yielded, with their values              *)
  cut           (* history: leaves that were ever pruned                   *)

\* Leaves and choices are numbered; a choice has the same choices above it for
\* all of its leaves, and is in the same cases of theirs.  Only the container of
\* a leaf may be a choice without a case for it.
IsSchema(s) ==
  LET L == DOMAIN s.values  C == DOMAIN s.cases
  IN /\ s.values \in Seq(Nat \ {0}) /\ s.cases \in Seq(Nat \ {0})
     /\ s.above \in [L -> Seq(C)] /\ s.case \in [L -> [C -> Nat]]
     /\ s.list \in [L -> SUBSET L] /\ s.prunable \subseteq L
     /\ \A l \in L : \A p \in DOMAIN s.above[l] :
          p # 1 => s.case[l][s.above[l][p]] <= s.cases[s.above[l][p]]
     /\ \A l, m \in L : \A p \in DOMAIN s.above[l], q \in DOMAIN s.above[m] :
          s.above[l][p] = s.above[m][q] =>
            \A i \in p + 1..Len(s.above[l]) :
              /\ \E j \in q + 1..Len(s.above[m]) : s.above[m][j] = s.above[l][i]
              /\ s.case[m][s.above[l][i]] = s.case[l][s.above[l][i]]

choosing == <<choices, index, choice_done, turned, skipped>>
walk_vars == <<schema, wpc, at, value, joined, valid, participated, has_done,
               done, choosing, more, seen, cut>>

Leaves == DOMAIN schema.values
Choices == DOMAIN schema.cases
Above(l) == {schema.above[l][i] : i \in DOMAIN schema.above[l]}
Within(l, p) == {schema.above[l][i] : i \in 1..p - 1}

\* Whether l is in no case of c but the current one.
Joins(l, c) == schema.case[l][c] \in {0, index[c]}

WalkInit ==
  /\ schema \in Schemas
  /\ wpc = "invite" /\ at = 1 /\ more = FALSE
  /\ value = [l \in Leaves |-> 1]
  /\ joined = {} /\ valid = {} /\ participated = {} /\ has_done = {} /\ done = {}
  /\ choices = {} /\ index = [c \in Choices |-> 1] /\ choice_done = {}
  /\ turned = {} /\ skipped = {}
  /\ seen = {} /\ cut = {}

\* join_walk() looks at the choices from the inside and stops at the first one
\* that is at another case; only those it looks at come into being.
Met(l) ==
  {schema.above[l][p] : p \in {q \in DOMAIN schema.above[l] :
     /\ schema.case[l][schema.above[l][q]] # 0
     /\ \A c \in Within(l, q) : Joins(l, c)}}

Invite ==
  /\ wpc = "invite"
  /\ joined' = {l \in Leaves : \A c \in Above(l) : Joins(l, c)}
  /\ valid' = joined'
  /\ has_done' = {}
  /\ choices' = choices \cup UNION {Met(l) : l \in Leaves}
  /\ wpc' = "prune" /\ turned' = {}
  /\ UNCHANGED <<schema, at, value, participated, done, index, choice_done, skipped, more, seen, cut>>

\* One round of the prune_ methods that disables something; the loop goes on
\* until a round disables nothing.
Prune ==
  /\ wpc = "prune"
  /\ \E S \in SUBSET (valid \cap schema.prunable) \ {{}} :
       LET out == S \cup UNION {schema.list[l] : l \in S}
       IN valid' = valid \ out /\ cut' = cut \cup out
  /\ UNCHANGED <<schema, wpc, at, value, joined, participated, has_done, done, choosing, more, seen>>

Yield ==
  /\ wpc = "prune"
  /\ seen' = seen \cup {<<l, value[l]>> : l \in valid}
  /\ wpc' = "yielded"
  /\ UNCHANGED <<schema, at, value, joined, valid, participated, has_done, done, choosing, more, cut>>

NextIteration ==
  /\ wpc = "yielded"
  /\ wpc' = "advance" /\ at' = 1 /\ more' = FALSE
  /\ UNCHANGED <<schema, value, joined, valid, participated, has_done, done, choosing, seen, cut>>

(***************************************************************************)
(* Choice.increment(): not before all leaves below the current case that   *)
(* joined are done.  After the last case the choice starts again and is    *)
(* done; then, and when it has to wait, done_walk() turns to the choice    *)
(* around it.                                                              *)
(***************************************************************************)
AllDone(c, finished) ==
  \A l \in joined : (c \in Above(l) /\ schema.case[l][c] = index[c]) => l \in finished

\* Mutant: a choice goes on behind its last case.
NeverWraps(c) == index[c] > schema.cases[c]

Wraps(c) == index[c] = schema.cases[c]

\* The choices that done_walk() of leaf l increments, with success or wrapping.
Incremented(l, finished) ==
  LET Moves(c) == c \in choices /\ AllDone(c, finished)
  IN {schema.above[l][p] : p \in {q \in DOMAIN schema.above[l] :
        /\ Moves(schema.above[l][q])
        /\ \A c \in Within(l, q) : Moves(c) => Wraps(c)}}

DoneWalk(l) ==
  LET inc == Incremented(l, done' \cup has_done')
  IN /\ done' = done \cup {l} /\ has_done' = has_done \cup {l}
     /\ index' = [c \in Choices |-> IF c \notin inc THEN index[c]
                                    ELSE IF Wraps(c) THEN 1 ELSE index[c] + 1]
     /\ choice_done' = choice_done \cup {c \in inc : Wraps(c)}
     /\ turned' = turned \cup inc /\ skipped' = skipped \cup (inc \cap turned)
     /\ UNCHANGED choices

\* One turn of the loop of next_iteration().
AdvanceLeaf ==
  /\ wpc = "advance" /\ at \in Leaves
  /\ IF at \in joined /\ value[at] = schema.values[at]
     THEN DoneWalk(at) /\ value' = [value EXCEPT ![at] = 1]
     ELSE /\ value' = [value EXCEPT ![at] = IF at \in joined THEN @ + 1 ELSE @]
          /\ UNCHANGED <<has_done, done, choosing>>
  /\ participated' = participated \cup (valid \cap {at})
  /\ more' = (more \/ at \in participated' \ done')
  /\ valid' = valid \ {at}
  /\ at' = at + 1
  /\ UNCHANGED <<schema, wpc, joined, seen, cut>>

\* Mutant: the walk ends when no leaf asks for more, whatever the choices.
DecideOnLeaves ==
  /\ wpc = "advance" /\ at \notin Leaves
  /\ wpc' = IF more THEN "invite" ELSE "end"
  /\ UNCHANGED <<schema, at, value, joined, valid, participated, has_done, done, choosing, more, seen, cut>>

Decide ==
  /\ wpc = "advance" /\ at \notin Leaves
  /\ wpc' = IF more \/ choices \ choice_done # {} THEN "invite" ELSE "end"
  /\ UNCHANGED <<schema, at, value, joined, valid, participated, has_done, done, choosing, more, seen, cut>>

WalkNext == Invite \/ Prune \/ Yield \/ NextIteration \/ AdvanceLeaf \/ Decide

(***************************************************************************)
(* Properties.                                                             *)
(***************************************************************************)
\* The choices above the leaf come to the cases that it is in.
Selectable(l) == \A c \in Above(l) : schema.case[l][c] <= schema.cases[c]

\* Some leaf finishes while c is at case k: one in the case, or one in none.
NoDeadEnd ==
  \A c \in Choices : \A k \in 1..schema.cases[c] :
     \E l \in Leaves : Selectable(l) /\ c \in Above(l) /\ schema.case[l][c] \in {0, k}

\* The innermost choice that l is in a case of is c.
Own(l, c) ==
  \E p \in DOMAIN schema.above[l] :
     /\ schema.above[l][p] = c /\ schema.case[l][c] # 0
     /\ \A i \in 1..p - 1 : schema.case[l][schema.above[l][i]] = 0

\* When the walk ends every leaf that was never pruned has been yielded with
\* each of its values, however choices are nested: choices may advance while
\* others inside the same case still have cases left.  It may miss leaves of a
\* choice that two leaves have advanced in one iteration: the leaves of the case
\* in between have not joined, and increment() does not wait for them.  And it
\* misses a cli-full-command leaf with cli-hide-in-submode, which never joins.
AllVisited ==
  wpc = "end" =>
    \A l \in Leaves \ cut :
      Selectable(l) /\ (\A c \in skipped : ~Own(l, c))
        => \A v \in 1..schema.values[l] : <<l, v>> \in seen

\* The walk ends, whatever is pruned.  Not when a choice comes to a case
\* without leaves: no leaf then calls increment(), and the choice is never done.
WalkEnds == NoDeadEnd => <>(wpc = "end")
=============================================================================
