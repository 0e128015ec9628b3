---------------------- MODULE TransitionsRecordProofs -----------------------
(***************************************************************************)
(* Proofs that what the filter records is what DrNED has been through: the *)
(* states loaded, where each transition starts, and the failures, whatever *)
(* the operation, and whatever fails, is interrupted or torn down.         *)
(*                                                                         *)
(* The filter takes many steps to read the lines that one command prints.  *)
(* The invariant says, of each moment, where the filter gets to when it    *)
(* has read what is on its way, and that it fits what DrNED is at.         *)
(***************************************************************************)
EXTENDS TransitionsProofs

----------------------------------------------------------------------------
(* A record, and the loads that it stands for                              *)

\* Where the next transition starts, unless another state is told
EndOf(t)   == IF t.from # NoState THEN t.from ELSE t.to
LastEnd(f) == IF f = <<>> THEN InitState ELSE EndOf(f[Len(f)])
StartAfter(f, x) == IF x.from # NoState THEN x.from ELSE LastEnd(f)

Agree(r, t) ==
  /\ r.to = t.to
  /\ t.told => r.failure = t.failure
  /\ r.failure # "none" => t.failure # "none" \/ t.blurred

Agrees(rec, f) ==
  /\ Len(rec) = Len(f)
  /\ \A i \in 1..Len(f) :
       /\ Agree(rec[i], f[i])
       /\ rec[i].start = IF f[i].from # NoState THEN f[i].from
                         ELSE IF i = 1 THEN InitState ELSE EndOf(f[i - 1])

ToldFailures(f) == \A i \in 1..Len(f) : f[i].told => f[i].failure # "none"

\* The context and the test events tell of the loads f, and the context knows
\* where the last one got to.
Recs(c, e, f) ==
  /\ f \in Loads
  /\ Agrees(RecordedIn(c, e), f)
  /\ After(c) = LastEnd(f)
  /\ ToldFailures(f)

LEMMA LoadsMore ==
  ASSUME NEW f \in Loads, NEW x \in D!Tested
  PROVE  /\ Append(f, x) \in Loads /\ Append(f, x) # <<>>
         /\ Len(f) \in Nat /\ Len(Append(f, x)) = Len(f) + 1 /\ (Len(f) = 0 <=> f = <<>>)
         /\ Append(f, x)[Len(f) + 1] = x
         /\ \A i \in 1..Len(f) : Append(f, x)[i] = f[i]
         /\ LastEnd(Append(f, x)) = EndOf(x)
         /\ ToldFailures(Append(f, x)) <=> ToldFailures(f) /\ (x.told => x.failure # "none")
<1>0. PICK S : S = D!Tested
  OBVIOUS
<1>o. f \in Seq(S) /\ x \in S /\ Loads = Seq(S)
  BY <1>0 DEF Loads
<1>1. PICK n, r : n = Len(f) /\ r = Append(f, x)
  OBVIOUS
<1>2. n \in Nat /\ r \in Seq(S) /\ r # <<>> /\ Len(r) = n + 1 /\ r[n + 1] = x
  BY <1>o, <1>1
<1>3. \A i \in 1..n : r[i] = f[i]
  BY <1>o, <1>1
<1>4. LastEnd(r) = EndOf(x)
  BY <1>2 DEF LastEnd
<1>5. ToldFailures(r) <=> ToldFailures(f) /\ (x.told => x.failure # "none")
  <2>1. \A i : i \in 1..(n + 1) <=> i \in 1..n \/ i = n + 1
    BY <1>2
  <2> QED
    BY <1>1, <1>2, <1>3, <2>1 DEF ToldFailures
<1>6. n = 0 <=> f = <<>>
  BY <1>o, <1>1
<1> QED
  BY <1>o, <1>1, <1>2, <1>3, <1>4, <1>5, <1>6

LEMMA EventsMore ==
  ASSUME NEW e \in Events, NEW r \in F!TransitionDesc
  PROVE  /\ Append(e, r) \in Events
         /\ Len(e) \in Nat /\ Len(Append(e, r)) = Len(e) + 1
         /\ Append(e, r)[Len(e) + 1] = r
         /\ \A i \in 1..Len(e) : Append(e, r)[i] = e[i]
<1>0. PICK S : S = F!TransitionDesc
  OBVIOUS
<1>o. e \in Seq(S) /\ r \in S /\ Events = Seq(S)
  BY <1>0 DEF Events
<1> QED
  BY <1>o

\* One more of both
LEMMA AgreesMore ==
  ASSUME NEW e \in Events, NEW r \in F!TransitionDesc, NEW f \in Loads, NEW x \in D!Tested
  PROVE  Agrees(Append(e, r), Append(f, x))
           <=> Agrees(e, f) /\ Agree(r, x) /\ r.start = StartAfter(f, x)
<1>1. PICK n, m, e2, f2 : n = Len(f) /\ m = Len(e) /\ e2 = Append(e, r) /\ f2 = Append(f, x)
  OBVIOUS
<1>2. /\ n \in Nat /\ Len(f2) = n + 1 /\ f2[n + 1] = x
      /\ \A i \in 1..n : f2[i] = f[i]
  BY <1>1, LoadsMore
<1>3. /\ m \in Nat /\ Len(e2) = m + 1 /\ e2[m + 1] = r
      /\ \A i \in 1..m : e2[i] = e[i]
  BY <1>1, EventsMore
<1>4. CASE n # m
  BY <1>1, <1>2, <1>3, <1>4 DEF Agrees
<1>5. CASE n = m
  <2>1. \A i : i \in 1..(n + 1) <=> i \in 1..n \/ i = n + 1
    BY <1>2
  <2>2. ASSUME NEW i \in 1..n
        PROVE  (/\ Agree(e2[i], f2[i])
                /\ e2[i].start = IF f2[i].from # NoState THEN f2[i].from
                                 ELSE IF i = 1 THEN InitState ELSE EndOf(f2[i - 1]))
               <=> (/\ Agree(e[i], f[i])
                    /\ e[i].start = IF f[i].from # NoState THEN f[i].from
                                    ELSE IF i = 1 THEN InitState ELSE EndOf(f[i - 1]))
    <3>1. i # 1 => i - 1 \in 1..n
      BY <1>2
    <3>2. f2[i] = f[i] /\ e2[i] = e[i] /\ (i # 1 => f2[i - 1] = f[i - 1])
      BY <1>2, <1>3, <1>5, <3>1
    <3> QED
      BY <3>2
  <2>3. StartAfter(f, x) = IF f2[n + 1].from # NoState THEN f2[n + 1].from
                           ELSE IF n + 1 = 1 THEN InitState ELSE EndOf(f2[(n + 1) - 1])
    <3>1. CASE n = 0
      <4>1. f = <<>>
        BY <1>1, <3>1, LoadsMore
      <4> QED
        BY <1>2, <3>1, <4>1 DEF StartAfter, LastEnd
    <3>2. CASE n # 0
      <4>1. f # <<>> /\ n \in 1..n /\ (n + 1) - 1 = n /\ n + 1 # 1
        BY <1>1, <1>2, <3>2
      <4>2. f2[n] = f[n]
        BY <1>2, <4>1
      <4> QED
        BY <1>1, <1>2, <4>1, <4>2 DEF StartAfter, LastEnd
    <3> QED
      BY <3>1, <3>2
  <2>4. Agrees(e2, f2) <=> \A i \in 1..(n + 1) :
          /\ Agree(e2[i], f2[i])
          /\ e2[i].start = IF f2[i].from # NoState THEN f2[i].from
                           ELSE IF i = 1 THEN InitState ELSE EndOf(f2[i - 1])
    BY <1>2, <1>3, <1>5 DEF Agrees
  <2>5. Agrees(e, f) <=> \A i \in 1..n :
          /\ Agree(e[i], f[i])
          /\ e[i].start = IF f[i].from # NoState THEN f[i].from
                          ELSE IF i = 1 THEN InitState ELSE EndOf(f[i - 1])
    BY <1>1, <1>5 DEF Agrees
  <2>6. Agree(e2[n + 1], f2[n + 1]) <=> Agree(r, x)
    BY <1>2, <1>3, <1>5
  <2>7. e2[n + 1].start = r.start
    BY <1>3, <1>5
  <2>8. Agrees(e2, f2) <=> Agrees(e, f) /\ Agree(r, x) /\ r.start = StartAfter(f, x)
    BY <2>1, <2>2, <2>3, <2>4, <2>5, <2>6, <2>7
  <2> QED
    BY <1>1, <2>8
<1> QED
  BY <1>4, <1>5

Entry(c, failure) == [start |-> c.state, to |-> c.to, failure |-> failure]

LEMMA CompleteIs ==
  ASSUME NEW c \in F!Context, NEW e \in Events, NEW failure \in F!Failure,
         NEW d, d = F!Complete(c, e, failure)
  PROVE  /\ d.c \in F!Context /\ d.e \in Events
         /\ c.to = NoState => d.c = c /\ d.e = e
         /\ c.to # NoState => d.e = Append(e, Entry(c, failure))
         /\ d.c.to = NoState /\ d.c.state = After(c) /\ After(d.c) = After(c)
         /\ d.c.exploring_from = c.exploring_from
         /\ c.to # NoState => Entry(c, failure) \in F!TransitionDesc
<1>1. CASE c.to = NoState
  BY <1>1 DEF F!Complete, After
<1>2. CASE c.to # NoState
  <2>1. /\ c.state \in F!Name /\ c.to \in States /\ c.exploring_from \in States \cup {NoState}
    BY <1>2 DEF F!Context
  <2>2. Entry(c, failure) \in F!TransitionDesc
    BY <2>1 DEF Entry, F!TransitionDesc
  <2>3. /\ d.e = Append(e, Entry(c, failure))
        /\ d.c = [F!NewContext EXCEPT !.exploring_from = c.exploring_from,
                    !.state = IF c.exploring_from # NoState THEN c.exploring_from ELSE c.to]
    BY <1>2 DEF F!Complete, Entry
  <2>4. /\ d.c.to = NoState /\ d.c.exploring_from = c.exploring_from
        /\ d.c.state = IF c.exploring_from # NoState THEN c.exploring_from ELSE c.to
        /\ d.c.event = "none" /\ d.c.rollback = FALSE
    BY <2>3 DEF F!NewContext
  <2>5. d.c \in F!Context
    BY <2>1, <2>3 DEF F!NewContext, F!Context, F!Name, F!Failure
  <2>6. d.c.state = After(c) /\ After(d.c) = After(c)
    BY <1>2, <2>4 DEF After
  <2>7. d.e \in Events
    BY <2>2, <2>3, EventsMore
  <2> QED
    BY <1>2, <2>2, <2>3, <2>4, <2>5, <2>6, <2>7
<1> QED
  BY <1>1, <1>2

\* While a transition is being made, it stands for the last load.
LEMMA RecOpen ==
  ASSUME NEW c \in F!Context, NEW e \in Events, c.to # NoState,
         NEW g \in Loads, NEW x \in D!Tested
  PROVE  Recs(c, e, Append(g, x))
           <=> /\ Agrees(e, g) /\ ToldFailures(g)
               /\ c.to = x.to /\ c.state = StartAfter(g, x) /\ After(c) = EndOf(x) /\ ~x.told
<1>1. PICK r : r = Entry(c, "none")
  OBVIOUS
<1>2. r \in F!TransitionDesc /\ r.to = c.to /\ r.start = c.state /\ r.failure = "none"
  <2>1. "none" \in F!Failure
    BY DEF F!Failure
  <2> QED
    BY <1>1, <2>1, CompleteIs DEF Entry
<1>3. RecordedIn(c, e) = Append(e, r)
  BY <1>1 DEF RecordedIn, Entry
<1>4. Agrees(Append(e, r), Append(g, x)) <=> Agrees(e, g) /\ Agree(r, x) /\ r.start = StartAfter(g, x)
  BY <1>2, AgreesMore
<1>5. /\ Append(g, x) \in Loads /\ LastEnd(Append(g, x)) = EndOf(x)
      /\ ToldFailures(Append(g, x)) <=> ToldFailures(g) /\ (x.told => x.failure # "none")
  BY LoadsMore
<1>6. Agree(r, x) <=> c.to = x.to /\ (x.told => x.failure = "none")
  BY <1>2 DEF Agree
<1>7. x.told \in BOOLEAN
  BY DEF D!Tested
<1> QED
  BY <1>2, <1>3, <1>4, <1>5, <1>6, <1>7 DEF Recs

\* When it is over, the test events stand for the loads.
LEMMA RecOver ==
  ASSUME NEW c \in F!Context, NEW e \in Events, c.to = NoState,
         NEW g \in Loads, NEW x \in D!Tested, NEW r \in F!TransitionDesc
  PROVE  Recs(c, Append(e, r), Append(g, x))
           <=> /\ Agrees(e, g) /\ ToldFailures(g) /\ (x.told => x.failure # "none")
               /\ Agree(r, x) /\ r.start = StartAfter(g, x) /\ c.state = EndOf(x)
<1>1. RecordedIn(c, Append(e, r)) = Append(e, r) /\ After(c) = c.state
  BY DEF RecordedIn, After
<1>2. Agrees(Append(e, r), Append(g, x)) <=> Agrees(e, g) /\ Agree(r, x) /\ r.start = StartAfter(g, x)
  BY AgreesMore
<1>3. /\ Append(g, x) \in Loads /\ LastEnd(Append(g, x)) = EndOf(x)
      /\ ToldFailures(Append(g, x)) <=> ToldFailures(g) /\ (x.told => x.failure # "none")
  BY LoadsMore
<1> QED
  BY <1>1, <1>2, <1>3 DEF Recs

\* There is a load for the transition that is being made.
LEMMA RecSome ==
  ASSUME NEW c \in F!Context, NEW e \in Events, c.to # NoState, NEW f, Recs(c, e, f)
  PROVE  f \in Loads /\ f # <<>>
<1>1. PICK r : r = Entry(c, "none")
  OBVIOUS
<1>2. "none" \in F!Failure
  BY DEF F!Failure
<1>3. r \in F!TransitionDesc /\ RecordedIn(c, e) = Append(e, r)
  BY <1>1, <1>2, CompleteIs DEF RecordedIn, Entry
<1>4. Len(e) \in Nat /\ Len(RecordedIn(c, e)) = Len(e) + 1
  BY <1>3, EventsMore
<1>5. Len(f) = Len(e) + 1
  BY <1>4 DEF Recs, Agrees
<1>6. Len(f) # 0
  BY <1>4, <1>5
<1> QED
  BY <1>6 DEF Recs

\* The transition comes to its end without a failure.
LEMMA RecClose ==
  ASSUME NEW c \in F!Context, NEW e \in Events, NEW f, Recs(c, e, f),
         NEW d, d = F!Complete(c, e, "none")
  PROVE  /\ Recs(d.c, d.e, f) /\ d.c \in F!Context /\ d.e \in Events
         /\ d.c.to = NoState /\ d.c.state = After(c) /\ After(d.c) = After(c)
         /\ d.c.exploring_from = c.exploring_from
<1>1. "none" \in F!Failure
  BY DEF F!Failure
<1>2. /\ d.c \in F!Context /\ d.e \in Events
      /\ c.to = NoState => d.c = c /\ d.e = e
      /\ c.to # NoState => d.e = Append(e, Entry(c, "none"))
      /\ d.c.to = NoState /\ d.c.state = After(c) /\ After(d.c) = After(c)
      /\ d.c.exploring_from = c.exploring_from
  BY <1>1, CompleteIs
<1>3. RecordedIn(d.c, d.e) = RecordedIn(c, e)
  <2>1. RecordedIn(d.c, d.e) = d.e
    BY <1>2 DEF RecordedIn
  <2> QED
    BY <1>2, <2>1 DEF RecordedIn, Entry
<1> QED
  BY <1>2, <1>3 DEF Recs

\* The context knows to start the load x of the state s where it starts.
StartsRight(c, x, s) ==
  /\ x.to = s /\ ~x.told
  /\ x.from # NoState => c.exploring_from = x.from /\ After(c) = x.from
  /\ x.from = NoState => c.exploring_from \in {NoState, s}

\* The load x has been added to f.
Started(c, f, x, c2, e2) ==
  /\ Recs(c2, e2, Append(f, x)) /\ c2 \in F!Context /\ e2 \in Events
  /\ c2.to # NoState /\ c2.rollback = FALSE /\ c2.exploring_from = c.exploring_from
  /\ After(c2) = EndOf(x)

\* A state is loaded.
LEMMA RecLoad ==
  ASSUME NEW c \in F!Context, NEW e \in Events, NEW f, Recs(c, e, f), NEW s \in States,
         NEW x \in D!Tested, StartsRight(c, x, s), NEW d, d = F!StartTransition(c, e, s)
  PROVE  Started(c, f, x, d.c, d.e)
<1>0. NoState \notin States
  BY TransitionsAssumption
<1>1. PICK b : b = F!Complete(c, e, "none")
  OBVIOUS
<1>2. /\ Recs(b.c, b.e, f) /\ b.c \in F!Context /\ b.e \in Events
      /\ b.c.to = NoState /\ b.c.state = After(c)
      /\ b.c.exploring_from = c.exploring_from
  BY <1>1, RecClose
<1>3. /\ d.c = [b.c EXCEPT !.to = s, !.rollback = FALSE, !.event = "load"]
      /\ d.e = b.e
  BY <1>1 DEF F!StartTransition
<1>4. /\ d.c \in F!Context /\ d.c.to = s /\ d.c.rollback = FALSE /\ d.c.state = After(c)
      /\ d.c.exploring_from = c.exploring_from
  BY <1>2, <1>3 DEF F!Context, F!Failure
<1>5. d.c.to # NoState
  BY <1>0, <1>4
<1>6. f \in Loads /\ Agrees(b.e, f) /\ ToldFailures(f) /\ After(c) = LastEnd(f)
  BY <1>2 DEF Recs, RecordedIn, After
<1>7. d.c.state = StartAfter(f, x)
  BY <1>4, <1>6 DEF StartAfter, StartsRight
<1>8. After(d.c) = EndOf(x)
  BY <1>0, <1>4, <1>5 DEF After, EndOf, StartsRight
<1>9. Recs(d.c, d.e, Append(f, x))
  <2>1. x.to = s /\ ~x.told
    BY DEF StartsRight
  <2> QED
    BY <1>2, <1>3, <1>4, <1>5, <1>6, <1>7, <1>8, <2>1, RecOpen
<1> QED
  BY <1>2, <1>3, <1>4, <1>5, <1>8, <1>9 DEF Started

\* What comes next to the context: an action, or nothing
SameEnds(c, c2) ==
  c2 \in F!Context /\ c2.exploring_from = c.exploring_from /\ After(c2) = After(c)

LEMMA RecNoted ==
  ASSUME NEW c \in F!Context, NEW e, NEW f, Recs(c, e, f),
         NEW o \in {"commit", "compare_config", "rollback"}, NEW n, n = Noted(c, o)
  PROVE  /\ Recs(n, e, f) /\ SameEnds(c, n) /\ n.to = c.to /\ n.event = o
         /\ n.rollback = (c.rollback \/ o = "rollback")
<1>1. /\ n \in F!Context /\ n.exploring_from = c.exploring_from /\ n.to = c.to
      /\ n.state = c.state /\ n.event = o /\ n.rollback = (c.rollback \/ o = "rollback")
  BY DEF Noted, F!Context, F!Failure
<1>2. RecordedIn(n, e) = RecordedIn(c, e) /\ After(n) = After(c)
  BY <1>1 DEF RecordedIn, After
<1> QED
  BY <1>1, <1>2 DEF Recs, SameEnds

\* More has become of the load than the record tells.
LEMMA RecChange ==
  ASSUME NEW c \in F!Context, NEW e \in Events, NEW g \in Loads, NEW x \in D!Tested,
         Recs(c, e, Append(g, x)),
         NEW y \in D!Tested, y.to = x.to, y.from = x.from, y.told = x.told,
         x.told => y.failure = x.failure,
         x.failure # "none" => y.failure # "none", x.blurred => y.blurred
  PROVE  Recs(c, e, Append(g, y))
<1>1. EndOf(y) = EndOf(x) /\ StartAfter(g, y) = StartAfter(g, x)
  BY DEF EndOf, StartAfter
<1>2. CASE c.to # NoState
  BY <1>1, <1>2, RecOpen
<1>3. CASE c.to = NoState
  <2>1. RecordedIn(c, e) = e
    BY <1>3 DEF RecordedIn
  <2>2. Append(g, x) \in Loads /\ Len(Append(g, x)) = Len(g) + 1 /\ Len(g) \in Nat
    BY LoadsMore
  <2>3. Len(e) = Len(g) + 1 /\ Len(e) \in Nat
    BY <2>1, <2>2 DEF Recs, Agrees
  <2>4. PICK p \in Events, r \in F!TransitionDesc : e = Append(p, r)
    <3>1. PICK S : S = F!TransitionDesc
      OBVIOUS
    <3>2. e \in Seq(S) /\ Events = Seq(S) /\ Len(e) > 0
      BY <2>2, <2>3, <3>1 DEF Events
    <3>3. e # <<>>
      BY <3>2
    <3>4. \E p \in Seq(S), r \in S : e = Append(p, r)
      BY <3>2, <3>3, SequenceEmptyOrAppend
    <3> QED
      BY <3>1, <3>2, <3>4
  <2>5. Recs(c, Append(p, r), Append(g, x))
    BY <2>4
  <2>6. /\ Agrees(p, g) /\ ToldFailures(g) /\ (x.told => x.failure # "none")
        /\ Agree(r, x) /\ r.start = StartAfter(g, x) /\ c.state = EndOf(x)
    BY <1>3, <2>4, <2>5, RecOver
  <2>7. Agree(r, y)
    BY <2>6 DEF Agree
  <2>8. Recs(c, Append(p, r), Append(g, y))
    BY <1>1, <1>3, <2>4, <2>6, <2>7, RecOver
  <2> QED
    BY <2>4, <2>8
<1> QED
  BY <1>2, <1>3

\* A failure is recorded, unless one was recorded before.
LEMMA RecFail ==
  ASSUME NEW c \in F!Context, NEW e \in Events, NEW g \in Loads, NEW x \in D!Tested,
         Recs(c, e, Append(g, x)),
         NEW y \in D!Tested, y.to = x.to, y.from = x.from, y.told => y.failure # "none",
         c.to # NoState =>
           /\ y.failure # "none" \/ y.blurred
           /\ y.told => y.failure = IF c.rollback THEN "rollback" ELSE c.event,
         c.to = NoState =>
           /\ y.told = x.told /\ (x.told => y.failure = x.failure)
           /\ x.failure # "none" => y.failure # "none"
           /\ x.blurred => y.blurred,
         NEW d, d = F!FailTransition(c, e)
  PROVE  Recs(d.c, d.e, Append(g, y)) /\ d.e \in Events /\ SameEnds(c, d.c)
<1>1. PICK o : o = IF c.rollback THEN "rollback" ELSE c.event
  OBVIOUS
<1>2. o \in F!Failure /\ d = F!Complete(c, e, o)
  <2>1. c.event \in F!Failure /\ "rollback" \in F!Failure
    BY DEF F!Context, F!Failure
  <2> QED
    BY <1>1, <2>1 DEF F!FailTransition
<1>3. /\ d.c \in F!Context /\ d.e \in Events
      /\ c.to = NoState => d.c = c /\ d.e = e
      /\ c.to # NoState => d.e = Append(e, Entry(c, o))
      /\ d.c.to = NoState /\ d.c.state = After(c) /\ After(d.c) = After(c)
      /\ d.c.exploring_from = c.exploring_from
      /\ c.to # NoState => Entry(c, o) \in F!TransitionDesc
  BY <1>2, CompleteIs
<1>4. SameEnds(c, d.c)
  BY <1>3 DEF SameEnds
<1>5. CASE c.to = NoState
  <2>1. Recs(c, e, Append(g, y))
    BY <1>5, RecChange
  <2> QED
    BY <1>3, <1>4, <1>5, <2>1
<1>6. CASE c.to # NoState
  <2>1. PICK r : r = Entry(c, o)
    OBVIOUS
  <2>2. r \in F!TransitionDesc /\ r.start = c.state /\ r.to = c.to /\ r.failure = o
    BY <1>3, <1>6, <2>1 DEF Entry
  <2>3. /\ Agrees(e, g) /\ ToldFailures(g)
        /\ c.to = x.to /\ c.state = StartAfter(g, x) /\ After(c) = EndOf(x)
    BY <1>6, RecOpen
  <2>4. EndOf(y) = EndOf(x) /\ StartAfter(g, y) = StartAfter(g, x)
    BY DEF EndOf, StartAfter
  <2>5. Agree(r, y)
    BY <1>1, <1>6, <2>2, <2>3 DEF Agree
  <2>6. Recs(d.c, Append(e, r), Append(g, y))
    BY <1>3, <2>2, <2>3, <2>4, <2>5, RecOver
  <2> QED
    BY <1>3, <1>4, <1>6, <2>1, <2>6
<1> QED
  BY <1>5, <1>6

\* A failure is put down to a load that was not followed by a smooth restore.
LEMMA RecBlame ==
  ASSUME NEW c \in F!Context, NEW e \in Events, NEW f, Recs(c, e, f),
         f = <<>> \/ f[Len(f)].blurred, NEW d, d = F!FailTransition(c, e)
  PROVE  Recs(d.c, d.e, f) /\ d.e \in Events /\ SameEnds(c, d.c)
<1>1. CASE c.to = NoState
  BY <1>1 DEF F!FailTransition, F!Complete, SameEnds
<1>2. CASE c.to # NoState
  <2>1. f \in Loads /\ f # <<>>
    BY <1>2, RecSome
  <2>2. PICK g \in Loads : f = Append(g, f[Len(f)]) /\ f[Len(f)] \in D!Tested
    BY <2>1, LastOf
  <2>3. PICK x : x = f[Len(f)]
    OBVIOUS
  <2>4. x \in D!Tested /\ x.blurred /\ Recs(c, e, Append(g, x))
    BY <2>1, <2>2, <2>3
  <2>5. ~x.told
    BY <1>2, <2>4, RecOpen
  <2>6. Recs(d.c, d.e, Append(g, x)) /\ d.e \in Events /\ SameEnds(c, d.c)
    BY <1>2, <2>4, <2>5, RecFail
  <2> QED
    BY <2>2, <2>3, <2>6
<1> QED
  BY <1>1, <1>2

\* Explore starts with another state.
LEMMA RecExplore ==
  ASSUME NEW c \in F!Context, NEW e \in Events, NEW f, Recs(c, e, f), NEW s \in States,
         NEW d, d = F!StartExplore(c, e, s)
  PROVE  /\ Recs(d.c, d.e, f) /\ d.c \in F!Context /\ d.e \in Events
         /\ d.c.exploring_from = s
<1>1. PICK b : b = F!Complete(c, e, "none")
  OBVIOUS
<1>2. /\ Recs(b.c, b.e, f) /\ b.c \in F!Context /\ b.e \in Events
      /\ b.c.to = NoState
  BY <1>1, RecClose
<1>3. d.c = [b.c EXCEPT !.exploring_from = s] /\ d.e = b.e
  BY <1>1 DEF F!StartExplore
<1>4. d.c \in F!Context /\ d.c.exploring_from = s /\ d.c.to = NoState /\ d.c.state = b.c.state
  BY <1>2, <1>3 DEF F!Context
<1>5. RecordedIn(d.c, d.e) = RecordedIn(b.c, b.e) /\ After(d.c) = After(b.c)
  BY <1>2, <1>3, <1>4 DEF RecordedIn, After
<1> QED
  BY <1>2, <1>3, <1>4, <1>5 DEF Recs

\* What reading lines of a restore does to the record: nothing that matters, or
\* it may put a failure down to the last load, if that one is blurred.
Softly(c, e, c2, e2) ==
  /\ e2 \in Events /\ SameEnds(c, c2)
  /\ \A f : Recs(c, e, f) /\ (f = <<>> \/ f[Len(f)].blurred) => Recs(c2, e2, f)
Mildly(c, e, c2, e2) ==
  /\ e2 \in Events /\ SameEnds(c, c2)
  /\ \A f : Recs(c, e, f) => Recs(c2, e2, f)

LEMMA SoftlyOn ==
  ASSUME NEW c1, NEW e1, NEW c2, NEW e2, NEW c3, NEW e3
  PROVE  /\ Softly(c1, e1, c2, e2) /\ Softly(c2, e2, c3, e3) => Softly(c1, e1, c3, e3)
         /\ Mildly(c1, e1, c2, e2) /\ Mildly(c2, e2, c3, e3) => Mildly(c1, e1, c3, e3)
         /\ Mildly(c1, e1, c2, e2) => Softly(c1, e1, c2, e2)
BY Zenon DEF Softly, Mildly, SameEnds

LEMMA SoftlyNone ==
  ASSUME NEW c \in F!Context, NEW e \in Events
  PROVE  Mildly(c, e, c, e)
BY DEF Mildly, SameEnds

LEMMA SoftlyNoted ==
  ASSUME NEW c \in F!Context, NEW e \in Events,
         NEW o \in {"commit", "compare_config", "rollback"}, NEW n, n = Noted(c, o)
  PROVE  Mildly(c, e, n, e) /\ n \in F!Context
<1>1. SameEnds(c, n)
  <2>1. /\ n \in F!Context /\ n.exploring_from = c.exploring_from /\ n.to = c.to
        /\ n.state = c.state
    BY DEF Noted, F!Context, F!Failure
  <2> QED
    BY <2>1 DEF SameEnds, After
<1>2. ASSUME NEW f, Recs(c, e, f)
      PROVE  Recs(n, e, f)
  BY <1>2, RecNoted
<1> QED
  BY <1>1, <1>2 DEF Mildly, SameEnds

LEMMA SoftlyFails ==
  ASSUME NEW c \in F!Context, NEW e \in Events, NEW d, d = F!FailTransition(c, e)
  PROVE  Softly(c, e, d.c, d.e) /\ d.c \in F!Context /\ d.e \in Events
<1>1. d.c \in F!Context /\ d.e \in Events /\ SameEnds(c, d.c)
  <2>1. c.event \in F!Failure /\ "rollback" \in F!Failure
    BY DEF F!Context, F!Failure
  <2>2. PICK o \in F!Failure : d = F!Complete(c, e, o)
    BY <2>1 DEF F!FailTransition
  <2> QED
    BY <2>2, CompleteIs DEF SameEnds
<1>2. ASSUME NEW f, Recs(c, e, f), f = <<>> \/ f[Len(f)].blurred
      PROVE  Recs(d.c, d.e, f)
  BY <1>2, RecBlame
<1> QED
  BY <1>1, <1>2 DEF Softly

----------------------------------------------------------------------------
(* The lines of a restore                                                  *)

\* A dry run is aborted; there are two comparisons.
Refused(q) == \E i \in 1..(Len(q) - 1) : q[i] = "commit" /\ q[i + 1] = "reason"
Twice(q)   == \E i, j \in 1..Len(q) : i < j /\ q[i] = "compare_config" /\ q[j] = "compare_config"

LEMMA MoreThanOne ==
  ASSUME NEW n \in Nat, NEW I \in SUBSET (1..n)
  PROVE  Cardinality(I) > 1 <=> \E i, j \in I : i < j
<1>1. IsFiniteSet(I) /\ Cardinality(I) \in Nat
  BY OneIndexMore
<1>2. CASE I = {}
  <2>1. Cardinality(I) = 0
    BY <1>2, FS_EmptySet
  <2> QED
    BY <1>2, <2>1
<1>3. CASE I # {}
  <2>1. PICK i : i \in I
    BY <1>3
  <2>2. Cardinality({i}) = 1
    BY FS_Singleton
  <2>3. CASE I = {i}
    BY <2>2, <2>3
  <2>4. CASE I # {i}
    <3>1. PICK j \in I : j # i
      BY <2>1, <2>4
    <3>2. i < j \/ j < i
      BY <2>1, <3>1
    <3>3. Cardinality(I) # 0 /\ Cardinality(I) # 1
      <4>1. Cardinality(I) # 0
        BY <1>1, <1>3, FS_EmptySet
      <4>2. ASSUME Cardinality(I) = 1
            PROVE  FALSE
        <5>1. PICK x : I = {x}
          BY <1>1, <4>2, FS_Singleton
        <5> QED
          BY <2>1, <3>1, <5>1
      <4> QED
        BY <4>1, <4>2
    <3> QED
      BY <1>1, <2>1, <3>1, <3>2, <3>3
  <2> QED
    BY <2>3, <2>4
<1> QED
  BY <1>2, <1>3

LEMMA AstrayIs ==
  ASSUME NEW q \in Talk
  PROVE  D!Astray(q) <=> Refused(q) \/ Twice(q)
<1>1. PICK n : n = Len(q)
  OBVIOUS
<1>2. n \in Nat /\ DOMAIN q = 1..n
  BY <1>1 DEF Talk
<1>3. PICK I : I = {i \in 1..n : q[i] = "compare_config"}
  OBVIOUS
<1>0. I \in SUBSET (1..n)
  BY <1>3
<1>4. Cardinality(I) > 1 <=> \E i, j \in I : i < j
  BY <1>0, <1>2, MoreThanOne
<1>5. D!Astray(q) <=> Refused(q) \/ Cardinality(I) > 1
  <2>1. I = {i \in DOMAIN q : q[i] = "compare_config"}
    BY <1>2, <1>3
  <2>2. D!Cardinality(I) = Cardinality(I)
    BY DEF D!Cardinality, Cardinality
  <2>3. D!Astray(q) <=> Refused(q) \/ D!Cardinality({i \in DOMAIN q : q[i] = "compare_config"}) > 1
    BY DEF D!Astray, Refused
  <2> QED
    BY <2>1, <2>2, <2>3
<1>6. Twice(q) <=> \E i, j \in I : i < j
  <2>1. Twice(q) <=> \E i, j \in 1..n : i < j /\ q[i] = "compare_config" /\ q[j] = "compare_config"
    BY <1>1 DEF Twice
  <2> QED
    BY <1>3, <2>1
<1> QED
  BY <1>4, <1>5, <1>6

\* Of two parts, the first of which has no commit and no comparison, or of which
\* none has a reason and the first no comparison
LEMMA TwoParts ==
  ASSUME NEW p \in Talk, NEW q \in Talk, \A i \in 1..Len(p) : p[i] # "compare_config"
  PROVE  /\ Twice(p \o q) <=> Twice(q)
         /\ (\A i \in 1..Len(p) : p[i] # "commit") => (Refused(p \o q) <=> Refused(q))
         /\ (\A i \in 1..Len(p) : p[i] # "reason") /\ (\A i \in 1..Len(q) : q[i] # "reason")
              => ~Refused(p \o q)
<1>1. PICK n, m, r : n = Len(p) /\ m = Len(q) /\ r = p \o q
  OBVIOUS
<1>2. /\ n \in Nat /\ m \in Nat /\ Len(r) = n + m
      /\ \A i \in 1..n : r[i] = p[i]
      /\ \A i \in 1..m : r[n + i] = q[i]
  BY <1>1 DEF Talk
<1>3. \A i \in 1..(n + m) : i \in 1..n \/ (i - n \in 1..m /\ n + (i - n) = i)
  BY <1>2
<1>4. \A i \in 1..m : n + i \in 1..(n + m)
  BY <1>2
<1>5. Twice(r) <=> Twice(q)
  <2>1. ASSUME Twice(q)
        PROVE  Twice(r)
    <3>1. PICK i \in 1..m, j \in 1..m : i < j /\ q[i] = "compare_config" /\ q[j] = "compare_config"
      BY <1>1, <2>1 DEF Twice
    <3>2. n + i < n + j
      BY <1>2, <3>1
    <3> QED
      BY <1>2, <1>4, <3>1, <3>2 DEF Twice
  <2>2. ASSUME Twice(r)
        PROVE  Twice(q)
    <3>1. PICK i \in 1..(n + m), j \in 1..(n + m) :
            i < j /\ r[i] = "compare_config" /\ r[j] = "compare_config"
      BY <1>2, <2>2 DEF Twice
    <3>2. i \notin 1..n /\ j \notin 1..n
      BY <1>1, <1>2, <3>1
    <3>3. i - n \in 1..m /\ j - n \in 1..m /\ i - n < j - n
      BY <1>2, <1>3, <3>1, <3>2
    <3>4. q[i - n] = "compare_config" /\ q[j - n] = "compare_config"
      BY <1>2, <1>3, <3>1, <3>2, <3>3
    <3> QED
      BY <1>1, <3>3, <3>4 DEF Twice
  <2> QED
    BY <2>1, <2>2
<1>6. ASSUME \A i \in 1..Len(p) : p[i] # "commit"
      PROVE  Refused(r) <=> Refused(q)
  <2>1. ASSUME Refused(q)
        PROVE  Refused(r)
    <3>1. PICK i \in 1..(m - 1) : q[i] = "commit" /\ q[i + 1] = "reason"
      BY <1>1, <2>1 DEF Refused
    <3>2. n + i \in 1..(n + m - 1) /\ i \in 1..m /\ i + 1 \in 1..m /\ n + (i + 1) = (n + i) + 1
      BY <1>2, <3>1
    <3> QED
      BY <1>2, <3>1, <3>2 DEF Refused
  <2>2. ASSUME Refused(r)
        PROVE  Refused(q)
    <3>1. PICK i \in 1..(n + m - 1) : r[i] = "commit" /\ r[i + 1] = "reason"
      BY <1>2, <2>2 DEF Refused
    <3>2. i \notin 1..n /\ i \in 1..(n + m) /\ i + 1 \in 1..(n + m)
      BY <1>1, <1>2, <1>6, <3>1
    <3>3. i - n \in 1..(m - 1) /\ i - n \in 1..m /\ (i - n) + 1 \in 1..m
          /\ n + (i - n) = i /\ n + ((i - n) + 1) = i + 1
      BY <1>2, <3>2
    <3>4. q[i - n] = "commit" /\ q[(i - n) + 1] = "reason"
      BY <1>2, <3>1, <3>3
    <3> QED
      BY <1>1, <3>3, <3>4 DEF Refused
  <2> QED
    BY <2>1, <2>2
<1>7. ASSUME \A i \in 1..Len(p) : p[i] # "reason", \A i \in 1..Len(q) : q[i] # "reason"
      PROVE  ~Refused(r)
  <2>1. \A i \in 1..(n + m) : r[i] # "reason"
    BY <1>1, <1>2, <1>3, <1>7
  <2>2. \A i \in 1..(n + m - 1) : i + 1 \in 1..(n + m)
    BY <1>2
  <2> QED
    BY <1>2, <2>1, <2>2 DEF Refused
<1> QED
  BY <1>1, <1>5, <1>6, <1>7

\* The laps of a restore
LapLines == {<<>>, <<"compare_config">>, <<"compare_config", "diff">>,
             <<"compare_config", "compare_config">>,
             <<"compare_config", "compare_config", "diff">>,
             <<"compare_config", "diff", "compare_config">>,
             <<"compare_config", "diff", "compare_config", "diff">>}

LEMMA LapsAre == D!Laps \subseteq LapLines /\ D!BadLaps \subseteq LapLines
<1>1. D!Laps \subseteq LapLines
  BY DEF D!Laps, LapLines
<1>2. ASSUME NEW l \in D!BadLaps
      PROVE  l \in LapLines
  <2>1. PICK p \in {<<>>, <<"compare_config">>, <<"compare_config", "diff">>},
             q \in {<<>>, <<"compare_config">>, <<"compare_config", "diff">>} : l = p \o q
    BY <1>2 DEF D!BadLaps
  <2>2. "compare_config" \in Word /\ "diff" \in Word
    BY DEF Word, F!EventTypes
  <2>3. p \in Text /\ q \in Text
    <3>1. /\ <<>> \in Text /\ <<"compare_config">> \in Text
          /\ <<"compare_config", "diff">> \in Text
      BY <2>2 DEF Text
    <3> QED
      BY <2>1, <3>1
  <2>4. CASE p = <<>>
    <3>1. l = q
      BY <2>1, <2>3, <2>4, Push0
    <3> QED
      BY <2>1, <3>1 DEF LapLines
  <2>5. CASE q = <<>>
    <3>1. l = p
      BY <2>1, <2>3, <2>5, Push0
    <3> QED
      BY <2>1, <3>1 DEF LapLines
  <2>6. CASE p = <<"compare_config">>
    <3>1. l = Push("compare_config", q)
      BY <2>1, <2>2, <2>3, <2>6, Push1
    <3>2. CASE q = <<"compare_config">>
      <4>1. <<"compare_config">> = Push("compare_config", <<>>)
        BY <2>2, <2>3, <3>2, Push0, Push1, EmptyText
      <4>2. l = <<"compare_config", "compare_config">>
        BY <2>2, <3>1, <3>2, <4>1, Words2
      <4> QED
        BY <4>2 DEF LapLines
    <3>3. CASE q = <<"compare_config", "diff">>
      <4>1. q = Push("compare_config", Push("diff", <<>>))
        BY <2>2, <3>3, Words2
      <4>2. l = <<"compare_config", "compare_config", "diff">>
        BY <2>2, <3>1, <4>1, Words3
      <4> QED
        BY <4>2 DEF LapLines
    <3> QED
      BY <2>1, <2>5, <3>2, <3>3
  <2>7. CASE p = <<"compare_config", "diff">>
    <3>1. l = Push("compare_config", Push("diff", q))
      BY <2>1, <2>2, <2>3, <2>7, Push2
    <3>2. CASE q = <<"compare_config">>
      <4>1. <<"compare_config">> = Push("compare_config", <<>>)
        BY <2>2, <2>3, <3>2, Push0, Push1, EmptyText
      <4>2. l = <<"compare_config", "diff", "compare_config">>
        BY <2>2, <3>1, <3>2, <4>1, Words3
      <4> QED
        BY <4>2 DEF LapLines
    <3>3. CASE q = <<"compare_config", "diff">>
      <4>1. q = Push("compare_config", Push("diff", <<>>))
        BY <2>2, <3>3, Words2
      <4>2. l = <<"compare_config", "diff", "compare_config", "diff">>
        BY <2>2, <3>1, <4>1, Words4
      <4> QED
        BY <4>2 DEF LapLines
    <3> QED
      BY <2>1, <2>5, <3>2, <3>3
  <2> QED
    BY <2>1, <2>4, <2>6, <2>7
<1> QED
  BY <1>1, <1>2

\* What is known of the elements of the lines
LEMMA LapTalk ==
  ASSUME NEW l \in LapLines
  PROVE  /\ l \in Talk /\ \A i \in 1..Len(l) : l[i] # "reason"
         /\ Twice(l) <=> l \notin {<<>>, <<"compare_config">>, <<"compare_config", "diff">>}
         /\ (\A i \in 1..Len(l) : l[i] # "diff")
              => l \in {<<>>, <<"compare_config">>, <<"compare_config", "compare_config">>}
<1>t. "compare_config" \in Told /\ "diff" \in Told
  BY DEF Told, F!EventTypes
<1>1. CASE l \in {<<>>, <<"compare_config">>, <<"compare_config", "diff">>}
  <2>1. l \in Talk
    <3>1. <<>> \in Talk /\ <<"compare_config">> \in Talk /\ <<"compare_config", "diff">> \in Talk
      BY <1>t DEF Talk
    <3> QED
      BY <1>1, <3>1
  <2>2. ~Twice(l)
    <3>1. Len(l) \in {0, 1, 2} /\ (Len(l) = 2 => l[2] = "diff")
      BY <1>1
    <3> QED
      BY <3>1 DEF Twice
  <2>3. CASE l = <<"compare_config", "diff">>
    BY <1>1, <2>1, <2>2, <2>3
  <2>4. CASE l # <<"compare_config", "diff">>
    BY <1>1, <2>1, <2>2, <2>4
  <2> QED
    BY <2>3, <2>4
<1>2. CASE l = <<"compare_config", "compare_config">>
  <2>1. l \in Talk
    BY <1>t, <1>2 DEF Talk
  <2>2. Twice(l)
    BY <1>2 DEF Twice
  <2>3. Len(l) = 2 /\ l[1] = "compare_config" /\ l[2] = "compare_config"
    BY <1>2
  <2> QED
    BY <1>2, <2>1, <2>2, <2>3
<1>3. CASE l = <<"compare_config", "compare_config", "diff">>
  <2>1. l \in Talk
    BY <1>t, <1>3 DEF Talk
  <2>2. Twice(l)
    BY <1>3 DEF Twice
  <2>3. Len(l) = 3 /\ l[1] = "compare_config" /\ l[2] = "compare_config" /\ l[3] = "diff"
    BY <1>3
  <2> QED
    BY <2>1, <2>2, <2>3
<1>4. CASE l = <<"compare_config", "diff", "compare_config">>
  <2>1. l \in Talk
    BY <1>t, <1>4 DEF Talk
  <2>2. Twice(l)
    BY <1>4 DEF Twice
  <2>3. Len(l) = 3 /\ l[1] = "compare_config" /\ l[2] = "diff" /\ l[3] = "compare_config"
    BY <1>4
  <2> QED
    BY <2>1, <2>2, <2>3
<1>5. CASE l = <<"compare_config", "diff", "compare_config", "diff">>
  <2>1. l \in Talk
    BY <1>t, <1>5 DEF Talk
  <2>2. Twice(l)
    BY <1>5 DEF Twice
  <2>3. Len(l) = 4 /\ l[1] = "compare_config" /\ l[2] = "diff" /\ l[3] = "compare_config"
        /\ l[4] = "diff"
    BY <1>5
  <2> QED
    BY <2>1, <2>2, <2>3
<1> QED
  BY <1>1, <1>2, <1>3, <1>4, <1>5 DEF LapLines

\* The laps are read where a comparison is awaited.
LEMMA ReadLaps ==
  ASSUME NEW B \in Text, NEW L, Unfit(B, L), Unfit(L, L),
         NEW c \in F!Context, NEW e \in Events, NEW l \in LapLines
  PROVE  \E st2, c2, e2 :
           /\ Reads(l, Compares(B), c, e, st2, c2, e2) /\ Softly(c, e, c2, e2)
           /\ (\A i \in 1..Len(l) : l[i] # "diff") => Mildly(c, e, c2, e2)
           /\ Twice(l) => st2 = L
           /\ ~Twice(l) => st2 \in {Compares(B), Push("compare", B), B}
           /\ ~Twice(l) /\ l \in D!Laps => st2 = Push("compare", B)
<1>1. PICK cq, fc, fe : /\ cq = Noted(c, "compare_config")
                        /\ fc = F!FailTransition(cq, e).c /\ fe = F!FailTransition(cq, e).e
  OBVIOUS
<1>2. Mildly(c, e, cq, e) /\ cq \in F!Context
  BY <1>1, SoftlyNoted
<1>3. Softly(cq, e, fc, fe)
  BY <1>1, <1>2, SoftlyFails
<1>4. Softly(c, e, cq, e) /\ Softly(c, e, fc, fe)
  BY <1>2, <1>3, SoftlyOn
<1>5. Mildly(c, e, c, e) /\ Softly(c, e, c, e)
  BY SoftlyNone, SoftlyOn
<1>6. /\ Reads(<<"compare_config">>, Compares(B), c, e, Push("compare", B), cq, e)
      /\ Reads(<<"compare_config", "diff">>, Compares(B), c, e, B, fc, fe)
      /\ Reads(<<"compare_config", "compare_config">>, Compares(B), c, e, L, cq, e)
      /\ Reads(<<"compare_config", "compare_config", "diff">>, Compares(B), c, e, L, cq, e)
      /\ Reads(<<"compare_config", "diff", "compare_config">>, Compares(B), c, e, L, fc, fe)
      /\ Reads(<<"compare_config", "diff", "compare_config", "diff">>,
               Compares(B), c, e, L, fc, fe)
  BY <1>1, ReadCompares
<1>7. /\ Twice(l) <=> l \notin {<<>>, <<"compare_config">>, <<"compare_config", "diff">>}
      /\ (\A i \in 1..Len(l) : l[i] # "diff")
              => l \in {<<>>, <<"compare_config">>, <<"compare_config", "compare_config">>}
  BY LapTalk
<1>8. CASE l = <<>>
  <2>1. Reads(l, Compares(B), c, e, Compares(B), c, e)
    BY <1>8, ReadsNone
  <2>2. l \notin D!Laps
    <3>1. \A k \in D!Laps : Len(k) # 0
      BY DEF D!Laps
    <3> QED
      BY <1>8, <3>1
  <2> QED
    BY <1>5, <1>7, <1>8, <2>1, <2>2, Zenon
<1>9. CASE l = <<"compare_config">>
  BY <1>2, <1>4, <1>6, <1>7, <1>9, Zenon
<1>10. CASE l = <<"compare_config", "diff">>
  <2>1. l \notin D!Laps
    <3>1. \A k \in D!Laps : k[Len(k)] = "compare_config"
      BY DEF D!Laps
    <3>2. l[Len(l)] = "diff"
      BY <1>10
    <3> QED
      BY <3>1, <3>2
  <2>2. ~\A i \in 1..Len(l) : l[i] # "diff"
    BY <1>10
  <2> QED
    BY <1>4, <1>6, <1>7, <1>10, <2>1, <2>2, Zenon
<1>11. CASE l \in {<<"compare_config", "compare_config">>,
                   <<"compare_config", "compare_config", "diff">>}
  <2>1. Reads(l, Compares(B), c, e, L, cq, e)
    BY <1>6, <1>11
  <2>2. Twice(l)
    <3>1. Len(l) \in {2, 3}
      BY <1>11
    <3>2. l[2] = "compare_config"
      BY <1>11
    <3>3. l # <<>> /\ l # <<"compare_config">> /\ l # <<"compare_config", "diff">>
      BY <3>1, <3>2
    <3> QED
      BY <1>7, <3>3
  <2> QED
    BY <1>2, <1>4, <2>1, <2>2, Zenon
<1>12. CASE l = <<"compare_config", "diff", "compare_config">>
  <2>1. Len(l) = 3 /\ l[2] = "diff"
    BY <1>12
  <2>2. l # <<>> /\ l # <<"compare_config">> /\ l # <<"compare_config", "diff">>
    <3>1. l # <<>>
      <4>1. Len(<<>>) = 0 /\ Len(l) # 0
        BY <2>1
      <4> QED
        BY <4>1
    <3>2. l # <<"compare_config">>
      BY <2>1
    <3>3. l # <<"compare_config", "diff">>
      BY <2>1
    <3> QED
      BY <3>1, <3>2, <3>3
  <2>3. Reads(l, Compares(B), c, e, L, fc, fe)
    BY <1>6, <1>12
  <2>4. ~\A i \in 1..Len(l) : l[i] # "diff"
    BY <2>1
  <2> QED
    BY <1>4, <1>7, <2>2, <2>3, <2>4, Zenon
<1>13. CASE l = <<"compare_config", "diff", "compare_config", "diff">>
  <2>1. Len(l) = 4 /\ l[2] = "diff"
    BY <1>13
  <2>2. l # <<>> /\ l # <<"compare_config">> /\ l # <<"compare_config", "diff">>
    <3>1. l # <<>>
      <4>1. Len(<<>>) = 0 /\ Len(l) # 0
        BY <2>1
      <4> QED
        BY <4>1
    <3>2. l # <<"compare_config">>
      BY <2>1
    <3>3. l # <<"compare_config", "diff">>
      BY <2>1
    <3> QED
      BY <3>1, <3>2, <3>3
  <2>3. Reads(l, Compares(B), c, e, L, fc, fe)
    BY <1>6, <1>13
  <2>4. ~\A i \in 1..Len(l) : l[i] # "diff"
    BY <2>1
  <2> QED
    BY <1>4, <1>7, <2>2, <2>3, <2>4, Zenon
<1> QED
  BY <1>8, <1>9, <1>10, <1>11, <1>12, <1>13 DEF LapLines

\* What may follow the restore of the configuration
LEMMA ReadRestoreCommit ==
  ASSUME NEW B \in Text, NEW L, Unfit(B, L),
         NEW c \in F!Context, NEW e \in Events
  PROVE  /\ \A k \in D!RestoreCommit :
              \E c2, e2 : Reads(k, Commits(B), c, e, Compares(B), c2, e2) /\ Mildly(c, e, c2, e2)
         /\ \A k \in D!RefusedCommit :
              \E st2, c2, e2 :
                /\ Reads(k, Commits(B), c, e, st2, c2, e2) /\ Softly(c, e, c2, e2)
                /\ k = <<"commit", "reason">> => st2 = L
                /\ k # <<"commit", "reason">>
                     => st2 \in {Commits(B), Push("commit", Compares(B)), Compares(B)}
<1>1. PICK cn, fc, fe : /\ cn = Noted(c, "commit")
                        /\ fc = F!FailTransition(cn, e).c /\ fe = F!FailTransition(cn, e).e
  OBVIOUS
<1>2. Mildly(c, e, cn, e) /\ cn \in F!Context
  BY <1>1, SoftlyNoted
<1>3. Softly(cn, e, fc, fe)
  BY <1>1, <1>2, SoftlyFails
<1>4. Softly(c, e, cn, e) /\ Softly(c, e, fc, fe)
  BY <1>2, <1>3, SoftlyOn
<1>5. Softly(c, e, c, e)
  BY SoftlyNone, SoftlyOn
<1>6. Takes("reason", B, L, "keep")
  BY DEF Unfit
<1>7. /\ Reads(<<"commit">>, Commits(B), c, e, Push("commit", Compares(B)), cn, e)
      /\ Reads(<<"commit", "empty", "nn", "empty">>, Commits(B), c, e, Compares(B), cn, e)
      /\ Reads(<<"commit", "nn", "complete">>, Commits(B), c, e, Compares(B), cn, e)
      /\ Reads(<<"commit", "nn", "reason">>, Commits(B), c, e, Compares(B), fc, fe)
      /\ Reads(<<"commit", "reason">>, Commits(B), c, e, L, cn, e)
  <2>1. "nn" \in {"noqueue", "nn"}
    OBVIOUS
  <2> QED
    BY <1>1, <1>6, <2>1, ReadCommits
<1>8. ASSUME NEW k \in D!RestoreCommit
      PROVE  \E c2, e2 : Reads(k, Commits(B), c, e, Compares(B), c2, e2) /\ Mildly(c, e, c2, e2)
  <2>1. k = <<"commit", "empty", "nn", "empty">> \/ k = <<"commit", "nn", "complete">>
    BY DEF D!RestoreCommit
  <2> QED
    BY <1>2, <1>7, <2>1
<1>9. ASSUME NEW k \in D!RefusedCommit
      PROVE  \E st2, c2, e2 :
               /\ Reads(k, Commits(B), c, e, st2, c2, e2) /\ Softly(c, e, c2, e2)
               /\ k = <<"commit", "reason">> => st2 = L
               /\ k # <<"commit", "reason">>
                    => st2 \in {Commits(B), Push("commit", Compares(B)), Compares(B)}
  <2>1. CASE k = <<>>
    <3>1. Reads(k, Commits(B), c, e, Commits(B), c, e)
      BY <2>1, ReadsNone
    <3>2. k # <<"commit", "reason">>
      BY <2>1
    <3> QED
      BY <1>5, <3>1, <3>2, Zenon
  <2>2. CASE k = <<"commit">>
    <3>1. Reads(k, Commits(B), c, e, Push("commit", Compares(B)), cn, e)
      BY <1>7, <2>2
    <3>2. k # <<"commit", "reason">>
      <4>1. Len(k) = 1
        BY <2>2
      <4> QED
        BY <4>1
    <3> QED
      BY <1>4, <3>1, <3>2, Zenon
  <2>3. CASE k = <<"commit", "nn", "reason">>
    <3>1. Reads(k, Commits(B), c, e, Compares(B), fc, fe)
      BY <1>7, <2>3
    <3>2. k # <<"commit", "reason">>
      <4>1. Len(k) = 3
        BY <2>3
      <4> QED
        BY <4>1
    <3> QED
      BY <1>4, <3>1, <3>2, Zenon
  <2>4. CASE k = <<"commit", "reason">>
    BY <1>4, <1>7, <2>4, Zenon
  <2>5. k = <<>> \/ k = <<"commit">> \/ k = <<"commit", "reason">> \/ k = <<"commit", "nn", "reason">>
    BY DEF D!RefusedCommit
  <2> QED
    BY <2>1, <2>2, <2>3, <2>4, <2>5
<1> QED
  BY <1>8, <1>9

\* The lines of a restore are read where a teardown is expected; below it goes
\* on with E, and after lines that do not fit, with L.
Restoring(E) == Push("gen-restore", Commits(Push("gen-trans-failed", E)))

\* What they may lead to.
Restored(lines, E, L, st2, c, e, c2, e2) ==
  /\ Softly(c, e, c2, e2)
  /\ lines \in D!RestoreGood /\ (\A i \in DOMAIN lines : lines[i] # "diff")
       => Mildly(c, e, c2, e2)
  /\ D!Astray(lines) => st2 = L
  /\ ~D!Astray(lines) => st2 \in Torn(E)
  /\ ~D!Astray(lines) /\ lines \in D!RestoreGood
       => st2 = Push("compare", Push("gen-trans-failed", E))

LEMMA RestoreTalk ==
  /\ <<"teardown">> \in Talk /\ <<"teardown", "restore">> \in Talk
  /\ <<"teardown">> = Push("teardown", <<>>)
  /\ <<"teardown", "restore">> = Push("teardown", Push("restore", <<>>))
  /\ "teardown" \in Told /\ "restore" \in Told /\ Push("restore", <<>>) \in Talk
  /\ \A k \in D!RestoreCommit :
       /\ k \in Talk
       /\ \A i \in 1..Len(k) : k[i] # "compare_config" /\ k[i] # "reason"
  /\ \A k \in D!RefusedCommit :
       /\ k \in Talk
       /\ \A i \in 1..Len(k) : k[i] # "compare_config"
       /\ Refused(k) <=> k = <<"commit", "reason">>
<1>1. /\ "teardown" \in Told /\ "restore" \in Told /\ "commit" \in Told /\ "empty" \in Told
      /\ "nn" \in Told /\ "complete" \in Told /\ "reason" \in Told
  BY DEF Told, F!EventTypes, F!CommitEvents, F!ResultEvents
<1>2. "teardown" \in Word /\ "restore" \in Word
  BY DEF F!EventTypes, Word
<1>3. <<"teardown">> \in Talk /\ <<"teardown", "restore">> \in Talk
  BY <1>1 DEF Talk
<1>4. <<"teardown">> = Push("teardown", <<>>)
  <2>1. <<"teardown">> \in Text
    BY <1>2 DEF Text
  <2> QED
    BY <1>2, <2>1, Push0, Push1, EmptyText
<1>5. <<"teardown", "restore">> = Push("teardown", Push("restore", <<>>))
  BY <1>2, Words2, Zenon
<1>6. Push("restore", <<>>) \in Talk
  <2>1. <<>> \in Talk
    BY DEF Talk
  <2> QED
    BY <1>1, <2>1, TalkLines
<1>7. ASSUME NEW k \in D!RestoreCommit
      PROVE  k \in Talk /\ \A i \in 1..Len(k) : k[i] # "compare_config" /\ k[i] # "reason"
  <2>1. CASE k = <<"commit", "empty", "nn", "empty">>
    <3>1. k \in Talk
      BY <1>1, <2>1 DEF Talk
    <3>2. Len(k) = 4 /\ k[1] = "commit" /\ k[2] = "empty" /\ k[3] = "nn" /\ k[4] = "empty"
      BY <2>1
    <3> QED
      BY <3>1, <3>2
  <2>2. CASE k = <<"commit", "nn", "complete">>
    <3>1. k \in Talk
      BY <1>1, <2>2 DEF Talk
    <3>2. Len(k) = 3 /\ k[1] = "commit" /\ k[2] = "nn" /\ k[3] = "complete"
      BY <2>2
    <3> QED
      BY <3>1, <3>2
  <2> QED
    BY <2>1, <2>2 DEF D!RestoreCommit
<1>8. ASSUME NEW k \in D!RefusedCommit
      PROVE  /\ k \in Talk /\ \A i \in 1..Len(k) : k[i] # "compare_config"
             /\ Refused(k) <=> k = <<"commit", "reason">>
  <2>1. CASE k = <<>>
    BY <2>1 DEF Talk, Refused
  <2>2. CASE k = <<"commit">>
    <3>1. k \in Talk
      BY <1>1, <2>2 DEF Talk
    <3>2. Len(k) = 1 /\ k[1] = "commit"
      BY <2>2
    <3>3. k # <<"commit", "reason">> /\ ~Refused(k)
      BY <3>2 DEF Refused
    <3> QED
      BY <3>1, <3>2, <3>3
  <2>3. CASE k = <<"commit", "reason">>
    <3>1. k \in Talk
      BY <1>1, <2>3 DEF Talk
    <3>2. Len(k) = 2 /\ k[1] = "commit" /\ k[2] = "reason"
      BY <2>3
    <3>3. Refused(k)
      BY <3>2 DEF Refused
    <3> QED
      BY <2>3, <3>1, <3>2, <3>3
  <2>4. CASE k = <<"commit", "nn", "reason">>
    <3>1. k \in Talk
      BY <1>1, <2>4 DEF Talk
    <3>2. Len(k) = 3 /\ k[1] = "commit" /\ k[2] = "nn" /\ k[3] = "reason"
      BY <2>4
    <3>3. k # <<"commit", "reason">> /\ ~Refused(k)
      BY <3>2 DEF Refused
    <3> QED
      BY <3>1, <3>2, <3>3
  <2> QED
    BY <2>1, <2>2, <2>3, <2>4 DEF D!RefusedCommit
<1> QED
  BY <1>1, <1>3, <1>4, <1>5, <1>6, <1>7, <1>8

\* The laps after a restore, with the lines before them
LEMMA LapsAstray ==
  ASSUME NEW k \in D!RestoreCommit, NEW l \in LapLines,
         NEW lines, lines = <<"teardown", "restore">> \o k \o l
  PROVE  /\ D!Astray(lines) <=> Twice(l)
         /\ (\A i \in DOMAIN lines : lines[i] # "diff") => \A i \in 1..Len(l) : l[i] # "diff"
<1>1. PICK p : p = <<"teardown", "restore">> \o k
  OBVIOUS
<1>2. <<"teardown", "restore">> \in Talk /\ k \in Talk /\ l \in Talk
  BY RestoreTalk, LapTalk
<1>3. p \in Talk
  BY <1>1, <1>2, LinesConcat
<1>4. PICK n, m : n = Len(p) /\ m = Len(l)
  OBVIOUS
<1>5. /\ n \in Nat /\ m \in Nat /\ lines = p \o l /\ lines \in Talk /\ DOMAIN lines = 1..(n + m)
      /\ \A i \in 1..m : lines[n + i] = l[i]
  BY <1>1, <1>2, <1>3, <1>4, LinesConcat DEF Talk
<1>6. \A i \in 1..n : p[i] # "compare_config" /\ p[i] # "reason"
  <2>1. PICK j : j = Len(k)
    OBVIOUS
  <2>2. j \in Nat /\ n = 2 + j /\ p[1] = "teardown" /\ p[2] = "restore"
        /\ \A i \in 3..n : i - 2 \in 1..j /\ p[i] = k[i - 2]
    BY <1>1, <1>2, <1>4, <2>1 DEF Talk
  <2>3. \A i \in 1..j : k[i] # "compare_config" /\ k[i] # "reason"
    BY <2>1, RestoreTalk
  <2>4. \A i \in 1..n : i = 1 \/ i = 2 \/ i \in 3..n
    BY <2>2
  <2>5. ASSUME NEW i \in 1..n
        PROVE  p[i] # "compare_config" /\ p[i] # "reason"
    <3>1. CASE i \in 3..n
      BY <2>2, <2>3, <3>1
    <3> QED
      BY <2>2, <2>4, <3>1
  <2> QED
    BY <2>5
<1>7. \A i \in 1..Len(l) : l[i] # "reason"
  BY LapTalk
<1>8. (Twice(p \o l) <=> Twice(l)) /\ ~Refused(p \o l)
  BY <1>2, <1>3, <1>4, <1>6, <1>7, TwoParts
<1>9. D!Astray(lines) <=> Twice(l)
  BY <1>5, <1>8, AstrayIs
<1>10. ASSUME \A i \in DOMAIN lines : lines[i] # "diff"
       PROVE  \A i \in 1..Len(l) : l[i] # "diff"
  <2>1. \A i \in 1..m : n + i \in 1..(n + m)
    BY <1>5
  <2> QED
    BY <1>4, <1>5, <1>10, <2>1
<1> QED
  BY <1>9, <1>10

\* The same of a refused restore
LEMMA RefusedAstray ==
  ASSUME NEW k \in D!RefusedCommit, NEW lines, lines = <<"teardown", "restore">> \o k
  PROVE  D!Astray(lines) <=> k = <<"commit", "reason">>
<1>1. PICK p : p = <<"teardown", "restore">>
  OBVIOUS
<1>2. p \in Talk /\ k \in Talk
  BY <1>1, RestoreTalk
<1>3. \A i \in 1..Len(p) : p[i] # "compare_config" /\ p[i] # "commit"
  BY <1>1
<1>4. (Twice(p \o k) <=> Twice(k)) /\ (Refused(p \o k) <=> Refused(k))
  BY <1>2, <1>3, TwoParts
<1>5. ~Twice(k)
  <2>1. \A i \in 1..Len(k) : k[i] # "compare_config"
    BY RestoreTalk
  <2> QED
    BY <2>1 DEF Twice
<1>6. lines \in Talk
  BY <1>1, <1>2, LinesConcat
<1>7. Refused(k) <=> k = <<"commit", "reason">>
  BY RestoreTalk
<1> QED
  BY <1>1, <1>4, <1>5, <1>6, <1>7, AstrayIs

\* What the lines of a restore are
LEMMA RestoreForms ==
  ASSUME NEW lines
  PROVE  /\ lines \in D!RestoreGood =>
              \E k \in D!RestoreCommit, l \in D!Laps : lines = <<"teardown", "restore">> \o k \o l
         /\ lines \in D!RestoreBad =>
              \/ lines = <<"teardown">>
              \/ \E k \in D!RefusedCommit : lines = <<"teardown", "restore">> \o k
              \/ \E k \in D!RestoreCommit, l \in D!BadLaps :
                   lines = <<"teardown", "restore">> \o k \o l
BY SMT DEF D!RestoreGood, D!RestoreBad

\* A restore is read.
LEMMA ReadRestore ==
  ASSUME NEW E \in Text, NEW L, Unfit(E, L), Unfit(L, L),
         NEW st, Takes("teardown", st, Restoring(E), "keep"),
         NEW c \in F!Context, NEW e \in Events, NEW lines \in D!RestoreGood \cup D!RestoreBad
  PROVE  \E st2, c2, e2 : Reads(lines, st, c, e, st2, c2, e2) /\ Restored(lines, E, L, st2, c, e, c2, e2)
<1>1. PICK B : B = Push("gen-trans-failed", E)
  OBVIOUS
<1>2. "gen-trans-failed" \in Word /\ "action-compare" \in Word /\ "action-commit" \in Word
  BY DEF Word, F!LogStates
<1>3. B \in Text /\ Compares(B) \in Text /\ Commits(B) \in Text
  BY <1>1, <1>2, PushText DEF Compares, Commits
<1>4. Unfit(B, L)
  BY <1>1, UnfitBase
<1>5. Restoring(E) = Push("gen-restore", Commits(B))
  BY <1>1 DEF Restoring
<1>6. /\ Restoring(E) \in Torn(E) /\ Commits(B) \in Torn(E) /\ Push("commit", Compares(B)) \in Torn(E)
      /\ Compares(B) \in Torn(E) /\ Push("compare", B) \in Torn(E) /\ B \in Torn(E)
  BY <1>1 DEF Torn, Restoring
<1>7. Takes("restore", Restoring(E), Commits(B), "keep")
  BY <1>3, <1>5, BaseTakes
<1>8. Reads(<<"teardown", "restore">>, st, c, e, Commits(B), c, e)
  <2>1. <<>> \in Talk
    BY DEF Talk
  <2>2. Reads(Push("restore", <<>>), Restoring(E), c, e, Commits(B), c, e)
    BY <1>7, <2>1, RestoreTalk, ReadsNone, ReadsKeep
  <2>3. Reads(Push("teardown", Push("restore", <<>>)), st, c, e, Commits(B), c, e)
    BY <2>2, RestoreTalk, ReadsKeep
  <2> QED
    BY <2>3, RestoreTalk
<1>9. ASSUME NEW k \in D!RestoreCommit, NEW l \in LapLines, lines = <<"teardown", "restore">> \o k \o l,
             lines \in D!RestoreGood => l \in D!Laps
      PROVE  \E st2, c2, e2 : Reads(lines, st, c, e, st2, c2, e2) /\ Restored(lines, E, L, st2, c, e, c2, e2)
  <2>1. PICK c1, e1 : Reads(k, Commits(B), c, e, Compares(B), c1, e1) /\ Mildly(c, e, c1, e1)
    BY <1>3, <1>4, ReadRestoreCommit
  <2>2. c1 \in F!Context /\ e1 \in Events
    BY <2>1 DEF Mildly, SameEnds
  <2>3. PICK st2, c2, e2 :
           /\ Reads(l, Compares(B), c1, e1, st2, c2, e2) /\ Softly(c1, e1, c2, e2)
           /\ (\A i \in 1..Len(l) : l[i] # "diff") => Mildly(c1, e1, c2, e2)
           /\ Twice(l) => st2 = L
           /\ ~Twice(l) => st2 \in {Compares(B), Push("compare", B), B}
           /\ ~Twice(l) /\ l \in D!Laps => st2 = Push("compare", B)
    BY <1>3, <1>4, <2>2, ReadLaps
  <2>4. /\ D!Astray(lines) <=> Twice(l)
        /\ (\A i \in DOMAIN lines : lines[i] # "diff") => \A i \in 1..Len(l) : l[i] # "diff"
    BY <1>9, LapsAstray
  <2>5. <<"teardown", "restore">> \in Talk /\ k \in Talk /\ l \in Talk
    BY RestoreTalk, LapTalk
  <2>6. Reads(lines, st, c, e, st2, c2, e2)
    <3>1. PICK p : p = <<"teardown", "restore">> \o k
      OBVIOUS
    <3>2. p \in Talk
      BY <2>5, <3>1, LinesConcat
    <3>3. Reads(p, st, c, e, Compares(B), c1, e1)
      BY <1>8, <2>1, <2>5, <3>1, ReadsMore
    <3>4. Reads(p \o l, st, c, e, st2, c2, e2)
      BY <2>3, <2>5, <3>2, <3>3, ReadsMore
    <3> QED
      BY <1>9, <3>1, <3>4
  <2>7. Softly(c, e, c2, e2)
    BY <2>1, <2>3, SoftlyOn
  <2>8. (\A i \in 1..Len(l) : l[i] # "diff") => Mildly(c, e, c2, e2)
    BY <2>1, <2>3, SoftlyOn
  <2>9. ~Twice(l) => st2 \in Torn(E)
    BY <1>6, <2>3
  <2>10. Restored(lines, E, L, st2, c, e, c2, e2)
    BY <1>1, <1>9, <2>3, <2>4, <2>7, <2>8, <2>9 DEF Restored
  <2> QED
    BY <2>6, <2>10
<1>10. ASSUME lines \in D!RestoreGood
       PROVE  \E st2, c2, e2 : Reads(lines, st, c, e, st2, c2, e2) /\ Restored(lines, E, L, st2, c, e, c2, e2)
  <2>1. PICK k \in D!RestoreCommit, l \in D!Laps : lines = <<"teardown", "restore">> \o k \o l
    BY <1>10, RestoreForms, Zenon
  <2>2. l \in LapLines
    BY <2>1, LapsAre
  <2> QED
    BY <1>9, <2>1, <2>2
<1>11. ASSUME lines \notin D!RestoreGood, NEW k \in D!RestoreCommit, NEW l \in D!BadLaps,
              lines = <<"teardown", "restore">> \o k \o l
       PROVE  \E st2, c2, e2 : Reads(lines, st, c, e, st2, c2, e2) /\ Restored(lines, E, L, st2, c, e, c2, e2)
  <2>2. l \in LapLines
    BY LapsAre
  <2> QED
    BY <1>9, <1>11, <2>2
<1>12. ASSUME lines \notin D!RestoreGood, NEW k \in D!RefusedCommit,
              lines = <<"teardown", "restore">> \o k
       PROVE  \E st2, c2, e2 : Reads(lines, st, c, e, st2, c2, e2) /\ Restored(lines, E, L, st2, c, e, c2, e2)
  <2>1. PICK st2, c2, e2 :
          /\ Reads(k, Commits(B), c, e, st2, c2, e2) /\ Softly(c, e, c2, e2)
          /\ k = <<"commit", "reason">> => st2 = L
          /\ k # <<"commit", "reason">>
               => st2 \in {Commits(B), Push("commit", Compares(B)), Compares(B)}
    BY <1>3, <1>4, ReadRestoreCommit
  <2>2. <<"teardown", "restore">> \in Talk /\ k \in Talk
    BY RestoreTalk
  <2>3. Reads(lines, st, c, e, st2, c2, e2)
    BY <1>8, <1>12, <2>1, <2>2, ReadsMore
  <2>4. D!Astray(lines) <=> k = <<"commit", "reason">>
    BY <1>12, RefusedAstray
  <2>5. k # <<"commit", "reason">> => st2 \in Torn(E)
    BY <1>6, <2>1
  <2>6. Restored(lines, E, L, st2, c, e, c2, e2)
    BY <1>12, <2>1, <2>4, <2>5 DEF Restored
  <2> QED
    BY <2>3, <2>6
<1>13. ASSUME lines \notin D!RestoreGood, lines = <<"teardown">>
       PROVE  \E st2, c2, e2 : Reads(lines, st, c, e, st2, c2, e2) /\ Restored(lines, E, L, st2, c, e, c2, e2)
  <2>1. <<>> \in Talk
    BY DEF Talk
  <2>2. Reads(Push("teardown", <<>>), st, c, e, Restoring(E), c, e)
    BY <2>1, RestoreTalk, ReadsNone, ReadsKeep
  <2>3. Reads(lines, st, c, e, Restoring(E), c, e)
    BY <1>13, <2>2, RestoreTalk
  <2>4. ~D!Astray(lines)
    <3>1. lines \in Talk
      BY <1>13, RestoreTalk
    <3>2. Len(lines) = 1
      BY <1>13
    <3>3. ~Refused(lines) /\ ~Twice(lines)
      BY <3>2 DEF Refused, Twice
    <3> QED
      BY <3>1, <3>3, AstrayIs
  <2>5. Softly(c, e, c, e)
    BY SoftlyNone, SoftlyOn
  <2>6. Restored(lines, E, L, Restoring(E), c, e, c, e)
    BY <1>6, <1>13, <2>4, <2>5 DEF Restored
  <2> QED
    BY <2>3, <2>6
<1>14. \/ lines \in D!RestoreGood
       \/ lines = <<"teardown">>
       \/ \E k \in D!RefusedCommit : lines = <<"teardown", "restore">> \o k
       \/ \E k \in D!RestoreCommit, l \in D!BadLaps : lines = <<"teardown", "restore">> \o k \o l
  BY RestoreForms, Zenon
<1> QED
  BY <1>10, <1>11, <1>12, <1>13, <1>14

----------------------------------------------------------------------------
(* Where walk-states may be, and who ignores everything                    *)

\* "Transition failed" after a teardown
LEMMA TornEnds ==
  ASSUME NEW R \in Text, NEW s \in Torn(R)
  PROVE  Takes("trans_failed", s, R, "keep")
<1>1. PICK b : b = Push("gen-trans-failed", R)
  OBVIOUS
<1>2. {"action-commit", "action-compare", "commit", "compare", "gen-restore",
       "gen-trans-failed"} \subseteq Word
  BY DEF Word, F!LogStates
<1>3. b \in Text /\ Compares(b) \in Text /\ Commits(b) \in Text
  BY <1>1, <1>2, PushText DEF Compares, Commits
<1>4. Takes("trans_failed", b, R, "keep")
  BY <1>1, AtGenTransFailed
<1>5. Drops("trans_failed", Compares(b), b)
  BY <1>3, AtActionCompare DEF Compares
<1>6. Drops("trans_failed", Commits(b), b)
  <2>1. Drops("trans_failed", Commits(b), Compares(b))
    BY <1>3, AtActionCommit DEF Commits
  <2> QED
    BY <1>5, <2>1, DropsOn
<1>7. Drops("trans_failed", Push("gen-restore", Commits(b)), b)
  <2>1. Drops("trans_failed", Push("gen-restore", Commits(b)), Commits(b))
    BY <1>3, AtGenRestore
  <2> QED
    BY <1>6, <2>1, DropsOn
<1>8. Drops("trans_failed", Push("commit", Compares(b)), b)
  <2>1. Drops("trans_failed", Push("commit", Compares(b)), Compares(b))
    BY <1>3, AtCommit
  <2> QED
    BY <1>5, <2>1, DropsOn
<1>9. Drops("trans_failed", Push("compare", b), b)
  BY <1>3, AtCompare
<1>10. Drops("trans_failed", b, b)
  BY DropsSelf
<1>11. Drops("trans_failed", s, b)
  BY <1>1, <1>5, <1>6, <1>7, <1>8, <1>9, <1>10 DEF Torn
<1> QED
  BY <1>4, <1>11, TakesAfter

\* Before a state set, and anywhere in the walk
WalkRest == {Push("commits", WT), Push("compare", Push("rollbacks", WT)),
             Push("compare", Push("gen-trans-failed", WT)), WT}
WalkAny  == Made(WT) \cup Torn(WT) \cup WalkRest

\* A state is loaded there; how the transition goes on
LoadedOn(R) == Push("load-failure", Commits(Push("rollbacks", R)))

LEMMA TailText ==
  WT \in Text /\ ET \in Text /\ EX \in Text /\ TX \in Text /\ <<>> \in Text
<1>1. {"walk-transitions", "explore-transitions", "extended", "gen-trans-failed",
       "gen-init-failed", "teardown"} \subseteq Word
  BY DEF Word, F!LogStates
<1> QED
  BY <1>1, EmptyText, PushText DEF WT, ET, EX, TX

LEMMA WalkTakes ==
  /\ \A s \in WalkRest : /\ Takes("load", s, LoadedOn(WT), "load")
                         /\ Takes("py_test", s, Push("transition", WT), "keep")
  /\ \A s \in WalkAny : Takes("teardown", s, Restoring(WT), "keep")
  /\ \A s \in Torn(WT) \cup {WT} : Takes("failed_states", s, <<>>, "keep")
  /\ Takes("load", Push("transition", WT), LoadedOn(WT), "load")
<1>1. WT \in Text
  BY TailText
<1>2. Takes("py_test", WT, Push("transition", WT), "keep")
  BY TailTakes
<1>3. Takes("teardown", WT, Restoring(WT), "keep")
  BY TailTakes DEF Restoring
<1>4. Takes("failed_states", WT, <<>>, "keep")
  BY TailTakes
<1>5. Push("compare", Push("rollbacks", WT)) \in Made(WT)
  BY DEF Made
<1>6. Push("compare", Push("gen-trans-failed", WT)) \in Torn(WT)
  BY DEF Torn
<1>7. Drops("py_test", Push("commits", WT), WT) /\ Drops("teardown", Push("commits", WT), WT)
  BY <1>1, AtCommits DEF F!CommitEvents, F!ResultEvents
<1>8. "py_test" \in Breaks /\ "teardown" \in Breaks /\ "failed_states" \in Breaks
      /\ "py_test" \in Failing /\ "teardown" \in Failing /\ "failed_states" \in Failing
  BY DEF Breaks, Failing
<1>9. ASSUME NEW s \in WalkRest
      PROVE  /\ Takes("load", s, LoadedOn(WT), "load")
             /\ Takes("py_test", s, Push("transition", WT), "keep")
  <2>1. Takes("load", s, LoadedOn(WT), "load")
    BY LoadTakes DEF WalkRest, LoadedOn
  <2>2. Drops("py_test", s, WT)
    <3>1. Drops("py_test", Push("compare", Push("rollbacks", WT)), WT)
      BY <1>1, <1>5, <1>8, MadeFalls
    <3>2. Drops("py_test", Push("compare", Push("gen-trans-failed", WT)), WT)
      BY <1>1, <1>6, <1>8, TornFalls
    <3> QED
      BY <1>7, <3>1, <3>2, DropsSelf DEF WalkRest
  <2> QED
    BY <1>2, <2>1, <2>2, TakesAfter
<1>10. ASSUME NEW s \in WalkAny
       PROVE  Takes("teardown", s, Restoring(WT), "keep")
  <2>1. Drops("teardown", s, WT)
    <3>1. CASE s \in Made(WT)
      BY <1>1, <1>8, <3>1, MadeFalls
    <3>2. CASE s \in Torn(WT)
      BY <1>1, <1>8, <3>2, TornFalls
    <3>3. CASE s = Push("commits", WT)
      BY <1>7, <3>3
    <3>4. CASE s = WT
      BY <3>4, DropsSelf
    <3> QED
      BY <1>5, <1>6, <3>1, <3>2, <3>3, <3>4 DEF WalkAny, WalkRest
  <2> QED
    BY <1>3, <2>1, TakesAfter
<1>11. ASSUME NEW s \in Torn(WT) \cup {WT}
       PROVE  Takes("failed_states", s, <<>>, "keep")
  <2>1. Drops("failed_states", s, WT)
    <3>1. CASE s \in Torn(WT)
      BY <1>1, <1>8, <3>1, TornFalls
    <3>2. CASE s = WT
      BY <3>2, DropsSelf
    <3> QED
      BY <3>1, <3>2
  <2> QED
    BY <1>4, <2>1, TakesAfter
<1>12. Takes("load", Push("transition", WT), LoadedOn(WT), "load")
  BY <1>1, BaseTakes DEF LoadedOn
<1> QED
  BY <1>9, <1>10, <1>11, <1>12

\* The event that the filter of walk-states is sent to begin with
LEMMA WalkBegins == Takes("initial_prepare", Push("walk", <<>>), Push("commits", WT), "keep")
<1>1. {"walk", "commits", "walk-transitions"} \subseteq Word
  BY DEF Word, F!LogStates
<1>2. <<"commits", "walk-transitions">> \o <<>> = Push("commits", WT)
  BY <1>1, EmptyText, Push2 DEF WT
<1>3. ASSUME NEW ev \in GoodEvent
      PROVE  Gives(ev, Push("walk", <<>>), Push("commits", WT), "keep")
  <2>1. F!Handle("walk", ev).handled = TRUE
    BY DEF F!Handle, F!WalkState, F!Shown, F!Result
  <2>2. F!Handle("walk", ev).expansion = <<"commits", "walk-transitions">>
    BY DEF F!Handle, F!WalkState, F!Shown, F!Result
  <2>3. \A c \in F!Context, e \in Events : F!Update("walk", ev, c, e) = Does("keep", ev, c, e)
    BY DEF F!Update, Does
  <2>4. "walk" \in Word /\ <<>> \in Text
    BY <1>1, EmptyText
  <2> QED
    BY <1>2, <2>1, <2>2, <2>3, <2>4, Take
<1> QED
  BY <1>3 DEF Takes

\* Only the start of another state is heard.
Deaf(st) == \A t \in F!EventTypes : t # "start" => Takes(t, st, st, "keep")

LEMMA DeafAre == Deaf(<<>>) /\ Deaf(ET)
<1>1. Deaf(<<>>)
  BY Ignored DEF Deaf
<1>2. ASSUME NEW t, t # "start"
      PROVE  Takes(t, ET, ET, "keep")
  BY <1>2, EmptyText, AtExploreTransitions DEF ET
<1> QED
  BY <1>1, <1>2 DEF Deaf

Calm == Seq(Told \ {"start"})

LEMMA CalmFacts ==
  /\ <<>> \in Calm /\ Calm \subseteq Talk
  /\ \A ts \in Calm : ts # <<>> =>
       /\ Head(ts) \in Told \ {"start"} /\ Tail(ts) \in Calm /\ Len(ts) = Len(Tail(ts)) + 1
       /\ ts = Push(Head(ts), Tail(ts))
<1>1. <<>> \in Calm
  BY DEF Calm
<1>2. ASSUME NEW ts \in Calm
      PROVE  ts \in Talk
  BY DEF Calm, Talk
<1>3. ASSUME NEW ts \in Calm, ts # <<>>
      PROVE  /\ Head(ts) \in Told \ {"start"} /\ Tail(ts) \in Calm /\ Len(ts) = Len(Tail(ts)) + 1
             /\ ts = Push(Head(ts), Tail(ts))
  <2>1. PICK S : S = Told \ {"start"}
    OBVIOUS
  <2>2. ts \in Seq(S)
    BY <2>1 DEF Calm
  <2>3. Head(ts) \in S /\ Tail(ts) \in Seq(S) /\ Len(Tail(ts)) = Len(ts) - 1
    BY <1>3, <2>2, HeadTailProperties
  <2>4. Len(ts) = Len(Tail(ts)) + 1
    BY <2>2, <2>3
  <2>5. ts \in Text
    BY <1>2 DEF Talk, Text, Told, Word
  <2>6. Head(ts) \in Word /\ Tail(ts) \in Text
    BY <2>1, <2>3 DEF Text, Told, Word
  <2>7. Extends(ts, Head(ts), Tail(ts))
    BY <1>3, <2>2, <2>3 DEF Extends
  <2> QED
    BY <2>1, <2>3, <2>4, <2>5, <2>6, <2>7, PushIs DEF Calm
<1> QED
  BY <1>1, <1>2, <1>3

LEMMA DeafMore ==
  ASSUME NEW st, Deaf(st), NEW c \in F!Context, NEW e \in Events, NEW n \in Nat,
         \A ts \in Calm : Len(ts) = n => Reads(ts, st, c, e, st, c, e)
  PROVE  \A ts \in Calm : Len(ts) = n + 1 => Reads(ts, st, c, e, st, c, e)
<1>1. ASSUME NEW ts \in Calm, Len(ts) = n + 1
      PROVE  Reads(ts, st, c, e, st, c, e)
  <2>1. ts # <<>>
    BY <1>1 DEF Calm
  <2>2. PICK t, us : t = Head(ts) /\ us = Tail(ts)
    OBVIOUS
  <2>3. t \in Told \ {"start"} /\ us \in Calm /\ Len(ts) = Len(us) + 1 /\ ts = Push(t, us)
    BY <2>1, <2>2, CalmFacts
  <2>4. Len(us) = n
    BY <1>1, <2>3 DEF Calm
  <2>5. Takes(t, st, st, "keep")
    BY <2>3 DEF Deaf, Told
  <2>6. Reads(us, st, c, e, st, c, e)
    BY <2>3, <2>4
  <2>7. us \in Talk /\ t \in Told
    BY <2>3, CalmFacts
  <2> QED
    BY <2>3, <2>5, <2>6, <2>7, ReadsKeep
<1> QED
  BY <1>1

\* None of these few lines is heard.
LEMMA DeafReads ==
  ASSUME NEW st, Deaf(st), NEW c \in F!Context, NEW e \in Events, NEW ts \in Calm, Len(ts) <= 5
  PROVE  Reads(ts, st, c, e, st, c, e)
<1> DEFINE P(n) == \A us \in Calm : Len(us) = n => Reads(us, st, c, e, st, c, e)
<1>0. P(0)
  <2>1. ASSUME NEW us \in Calm, Len(us) = 0
        PROVE  Reads(us, st, c, e, st, c, e)
    <3>1. us = <<>>
      BY <2>1, EmptySeq DEF Calm
    <3> QED
      BY <3>1, ReadsNone
  <2> QED
    BY <2>1
<1>1. \A n \in Nat : P(n) => P(n + 1)
  BY DeafMore
<1> HIDE DEF P
<1>2. P(0) /\ P(1) /\ P(2) /\ P(3) /\ P(4) /\ P(5)
  <2>1. P(0 + 1)
    BY <1>0, <1>1
  <2>2. P(1 + 1)
    BY <2>1, <1>1
  <2>3. P(2 + 1)
    BY <2>2, <1>1
  <2>4. P(3 + 1)
    BY <2>3, <1>1
  <2>5. P(4 + 1)
    BY <2>4, <1>1
  <2> QED
    BY <1>0, <2>1, <2>2, <2>3, <2>4, <2>5
<1>3. Len(ts) \in {0, 1, 2, 3, 4, 5}
  <2>1. PICK n : n = Len(ts)
    OBVIOUS
  <2>2. n \in Nat
    BY <2>1 DEF Calm
  <2> QED
    BY <2>1, <2>2
<1>4. P(Len(ts))
  BY <1>2, <1>3
<1> QED
  BY <1>4 DEF P

\* A restore that is not heard beyond the teardown
LEMMA RestoreCalm ==
  /\ <<"teardown">> \in Calm /\ <<"teardown", "restore">> \in Calm
  /\ \A k \in D!RestoreCommit \cup D!RefusedCommit : k \in Calm /\ Len(k) <= 4
  /\ \A l \in D!Laps \cup D!BadLaps : l \in Calm /\ Len(l) <= 4
<1>1. /\ "teardown" \in Told /\ "restore" \in Told /\ "commit" \in Told /\ "empty" \in Told
      /\ "nn" \in Told /\ "complete" \in Told /\ "reason" \in Told
      /\ "compare_config" \in Told /\ "diff" \in Told
  BY DEF Told, F!EventTypes, F!CommitEvents, F!ResultEvents
<1>2. PICK S : S = Told \ {"start"}
  OBVIOUS
<1>3. Calm = Seq(S)
  BY <1>2 DEF Calm
<1>4. /\ "teardown" \in S /\ "restore" \in S /\ "commit" \in S /\ "empty" \in S
      /\ "nn" \in S /\ "complete" \in S /\ "reason" \in S
      /\ "compare_config" \in S /\ "diff" \in S
  BY <1>1, <1>2
<1>5. <<"teardown">> \in Calm /\ <<"teardown", "restore">> \in Calm
  BY <1>3, <1>4
<1>6. ASSUME NEW k \in D!RestoreCommit \cup D!RefusedCommit
      PROVE  k \in Calm /\ Len(k) <= 4
  <2>1. \/ k = <<"commit", "empty", "nn", "empty">> \/ k = <<"commit", "nn", "complete">>
        \/ k = <<>> \/ k = <<"commit">> \/ k = <<"commit", "reason">>
        \/ k = <<"commit", "nn", "reason">>
    BY DEF D!RestoreCommit, D!RefusedCommit
  <2>2. /\ <<"commit", "empty", "nn", "empty">> \in Calm /\ <<"commit", "nn", "complete">> \in Calm
        /\ <<>> \in Calm /\ <<"commit">> \in Calm /\ <<"commit", "reason">> \in Calm
        /\ <<"commit", "nn", "reason">> \in Calm
    BY <1>3, <1>4
  <2>3. k \in Calm
    BY <2>1, <2>2
  <2>4. Len(k) <= 4
    <3>1. CASE k = <<"commit", "empty", "nn", "empty">>
      BY <3>1
    <3>2. CASE k = <<"commit", "nn", "complete">>
      BY <3>2
    <3>3. CASE k = <<>>
      BY <3>3
    <3>4. CASE k = <<"commit">>
      BY <3>4
    <3>5. CASE k = <<"commit", "reason">>
      BY <3>5
    <3>6. CASE k = <<"commit", "nn", "reason">>
      BY <3>6
    <3> QED
      BY <2>1, <3>1, <3>2, <3>3, <3>4, <3>5, <3>6
  <2> QED
    BY <2>3, <2>4
<1>7. ASSUME NEW l \in LapLines
      PROVE  l \in Calm /\ Len(l) <= 4
  <2>1. PICK C : C = "compare_config"
    OBVIOUS
  <2>2. PICK X : X = "diff"
    OBVIOUS
  <2>3. C \in S /\ X \in S
    BY <1>4, <2>1, <2>2
  <2>4. \/ l = <<>> \/ l = <<C>> \/ l = <<C, X>> \/ l = <<C, C>> \/ l = <<C, C, X>>
        \/ l = <<C, X, C>> \/ l = <<C, X, C, X>>
    BY <2>1, <2>2 DEF LapLines
  <2>5. CASE l = <<>>
    BY <1>3, <2>5
  <2>6. CASE l = <<C>>
    BY <1>3, <2>3, <2>6
  <2>7. CASE l = <<C, X>>
    BY <1>3, <2>3, <2>7
  <2>8. CASE l = <<C, C>>
    BY <1>3, <2>3, <2>8
  <2>9. CASE l = <<C, C, X>>
    BY <1>3, <2>3, <2>9
  <2>10. CASE l = <<C, X, C>>
    BY <1>3, <2>3, <2>10
  <2>11. CASE l = <<C, X, C, X>>
    BY <1>3, <2>3, <2>11
  <2> QED
    BY <2>4, <2>5, <2>6, <2>7, <2>8, <2>9, <2>10, <2>11
<1> QED
  BY <1>5, <1>6, <1>7, LapsAre

LEMMA ReadRestoreEnd ==
  ASSUME NEW st, NEW st2, Takes("teardown", st, st2, "keep"), Deaf(st2),
         NEW c \in F!Context, NEW e \in Events, NEW lines \in D!RestoreGood \cup D!RestoreBad
  PROVE  Reads(lines, st, c, e, st2, c, e) /\ lines \in Talk
<1>1. Reads(<<"teardown">>, st, c, e, st2, c, e)
  <2>1. Reads(<<>>, st2, c, e, st2, c, e)
    BY ReadsNone
  <2>2. <<>> \in Talk
    BY CalmFacts
  <2>3. Reads(Push("teardown", <<>>), st, c, e, st2, c, e)
    BY <2>1, <2>2, RestoreTalk, ReadsKeep
  <2> QED
    BY <2>3, RestoreTalk
<1>2. Reads(<<"teardown", "restore">>, st, c, e, st2, c, e)
  <2>1. Push("restore", <<>>) \in Calm /\ Len(Push("restore", <<>>)) <= 5
    <3>1. "restore" \in Told \ {"start"}
      BY RestoreTalk
    <3>0. PICK u : u = <<"restore">>
      OBVIOUS
    <3>2. u \in Calm /\ Len(u) = 1
      BY <3>0, <3>1 DEF Calm
    <3>3. u = Push("restore", <<>>)
      <4>1. "restore" \in Word
        BY DEF Word, F!EventTypes
      <4>2. u \in Text
        BY <3>0, <4>1 DEF Text
      <4>3. u \o <<>> = Push("restore", <<>>)
        BY <3>0, <4>1, Push1, EmptyText
      <4> QED
        BY <4>2, <4>3, Push0
    <3>4. 1 <= 5
      OBVIOUS
    <3> QED
      BY <3>2, <3>3, <3>4
  <2>2. Reads(Push("restore", <<>>), st2, c, e, st2, c, e)
    BY <2>1, DeafReads
  <2>3. Reads(Push("teardown", Push("restore", <<>>)), st, c, e, st2, c, e)
    BY <2>2, RestoreTalk, ReadsKeep
  <2> QED
    BY <2>3, RestoreTalk
<1>3. ASSUME NEW k \in D!RestoreCommit \cup D!RefusedCommit
      PROVE  /\ Reads(<<"teardown", "restore">> \o k, st, c, e, st2, c, e)
             /\ <<"teardown", "restore">> \o k \in Talk
  <2>1. k \in Calm /\ Len(k) <= 5 /\ k \in Talk
    <3>1. k \in Calm /\ Len(k) <= 4
      BY RestoreCalm
    <3>2. Len(k) \in Nat
      BY <3>1 DEF Calm
    <3> QED
      BY <3>1, <3>2, CalmFacts
  <2>2. Reads(k, st2, c, e, st2, c, e)
    BY <2>1, DeafReads
  <2> QED
    BY <1>2, <2>1, <2>2, RestoreTalk, ReadsMore, LinesConcat
<1>4. ASSUME NEW k \in D!RestoreCommit, NEW l \in D!Laps \cup D!BadLaps
      PROVE  /\ Reads(<<"teardown", "restore">> \o k \o l, st, c, e, st2, c, e)
             /\ <<"teardown", "restore">> \o k \o l \in Talk
  <2>1. l \in Calm /\ Len(l) <= 5 /\ l \in Talk
    <3>1. l \in Calm /\ Len(l) <= 4
      BY RestoreCalm
    <3>2. Len(l) \in Nat
      BY <3>1 DEF Calm
    <3> QED
      BY <3>1, <3>2, CalmFacts
  <2>2. Reads(l, st2, c, e, st2, c, e)
    BY <2>1, DeafReads
  <2>3. PICK p : p = <<"teardown", "restore">> \o k
    OBVIOUS
  <2>4. Reads(p, st, c, e, st2, c, e) /\ p \in Talk
    BY <1>3, <2>3
  <2>5. Reads(p \o l, st, c, e, st2, c, e) /\ p \o l \in Talk
    BY <2>1, <2>2, <2>4, ReadsMore, LinesConcat
  <2> QED
    BY <2>3, <2>5
<1>5. \/ \E k \in D!RestoreCommit, l \in D!Laps \cup D!BadLaps :
           lines = <<"teardown", "restore">> \o k \o l
      \/ \E k \in D!RefusedCommit : lines = <<"teardown", "restore">> \o k
      \/ lines = <<"teardown">>
  <2>1. lines \in D!RestoreGood => \E k \in D!RestoreCommit, l \in D!Laps :
           lines = <<"teardown", "restore">> \o k \o l
    BY RestoreForms
  <2>2. lines \in D!RestoreBad =>
              \/ lines = <<"teardown">>
              \/ \E k \in D!RefusedCommit : lines = <<"teardown", "restore">> \o k
              \/ \E k \in D!RestoreCommit, l \in D!BadLaps :
                   lines = <<"teardown", "restore">> \o k \o l
    BY RestoreForms
  <2>3. lines \in D!RestoreGood \/ lines \in D!RestoreBad
    OBVIOUS
  <2> QED
    BY <2>1, <2>2, <2>3, Zenon
<1> QED
  BY <1>1, <1>3, <1>4, <1>5, RestoreTalk

----------------------------------------------------------------------------
(* What an operation makes of the last load, and of its record             *)

\* While nothing has failed, a transition is being recorded, and the context
\* knows whether a rollback has begun.
Fits(c, x) == x.failure = "none" => c.to # NoState /\ c.rollback = x.rolling

\* The operation o has printed these lines, and the load x has become y.
EndedAs(y, x, o, lines, fails, told) ==
  /\ y \in D!Tested
  /\ y.to = x.to /\ y.from = x.from /\ y.rolling = x.rolling /\ y.blurred = x.blurred
  /\ y.astray = (x.astray \/ D!Astray(lines))
  /\ x.failure = "none" /\ fails =>
       y.failure = (IF x.rolling THEN "rollback" ELSE o) /\ y.told = told
  /\ ~(x.failure = "none" /\ fails) => y.failure = x.failure /\ y.told = x.told

\* Of an open record, the failure has not been told.
LEMMA OpenUntold ==
  ASSUME NEW c \in F!Context, NEW e \in Events, NEW g \in Loads, NEW x \in D!Tested,
         Recs(c, e, Append(g, x)), c.to # NoState
  PROVE  ~x.told
BY RecOpen

\* The filter notes the action; what has failed is not told.
LEMMA NotedStep ==
  ASSUME NEW c \in F!Context, NEW e \in Events, NEW g \in Loads, NEW x \in D!Tested,
         Recs(c, e, Append(g, x)), Fits(c, x), NEW o \in {"commit", "compare_config"},
         NEW lines, NEW fails \in BOOLEAN, NEW told \in BOOLEAN, ~told,
         NEW y, EndedAs(y, x, o, lines, fails, told), NEW n, n = Noted(c, o)
  PROVE  Recs(n, e, Append(g, y)) /\ SameEnds(c, n) /\ (~fails => Fits(n, y))
<1>1. o \in {"commit", "compare_config", "rollback"} /\ o # "rollback"
  OBVIOUS
<1>2. Append(g, x) \in Loads
  BY LoadsMore
<1>3. /\ Recs(n, e, Append(g, x)) /\ SameEnds(c, n) /\ n.to = c.to
      /\ n.rollback = (c.rollback \/ o = "rollback")
  BY <1>1, RecNoted
<1>4. n.rollback = c.rollback
  BY <1>1, <1>3 DEF F!Context
<1>5. n \in F!Context
  BY <1>3 DEF SameEnds
<1>6. y \in D!Tested /\ y.to = x.to /\ y.from = x.from /\ (x.blurred => y.blurred)
  BY DEF EndedAs
<1>7. y.told = x.told /\ (x.told => y.failure = x.failure) /\ (x.failure # "none" => y.failure # "none")
  <2>1. CASE x.failure = "none" /\ fails
    <3>1. c.to # NoState
      BY <2>1 DEF Fits
    <3>2. ~x.told
      BY <3>1, OpenUntold
    <3>3. x.told = FALSE
      BY <3>2 DEF D!Tested
    <3>4. y.told = FALSE
      BY <2>1 DEF EndedAs
    <3> QED
      BY <2>1, <3>3, <3>4
  <2>2. CASE ~(x.failure = "none" /\ fails)
    BY <2>2 DEF EndedAs
  <2> QED
    BY <2>1, <2>2
<1>8. Recs(n, e, Append(g, y))
  BY <1>3, <1>5, <1>6, <1>7, RecChange
<1>9. ASSUME ~fails
      PROVE  Fits(n, y)
  BY <1>3, <1>4, <1>9 DEF Fits, EndedAs
<1> QED
  BY <1>3, <1>8, <1>9

\* The filter notes the action, and then its failure.
LEMMA FailStep ==
  ASSUME NEW c \in F!Context, NEW e \in Events, NEW g \in Loads, NEW x \in D!Tested,
         Recs(c, e, Append(g, x)), Fits(c, x), NEW o \in {"commit", "compare_config"},
         NEW lines, NEW told \in BOOLEAN, NEW y, EndedAs(y, x, o, lines, TRUE, told),
         NEW n, n = Noted(c, o), NEW d, d = F!FailTransition(n, e)
  PROVE  Recs(d.c, d.e, Append(g, y)) /\ d.e \in Events /\ SameEnds(c, d.c) /\ Fits(d.c, y)
<1>1. o \in {"commit", "compare_config", "rollback"} /\ o # "rollback" /\ o # "none"
  OBVIOUS
<1>2. Append(g, x) \in Loads
  BY LoadsMore
<1>3. /\ Recs(n, e, Append(g, x)) /\ SameEnds(c, n) /\ n.to = c.to /\ n.event = o
      /\ n.rollback = (c.rollback \/ o = "rollback")
  BY <1>1, RecNoted
<1>4. n.rollback = c.rollback /\ n \in F!Context
  BY <1>1, <1>3 DEF F!Context, SameEnds
<1>5. y \in D!Tested /\ y.to = x.to /\ y.from = x.from
  BY DEF EndedAs
<1>6. y.failure # "none"
  BY <1>1 DEF EndedAs
<1>7. ASSUME n.to # NoState, y.told
      PROVE  y.failure = IF n.rollback THEN "rollback" ELSE n.event
  <2>1. ~x.told
    BY <1>3, <1>7, OpenUntold
  <2>2. x.failure = "none"
    BY <1>7, <2>1 DEF EndedAs
  <2>3. n.rollback = x.rolling
    BY <1>4, <2>2 DEF Fits
  <2>4. y.failure = IF x.rolling THEN "rollback" ELSE o
    BY <2>2 DEF EndedAs
  <2> QED
    BY <1>3, <2>3, <2>4
<1>8. ASSUME n.to = NoState
      PROVE  /\ y.told = x.told /\ (x.told => y.failure = x.failure)
             /\ x.failure # "none" => y.failure # "none"
             /\ x.blurred => y.blurred
  <2>1. x.failure # "none"
    BY <1>3, <1>8 DEF Fits
  <2> QED
    BY <2>1 DEF EndedAs
<1>9. Recs(d.c, d.e, Append(g, y)) /\ d.e \in Events /\ SameEnds(n, d.c)
  BY <1>3, <1>4, <1>5, <1>6, <1>7, <1>8, RecFail
<1>10. SameEnds(c, d.c)
  BY <1>3, <1>9 DEF SameEnds
<1> QED
  BY <1>6, <1>9, <1>10 DEF Fits

\* A rollback has begun.
LEMMA RollStep ==
  ASSUME NEW c \in F!Context, NEW e \in Events, NEW g \in Loads, NEW x \in D!Tested,
         Recs(c, e, Append(g, x)), Fits(c, x), NEW fails \in BOOLEAN, NEW y \in D!Tested,
         y.to = x.to, y.from = x.from, y.told = x.told, y.rolling = TRUE, y.blurred = x.blurred,
         y.failure = IF fails /\ x.failure = "none" THEN "rollback" ELSE x.failure,
         NEW n, n = Noted(c, "rollback")
  PROVE  Recs(n, e, Append(g, y)) /\ SameEnds(c, n) /\ Fits(n, y)
<1>1. "rollback" \in {"commit", "compare_config", "rollback"}
  OBVIOUS
<1>2. Append(g, x) \in Loads
  BY LoadsMore
<1>3. /\ Recs(n, e, Append(g, x)) /\ SameEnds(c, n) /\ n.to = c.to
      /\ n.rollback = (c.rollback \/ "rollback" = "rollback")
  BY <1>1, RecNoted
<1>4. n \in F!Context /\ n.rollback = TRUE
  BY <1>3 DEF SameEnds
<1>5. x.told => y.failure = x.failure
  <2>1. CASE c.to # NoState
    BY <2>1, OpenUntold
  <2>2. CASE c.to = NoState
    BY <2>2 DEF Fits
  <2> QED
    BY <2>1, <2>2
<1>6. Recs(n, e, Append(g, y))
  BY <1>3, <1>4, <1>5, RecChange
<1>7. Fits(n, y)
  BY <1>3, <1>4 DEF Fits
<1> QED
  BY <1>3, <1>6, <1>7

----------------------------------------------------------------------------
(* The lines of the operations, and where the filter gets to               *)

\* What a commit prints that succeeds; that puts a queue item, which fails; and
\* that is aborted
CommitDone(lines) ==
  \/ lines = <<"commit", "empty", "noqueue", "empty">>
  \/ lines = <<"commit", "empty", "queue", "empty">>
  \/ lines = <<"commit", "noqueue", "complete">>
  \/ lines = <<"commit", "queue", "completed", "complete">>
ItemFailed(lines, told) ==
  \/ lines = <<"commit", "queue", "failed", "complete">> /\ told = FALSE
  \/ lines = <<"commit", "queue", "failed", "reason", "complete">> /\ told = TRUE
Refusal(lines, told) ==
  \/ lines = <<"commit">> /\ told = FALSE
  \/ lines = <<"commit", "noqueue">> /\ told = FALSE
  \/ lines = <<"commit", "queue">> /\ told = FALSE
  \/ lines = <<"commit", "queue", "reason">> /\ told = FALSE
  \/ lines = <<"commit", "noqueue", "reason">> /\ told = TRUE

LEMMA TalkSplit ==
  ASSUME NEW ts \in Talk, ts # <<>>
  PROVE  \E us \in Talk : ts[1] \in Told /\ ts = Push(ts[1], us)
<1>1. PICK us, t : us = Tail(ts) /\ t = Head(ts)
  OBVIOUS
<1>2. PICK S : S = Told
  OBVIOUS
<1>3. ts \in Seq(S)
  BY <1>2 DEF Talk
<1>4. t \in S /\ us \in Seq(S) /\ t = ts[1] /\ Len(us) = Len(ts) - 1
  BY <1>1, <1>3, HeadTailProperties
<1>5. Extends(ts, t, us)
  BY <1>1, <1>3, <1>4 DEF Extends
<1>6. t \in Word /\ us \in Text /\ ts \in Text
  BY <1>2, <1>3, <1>4 DEF Word, Text, Told
<1>7. ts = Push(t, us)
  BY <1>5, <1>6, PushIs
<1> QED
  BY <1>2, <1>4, <1>7 DEF Talk

LEMMA ReadsHead ==
  ASSUME NEW ts \in Talk, ts # <<>>, NEW t, t = ts[1], NEW st1, NEW st2, NEW st3,
         NEW c \in F!Context, NEW e \in Events, NEW c2, NEW e2, Drops(t, st1, st2),
         Reads(ts, st2, c, e, st3, c2, e2)
  PROVE  Reads(ts, st1, c, e, st3, c2, e2)
<1>1. PICK us \in Talk : t \in Told /\ ts = Push(t, us)
  BY TalkSplit
<1> QED
  BY <1>1, ReadsDrop

\* Only a reason right after "commit" is not expected.
LEMMA CommitAstray ==
  ASSUME NEW q \in Talk, q # <<>>, q[1] = "commit",
         \A i \in 2..Len(q) : q[i] # "commit" /\ q[i] # "compare_config"
  PROVE  D!Astray(q) <=> Len(q) >= 2 /\ q[2] = "reason"
<1>1. PICK n : n = Len(q)
  OBVIOUS
<1>2. n \in Nat /\ n >= 1
  <2>1. n \in Nat
    BY <1>1 DEF Talk
  <2>2. n # 0
    BY <1>1, EmptySeq DEF Talk
  <2> QED
    BY <2>1, <2>2
<1>3. \A i \in 1..n : i = 1 \/ i \in 2..n
  BY <1>2
<1>4. ~Twice(q)
  BY <1>1, <1>2, <1>3 DEF Twice
<1>5. Refused(q) <=> n >= 2 /\ q[2] = "reason"
  BY <1>1, <1>2, <1>3 DEF Refused
<1> QED
  BY <1>1, <1>4, <1>5, AstrayIs

LEMMA CommitTalk ==
  /\ \A lines : CommitDone(lines) => lines \in Talk /\ lines # <<>> /\ lines[1] = "commit" /\ ~D!Astray(lines)
  /\ \A lines, told : ItemFailed(lines, told) => lines \in Talk /\ lines # <<>> /\ lines[1] = "commit" /\ ~D!Astray(lines)
  /\ \A lines, told : Refusal(lines, told) => lines \in Talk /\ lines # <<>> /\ lines[1] = "commit" /\ ~D!Astray(lines)
  /\ <<"commit", "reason">> \in Talk /\ <<"commit", "reason">> # <<>> /\ <<"commit", "reason">>[1] = "commit"
  /\ D!Astray(<<"commit", "reason">>)
  /\ <<"commit", "empty">> \in Talk /\ <<"commit", "empty">> # <<>> /\ <<"commit", "empty">>[1] = "commit"
  /\ <<"commit">> \in Talk /\ <<"commit">> # <<>> /\ <<"commit">>[1] = "commit"
<1> DEFINE Plain(q) == q \in Talk /\ q # <<>> /\ q[1] = "commit" /\ ~D!Astray(q)
<1>t. /\ "commit" \in Told /\ "empty" \in Told /\ "noqueue" \in Told /\ "queue" \in Told
      /\ "complete" \in Told /\ "completed" \in Told /\ "failed" \in Told /\ "reason" \in Told
  BY DEF Told, F!EventTypes, F!CommitEvents, F!ResultEvents
<1>1. ASSUME NEW q, q = <<"commit", "empty", "noqueue", "empty">>
      PROVE  Plain(q)
  <2>1. q \in Talk
    BY <1>t, <1>1 DEF Talk
  <2>2. Len(q) = 4 /\ q[1] = "commit" /\ q[2] = "empty" /\ q[3] = "noqueue" /\ q[4] = "empty"
    BY <1>1
  <2>3. q # <<>>
    BY <2>2
  <2>4. \A i \in 2..Len(q) : q[i] # "commit" /\ q[i] # "compare_config"
    BY <2>2
  <2>5. D!Astray(q) <=> Len(q) >= 2 /\ q[2] = "reason"
    BY <2>1, <2>2, <2>3, <2>4, CommitAstray
  <2> QED
    BY <2>1, <2>2, <2>3, <2>5
<1>2. ASSUME NEW q, q = <<"commit", "empty", "queue", "empty">>
      PROVE  Plain(q)
  <2>1. q \in Talk
    BY <1>t, <1>2 DEF Talk
  <2>2. Len(q) = 4 /\ q[1] = "commit" /\ q[2] = "empty" /\ q[3] = "queue" /\ q[4] = "empty"
    BY <1>2
  <2>3. q # <<>>
    BY <2>2
  <2>4. \A i \in 2..Len(q) : q[i] # "commit" /\ q[i] # "compare_config"
    BY <2>2
  <2>5. D!Astray(q) <=> Len(q) >= 2 /\ q[2] = "reason"
    BY <2>1, <2>2, <2>3, <2>4, CommitAstray
  <2> QED
    BY <2>1, <2>2, <2>3, <2>5
<1>3. ASSUME NEW q, q = <<"commit", "noqueue", "complete">>
      PROVE  Plain(q)
  <2>1. q \in Talk
    BY <1>t, <1>3 DEF Talk
  <2>2. Len(q) = 3 /\ q[1] = "commit" /\ q[2] = "noqueue" /\ q[3] = "complete"
    BY <1>3
  <2>3. q # <<>>
    BY <2>2
  <2>4. \A i \in 2..Len(q) : q[i] # "commit" /\ q[i] # "compare_config"
    BY <2>2
  <2>5. D!Astray(q) <=> Len(q) >= 2 /\ q[2] = "reason"
    BY <2>1, <2>2, <2>3, <2>4, CommitAstray
  <2> QED
    BY <2>1, <2>2, <2>3, <2>5
<1>4. ASSUME NEW q, q = <<"commit", "queue", "completed", "complete">>
      PROVE  Plain(q)
  <2>1. q \in Talk
    BY <1>t, <1>4 DEF Talk
  <2>2. Len(q) = 4 /\ q[1] = "commit" /\ q[2] = "queue" /\ q[3] = "completed" /\ q[4] = "complete"
    BY <1>4
  <2>3. q # <<>>
    BY <2>2
  <2>4. \A i \in 2..Len(q) : q[i] # "commit" /\ q[i] # "compare_config"
    BY <2>2
  <2>5. D!Astray(q) <=> Len(q) >= 2 /\ q[2] = "reason"
    BY <2>1, <2>2, <2>3, <2>4, CommitAstray
  <2> QED
    BY <2>1, <2>2, <2>3, <2>5
<1>5. ASSUME NEW q, q = <<"commit", "queue", "failed", "complete">>
      PROVE  Plain(q)
  <2>1. q \in Talk
    BY <1>t, <1>5 DEF Talk
  <2>2. Len(q) = 4 /\ q[1] = "commit" /\ q[2] = "queue" /\ q[3] = "failed" /\ q[4] = "complete"
    BY <1>5
  <2>3. q # <<>>
    BY <2>2
  <2>4. \A i \in 2..Len(q) : q[i] # "commit" /\ q[i] # "compare_config"
    BY <2>2
  <2>5. D!Astray(q) <=> Len(q) >= 2 /\ q[2] = "reason"
    BY <2>1, <2>2, <2>3, <2>4, CommitAstray
  <2> QED
    BY <2>1, <2>2, <2>3, <2>5
<1>6. ASSUME NEW q, q = <<"commit", "queue", "failed", "reason", "complete">>
      PROVE  Plain(q)
  <2>1. q \in Talk
    BY <1>t, <1>6 DEF Talk
  <2>2. Len(q) = 5 /\ q[1] = "commit" /\ q[2] = "queue" /\ q[3] = "failed" /\ q[4] = "reason" /\ q[5] = "complete"
    BY <1>6
  <2>3. q # <<>>
    BY <2>2
  <2>4. \A i \in 2..Len(q) : q[i] # "commit" /\ q[i] # "compare_config"
    BY <2>2
  <2>5. D!Astray(q) <=> Len(q) >= 2 /\ q[2] = "reason"
    BY <2>1, <2>2, <2>3, <2>4, CommitAstray
  <2> QED
    BY <2>1, <2>2, <2>3, <2>5
<1>7. ASSUME NEW q, q = <<"commit">>
      PROVE  Plain(q)
  <2>1. q \in Talk
    BY <1>t, <1>7 DEF Talk
  <2>2. Len(q) = 1 /\ q[1] = "commit"
    BY <1>7
  <2>3. q # <<>>
    BY <2>2
  <2>4. \A i \in 2..Len(q) : q[i] # "commit" /\ q[i] # "compare_config"
    BY <2>2
  <2>5. D!Astray(q) <=> Len(q) >= 2 /\ q[2] = "reason"
    BY <2>1, <2>2, <2>3, <2>4, CommitAstray
  <2> QED
    BY <2>1, <2>2, <2>3, <2>5
<1>8. ASSUME NEW q, q = <<"commit", "noqueue">>
      PROVE  Plain(q)
  <2>1. q \in Talk
    BY <1>t, <1>8 DEF Talk
  <2>2. Len(q) = 2 /\ q[1] = "commit" /\ q[2] = "noqueue"
    BY <1>8
  <2>3. q # <<>>
    BY <2>2
  <2>4. \A i \in 2..Len(q) : q[i] # "commit" /\ q[i] # "compare_config"
    BY <2>2
  <2>5. D!Astray(q) <=> Len(q) >= 2 /\ q[2] = "reason"
    BY <2>1, <2>2, <2>3, <2>4, CommitAstray
  <2> QED
    BY <2>1, <2>2, <2>3, <2>5
<1>9. ASSUME NEW q, q = <<"commit", "queue">>
      PROVE  Plain(q)
  <2>1. q \in Talk
    BY <1>t, <1>9 DEF Talk
  <2>2. Len(q) = 2 /\ q[1] = "commit" /\ q[2] = "queue"
    BY <1>9
  <2>3. q # <<>>
    BY <2>2
  <2>4. \A i \in 2..Len(q) : q[i] # "commit" /\ q[i] # "compare_config"
    BY <2>2
  <2>5. D!Astray(q) <=> Len(q) >= 2 /\ q[2] = "reason"
    BY <2>1, <2>2, <2>3, <2>4, CommitAstray
  <2> QED
    BY <2>1, <2>2, <2>3, <2>5
<1>10. ASSUME NEW q, q = <<"commit", "queue", "reason">>
       PROVE  Plain(q)
  <2>1. q \in Talk
    BY <1>t, <1>10 DEF Talk
  <2>2. Len(q) = 3 /\ q[1] = "commit" /\ q[2] = "queue" /\ q[3] = "reason"
    BY <1>10
  <2>3. q # <<>>
    BY <2>2
  <2>4. \A i \in 2..Len(q) : q[i] # "commit" /\ q[i] # "compare_config"
    BY <2>2
  <2>5. D!Astray(q) <=> Len(q) >= 2 /\ q[2] = "reason"
    BY <2>1, <2>2, <2>3, <2>4, CommitAstray
  <2> QED
    BY <2>1, <2>2, <2>3, <2>5
<1>11. ASSUME NEW q, q = <<"commit", "noqueue", "reason">>
       PROVE  Plain(q)
  <2>1. q \in Talk
    BY <1>t, <1>11 DEF Talk
  <2>2. Len(q) = 3 /\ q[1] = "commit" /\ q[2] = "noqueue" /\ q[3] = "reason"
    BY <1>11
  <2>3. q # <<>>
    BY <2>2
  <2>4. \A i \in 2..Len(q) : q[i] # "commit" /\ q[i] # "compare_config"
    BY <2>2
  <2>5. D!Astray(q) <=> Len(q) >= 2 /\ q[2] = "reason"
    BY <2>1, <2>2, <2>3, <2>4, CommitAstray
  <2> QED
    BY <2>1, <2>2, <2>3, <2>5
<1>12. ASSUME NEW q, q = <<"commit", "reason">>
       PROVE  q \in Talk /\ q # <<>> /\ q[1] = "commit" /\ D!Astray(q)
  <2>1. q \in Talk
    BY <1>t, <1>12 DEF Talk
  <2>2. Len(q) = 2 /\ q[1] = "commit" /\ q[2] = "reason"
    BY <1>12
  <2>3. q # <<>>
    BY <2>2
  <2>4. \A i \in 2..Len(q) : q[i] # "commit" /\ q[i] # "compare_config"
    BY <2>2
  <2>5. D!Astray(q) <=> Len(q) >= 2 /\ q[2] = "reason"
    BY <2>1, <2>2, <2>3, <2>4, CommitAstray
  <2> QED
    BY <2>1, <2>2, <2>3, <2>5
<1>13. ASSUME NEW q, q = <<"commit", "empty">>
       PROVE  Plain(q)
  <2>1. q \in Talk
    BY <1>t, <1>13 DEF Talk
  <2>2. Len(q) = 2 /\ q[1] = "commit" /\ q[2] = "empty"
    BY <1>13
  <2>3. q # <<>>
    BY <2>2
  <2>4. \A i \in 2..Len(q) : q[i] # "commit" /\ q[i] # "compare_config"
    BY <2>2
  <2>5. D!Astray(q) <=> Len(q) >= 2 /\ q[2] = "reason"
    BY <2>1, <2>2, <2>3, <2>4, CommitAstray
  <2> QED
    BY <2>1, <2>2, <2>3, <2>5
<1> HIDE DEF Plain
<1>20. \A lines : CommitDone(lines) => Plain(lines)
  BY <1>1, <1>2, <1>3, <1>4 DEF CommitDone
<1>21. \A lines, told : ItemFailed(lines, told) => Plain(lines)
  BY <1>5, <1>6 DEF ItemFailed
<1>22. \A lines, told : Refusal(lines, told) => Plain(lines)
  BY <1>7, <1>8, <1>9, <1>10, <1>11 DEF Refusal
<1>23. Plain(<<"commit">>)
  BY <1>7
<1>24. Plain(<<"commit", "empty">>)
  BY <1>13
<1> QED
  BY <1>20, <1>21, <1>22, <1>23, <1>24, <1>12 DEF Plain

\* After a load, or a rollback
Fresh(R) == {LoadedOn(R), Commits(Push("rollbacks", R))}

LEMMA FreshReads ==
  ASSUME NEW R \in Text, NEW st \in Fresh(R), NEW ts \in Talk, ts # <<>>, ts[1] = "commit",
         NEW c \in F!Context, NEW e \in Events, NEW st2, NEW c2, NEW e2,
         Reads(ts, Commits(Push("rollbacks", R)), c, e, st2, c2, e2)
  PROVE  Reads(ts, st, c, e, st2, c2, e2)
<1>1. {"rollbacks", "action-commit", "action-compare"} \subseteq Word
  BY DEF Word, F!LogStates
<1>2. Commits(Push("rollbacks", R)) \in Text
  BY <1>1, PushText DEF Commits, Compares
<1>3. Drops("commit", LoadedOn(R), Commits(Push("rollbacks", R)))
  BY <1>2, AtLoadFailure DEF LoadedOn
<1>4. CASE st = LoadedOn(R)
  BY <1>3, <1>4, ReadsHead
<1>5. CASE st = Commits(Push("rollbacks", R))
  BY <1>5
<1> QED
  BY <1>4, <1>5 DEF Fresh

\* A commit is read.
LEMMA ReadCommit ==
  ASSUME NEW R \in Text, NEW L, Unfit(R, L), NEW st \in Fresh(R), NEW b, b = Push("rollbacks", R),
         NEW c \in F!Context, NEW e \in Events, NEW cn, cn = Noted(c, "commit"),
         NEW fc, NEW fe, fc = F!FailTransition(cn, e).c, fe = F!FailTransition(cn, e).e
  PROVE  /\ \A lines : CommitDone(lines) => Reads(lines, st, c, e, Compares(b), cn, e)
         /\ \A lines, told : ItemFailed(lines, told) =>
              IF told THEN Reads(lines, st, c, e, Compares(b), fc, fe)
              ELSE Reads(lines, st, c, e, Compares(b), cn, e)
         /\ \A lines, told : Refusal(lines, told) => \E st2 \in Made(R) :
              IF told THEN Reads(lines, st, c, e, st2, fc, fe)
              ELSE Reads(lines, st, c, e, st2, cn, e)
         /\ Reads(<<"commit", "reason">>, st, c, e, L, cn, e)
         /\ Reads(<<"commit">>, st, c, e, Push("commit", Compares(b)), cn, e)
         /\ Reads(<<"commit", "empty">>, st, c, e, Push("commit", Compares(b)), cn, e)
<1>1. b \in Text
  <2>1. "rollbacks" \in Word
    BY DEF Word, F!LogStates
  <2> QED
    BY <2>1, PushText
<1>2. Takes("reason", b, L, "keep")
  BY UnfitBase DEF Unfit
<1>3. "noqueue" \in {"noqueue", "nn"}
  OBVIOUS
<1>4. /\ Reads(<<"commit">>, Commits(b), c, e, Push("commit", Compares(b)), cn, e)
      /\ Reads(<<"commit", "noqueue">>, Commits(b), c, e, Push("commit-result", Compares(b)), cn, e)
      /\ Reads(<<"commit", "queue">>, Commits(b), c, e, Push("commit-queue", Compares(b)), cn, e)
      /\ Reads(<<"commit", "empty">>, Commits(b), c, e, Push("commit", Compares(b)), cn, e)
      /\ Reads(<<"commit", "empty", "noqueue", "empty">>, Commits(b), c, e, Compares(b), cn, e)
      /\ Reads(<<"commit", "empty", "queue", "empty">>, Commits(b), c, e, Compares(b), cn, e)
      /\ Reads(<<"commit", "noqueue", "complete">>, Commits(b), c, e, Compares(b), cn, e)
      /\ Reads(<<"commit", "queue", "completed", "complete">>, Commits(b), c, e, Compares(b), cn, e)
      /\ Reads(<<"commit", "queue", "failed", "complete">>, Commits(b), c, e, Compares(b), cn, e)
      /\ Reads(<<"commit", "queue", "failed", "reason", "complete">>,
                Commits(b), c, e, Compares(b), fc, fe)
      /\ Reads(<<"commit", "noqueue", "reason">>, Commits(b), c, e, Compares(b), fc, fe)
      /\ Reads(<<"commit", "queue", "reason">>,
                Commits(b), c, e, Push("commit-failed", Push("commit-complete", Compares(b))), cn, e)
      /\ Reads(<<"commit", "reason">>, Commits(b), c, e, L, cn, e)
  BY <1>1, <1>2, <1>3, ReadCommits
<1>5. /\ Push("commit", Compares(b)) \in Made(R) /\ Push("commit-result", Compares(b)) \in Made(R)
      /\ Push("commit-queue", Compares(b)) \in Made(R) /\ Compares(b) \in Made(R)
      /\ Push("commit-failed", Push("commit-complete", Compares(b))) \in Made(R)
  BY DEF Made
<1>6. ASSUME NEW ts \in Talk, ts # <<>>, ts[1] = "commit", NEW st2, NEW c2, NEW e2,
             Reads(ts, Commits(b), c, e, st2, c2, e2)
      PROVE  Reads(ts, st, c, e, st2, c2, e2)
  BY <1>6, FreshReads
<1>7. ASSUME NEW lines, CommitDone(lines)
      PROVE  Reads(lines, st, c, e, Compares(b), cn, e)
  <2>1. Reads(lines, Commits(b), c, e, Compares(b), cn, e)
    BY <1>4, <1>7 DEF CommitDone
  <2> QED
    BY <1>6, <1>7, <2>1, CommitTalk
<1>8. ASSUME NEW lines, NEW told, ItemFailed(lines, told)
      PROVE  IF told THEN Reads(lines, st, c, e, Compares(b), fc, fe)
             ELSE Reads(lines, st, c, e, Compares(b), cn, e)
  <2>1. \/ told = TRUE /\ Reads(lines, Commits(b), c, e, Compares(b), fc, fe)
        \/ told = FALSE /\ Reads(lines, Commits(b), c, e, Compares(b), cn, e)
    BY <1>4, <1>8 DEF ItemFailed
  <2>2. lines \in Talk /\ lines # <<>> /\ lines[1] = "commit"
    BY <1>8, CommitTalk
  <2> QED
    BY <1>6, <2>1, <2>2
<1>9. ASSUME NEW lines, NEW told, Refusal(lines, told)
      PROVE  \E st2 \in Made(R) : IF told THEN Reads(lines, st, c, e, st2, fc, fe)
                                   ELSE Reads(lines, st, c, e, st2, cn, e)
  <2>1. \E st2 \in Made(R) : \/ told = TRUE /\ Reads(lines, Commits(b), c, e, st2, fc, fe)
                             \/ told = FALSE /\ Reads(lines, Commits(b), c, e, st2, cn, e)
    BY <1>4, <1>5, <1>9 DEF Refusal
  <2>2. lines \in Talk /\ lines # <<>> /\ lines[1] = "commit"
    BY <1>9, CommitTalk
  <2> QED
    BY <1>6, <2>1, <2>2
<1>10. Reads(<<"commit", "reason">>, st, c, e, L, cn, e)
  BY <1>4, <1>6, CommitTalk
<1>11. Reads(<<"commit">>, st, c, e, Push("commit", Compares(b)), cn, e)
  BY <1>4, <1>6, CommitTalk
<1>12. Reads(<<"commit", "empty">>, st, c, e, Push("commit", Compares(b)), cn, e)
  BY <1>4, <1>6, CommitTalk
<1> QED
  BY <1>7, <1>8, <1>9, <1>10, <1>11, <1>12

----------------------------------------------------------------------------
(* What the record has to do with the history, while an operation is made  *)

\* Of the action a, with the history q: the record tells of what is followed.
LooseOf(a, q, c, e) == Recs(c, e, Kept(a, q))

\* The same, and its last entry is the last load of the history.
TightOf(a, q, c, e) ==
  \E p \in Loads, x \in D!Tested :
    /\ q = Append(p, x) /\ ~Misses(a, p, x)
    /\ Recs(c, e, Append(Kept(a, p), x)) /\ Fits(c, x)

LEMMA TightIsLoose ==
  ASSUME NEW a, NEW q, NEW c, NEW e, TightOf(a, q, c, e)
  PROVE  LooseOf(a, q, c, e)
<1>1. PICK p \in Loads, x \in D!Tested :
        /\ q = Append(p, x) /\ ~Misses(a, p, x)
        /\ Recs(c, e, Append(Kept(a, p), x)) /\ Fits(c, x)
  BY DEF TightOf
<1>2. Kept(a, q) = Append(Kept(a, p), x)
  BY <1>1, KeptMore
<1> QED
  BY <1>1, <1>2 DEF LooseOf

\* The last load, x, has become y.
LEMMA LastChanged ==
  ASSUME NEW a, NEW p \in Loads, NEW x \in D!Tested, NEW y \in D!Tested, y.from = x.from
  PROVE  /\ Misses(a, p, y) <=> Misses(a, p, x)
         /\ Misses(a, p, x) => Kept(a, Append(p, y)) = Kept(a, Append(p, x))
         /\ ~Misses(a, p, x) => Kept(a, Append(p, y)) = Append(Kept(a, p), y)
         /\ LostIn(Append(p, y)) <=> y.astray \/ (x.from # NoState /\ LostIn(p))
<1>1. Misses(a, p, y) <=> Misses(a, p, x)
  BY DEF Misses
<1>2. Misses(a, p, x) => Kept(a, Append(p, x)) = Kept(a, p)
  BY KeptMore
<1>3. /\ Misses(a, p, y) => Kept(a, Append(p, y)) = Kept(a, p)
      /\ ~Misses(a, p, y) => Kept(a, Append(p, y)) = Append(Kept(a, p), y)
  BY KeptMore
<1>4. LostIn(Append(p, y)) <=> y.astray \/ (y.from # NoState /\ LostIn(p))
  BY LostMore
<1> QED
  BY <1>1, <1>2, <1>3, <1>4

\* With what the operation has recorded of y.
LEMMA ChangedTight ==
  ASSUME NEW a, NEW p \in Loads, NEW x \in D!Tested, ~Misses(a, p, x),
         NEW y \in D!Tested, y.from = x.from, NEW c, NEW e, Recs(c, e, Append(Kept(a, p), y))
  PROVE  /\ LooseOf(a, Append(p, y), c, e)
         /\ Fits(c, y) => TightOf(a, Append(p, y), c, e)
<1>1. ~Misses(a, p, y) /\ Kept(a, Append(p, y)) = Append(Kept(a, p), y)
  BY LastChanged
<1>2. LooseOf(a, Append(p, y), c, e)
  BY <1>1 DEF LooseOf
<1>3. Fits(c, y) => TightOf(a, Append(p, y), c, e)
  BY <1>1 DEF TightOf
<1> QED
  BY <1>2, <1>3

\* The last element is replaced.
LEMMA LastReplaced ==
  ASSUME NEW p \in Loads, NEW x \in D!Tested, NEW y \in D!Tested
  PROVE  [Append(p, x) EXCEPT ![Len(p) + 1] = y] = Append(p, y)
<1>1. PICK q : q = Append(p, x)
  OBVIOUS
<1>2. q \in Loads /\ q # <<>> /\ Len(q) = Len(p) + 1
  BY <1>1, LoadsMore
<1>3. PICK r \in Loads :
        /\ q = Append(r, q[Len(q)]) /\ q[Len(q)] \in D!Tested
        /\ \A z \in D!Tested : [q EXCEPT ![Len(q)] = z] = Append(r, z)
  BY <1>2, LastOf
<1>4. r = p
  BY <1>1, <1>3, AppendInjective DEF Loads
<1> QED
  BY <1>1, <1>2, <1>3, <1>4

\* An operation that prints lines and changes the last load
LastBecomes(p, x, lines, fails, told) ==
  \E y : EndedAs(y, x, D!Op1.op, lines, fails, told) /\ tested' = Append(p, y)

LEMMA OutcomeIs ==
  ASSUME NEW p \in Loads, NEW x \in D!Tested, tested = Append(p, x),
         D!Op1.op \in {"commit", "compare_config"}, NEW lines,
         NEW fails \in BOOLEAN, NEW told \in BOOLEAN, D!Outcome(lines, fails, told)
  PROVE  /\ out' = out \o D!Lines(lines)
         /\ LastBecomes(p, x, lines, fails, told)
<1>0. PICK o : o = D!Op1.op
  OBVIOUS
<1>1. out' = out \o D!Lines(lines)
  BY DEF D!Outcome
<1>2. PICK q : q = tested
  OBVIOUS
<1>3. PICK n : n = Len(q)
  OBVIOUS
<1>4. q \in Loads /\ q # <<>> /\ q = Append(p, x) /\ n = Len(p) + 1 /\ q[n] = x /\ Len(p) \in Nat
  BY <1>2, <1>3, LoadsMore
<1>5. \A y \in D!Tested : [q EXCEPT ![n] = y] = Append(p, y)
  BY <1>4, LastReplaced
<1>6. PICK w : w = (x.astray \/ D!Astray(lines))
  OBVIOUS
<1>7. w \in BOOLEAN
  BY <1>6, Zenon
<1>8. PICK s : s = [x EXCEPT !.astray = w]
  OBVIOUS
<1>9. /\ s \in D!Tested /\ s.astray = w /\ s.to = x.to /\ s.from = x.from
      /\ s.rolling = x.rolling /\ s.blurred = x.blurred /\ s.failure = x.failure /\ s.told = x.told
  BY <1>7, <1>8 DEF D!Tested
<1>10. [q EXCEPT ![n].astray = @ \/ D!Astray(lines)] = Append(p, s)
  <2>1. [q EXCEPT ![n].astray = @ \/ D!Astray(lines)] = [q EXCEPT ![n] = [x EXCEPT !.astray = w]]
    BY <1>4, <1>6
  <2> QED
    BY <2>1, <1>5, <1>8, <1>9
<1>11. CASE ~(x.failure = "none" /\ fails)
  <2>1. tested' = [q EXCEPT ![n].astray = @ \/ D!Astray(lines)]
    BY <1>2, <1>3, <1>4, <1>11 DEF D!Outcome
  <2>2. EndedAs(s, x, o, lines, fails, told)
    BY <1>6, <1>9, <1>11 DEF EndedAs
  <2> QED
    BY <1>0, <1>1, <1>10, <2>1, <2>2 DEF LastBecomes
<1>12. CASE x.failure = "none" /\ fails
  <2>1. PICK f : f = IF x.rolling THEN "rollback" ELSE o
    OBVIOUS
  <2>2. f \in D!Failures
    BY <1>0, <2>1 DEF D!Failures
  <2>3. PICK seen : seen = Append(p, s)
    OBVIOUS
  <2>4. seen[n] = s /\ seen \in Loads /\ Len(seen) = n
    BY <2>3, <1>4, <1>9, LoadsMore
  <2>a. n \in DOMAIN seen
    BY <2>4, <1>4 DEF Loads
  <2>5. tested' = [seen EXCEPT ![n].failure = f, ![n].told = told]
    BY <1>0, <1>2, <1>3, <1>4, <1>10, <1>12, <2>1, <2>3 DEF D!Outcome
  <2>6. PICK y : y = [s EXCEPT !.failure = f, !.told = told]
    OBVIOUS
  <2>7. /\ y \in D!Tested /\ y.failure = f /\ y.told = told /\ y.astray = s.astray /\ y.to = s.to
        /\ y.from = s.from /\ y.rolling = s.rolling /\ y.blurred = s.blurred
    BY <1>9, <2>2, <2>6 DEF D!Tested
  <2>8. EndedAs(y, x, o, lines, fails, told)
    BY <1>6, <1>9, <1>12, <2>1, <2>7 DEF EndedAs
  <2>9. tested' = [seen EXCEPT ![n] = y]
    BY <2>4, <2>5, <2>6, <2>a, <1>8, <1>9 DEF Loads, D!Tested
  <2>10. [seen EXCEPT ![n] = y] = Append(p, y)
    BY <1>4, <1>9, <2>3, <2>7, LastReplaced
  <2> QED
    BY <1>0, <1>1, <2>8, <2>9, <2>10 DEF LastBecomes
<1> QED
  BY <1>11, <1>12
----------------------------------------------------------------------------
(* The operations on a file, wherever the filter is: R is below the log    *)
(* states of the transition, a load is expected at S, and lines that do    *)
(* not fit lead to L.                                                      *)

OpAt(o, a, q, S, R, st, c, e) ==
  /\ LooseOf(a, q, c, e)
  /\ o = "load" => st \in S
  /\ o # "load" => TightOf(a, q, c, e)
  /\ o = "commit" => st \in Fresh(R)
  /\ o = "compare_config" => st = Compares(Push("rollbacks", R))
  /\ o = "rollback" => st = Push("compare", Push("rollbacks", R))

\* Where the filter gets to when the operation has succeeded
AfterOp(o, R) ==
  CASE o = "commit" -> {Compares(Push("rollbacks", R))}
    [] o = "compare_config" -> {Push("compare", Push("rollbacks", R))}
    [] OTHER -> Fresh(R)

Expects(R, L, S) ==
  /\ R \in Text /\ Unfit(R, L) /\ Unfit(L, L)
  /\ \A s \in S : Takes("load", s, LoadedOn(R), "load")

\* The state that is loaded next is one that the context knows to start from
\* the right state, and the load will be followed.
LoadFits(c) ==
  D!Op1.op = "load" =>
    /\ job.from # NoState => c.exploring_from = job.from /\ After(c) = job.from
    /\ job.from = NoState => c.exploring_from \in {NoState, D!Op1.state}
    /\ ~(request.action = "explore" /\ job.from # NoState /\ LostIn(tested))

\* What an operation does: the filter gets from st, c and e to other ones when it
\* has read the lines; what the record has to do with the history then.
Went(R, L, S, st, c, e) ==
  \E st2, c2, e2 :
    /\ Hears(out', st, c, e, st2, c2, e2)
    /\ LooseOf(request.action, tested', c2, e2)
    /\ c2.exploring_from = c.exploring_from
    /\ (D!Op1.op # "load" \/ job.from # NoState) => After(c2) = After(c)
    /\ \/ /\ D!Proceed /\ st2 \in AfterOp(D!Op1.op, R)
          /\ TightOf(request.action, tested', c2, e2)
          /\ (D!Op1.op = "load" /\ job.from = NoState) => After(c2) = D!Op1.state
          /\ (~LostIn(tested) \/ (D!Op1.op = "load" /\ job.from = NoState)) => ~LostIn(tested')
       \/ /\ D!Fail \/ D!Leave
          /\ \/ st2 \in Made(R) \cup S /\ (~LostIn(tested) => ~LostIn(tested'))
             \/ st2 = L /\ LostIn(tested')

\* An operation on the last load, x, which has become y
Becomes(p, x, y) ==
  /\ tested = Append(p, x) /\ ~Misses(request.action, p, x)
  /\ p \in Loads /\ x \in D!Tested
  /\ y \in D!Tested /\ y.from = x.from /\ tested' = Append(p, y)

LEMMA GoesOn ==
  ASSUME NEW R, NEW L, NEW S, NEW st, NEW c, NEW e, D!Op1.op # "load",
         NEW p, NEW x, NEW y, Becomes(p, x, y), y.astray => x.astray,
         NEW st2, NEW c2, NEW e2, Hears(out', st, c, e, st2, c2, e2),
         Recs(c2, e2, Append(Kept(request.action, p), y)), SameEnds(c, c2),
         D!Proceed, st2 \in AfterOp(D!Op1.op, R), Fits(c2, y)
  PROVE  Went(R, L, S, st, c, e)
<1>1. PICK a : a = request.action
  OBVIOUS
<1>2. /\ tested = Append(p, x) /\ ~Misses(a, p, x) /\ p \in Loads /\ x \in D!Tested
      /\ y \in D!Tested /\ y.from = x.from /\ tested' = Append(p, y)
  BY <1>1 DEF Becomes
<1>3. LooseOf(a, tested', c2, e2) /\ TightOf(a, tested', c2, e2)
  BY <1>1, <1>2, ChangedTight
<1>4. ~LostIn(tested) => ~LostIn(tested')
  BY <1>2, LastChanged, LostMore
<1>5. c2.exploring_from = c.exploring_from /\ After(c2) = After(c)
  BY DEF SameEnds
<1> QED
  BY <1>1, <1>3, <1>4, <1>5 DEF Went

LEMMA StopsThere ==
  ASSUME NEW R, NEW L, NEW S, NEW st, NEW c, NEW e, D!Op1.op # "load",
         NEW p, NEW x, NEW y, Becomes(p, x, y),
         NEW st2, NEW c2, NEW e2, Hears(out', st, c, e, st2, c2, e2),
         Recs(c2, e2, Append(Kept(request.action, p), y)), SameEnds(c, c2),
         D!Fail \/ D!Leave,
         \/ st2 \in Made(R) /\ (y.astray => x.astray)
         \/ st2 = L /\ y.astray
  PROVE  Went(R, L, S, st, c, e)
<1>1. PICK a : a = request.action
  OBVIOUS
<1>2. /\ tested = Append(p, x) /\ ~Misses(a, p, x) /\ p \in Loads /\ x \in D!Tested
      /\ y \in D!Tested /\ y.from = x.from /\ tested' = Append(p, y)
  BY <1>1 DEF Becomes
<1>3. LooseOf(a, tested', c2, e2)
  BY <1>1, <1>2, ChangedTight
<1>4. /\ (y.astray => x.astray) => (~LostIn(tested) => ~LostIn(tested'))
      /\ y.astray => LostIn(tested')
  BY <1>2, LastChanged, LostMore
<1>5. c2.exploring_from = c.exploring_from /\ After(c2) = After(c)
  BY DEF SameEnds
<1> QED
  BY <1>1, <1>3, <1>4, <1>5 DEF Went

\* With the lines of the operation
LEMMA HeardOut ==
  ASSUME NEW lines \in Talk, out = <<>>, out' = out \o D!Lines(lines),
         NEW st, NEW c, NEW e, NEW st2, NEW c2, NEW e2, Reads(lines, st, c, e, st2, c2, e2)
  PROVE  Hears(out', st, c, e, st2, c2, e2)
<1>1. PICK q : q = D!Lines(lines)
  OBVIOUS
<1>2. q \in LinesLeft
  <2>1. "commit" \in Told
    BY DEF Told, F!EventTypes, F!CommitEvents, F!ResultEvents
  <2> QED
    BY <1>1, <2>1, TalkLines
<1>3. <<>> \o q = q
  BY <1>2, ConcatEmptySeq DEF LinesLeft
<1> QED
  BY <1>1, <1>3 DEF Reads

LEMMA CompareAstray ==
  /\ <<"compare_config">> \in Talk /\ ~D!Astray(<<"compare_config">>)
  /\ <<"compare_config", "diff">> \in Talk /\ ~D!Astray(<<"compare_config", "diff">>)
<1>1. ASSUME NEW l \in LapLines, l \in {<<"compare_config">>, <<"compare_config", "diff">>}
      PROVE  l \in Talk /\ ~D!Astray(l)
  <2>1. l \in Talk /\ ~Twice(l) /\ \A i \in 1..Len(l) : l[i] # "reason"
    BY <1>1, LapTalk
  <2>2. ~Refused(l)
    <3>1. Len(l) \in Nat
      BY <2>1 DEF Talk
    <3> QED
      BY <2>1, <3>1 DEF Refused
  <2> QED
    BY <2>1, <2>2, AstrayIs
<1>2. <<"compare_config">> \in LapLines /\ <<"compare_config", "diff">> \in LapLines
  BY DEF LapLines
<1> QED
  BY <1>1, <1>2

\* The lines go with what has become of the last load.
LEMMA Ended ==
  ASSUME NEW p \in Loads, NEW x \in D!Tested, tested = Append(p, x), ~Misses(request.action, p, x),
         NEW y, NEW o, NEW lines, NEW fails, NEW told, EndedAs(y, x, o, lines, fails, told),
         tested' = Append(p, y)
  PROVE  Becomes(p, x, y) /\ (y.astray <=> x.astray \/ D!Astray(lines))
<1>1. y.astray = (x.astray \/ D!Astray(lines)) /\ y \in D!Tested /\ y.from = x.from
  BY DEF EndedAs
<1>2. y.astray <=> x.astray \/ D!Astray(lines)
  BY <1>1, Zenon
<1> QED
  BY <1>1, <1>2 DEF Becomes

\* An operation on the last load prints these lines, and goes on or not.
LEMMA OutcomeWent ==
  ASSUME out = <<>>, NEW c \in F!Context, NEW e \in Events, NEW R, NEW L, NEW S, NEW st,
         D!Op1.op \in {"commit", "compare_config"}, TightOf(request.action, tested, c, e),
         NEW lines \in Talk, NEW fails \in BOOLEAN, NEW told \in BOOLEAN, told => fails,
         D!Outcome(lines, fails, told), NEW cn, cn = Noted(c, D!Op1.op),
         NEW d, d = F!FailTransition(cn, e), NEW st2,
         IF told THEN Reads(lines, st, c, e, st2, d.c, d.e) ELSE Reads(lines, st, c, e, st2, cn, e),
         \/ D!Proceed /\ st2 \in AfterOp(D!Op1.op, R) /\ ~D!Astray(lines)
         \/ (D!Fail \/ D!Leave) /\ (IF D!Astray(lines) THEN st2 = L ELSE st2 \in Made(R))
  PROVE  Went(R, L, S, st, c, e)
<1>1. PICK a : a = request.action
  OBVIOUS
<1>2. PICK p \in Loads, x \in D!Tested :
        /\ tested = Append(p, x) /\ ~Misses(a, p, x)
        /\ Recs(c, e, Append(Kept(a, p), x)) /\ Fits(c, x)
  BY <1>1 DEF TightOf
<1>3. PICK g : g = Kept(a, p)
  OBVIOUS
<1>4. g \in Loads /\ Recs(c, e, Append(g, x))
  BY <1>2, <1>3, KeptMore
<1>5. PICK o : o = D!Op1.op
  OBVIOUS
<1>6. o \in {"commit", "compare_config"} /\ D!Op1.op # "load" /\ cn = Noted(c, o)
  BY <1>5
<1>7. LastBecomes(p, x, lines, fails, told)
  BY <1>2, OutcomeIs
<1>8. PICK y : EndedAs(y, x, o, lines, fails, told) /\ tested' = Append(p, y)
  BY <1>5, <1>7 DEF LastBecomes
<1>9. out' = out \o D!Lines(lines)
  BY DEF D!Outcome
<1>10. Becomes(p, x, y) /\ (y.astray <=> x.astray \/ D!Astray(lines))
  BY <1>1, <1>2, <1>8, Ended
<1>11. \E c2, e2 : /\ Reads(lines, st, c, e, st2, c2, e2) /\ Recs(c2, e2, Append(g, y))
                   /\ SameEnds(c, c2) /\ Fits(c2, y)
  <2>1. CASE told
    <3>1. EndedAs(y, x, o, lines, TRUE, told)
      BY <1>8, <2>1
    <3>2. Recs(d.c, d.e, Append(g, y)) /\ SameEnds(c, d.c) /\ Fits(d.c, y)
      BY <1>2, <1>4, <1>6, <3>1, FailStep, ZenonT(60)
    <3> QED
      BY <2>1, <3>2
  <2>2. CASE ~told
    <3>2. Recs(cn, e, Append(g, y)) /\ SameEnds(c, cn) /\ (~fails => Fits(cn, y))
      BY <1>2, <1>4, <1>6, <1>8, <2>2, NotedStep
    <3>3. fails => Fits(cn, y)
      <4>1. fails => y.failure # "none"
        BY <1>6, <1>8 DEF EndedAs
      <4> QED
        BY <4>1 DEF Fits
    <3> QED
      BY <2>2, <3>2, <3>3
  <2> QED
    BY <2>1, <2>2
<1>12. PICK c2, e2 : /\ Reads(lines, st, c, e, st2, c2, e2) /\ Recs(c2, e2, Append(g, y))
                     /\ SameEnds(c, c2) /\ Fits(c2, y)
  BY <1>11
<1>13. Hears(out', st, c, e, st2, c2, e2)
  BY <1>9, <1>12, HeardOut
<1>14. Recs(c2, e2, Append(Kept(request.action, p), y))
  BY <1>1, <1>3, <1>12
<1>15. CASE D!Proceed /\ st2 \in AfterOp(D!Op1.op, R) /\ ~D!Astray(lines)
  BY <1>6, <1>10, <1>12, <1>13, <1>14, <1>15, GoesOn
<1>16. CASE (D!Fail \/ D!Leave) /\ (IF D!Astray(lines) THEN st2 = L ELSE st2 \in Made(R))
  BY <1>6, <1>10, <1>12, <1>13, <1>14, <1>16, StopsThere
<1> QED
  BY <1>15, <1>16

LEMMA CompareWent ==
  ASSUME out = <<>>, NEW c \in F!Context, NEW e \in Events, NEW R, NEW L, NEW S, NEW st,
         Expects(R, L, S), OpAt(D!Op1.op, request.action, tested, S, R, st, c, e), D!Compare
  PROVE  Went(R, L, S, st, c, e)
<1>1. D!Op1.op = "compare_config"
  BY DEF D!Compare
<1>2. PICK b : b = Push("rollbacks", R)
  OBVIOUS
<1>3. st = Compares(b) /\ TightOf(request.action, tested, c, e)
  BY <1>1, <1>2 DEF OpAt
<1>4. R \in Text /\ Unfit(R, L) /\ Unfit(L, L)
  BY DEF Expects
<1>5. b \in Text /\ Unfit(b, L)
  <2>1. "rollbacks" \in Word
    BY DEF Word, F!LogStates
  <2> QED
    BY <1>2, <1>4, <2>1, PushText, UnfitBase
<1>6. PICK cn : cn = Noted(c, D!Op1.op)
  OBVIOUS
<1>7. PICK d : d = F!FailTransition(cn, e)
  OBVIOUS
<1>8. /\ Reads(<<"compare_config">>, st, c, e, Push("compare", b), cn, e)
      /\ Reads(<<"compare_config", "diff">>, st, c, e, b, d.c, d.e)
  <2>1. cn = Noted(c, "compare_config")
    BY <1>1, <1>6
  <2> QED
    BY <1>3, <1>4, <1>5, <1>7, <2>1, ReadCompares
<1>9. /\ b \in Made(R) /\ Push("compare", b) \in Made(R)
      /\ Push("compare", b) \in AfterOp(D!Op1.op, R)
  BY <1>1, <1>2 DEF Made, AfterOp
<1>10. PICK l1 \in Talk : l1 = <<"compare_config">> /\ ~D!Astray(l1)
  BY CompareAstray
<1>11. PICK l2 \in Talk : l2 = <<"compare_config", "diff">> /\ ~D!Astray(l2)
  BY CompareAstray
<1>12. Reads(l1, st, c, e, Push("compare", b), cn, e) /\ Reads(l2, st, c, e, b, d.c, d.e)
  BY <1>8, <1>10, <1>11
<1>13. PICK yes \in BOOLEAN, no \in BOOLEAN : yes = TRUE /\ no = FALSE
  OBVIOUS
<1>14. \/ D!Outcome(l1, no, no) /\ D!Proceed
       \/ D!Outcome(l2, yes, yes) /\ D!Fail
       \/ D!Outcome(l1, yes, no) /\ D!Fail
  BY <1>10, <1>11, <1>13 DEF D!Compare
<1>15. CASE D!Outcome(l1, no, no) /\ D!Proceed
  <2>1. PICK st2 : st2 = Push("compare", b)
    OBVIOUS
  <2>2. D!Proceed /\ st2 \in AfterOp(D!Op1.op, R) /\ ~D!Astray(l1)
    BY <1>9, <1>10, <1>15, <2>1
  <2>3. IF no THEN Reads(l1, st, c, e, st2, d.c, d.e) ELSE Reads(l1, st, c, e, st2, cn, e)
    BY <1>12, <1>13, <2>1
  <2>4. D!Op1.op \in {"commit", "compare_config"} /\ D!Outcome(l1, no, no) /\ (no => no)
    BY <1>1, <1>15
  <2> QED
    BY <1>3, <1>6, <1>7, <2>2, <2>3, <2>4, OutcomeWent
<1>16. CASE D!Outcome(l2, yes, yes) /\ D!Fail
  <2>0. PICK st2 : st2 = b
    OBVIOUS
  <2>1. (D!Fail \/ D!Leave) /\ (IF D!Astray(l2) THEN st2 = L ELSE st2 \in Made(R))
    BY <1>9, <1>11, <1>16, <2>0
  <2>2. IF yes THEN Reads(l2, st, c, e, st2, d.c, d.e) ELSE Reads(l2, st, c, e, st2, cn, e)
    BY <1>12, <1>13, <2>0
  <2>3. D!Op1.op \in {"commit", "compare_config"} /\ D!Outcome(l2, yes, yes) /\ (yes => yes)
    BY <1>1, <1>16
  <2> QED
    BY <1>3, <1>6, <1>7, <2>1, <2>2, <2>3, OutcomeWent
<1>17. CASE D!Outcome(l1, yes, no) /\ D!Fail
  <2>0. PICK st2 : st2 = Push("compare", b)
    OBVIOUS
  <2>1. (D!Fail \/ D!Leave) /\ (IF D!Astray(l1) THEN st2 = L ELSE st2 \in Made(R))
    BY <1>9, <1>10, <1>17, <2>0
  <2>2. IF no THEN Reads(l1, st, c, e, st2, d.c, d.e) ELSE Reads(l1, st, c, e, st2, cn, e)
    BY <1>12, <1>13, <2>0
  <2>3. D!Op1.op \in {"commit", "compare_config"} /\ D!Outcome(l1, yes, no) /\ (no => yes)
    BY <1>1, <1>13, <1>17
  <2> QED
    BY <1>3, <1>6, <1>7, <2>1, <2>2, <2>3, OutcomeWent
<1> QED
  BY <1>14, <1>15, <1>16, <1>17

\* The lines of a commit, put together
LEMMA AndOne ==
  ASSUME NEW p \in Text, NEW c \in Word, NEW q \in Text, Len(q) = Len(p) + 1, q[Len(p) + 1] = c,
         \A i \in 1..Len(p) : q[i] = p[i]
  PROVE  p \o <<c>> = q
<1>1. PICK S : S = Word
  OBVIOUS
<1>2. p \in Seq(S) /\ c \in S /\ q \in Seq(S)
  BY <1>1 DEF Text
<1>3. Append(p, c) = p \o <<c>>
  BY <1>2, AppendIsConcat
<1>4. PICK u : u = Append(p, c)
  OBVIOUS
<1>5. u \in Seq(S) /\ Len(u) = Len(p) + 1 /\ u[Len(p) + 1] = c /\ \A i \in 1..Len(p) : u[i] = p[i]
  BY <1>2, <1>4
<1>6. u = q
  BY <1>2, <1>5, SeqEqual
<1> QED
  BY <1>3, <1>4, <1>6

LEMMA CommitWords ==
  /\ "commit" \in Word /\ "queue" \in Word /\ "noqueue" \in Word /\ "completed" \in Word
  /\ "complete" \in Word /\ "failed" \in Word /\ "reason" \in Word
  BY DEF Word, F!EventTypes, F!CommitEvents, F!ResultEvents

LEMMA JoinCompleted == <<"commit", "queue">> \o <<"completed">> \o <<"complete">> = <<"commit", "queue", "completed", "complete">>
<1>1. PICK p2 : p2 = <<"commit", "queue">>
  OBVIOUS
<1>2. PICK p3 : p3 = <<"commit", "queue", "completed">>
  OBVIOUS
<1>3. PICK p4 : p4 = <<"commit", "queue", "completed", "complete">>
  OBVIOUS
<1>4. p2 \in Text /\ p3 \in Text /\ p4 \in Text
  BY <1>1, <1>2, <1>3, CommitWords DEF Text
<1>5. Len(p2) = 2 /\ Len(p3) = 3 /\ Len(p4) = 4
  BY <1>1, <1>2, <1>3
<1>6. p3[1] = p2[1] /\ p3[2] = p2[2] /\ p3[3] = "completed"
  BY <1>1, <1>2
<1>7. \A i \in 1..Len(p2) : p3[i] = p2[i]
  BY <1>5, <1>6
<1>8. p2 \o <<"completed">> = p3
  <2>1. Len(p3) = Len(p2) + 1 /\ p3[Len(p2) + 1] = "completed"
    BY <1>5, <1>6
  <2> QED
    BY <1>4, <1>5, <1>6, <1>7, <2>1, CommitWords, AndOne
<1>9. p4[1] = p3[1] /\ p4[2] = p3[2] /\ p4[3] = p3[3] /\ p4[4] = "complete"
  BY <1>2, <1>3
<1>10. \A i \in 1..Len(p3) : p4[i] = p3[i]
  BY <1>5, <1>9
<1>11. p3 \o <<"complete">> = p4
  <2>1. Len(p4) = Len(p3) + 1 /\ p4[Len(p3) + 1] = "complete"
    BY <1>5, <1>9
  <2> QED
    BY <1>4, <1>5, <1>9, <1>10, <2>1, CommitWords, AndOne
<1> QED
  BY <1>1, <1>2, <1>3, <1>8, <1>11, Zenon

LEMMA JoinComplete == <<"commit", "noqueue">> \o <<"complete">> = <<"commit", "noqueue", "complete">>
<1>1. PICK p2 : p2 = <<"commit", "noqueue">>
  OBVIOUS
<1>2. PICK p3 : p3 = <<"commit", "noqueue", "complete">>
  OBVIOUS
<1>3. p2 \in Text /\ p3 \in Text
  BY <1>1, <1>2, CommitWords DEF Text
<1>4. Len(p2) = 2 /\ Len(p3) = 3
  BY <1>1, <1>2
<1>5. p3[1] = p2[1] /\ p3[2] = p2[2] /\ p3[3] = "complete"
  BY <1>1, <1>2
<1>6. \A i \in 1..Len(p2) : p3[i] = p2[i]
  BY <1>4, <1>5
<1>7. p2 \o <<"complete">> = p3
  <2>1. Len(p3) = Len(p2) + 1 /\ p3[Len(p2) + 1] = "complete"
    BY <1>4, <1>5
  <2> QED
    BY <1>3, <1>4, <1>5, <1>6, <2>1, CommitWords, AndOne
<1> QED
  BY <1>1, <1>2, <1>7, Zenon

LEMMA JoinReason == <<"commit", "queue", "failed">> \o <<"reason">> \o <<"complete">> = <<"commit", "queue", "failed", "reason", "complete">>
<1>1. PICK p3 : p3 = <<"commit", "queue", "failed">>
  OBVIOUS
<1>2. PICK p4 : p4 = <<"commit", "queue", "failed", "reason">>
  OBVIOUS
<1>3. PICK p5 : p5 = <<"commit", "queue", "failed", "reason", "complete">>
  OBVIOUS
<1>4. p3 \in Text /\ p4 \in Text /\ p5 \in Text
  BY <1>1, <1>2, <1>3, CommitWords DEF Text
<1>5. Len(p3) = 3 /\ Len(p4) = 4 /\ Len(p5) = 5
  BY <1>1, <1>2, <1>3
<1>6. p4[1] = p3[1] /\ p4[2] = p3[2] /\ p4[3] = p3[3] /\ p4[4] = "reason"
  BY <1>1, <1>2
<1>7. \A i \in 1..Len(p3) : p4[i] = p3[i]
  BY <1>5, <1>6
<1>8. p3 \o <<"reason">> = p4
  <2>1. Len(p4) = Len(p3) + 1 /\ p4[Len(p3) + 1] = "reason"
    BY <1>5, <1>6
  <2> QED
    BY <1>4, <1>5, <1>6, <1>7, <2>1, CommitWords, AndOne
<1>9. p5[1] = p4[1] /\ p5[2] = p4[2] /\ p5[3] = p4[3] /\ p5[4] = p4[4] /\ p5[5] = "complete"
  BY <1>2, <1>3
<1>10. \A i \in 1..Len(p4) : p5[i] = p4[i]
  BY <1>5, <1>9
<1>11. p4 \o <<"complete">> = p5
  <2>1. Len(p5) = Len(p4) + 1 /\ p5[Len(p4) + 1] = "complete"
    BY <1>5, <1>9
  <2> QED
    BY <1>4, <1>5, <1>9, <1>10, <2>1, CommitWords, AndOne
<1> QED
  BY <1>1, <1>2, <1>3, <1>8, <1>11, Zenon

LEMMA JoinFailed == <<"commit", "queue", "failed">> \o <<"complete">> = <<"commit", "queue", "failed", "complete">>
<1>1. PICK p3 : p3 = <<"commit", "queue", "failed">>
  OBVIOUS
<1>2. PICK p4 : p4 = <<"commit", "queue", "failed", "complete">>
  OBVIOUS
<1>3. p3 \in Text /\ p4 \in Text
  BY <1>1, <1>2, CommitWords DEF Text
<1>4. Len(p3) = 3 /\ Len(p4) = 4
  BY <1>1, <1>2
<1>5. p4[1] = p3[1] /\ p4[2] = p3[2] /\ p4[3] = p3[3] /\ p4[4] = "complete"
  BY <1>1, <1>2
<1>6. \A i \in 1..Len(p3) : p4[i] = p3[i]
  BY <1>4, <1>5
<1>7. p3 \o <<"complete">> = p4
  <2>1. Len(p4) = Len(p3) + 1 /\ p4[Len(p3) + 1] = "complete"
    BY <1>4, <1>5
  <2> QED
    BY <1>3, <1>4, <1>5, <1>6, <2>1, CommitWords, AndOne
<1> QED
  BY <1>1, <1>2, <1>7, Zenon

LEMMA CommitJoins ==
  /\ <<"commit", "queue">> \o <<"completed">> \o <<"complete">>
       = <<"commit", "queue", "completed", "complete">>
  /\ <<"commit", "noqueue">> \o <<>> \o <<"complete">> = <<"commit", "noqueue", "complete">>
  /\ <<"commit", "queue", "failed">> \o <<"reason">> \o <<"complete">>
       = <<"commit", "queue", "failed", "reason", "complete">>
  /\ <<"commit", "queue", "failed">> \o <<>> \o <<"complete">>
       = <<"commit", "queue", "failed", "complete">>
<1>1. <<"commit", "noqueue">> \o <<>> = <<"commit", "noqueue">>
  OBVIOUS
<1>2. <<"commit", "queue", "failed">> \o <<>> = <<"commit", "queue", "failed">>
  OBVIOUS
<1> QED
  BY <1>1, <1>2, JoinCompleted, JoinComplete, JoinReason, JoinFailed, Zenon

\* What the three kinds of a commit print
LEMMA SucceedForms ==
  ASSUME D!CommitSucceeds
  PROVE  D!Proceed /\ \E lines : CommitDone(lines) /\ D!Outcome(lines, FALSE, FALSE)
<1>1. PICK k : k = D!CommitCommand
  OBVIOUS
<1>2. k = IF job.queue THEN "queue" ELSE "noqueue"
  BY <1>1 DEF D!CommitCommand
<1>3. PICK m : m = IF job.queue THEN <<"completed">> ELSE <<>>
  OBVIOUS
<1>4. PICK lines \in {<<"commit", "empty", k, "empty">>, <<"commit", k>> \o m \o <<"complete">>} :
        D!Outcome(lines, FALSE, FALSE)
  BY <1>1, <1>3 DEF D!CommitSucceeds
<1>5. /\ <<"commit", "queue">> \o <<"completed">> \o <<"complete">>
           = <<"commit", "queue", "completed", "complete">>
      /\ <<"commit", "noqueue">> \o <<>> \o <<"complete">> = <<"commit", "noqueue", "complete">>
  BY CommitJoins
<1>6. CASE lines = <<"commit", "empty", k, "empty">>
  BY <1>2, <1>4, <1>6 DEF CommitDone, D!CommitSucceeds
<1>7. CASE lines = <<"commit", k>> \o m \o <<"complete">>
  <2>1. CASE job.queue
    BY <1>2, <1>3, <1>4, <1>5, <1>7, <2>1 DEF CommitDone, D!CommitSucceeds
  <2>2. CASE ~job.queue
    BY <1>2, <1>3, <1>4, <1>5, <1>7, <2>2 DEF CommitDone, D!CommitSucceeds
  <2> QED
    BY <2>1, <2>2
<1> QED
  BY <1>4, <1>6, <1>7

LEMMA FailedForms ==
  ASSUME D!QueueItemFails
  PROVE  /\ D!Proceed \/ D!Fail
         /\ \E lines, told : /\ told \in BOOLEAN /\ ItemFailed(lines, told)
                             /\ D!Outcome(lines, TRUE, told)
<1>1. PICK told \in BOOLEAN :
        D!Outcome(<<"commit", "queue", "failed">> \o (IF told THEN <<"reason">> ELSE <<>>)
                    \o <<"complete">>, TRUE, told)
  BY DEF D!QueueItemFails
<1>2. /\ <<"commit", "queue", "failed">> \o <<"reason">> \o <<"complete">>
           = <<"commit", "queue", "failed", "reason", "complete">>
      /\ <<"commit", "queue", "failed">> \o <<>> \o <<"complete">>
           = <<"commit", "queue", "failed", "complete">>
  BY CommitJoins
<1>3. PICK m : m = IF told THEN <<"reason">> ELSE <<>>
  OBVIOUS
<1>4. D!Outcome(<<"commit", "queue", "failed">> \o m \o <<"complete">>, TRUE, told)
  BY <1>1, <1>3
<1>5. PICK lines : lines = <<"commit", "queue", "failed">> \o m \o <<"complete">>
  OBVIOUS
<1>6. D!Outcome(lines, TRUE, told)
  BY <1>4, <1>5
<1>7. CASE told
  BY <1>2, <1>3, <1>5, <1>6, <1>7 DEF ItemFailed, D!QueueItemFails
<1>8. CASE ~told
  BY <1>2, <1>3, <1>5, <1>6, <1>8 DEF ItemFailed, D!QueueItemFails
<1> QED
  BY <1>7, <1>8

LEMMA AbortedForms ==
  ASSUME D!CommitAborted, job.queue \in BOOLEAN
  PROVE  /\ D!Fail
         /\ \/ \E lines, told : /\ told \in BOOLEAN /\ Refusal(lines, told)
                                /\ D!Outcome(lines, TRUE, told)
            \/ D!Outcome(<<"commit", "reason">>, TRUE, FALSE)
<1>1. PICK k : k = D!CommitCommand
  OBVIOUS
<1>2. k = IF job.queue THEN "queue" ELSE "noqueue"
  BY <1>1 DEF D!CommitCommand
<1>3. \/ \E lines \in {<<"commit">>, <<"commit", "reason">>, <<"commit", k>>} :
           D!Outcome(lines, TRUE, FALSE)
      \/ D!Outcome(<<"commit", k, "reason">>, TRUE, ~job.queue)
  BY <1>1 DEF D!CommitAborted
<1>4. CASE job.queue
  <2>1. k = "queue" /\ ~job.queue = FALSE
    BY <1>2, <1>4
  <2> QED
    BY <1>3, <2>1 DEF Refusal, D!CommitAborted
<1>5. CASE ~job.queue
  <2>1. k = "noqueue" /\ ~job.queue = TRUE
    BY <1>2, <1>5
  <2> QED
    BY <1>3, <2>1 DEF Refusal, D!CommitAborted
<1> QED
  BY <1>4, <1>5

\* A commit that prints lines that the filter expects
LEMMA CommitHeard ==
  ASSUME out = <<>>, NEW c \in F!Context, NEW e \in Events, NEW R, NEW L, NEW S, NEW st,
         D!Op1.op = "commit", TightOf(request.action, tested, c, e),
         NEW lines \in Talk, ~D!Astray(lines), NEW fails \in BOOLEAN, NEW told \in BOOLEAN,
         told => fails, D!Outcome(lines, fails, told), NEW cn, cn = Noted(c, "commit"),
         NEW d, d = F!FailTransition(cn, e), NEW st2,
         IF told THEN Reads(lines, st, c, e, st2, d.c, d.e) ELSE Reads(lines, st, c, e, st2, cn, e),
         \/ D!Proceed /\ st2 = Compares(Push("rollbacks", R))
         \/ D!Fail /\ st2 \in Made(R)
  PROVE  Went(R, L, S, st, c, e)
<1>1. /\ D!Op1.op \in {"commit", "compare_config"} /\ cn = Noted(c, D!Op1.op)
      /\ D!Outcome(lines, fails, told)
  OBVIOUS
<1>2. CASE D!Proceed /\ st2 = Compares(Push("rollbacks", R))
  <2>1. D!Proceed /\ st2 \in AfterOp(D!Op1.op, R) /\ ~D!Astray(lines)
    BY <1>2 DEF AfterOp
  <2> QED
    BY <1>1, <2>1, OutcomeWent
<1>3. CASE D!Fail /\ st2 \in Made(R)
  <2>1. (D!Fail \/ D!Leave) /\ (IF D!Astray(lines) THEN st2 = L ELSE st2 \in Made(R))
    BY <1>3
  <2> QED
    BY <1>1, <2>1, OutcomeWent
<1> QED
  BY <1>2, <1>3

LEMMA CommitWent ==
  ASSUME RunInv, out = <<>>, NEW c \in F!Context, NEW e \in Events, NEW R, NEW L, NEW S, NEW st,
         Expects(R, L, S), OpAt(D!Op1.op, request.action, tested, S, R, st, c, e),
         D!CommitSucceeds \/ D!QueueItemFails \/ D!CommitAborted
  PROVE  Went(R, L, S, st, c, e)
<1>1. D!Op1.op = "commit"
  BY DEF D!CommitSucceeds, D!QueueItemFails, D!CommitAborted
<1>2. st \in Fresh(R) /\ TightOf(request.action, tested, c, e)
  BY <1>1 DEF OpAt
<1>3. R \in Text /\ Unfit(R, L)
  BY DEF Expects
<1>4. job.queue \in BOOLEAN
  BY DEF RunInv, D!Job
<1>5. PICK b : b = Push("rollbacks", R)
  OBVIOUS
<1>6. PICK cn : cn = Noted(c, "commit")
  OBVIOUS
<1>7. PICK d : d = F!FailTransition(cn, e)
  OBVIOUS
<1>8. Compares(b) \in Made(R)
  BY <1>5 DEF Made
<1>9. /\ \A lines : CommitDone(lines) => Reads(lines, st, c, e, Compares(b), cn, e)
      /\ \A lines, told : ItemFailed(lines, told) =>
           IF told THEN Reads(lines, st, c, e, Compares(b), d.c, d.e)
           ELSE Reads(lines, st, c, e, Compares(b), cn, e)
      /\ \A lines, told : Refusal(lines, told) => \E st2 \in Made(R) :
           IF told THEN Reads(lines, st, c, e, st2, d.c, d.e)
           ELSE Reads(lines, st, c, e, st2, cn, e)
      /\ Reads(<<"commit", "reason">>, st, c, e, L, cn, e)
  <2>1. PICK fc, fe : fc = d.c /\ fe = d.e
    OBVIOUS
  <2>2. fc = F!FailTransition(cn, e).c /\ fe = F!FailTransition(cn, e).e
    BY <1>7, <2>1
  <2> QED
    BY <1>2, <1>3, <1>5, <1>6, <2>1, <2>2, ReadCommit
<1>10. PICK yes \in BOOLEAN, no \in BOOLEAN : yes = TRUE /\ no = FALSE
  OBVIOUS
<1>11. CASE D!CommitSucceeds
  <2>1. PICK lines : CommitDone(lines) /\ D!Outcome(lines, no, no)
    BY <1>10, <1>11, SucceedForms
  <2>2. D!Proceed
    BY <1>11, SucceedForms
  <2>3. lines \in Talk /\ ~D!Astray(lines)
    BY <2>1, CommitTalk
  <2>4. IF no THEN Reads(lines, st, c, e, Compares(b), d.c, d.e)
        ELSE Reads(lines, st, c, e, Compares(b), cn, e)
    BY <1>9, <1>10, <2>1
  <2>5. (no => no) /\ D!Outcome(lines, no, no) /\ D!Proceed /\ Compares(b) = Compares(Push("rollbacks", R))
    BY <1>5, <2>1, <2>2
  <2> QED
    BY <1>1, <1>2, <1>6, <1>7, <2>3, <2>4, <2>5, CommitHeard
<1>12. CASE D!QueueItemFails
  <2>1. PICK lines, told : told \in BOOLEAN /\ ItemFailed(lines, told) /\ D!Outcome(lines, yes, told)
    BY <1>10, <1>12, FailedForms
  <2>2. D!Proceed \/ D!Fail
    BY <1>12, FailedForms
  <2>3. lines \in Talk /\ ~D!Astray(lines)
    BY <2>1, CommitTalk
  <2>4. PICK st2 : st2 = Compares(b)
    OBVIOUS
  <2>5. IF told THEN Reads(lines, st, c, e, st2, d.c, d.e) ELSE Reads(lines, st, c, e, st2, cn, e)
    BY <1>9, <2>1, <2>4
  <2>6. \/ D!Proceed /\ st2 = Compares(Push("rollbacks", R))
        \/ D!Fail /\ st2 \in Made(R)
    BY <1>5, <1>8, <2>2, <2>4
  <2>7. told \in BOOLEAN /\ (told => yes) /\ D!Outcome(lines, yes, told)
    BY <1>10, <2>1
  <2> QED
    BY <1>1, <1>2, <1>6, <1>7, <2>3, <2>5, <2>6, <2>7, CommitHeard
<1>13. CASE D!CommitAborted
  <2>1. /\ D!Fail
        /\ \/ \E lines, told : /\ told \in BOOLEAN /\ Refusal(lines, told)
                               /\ D!Outcome(lines, TRUE, told)
           \/ D!Outcome(<<"commit", "reason">>, TRUE, FALSE)
    BY <1>4, <1>13, AbortedForms
  <2>2. CASE \E lines, told : /\ told \in BOOLEAN /\ Refusal(lines, told)
                              /\ D!Outcome(lines, TRUE, told)
    <3>1. PICK lines, told : told \in BOOLEAN /\ Refusal(lines, told) /\ D!Outcome(lines, yes, told)
      BY <1>10, <2>2
    <3>2. lines \in Talk /\ ~D!Astray(lines)
      BY <3>1, CommitTalk
    <3>3. PICK st2 \in Made(R) :
            IF told THEN Reads(lines, st, c, e, st2, d.c, d.e) ELSE Reads(lines, st, c, e, st2, cn, e)
      BY <1>9, <3>1
    <3>4. \/ D!Proceed /\ st2 = Compares(Push("rollbacks", R))
          \/ D!Fail /\ st2 \in Made(R)
      BY <2>1, <3>3
    <3>5. told \in BOOLEAN /\ (told => yes) /\ D!Outcome(lines, yes, told)
      BY <1>10, <3>1
    <3> QED
      BY <1>1, <1>2, <1>6, <1>7, <3>2, <3>3, <3>4, <3>5, CommitHeard
  <2>3. CASE D!Outcome(<<"commit", "reason">>, TRUE, FALSE)
    <3>1. PICK lines : lines = <<"commit", "reason">>
      OBVIOUS
    <3>2. lines \in Talk /\ D!Astray(lines) /\ Reads(lines, st, c, e, L, cn, e)
      BY <1>9, <3>1, CommitTalk
    <3>3. D!Outcome(lines, yes, no) /\ (no => yes) /\ D!Op1.op \in {"commit", "compare_config"}
      BY <1>1, <1>10, <2>3, <3>1
    <3>4. IF no THEN Reads(lines, st, c, e, L, d.c, d.e) ELSE Reads(lines, st, c, e, L, cn, e)
      BY <1>10, <3>2
    <3>5. (D!Fail \/ D!Leave) /\ (IF D!Astray(lines) THEN L = L ELSE L \in Made(R))
      BY <2>1, <3>2
    <3>6. cn = Noted(c, D!Op1.op)
      BY <1>1, <1>6
    <3> QED
      BY <1>2, <1>7, <3>2, <3>3, <3>4, <3>5, <3>6, OutcomeWent
  <2> QED
    BY <2>1, <2>2, <2>3
<1> QED
  BY <1>11, <1>12, <1>13

\* A state is loaded, and its line is read.
LEMMA LoadHeard ==
  ASSUME DrnedInv, rpc = "op", D!Op1.op = "load", out = <<>>,
         NEW c \in F!Context, NEW e \in Events, NEW R, NEW L, NEW S, NEW st, Expects(R, L, S),
         OpAt(D!Op1.op, request.action, tested, S, R, st, c, e), LoadFits(c),
         NEW failure \in {"none", "load"}, NEW x, x = D!Loaded(failure), tested' = Append(tested, x),
         NEW ev, ev = [type |-> D!Op1.op, state |-> D!Op1.state], out' = Append(out, ev)
  PROVE  \E c2, e2 :
           /\ Hears(out', st, c, e, LoadedOn(R), c2, e2)
           /\ TightOf(request.action, tested', c2, e2)
           /\ c2.exploring_from = c.exploring_from
           /\ job.from # NoState => After(c2) = After(c)
           /\ job.from = NoState => After(c2) = D!Op1.state
           /\ ~LostIn(tested) \/ job.from = NoState => ~LostIn(tested')
<1>1. RunInv /\ tested \in Loads
  BY DEF DrnedInv, LinesInv, Loads
<1>2. x \in D!Tested
  BY <1>1, LoadedTypes
<1>3. ev \in GoodEvent /\ ev.type = "load" /\ ev.state = D!Op1.state
  BY <1>1, OpLine
<1>4. D!Op1.state \in States
  BY <1>1, Op1Good DEF GoodOp
<1>5. /\ x.to = D!Op1.state /\ x.from = job.from /\ x.told = FALSE /\ x.rolling = FALSE
      /\ x.astray = FALSE /\ x.failure = failure
  BY DEF D!Loaded
<1>6. out' = <<ev>>
  <2>1. <<>> \in Seq(GoodEvent) /\ Append(<<>>, ev) = <<ev>>
    OBVIOUS
  <2> QED
    BY <2>1
<1>7. Takes("load", st, LoadedOn(R), "load")
  BY DEF Expects, OpAt
<1>8. PICK d : d = Does("load", ev, c, e)
  OBVIOUS
<1>9. Hears(<<ev>>, st, c, e, LoadedOn(R), d.c, d.e)
  BY <1>3, <1>7, <1>8, HearsOne
<1>10. PICK s : s = D!Op1.state
  OBVIOUS
<1>11. s \in States /\ d = F!StartTransition(c, e, s)
  BY <1>3, <1>4, <1>8, <1>10 DEF Does
<1>12. PICK a : a = request.action
  OBVIOUS
<1>13. PICK f : f = Kept(a, tested)
  OBVIOUS
<1>14. Recs(c, e, f)
  BY <1>12, <1>13 DEF OpAt, LooseOf
<1>a. x.from # NoState => c.exploring_from = x.from /\ After(c) = x.from
  BY <1>5 DEF LoadFits
<1>b. x.from = NoState => c.exploring_from \in {NoState, s}
  BY <1>5, <1>10 DEF LoadFits
<1>15. ~Misses(a, tested, x)
  BY <1>5, <1>12 DEF LoadFits, Misses
<1>16. StartsRight(c, x, s)
  BY <1>5, <1>10, <1>a, <1>b DEF StartsRight
<1>c. s \in States
  BY <1>11
<1>d. d = F!StartTransition(c, e, s)
  BY <1>11
<1>e. Started(c, f, x, d.c, d.e)
  BY <1>2, <1>c, <1>d, <1>14, <1>16, RecLoad
<1>18. /\ Recs(d.c, d.e, Append(f, x)) /\ d.c.to # NoState /\ d.c.rollback = FALSE
       /\ d.c.exploring_from = c.exploring_from /\ After(d.c) = EndOf(x)
  BY <1>e DEF Started
<1>19. TightOf(a, tested', d.c, d.e)
  <2>1. Fits(d.c, x)
    BY <1>5, <1>18 DEF Fits
  <2> QED
    BY <1>1, <1>2, <1>13, <1>15, <1>18, <2>1 DEF TightOf
<1>20. ~LostIn(tested) \/ job.from = NoState => ~LostIn(tested')
  <2>1. LostIn(Append(tested, x)) <=> x.astray \/ (x.from # NoState /\ LostIn(tested))
    BY <1>1, <1>2, LostMore
  <2> QED
    BY <1>5, <2>1
<1>21. /\ job.from # NoState => After(d.c) = After(c)
       /\ job.from = NoState => After(d.c) = D!Op1.state
  BY <1>5, <1>18, <1>a DEF EndOf
<1>22. Hears(out', st, c, e, LoadedOn(R), d.c, d.e) /\ TightOf(request.action, tested', d.c, d.e)
  BY <1>6, <1>9, <1>12, <1>19
<1> QED
  BY <1>18, <1>20, <1>21, <1>22

LEMMA LoadedMade ==
  ASSUME NEW R
  PROVE  /\ LoadedOn(R) \in Made(R) /\ LoadedOn(R) \in Fresh(R) /\ Fresh(R) \subseteq Made(R)
         /\ Compares(Push("rollbacks", R)) \in Made(R)
         /\ Push("compare", Push("rollbacks", R)) \in Made(R)
  BY DEF Made, LoadedOn, Fresh

LEMMA LoadWent ==
  ASSUME DrnedInv, rpc = "op", out = <<>>, NEW c \in F!Context, NEW e \in Events,
         NEW R, NEW L, NEW S, NEW st,
         Expects(R, L, S), OpAt(D!Op1.op, request.action, tested, S, R, st, c, e), LoadFits(c), D!Load
  PROVE  Went(R, L, S, st, c, e)
<1>1. D!Op1.op = "load"
  BY DEF D!Load
<1>2. PICK failure \in {"none", "load"} :
        /\ IF failure = "none" THEN D!Proceed ELSE D!Fail
        /\ tested' = Append(tested, D!Loaded(failure))
  BY DEF D!Load
<1>3. PICK x : x = D!Loaded(failure)
  OBVIOUS
<1>4. PICK ev : ev = [type |-> D!Op1.op, state |-> D!Op1.state]
  OBVIOUS
<1>5. out' = Append(out, ev) /\ tested' = Append(tested, x)
  BY <1>1, <1>2, <1>3, <1>4 DEF D!Load
<1>6. PICK c2, e2 :
        /\ Hears(out', st, c, e, LoadedOn(R), c2, e2)
        /\ TightOf(request.action, tested', c2, e2)
        /\ c2.exploring_from = c.exploring_from
        /\ job.from # NoState => After(c2) = After(c)
        /\ job.from = NoState => After(c2) = D!Op1.state
        /\ ~LostIn(tested) \/ job.from = NoState => ~LostIn(tested')
  BY <1>1, <1>3, <1>4, <1>5, LoadHeard
<1>7. LooseOf(request.action, tested', c2, e2)
  BY <1>6, TightIsLoose
<1>8. LoadedOn(R) \in Made(R) /\ LoadedOn(R) \in AfterOp(D!Op1.op, R)
  BY <1>1, LoadedMade DEF AfterOp
<1>9. D!Proceed \/ D!Fail
  BY <1>2
<1> QED
  BY <1>1, <1>6, <1>7, <1>8, <1>9 DEF Went

LEMMA RollBackWent ==
  ASSUME DrnedInv, rpc = "op", out = <<>>, NEW c \in F!Context, NEW e \in Events,
         NEW R, NEW L, NEW S, NEW st,
         Expects(R, L, S), OpAt(D!Op1.op, request.action, tested, S, R, st, c, e), D!RollBack
  PROVE  Went(R, L, S, st, c, e)
<1>1. D!Op1.op = "rollback"
  BY DEF D!RollBack
<1>2. PICK a : a = request.action
  OBVIOUS
<1>3. PICK b : b = Push("rollbacks", R)
  OBVIOUS
<1>4. st = Push("compare", b) /\ TightOf(a, tested, c, e)
  BY <1>1, <1>2, <1>3 DEF OpAt
<1>5. PICK p \in Loads, x \in D!Tested :
        /\ tested = Append(p, x) /\ ~Misses(a, p, x)
        /\ Recs(c, e, Append(Kept(a, p), x)) /\ Fits(c, x)
  BY <1>4 DEF TightOf
<1>6. PICK fails \in BOOLEAN :
        /\ out' = Append(out, D!Line("rollback"))
        /\ tested' = [tested EXCEPT ![Len(tested)].rolling = TRUE,
                                    ![Len(tested)].failure = IF fails /\ @ = "none" THEN "rollback" ELSE @]
        /\ IF fails THEN D!Fail ELSE D!Proceed
  BY DEF D!RollBack
<1>7. PICK f : f = IF fails /\ x.failure = "none" THEN "rollback" ELSE x.failure
  OBVIOUS
<1>8. f \in D!Failures
  BY <1>7 DEF D!Tested, D!Failures
<1>9. PICK y : y = [x EXCEPT !.rolling = TRUE, !.failure = f]
  OBVIOUS
<1>10. /\ y \in D!Tested /\ y.rolling = TRUE /\ y.failure = f /\ y.to = x.to /\ y.from = x.from
       /\ y.told = x.told /\ y.blurred = x.blurred /\ y.astray = x.astray
  BY <1>8, <1>9 DEF D!Tested
<1>11. tested' = Append(p, y)
  <2>1. PICK q : q = tested
    OBVIOUS
  <2>2. PICK n : n = Len(q)
    OBVIOUS
  <2>3. q \in Loads /\ n = Len(p) + 1 /\ q[n] = x /\ Len(p) \in Nat /\ n \in DOMAIN q
    BY <1>5, <2>1, <2>2, LoadsMore DEF Loads
  <2>4. tested' = [q EXCEPT ![n].rolling = TRUE,
                            ![n].failure = IF fails /\ @ = "none" THEN "rollback" ELSE @]
    BY <1>6, <2>1, <2>2
  <2>5. tested' = [q EXCEPT ![n] = y]
    BY <1>7, <1>9, <2>3, <2>4 DEF Loads, D!Tested
  <2>6. [q EXCEPT ![n] = y] = Append(p, y)
    BY <1>5, <1>10, <2>1, <2>3, LastReplaced
  <2> QED
    BY <2>5, <2>6
<1>12. Becomes(p, x, y)
  BY <1>2, <1>5, <1>10, <1>11 DEF Becomes
<1>13. PICK cn : cn = Noted(c, "rollback")
  OBVIOUS
<1>14. PICK g : g = Kept(a, p)
  OBVIOUS
<1>15. g \in Loads /\ Recs(c, e, Append(g, x))
  BY <1>5, <1>14, KeptMore
<1>16. Recs(cn, e, Append(g, y)) /\ SameEnds(c, cn) /\ Fits(cn, y)
  BY <1>5, <1>7, <1>10, <1>13, <1>15, RollStep
<1>17. PICK ev : ev = D!Line("rollback")
  OBVIOUS
<1>18. ev \in GoodEvent /\ ev.type = "rollback"
  <2>1. "rollback" \in Told
    BY DEF Told, F!EventTypes
  <2> QED
    BY <1>17, <2>1, TalkLines, EmptySeq DEF Talk
<1>19. out' = <<ev>>
  <2>1. Append(<<>>, ev) = <<ev>>
    OBVIOUS
  <2> QED
    BY <1>6, <1>17, <2>1
<1>20. Takes("rollback", st, Commits(b), "rollback")
  BY <1>3, <1>4, BaseTakes DEF Expects
<1>21. PICK d : d = Does("rollback", ev, c, e)
  OBVIOUS
<1>22. Hears(<<ev>>, st, c, e, Commits(b), d.c, d.e)
  BY <1>18, <1>20, <1>21, HearsOne
<1>23. d.c = cn /\ d.e = e
  BY <1>13, <1>21 DEF Does, F!TransitionEvent, Noted
<1>24. Hears(out', st, c, e, Commits(b), cn, e)
  BY <1>19, <1>22, <1>23
<1>25. /\ Commits(b) \in Made(R) /\ Commits(b) \in AfterOp(D!Op1.op, R)
       /\ Recs(cn, e, Append(Kept(request.action, p), y)) /\ D!Op1.op # "load"
  BY <1>1, <1>2, <1>3, <1>14, <1>16 DEF Made, AfterOp, Fresh
<1>26. y.astray => x.astray
  BY <1>10
<1>27. CASE ~fails
  <2>1. D!Proceed
    BY <1>6, <1>27
  <2> QED
    BY <1>12, <1>16, <1>24, <1>25, <1>26, <2>1, GoesOn
<1>28. CASE fails
  <2>1. D!Fail \/ D!Leave
    BY <1>6, <1>28
  <2>2. \/ Commits(b) \in Made(R) /\ (y.astray => x.astray)
        \/ Commits(b) = L /\ y.astray
    BY <1>25, <1>26
  <2> QED
    BY <1>12, <1>16, <1>24, <1>25, <2>1, <2>2, StopsThere
<1> QED
  BY <1>27, <1>28

\* The line of an operation is read where it is expected, and noted.
LEMMA LineHeard ==
  ASSUME RunInv, rpc = "op", out = <<>>, NEW c \in F!Context, NEW e \in Events, NEW st, NEW st2,
         NEW o \in {"commit", "compare_config", "rollback"}, D!Op1.op = o, Takes(o, st, st2, o),
         NEW ev, ev = [type |-> D!Op1.op, state |-> D!Op1.state], out' = Append(out, ev)
  PROVE  Hears(out', st, c, e, st2, Noted(c, o), e)
<1>1. ev \in GoodEvent /\ ev.type = o
  BY OpLine
<1>2. PICK d : d = Does(o, ev, c, e)
  OBVIOUS
<1>3. Hears(<<ev>>, st, c, e, st2, d.c, d.e)
  BY <1>1, <1>2, HearsOne
<1>4. d.c = Noted(c, o) /\ d.e = e
  BY <1>2 DEF Does, F!TransitionEvent, Noted
<1>5. out' = <<ev>>
  <2>1. Append(<<>>, ev) = <<ev>>
    OBVIOUS
  <2> QED
    BY <2>1
<1> QED
  BY <1>3, <1>4, <1>5

\* Where the operations find the filter, and where their line leads to
LEMMA OpTakes ==
  ASSUME NEW R \in Text, NEW b, b = Push("rollbacks", R)
  PROVE  /\ \A st \in Fresh(R) : Takes("commit", st, Push("commit", Compares(b)), "commit")
         /\ Takes("compare_config", Compares(b), Push("compare", b), "compare_config")
         /\ Takes("rollback", Push("compare", b), Commits(b), "rollback")
         /\ Push("commit", Compares(b)) \in Made(R) /\ Push("compare", b) \in Made(R)
         /\ Commits(b) \in Made(R)
<1>1. "rollbacks" \in Word /\ "action-compare" \in Word /\ "action-commit" \in Word
  BY DEF Word, F!LogStates
<1>2. b \in Text /\ Compares(b) \in Text /\ Commits(b) \in Text
  BY <1>1, PushText DEF Compares, Commits
<1>3. Takes("commit", Commits(b), Push("commit", Compares(b)), "commit")
  BY <1>2, AtActionCommit DEF Commits
<1>4. Drops("commit", LoadedOn(R), Commits(b))
  BY <1>2, AtLoadFailure DEF LoadedOn
<1>5. \A st \in Fresh(R) : Takes("commit", st, Push("commit", Compares(b)), "commit")
  BY <1>3, <1>4, TakesAfter DEF Fresh
<1>6. Takes("compare_config", Compares(b), Push("compare", b), "compare_config")
  BY <1>2, AtActionCompare DEF Compares
<1>7. Takes("rollback", Push("compare", b), Commits(b), "rollback")
  BY BaseTakes
<1>8. /\ Push("commit", Compares(b)) \in Made(R) /\ Push("compare", b) \in Made(R)
      /\ Commits(b) \in Made(R)
  BY DEF Made
<1> QED
  BY <1>5, <1>6, <1>7, <1>8

\* An operation that has been interrupted after its line, or right at the start
LEMMA NotedWent ==
  ASSUME D!Leave, D!Op1.op # "load", NEW c \in F!Context, NEW e \in Events,
         NEW R, NEW L, NEW S, NEW st, LooseOf(request.action, tested, c, e), tested' = tested,
         NEW o \in {"commit", "compare_config", "rollback"}, NEW st2 \in Made(R),
         Hears(out', st, c, e, st2, Noted(c, o), e)
  PROVE  Went(R, L, S, st, c, e)
<1>1. PICK f : f = Kept(request.action, tested)
  OBVIOUS
<1>2. PICK n : n = Noted(c, o)
  OBVIOUS
<1>3. Recs(c, e, f)
  BY <1>1 DEF LooseOf
<1>4. Recs(n, e, f) /\ SameEnds(c, n)
  BY <1>2, <1>3, RecNoted
<1>5. LooseOf(request.action, tested', n, e)
  BY <1>1, <1>4 DEF LooseOf
<1>6. n.exploring_from = c.exploring_from /\ After(n) = After(c)
  BY <1>4 DEF SameEnds
<1> QED
  BY <1>2, <1>5, <1>6 DEF Went

LEMMA InterruptedWent ==
  ASSUME DrnedInv, rpc = "op", out = <<>>, NEW c \in F!Context, NEW e \in Events,
         NEW R, NEW L, NEW S, NEW st,
         Expects(R, L, S), OpAt(D!Op1.op, request.action, tested, S, R, st, c, e), LoadFits(c),
         D!Interrupted
  PROVE  Went(R, L, S, st, c, e)
<1>1. D!Leave
  BY DEF D!Interrupted
<1>2. LooseOf(request.action, tested, c, e)
  BY DEF OpAt
<1>3. R \in Text
  BY DEF Expects
<1>4. RunInv /\ D!Op1.op \in {"load", "commit", "compare_config", "rollback"}
  BY Op1Good DEF DrnedInv, GoodOp, D!Op
<1>5. PICK b : b = Push("rollbacks", R)
  OBVIOUS
<1>6. /\ \A s \in Fresh(R) : Takes("commit", s, Push("commit", Compares(b)), "commit")
      /\ Takes("compare_config", Compares(b), Push("compare", b), "compare_config")
      /\ Takes("rollback", Push("compare", b), Commits(b), "rollback")
      /\ Push("commit", Compares(b)) \in Made(R) /\ Push("compare", b) \in Made(R)
      /\ Commits(b) \in Made(R)
  BY <1>3, <1>5, OpTakes
<1>7. /\ D!Op1.op = "load" => st \in S
      /\ D!Op1.op = "commit" => st \in Fresh(R)
      /\ D!Op1.op = "compare_config" => st = Compares(b)
      /\ D!Op1.op = "rollback" => st = Push("compare", b)
  BY <1>5 DEF OpAt
<1>8. CASE UNCHANGED <<out, tested>>
  <2>1. Hears(out', st, c, e, st, c, e)
    BY <1>8, HearsNone
  <2>2. st \in Made(R) \cup S
    BY <1>4, <1>5, <1>7, LoadedMade
  <2>3. LooseOf(request.action, tested', c, e) /\ tested' = tested
    BY <1>2, <1>8
  <2> QED
    BY <1>1, <2>1, <2>2, <2>3 DEF Went
<1>9. CASE /\ out' = Append(out, [type |-> D!Op1.op, state |-> D!Op1.state])
           /\ tested' = IF D!Op1.op = "load" THEN Append(tested, D!Loaded("none"))
                        ELSE tested
  <2>1. PICK ev : ev = [type |-> D!Op1.op, state |-> D!Op1.state]
    OBVIOUS
  <2>2. out' = Append(out, ev)
    BY <1>9, <2>1
  <2>3. CASE D!Op1.op = "load"
    <3>1. PICK failure \in {"none", "load"} : failure = "none"
      OBVIOUS
    <3>2. PICK x : x = D!Loaded(failure)
      OBVIOUS
    <3>3. tested' = Append(tested, x)
      BY <1>9, <2>3, <3>1, <3>2
    <3>4. PICK c2, e2 :
            /\ Hears(out', st, c, e, LoadedOn(R), c2, e2)
            /\ TightOf(request.action, tested', c2, e2)
            /\ c2.exploring_from = c.exploring_from
            /\ job.from # NoState => After(c2) = After(c)
            /\ job.from = NoState => After(c2) = D!Op1.state
            /\ ~LostIn(tested) \/ job.from = NoState => ~LostIn(tested')
      BY <2>1, <2>2, <2>3, <3>2, <3>3, LoadHeard
    <3>5. LooseOf(request.action, tested', c2, e2)
      BY <3>4, TightIsLoose
    <3>6. LoadedOn(R) \in Made(R)
      BY LoadedMade
    <3> QED
      BY <1>1, <2>3, <3>4, <3>5, <3>6 DEF Went
  <2>4. CASE D!Op1.op # "load"
    <3>1. tested' = tested
      BY <1>9, <2>4
    <3>2. CASE D!Op1.op = "commit"
      <4>1. Hears(out', st, c, e, Push("commit", Compares(b)), Noted(c, "commit"), e)
        BY <1>4, <1>6, <1>7, <2>1, <2>2, <3>2, LineHeard
      <4> QED
        BY <1>1, <1>2, <1>6, <2>4, <3>1, <4>1, NotedWent
    <3>3. CASE D!Op1.op = "compare_config"
      <4>1. Hears(out', st, c, e, Push("compare", b), Noted(c, "compare_config"), e)
        BY <1>4, <1>6, <1>7, <2>1, <2>2, <3>3, LineHeard
      <4> QED
        BY <1>1, <1>2, <1>6, <2>4, <3>1, <4>1, NotedWent
    <3>4. CASE D!Op1.op = "rollback"
      <4>1. Hears(out', st, c, e, Commits(b), Noted(c, "rollback"), e)
        BY <1>4, <1>6, <1>7, <2>1, <2>2, <3>4, LineHeard
      <4> QED
        BY <1>1, <1>2, <1>6, <2>4, <3>1, <4>1, NotedWent
    <3> QED
      BY <1>4, <2>4, <3>2, <3>3, <3>4
  <2> QED
    BY <2>3, <2>4
<1>10. CASE /\ D!Op1.op = "commit"
            /\ out' = out \o D!Lines(<<"commit", "empty">>)
            /\ UNCHANGED tested
  <2>1. PICK lines : lines = <<"commit", "empty">>
    OBVIOUS
  <2>2. lines \in Talk /\ out' = out \o D!Lines(lines)
    BY <1>10, <2>1, CommitTalk
  <2>3. PICK cn : cn = Noted(c, "commit")
    OBVIOUS
  <2>4. Reads(lines, st, c, e, Push("commit", Compares(b)), cn, e)
    <3>1. st \in Fresh(R) /\ Unfit(R, L)
      BY <1>7, <1>10 DEF Expects
    <3>2. PICK fc, fe : fc = F!FailTransition(cn, e).c /\ fe = F!FailTransition(cn, e).e
      OBVIOUS
    <3> QED
      BY <1>3, <1>5, <2>1, <2>3, <3>1, <3>2, ReadCommit
  <2>5. Hears(out', st, c, e, Push("commit", Compares(b)), cn, e)
    BY <2>2, <2>4, HeardOut
  <2>6. Hears(out', st, c, e, Push("commit", Compares(b)), Noted(c, "commit"), e)
    BY <2>3, <2>5
  <2> QED
    BY <1>1, <1>2, <1>6, <1>10, <2>6, NotedWent
<1> QED
  BY <1>8, <1>9, <1>10 DEF D!Interrupted

\* Any operation, wherever its file is tested
LEMMA OpWent ==
  ASSUME DrnedInv, out = <<>>, NEW c \in F!Context, NEW e \in Events, NEW R, NEW L, NEW S, NEW st,
         Expects(R, L, S), OpAt(D!Op1.op, request.action, tested, S, R, st, c, e), LoadFits(c),
         \/ D!Load \/ D!CommitSucceeds \/ D!QueueItemFails \/ D!CommitAborted
         \/ D!Compare \/ D!RollBack \/ D!Interrupted
  PROVE  Went(R, L, S, st, c, e)
<1>1. rpc = "op" /\ RunInv
  BY DEF DrnedInv, D!Load, D!CommitSucceeds, D!QueueItemFails, D!CommitAborted, D!Compare,
         D!RollBack, D!Interrupted
<1>2. CASE D!Load
  BY <1>1, <1>2, LoadWent
<1>3. CASE D!CommitSucceeds \/ D!QueueItemFails \/ D!CommitAborted
  BY <1>1, <1>3, CommitWent
<1>4. CASE D!Compare
  BY <1>1, <1>4, CompareWent
<1>5. CASE D!RollBack
  BY <1>1, <1>5, RollBackWent
<1>6. CASE D!Interrupted
  BY <1>1, <1>6, InterruptedWent
<1> QED
  BY <1>2, <1>3, <1>4, <1>5, <1>6

----------------------------------------------------------------------------
(* Operations that the filter does not follow                              *)

\* Few lines, none of which is heard where only a start is
Brief(q) == q \in Calm /\ Len(q) <= 5

LEMMA BriefLines ==
  /\ \A lines : CommitDone(lines) => Brief(lines)
  /\ \A lines, told : ItemFailed(lines, told) => Brief(lines)
  /\ \A lines, told : Refusal(lines, told) => Brief(lines)
  /\ Brief(<<"commit", "reason">>) /\ Brief(<<"commit", "empty">>)
  /\ Brief(<<"compare_config">>) /\ Brief(<<"compare_config", "diff">>)
<1>1. /\ "commit" \in Told /\ "empty" \in Told /\ "noqueue" \in Told /\ "queue" \in Told
      /\ "complete" \in Told /\ "completed" \in Told /\ "failed" \in Told /\ "reason" \in Told
      /\ "compare_config" \in Told /\ "diff" \in Told
  BY DEF Told, F!EventTypes, F!CommitEvents, F!ResultEvents
<1>2. PICK S : S = Told \ {"start"}
  OBVIOUS
<1>3. Calm = Seq(S)
  BY <1>2 DEF Calm
<1>4. /\ "commit" \in S /\ "empty" \in S /\ "noqueue" \in S /\ "queue" \in S
      /\ "complete" \in S /\ "completed" \in S /\ "failed" \in S /\ "reason" \in S
      /\ "compare_config" \in S /\ "diff" \in S
  BY <1>1, <1>2
<1>5. /\ \A x1 \in S : <<x1>> \in Seq(S) /\ Len(<<x1>>) <= 5
      /\ \A x1, x2 \in S : <<x1, x2>> \in Seq(S) /\ Len(<<x1, x2>>) <= 5
      /\ \A x1, x2, x3 \in S : <<x1, x2, x3>> \in Seq(S) /\ Len(<<x1, x2, x3>>) <= 5
  OBVIOUS
<1>6. /\ \A x1, x2, x3, x4 \in S : <<x1, x2, x3, x4>> \in Seq(S) /\ Len(<<x1, x2, x3, x4>>) <= 5
      /\ \A x1, x2, x3, x4, x5 \in S :
           <<x1, x2, x3, x4, x5>> \in Seq(S) /\ Len(<<x1, x2, x3, x4, x5>>) <= 5
  OBVIOUS
<1>7. /\ Brief(<<"commit">>) /\ Brief(<<"commit", "reason">>) /\ Brief(<<"commit", "empty">>)
      /\ Brief(<<"compare_config">>) /\ Brief(<<"compare_config", "diff">>)
      /\ Brief(<<"commit", "noqueue">>) /\ Brief(<<"commit", "queue">>)
  BY <1>3, <1>4, <1>5 DEF Brief
<1>8. /\ Brief(<<"commit", "queue", "reason">>) /\ Brief(<<"commit", "noqueue", "reason">>)
      /\ Brief(<<"commit", "noqueue", "complete">>)
  BY <1>3, <1>4, <1>5 DEF Brief
<1>9. /\ Brief(<<"commit", "empty", "noqueue", "empty">>) /\ Brief(<<"commit", "empty", "queue", "empty">>)
      /\ Brief(<<"commit", "queue", "completed", "complete">>)
  BY <1>3, <1>4, <1>6 DEF Brief
<1>10. /\ Brief(<<"commit", "queue", "failed", "complete">>)
       /\ Brief(<<"commit", "queue", "failed", "reason", "complete">>)
  BY <1>3, <1>4, <1>6 DEF Brief
<1> QED
  BY <1>7, <1>8, <1>9, <1>10 DEF CommitDone, ItemFailed, Refusal

\* Of a history, the last load goes unseen.
UnseenAt(a, q) == \E p \in Loads, x \in D!Tested : q = Append(p, x) /\ Misses(a, p, x)

\* It is changed.
StillUnseen(a, q1, q2) == UnseenAt(a, q2) /\ LostIn(q2) /\ Kept(a, q2) = Kept(a, q1)

LEMMA UnseenChanges ==
  ASSUME NEW a, NEW p \in Loads, NEW x \in D!Tested, Misses(a, p, x),
         NEW y \in D!Tested, y.from = x.from, NEW q1, q1 = Append(p, x), NEW q2, q2 = Append(p, y)
  PROVE  StillUnseen(a, q1, q2)
<1>1. Misses(a, p, y)
  BY LastChanged
<1>2. LostIn(q2)
  BY <1>1, LostMore DEF Misses
<1>3. Kept(a, q2) = Kept(a, q1)
  BY LastChanged
<1> QED
  BY <1>1, <1>2, <1>3 DEF UnseenAt, StillUnseen

\* What an operation does where the filter does not hear it
Unheard(st, c, e) ==
  /\ Hears(out', st, c, e, st, c, e)
  /\ LooseOf(request.action, tested', c, e)
  /\ LostIn(tested')
  /\ \/ D!Proceed /\ UnseenAt(request.action, tested')
     \/ D!Fail \/ D!Leave

LEMMA OutcomeUnheard ==
  ASSUME out = <<>>, NEW c \in F!Context, NEW e \in Events, NEW st, Deaf(st),
         LooseOf(request.action, tested, c, e), UnseenAt(request.action, tested),
         D!Op1.op \in {"commit", "compare_config"}, NEW lines, Brief(lines),
         NEW fails \in BOOLEAN, NEW told \in BOOLEAN, D!Outcome(lines, fails, told),
         D!Proceed \/ D!Fail
  PROVE  Unheard(st, c, e)
<1>1. PICK a : a = request.action
  OBVIOUS
<1>2. PICK p \in Loads, x \in D!Tested : tested = Append(p, x) /\ Misses(a, p, x)
  BY <1>1 DEF UnseenAt
<1>3. out' = out \o D!Lines(lines) /\ LastBecomes(p, x, lines, fails, told)
  BY <1>2, OutcomeIs
<1>4. PICK y : EndedAs(y, x, D!Op1.op, lines, fails, told) /\ tested' = Append(p, y)
  BY <1>3 DEF LastBecomes
<1>5. y \in D!Tested /\ y.from = x.from
  BY <1>4 DEF EndedAs
<1>6. UnseenAt(a, tested') /\ LostIn(tested') /\ Kept(a, tested') = Kept(a, tested)
  <2>1. StillUnseen(a, tested, tested')
    BY <1>2, <1>4, <1>5, UnseenChanges
  <2> QED
    BY <2>1 DEF StillUnseen
<1>7. lines \in Talk /\ Reads(lines, st, c, e, st, c, e)
  BY DeafReads, CalmFacts DEF Brief
<1>8. Hears(out', st, c, e, st, c, e)
  BY <1>3, <1>7, HeardOut
<1> QED
  BY <1>1, <1>6, <1>8 DEF Unheard, LooseOf

LEMMA CommitUnheard ==
  ASSUME RunInv, out = <<>>, NEW c \in F!Context, NEW e \in Events, NEW st, Deaf(st),
         LooseOf(request.action, tested, c, e), UnseenAt(request.action, tested),
         D!CommitSucceeds \/ D!QueueItemFails \/ D!CommitAborted
  PROVE  Unheard(st, c, e)
<1>1. D!Op1.op \in {"commit", "compare_config"}
  BY DEF D!CommitSucceeds, D!QueueItemFails, D!CommitAborted
<1>2. PICK yes \in BOOLEAN, no \in BOOLEAN : yes = TRUE /\ no = FALSE
  OBVIOUS
<1>3. \E lines, fails, told :
        /\ Brief(lines) /\ fails \in BOOLEAN /\ told \in BOOLEAN
        /\ D!Outcome(lines, fails, told) /\ (D!Proceed \/ D!Fail)
  <2>1. CASE D!CommitSucceeds
    <3>1. PICK lines : CommitDone(lines) /\ D!Outcome(lines, no, no)
      BY <1>2, <2>1, SucceedForms
    <3>2. D!Proceed
      BY <2>1, SucceedForms
    <3>3. Brief(lines)
      BY <3>1, BriefLines
    <3> QED
      BY <3>1, <3>2, <3>3
  <2>2. CASE D!QueueItemFails
    <3>1. PICK lines, told : told \in BOOLEAN /\ ItemFailed(lines, told) /\ D!Outcome(lines, yes, told)
      BY <1>2, <2>2, FailedForms
    <3>2. D!Proceed \/ D!Fail
      BY <2>2, FailedForms
    <3>3. Brief(lines)
      BY <3>1, BriefLines
    <3> QED
      BY <3>1, <3>2, <3>3
  <2>3. CASE D!CommitAborted
    <3>0. job.queue \in BOOLEAN
      BY DEF RunInv, D!Job
    <3>1. D!Fail
      BY <2>3, <3>0, AbortedForms
    <3>2. \/ \E lines, told : told \in BOOLEAN /\ Refusal(lines, told) /\ D!Outcome(lines, yes, told)
          \/ D!Outcome(<<"commit", "reason">>, yes, no)
      BY <1>2, <2>3, <3>0, AbortedForms
    <3>3. CASE \E lines, told : told \in BOOLEAN /\ Refusal(lines, told) /\ D!Outcome(lines, yes, told)
      <4>1. PICK lines, told : told \in BOOLEAN /\ Refusal(lines, told) /\ D!Outcome(lines, yes, told)
        BY <3>3
      <4>2. Brief(lines)
        BY <4>1, BriefLines
      <4> QED
        BY <3>1, <4>1, <4>2
    <3>4. CASE D!Outcome(<<"commit", "reason">>, yes, no)
      BY <3>1, <3>4, BriefLines
    <3> QED
      BY <3>2, <3>3, <3>4
  <2> QED
    BY <2>1, <2>2, <2>3
<1>4. PICK lines, fails, told :
        /\ Brief(lines) /\ fails \in BOOLEAN /\ told \in BOOLEAN
        /\ D!Outcome(lines, fails, told) /\ (D!Proceed \/ D!Fail)
  BY <1>3
<1> QED
  BY <1>1, <1>4, OutcomeUnheard

LEMMA CompareUnheard ==
  ASSUME out = <<>>, NEW c \in F!Context, NEW e \in Events, NEW st, Deaf(st),
         LooseOf(request.action, tested, c, e), UnseenAt(request.action, tested), D!Compare
  PROVE  Unheard(st, c, e)
<1>1. D!Op1.op \in {"commit", "compare_config"}
  BY DEF D!Compare
<1>2. PICK yes \in BOOLEAN, no \in BOOLEAN : yes = TRUE /\ no = FALSE
  OBVIOUS
<1>3. PICK l1, l2 : l1 = <<"compare_config">> /\ l2 = <<"compare_config", "diff">>
  OBVIOUS
<1>4. Brief(l1) /\ Brief(l2)
  BY <1>3, BriefLines
<1>5. \/ D!Outcome(l1, no, no) /\ D!Proceed
      \/ D!Outcome(l2, yes, yes) /\ D!Fail
      \/ D!Outcome(l1, yes, no) /\ D!Fail
  BY <1>2, <1>3 DEF D!Compare
<1> QED
  BY <1>1, <1>4, <1>5, OutcomeUnheard

\* One line that is not heard
LEMMA LineUnheard ==
  ASSUME out = <<>>, NEW c \in F!Context, NEW e \in Events, NEW st, Deaf(st),
         NEW ev \in GoodEvent, ev.type # "start", out' = Append(out, ev)
  PROVE  Hears(out', st, c, e, st, c, e)
<1>1. PICK t : t = ev.type
  OBVIOUS
<1>2. Takes(t, st, st, "keep")
  BY <1>1 DEF Deaf, GoodEvent, F!Event
<1>3. PICK d : d = Does("keep", ev, c, e)
  OBVIOUS
<1>4. Hears(<<ev>>, st, c, e, st, d.c, d.e)
  BY <1>1, <1>2, <1>3, HearsOne
<1>5. d.c = c /\ d.e = e
  BY <1>3 DEF Does
<1>6. out' = <<ev>>
  <2>1. Append(<<>>, ev) = <<ev>>
    OBVIOUS
  <2> QED
    BY <2>1
<1> QED
  BY <1>4, <1>5, <1>6

LEMMA RollBackUnheard ==
  ASSUME out = <<>>, NEW c \in F!Context, NEW e \in Events, NEW st, Deaf(st),
         LooseOf(request.action, tested, c, e), UnseenAt(request.action, tested), D!RollBack
  PROVE  Unheard(st, c, e)
<1>1. PICK a : a = request.action
  OBVIOUS
<1>2. PICK p \in Loads, x \in D!Tested : tested = Append(p, x) /\ Misses(a, p, x)
  BY <1>1 DEF UnseenAt
<1>3. PICK fails \in BOOLEAN :
        /\ out' = Append(out, D!Line("rollback"))
        /\ tested' = [tested EXCEPT ![Len(tested)].rolling = TRUE,
                                    ![Len(tested)].failure = IF fails /\ @ = "none" THEN "rollback" ELSE @]
        /\ IF fails THEN D!Fail ELSE D!Proceed
  BY DEF D!RollBack
<1>4. PICK f : f = IF fails /\ x.failure = "none" THEN "rollback" ELSE x.failure
  OBVIOUS
<1>5. f \in D!Failures
  BY <1>4 DEF D!Tested, D!Failures
<1>6. PICK y : y = [x EXCEPT !.rolling = TRUE, !.failure = f]
  OBVIOUS
<1>7. y \in D!Tested /\ y.from = x.from
  BY <1>5, <1>6 DEF D!Tested
<1>8. tested' = Append(p, y)
  <2>1. PICK q : q = tested
    OBVIOUS
  <2>2. PICK n : n = Len(q)
    OBVIOUS
  <2>3. q \in Loads /\ n = Len(p) + 1 /\ q[n] = x /\ Len(p) \in Nat /\ n \in DOMAIN q
    BY <1>2, <2>1, <2>2, LoadsMore DEF Loads
  <2>4. tested' = [q EXCEPT ![n].rolling = TRUE,
                            ![n].failure = IF fails /\ @ = "none" THEN "rollback" ELSE @]
    BY <1>3, <2>1, <2>2
  <2>5. tested' = [q EXCEPT ![n] = y]
    BY <1>4, <1>6, <2>3, <2>4 DEF Loads, D!Tested
  <2>6. [q EXCEPT ![n] = y] = Append(p, y)
    BY <1>2, <1>7, <2>1, <2>3, LastReplaced
  <2> QED
    BY <2>5, <2>6
<1>9. UnseenAt(a, tested') /\ LostIn(tested') /\ Kept(a, tested') = Kept(a, tested)
  <2>1. StillUnseen(a, tested, tested')
    BY <1>2, <1>7, <1>8, UnseenChanges
  <2> QED
    BY <2>1 DEF StillUnseen
<1>10. PICK ev : ev = D!Line("rollback")
  OBVIOUS
<1>11. ev \in GoodEvent /\ ev.type # "start"
  <2>1. "rollback" \in Told
    BY DEF Told, F!EventTypes
  <2> QED
    BY <1>10, <2>1, TalkLines, EmptySeq DEF Talk
<1>12. Hears(out', st, c, e, st, c, e)
  BY <1>3, <1>10, <1>11, LineUnheard
<1>13. D!Proceed \/ D!Fail
  BY <1>3
<1> QED
  BY <1>1, <1>9, <1>12, <1>13 DEF Unheard, LooseOf

\* A load from a state that the filter has lost track of
LEMMA LoadUnseen ==
  ASSUME RunInv, rpc = "op", D!Op1.op = "load", tested \in Loads, request.action = "explore",
         job.from # NoState, LostIn(tested), NEW failure \in {"none", "load"},
         NEW x, x = D!Loaded(failure), tested' = Append(tested, x)
  PROVE  /\ UnseenAt(request.action, tested') /\ LostIn(tested')
         /\ Kept(request.action, tested') = Kept(request.action, tested)
<1>1. x \in D!Tested
  BY LoadedTypes
<1>2. x.from = job.from
  BY DEF D!Loaded
<1>3. PICK a : a = request.action
  OBVIOUS
<1>4. Misses(a, tested, x)
  BY <1>2, <1>3 DEF Misses
<1>5. Kept(a, Append(tested, x)) = Kept(a, tested)
  BY <1>1, <1>4, KeptMore
<1>6. LostIn(Append(tested, x))
  BY <1>1, <1>4, LostMore DEF Misses
<1>7. UnseenAt(a, tested')
  BY <1>1, <1>4 DEF UnseenAt
<1> QED
  BY <1>3, <1>5, <1>6, <1>7

LEMMA OpUnheard ==
  ASSUME DrnedInv, out = <<>>, NEW c \in F!Context, NEW e \in Events, NEW st, Deaf(st),
         LooseOf(request.action, tested, c, e), request.action = "explore",
         job.from # NoState, LostIn(tested), D!Op1.op # "load" => UnseenAt(request.action, tested),
         \/ D!Load \/ D!CommitSucceeds \/ D!QueueItemFails \/ D!CommitAborted
         \/ D!Compare \/ D!RollBack \/ D!Interrupted
  PROVE  Unheard(st, c, e)
<1>1. rpc = "op" /\ RunInv /\ tested \in Loads
  BY DEF DrnedInv, D!Load, D!CommitSucceeds, D!QueueItemFails, D!CommitAborted, D!Compare,
         D!RollBack, D!Interrupted, LinesInv, Loads
<1>2. PICK ev : ev = [type |-> D!Op1.op, state |-> D!Op1.state]
  OBVIOUS
<1>3. ev \in GoodEvent /\ ev.type # "start"
  <2>1. D!Op1.op # "start"
    BY <1>1, Op1Good DEF GoodOp, D!Op
  <2> QED
    BY <1>1, <1>2, <2>1, OpLine
<1>4. CASE D!Load
  <2>1. D!Op1.op = "load" /\ out' = Append(out, ev)
    BY <1>2, <1>4 DEF D!Load
  <2>2. PICK failure \in {"none", "load"} :
          /\ IF failure = "none" THEN D!Proceed ELSE D!Fail
          /\ tested' = Append(tested, D!Loaded(failure))
    BY <1>4 DEF D!Load
  <2>3. /\ UnseenAt(request.action, tested') /\ LostIn(tested')
        /\ Kept(request.action, tested') = Kept(request.action, tested)
    BY <1>1, <2>1, <2>2, LoadUnseen
  <2>4. Hears(out', st, c, e, st, c, e)
    BY <1>3, <2>1, LineUnheard
  <2>5. D!Proceed \/ D!Fail
    BY <2>2
  <2> QED
    BY <2>3, <2>4, <2>5 DEF Unheard, LooseOf
<1>5. CASE D!CommitSucceeds \/ D!QueueItemFails \/ D!CommitAborted
  <2>1. UnseenAt(request.action, tested)
    BY <1>5 DEF D!CommitSucceeds, D!QueueItemFails, D!CommitAborted
  <2> QED
    BY <1>1, <1>5, <2>1, CommitUnheard
<1>6. CASE D!Compare
  <2>1. UnseenAt(request.action, tested)
    BY <1>6 DEF D!Compare
  <2> QED
    BY <1>1, <1>6, <2>1, CompareUnheard
<1>7. CASE D!RollBack
  <2>1. UnseenAt(request.action, tested)
    BY <1>7 DEF D!RollBack
  <2> QED
    BY <1>1, <1>7, <2>1, RollBackUnheard
<1>8. CASE D!Interrupted
  <2>1. D!Leave
    BY <1>8 DEF D!Interrupted
  <2>2. CASE UNCHANGED <<out, tested>>
    <3>1. Hears(out', st, c, e, st, c, e)
      BY <2>2, HearsNone
    <3>2. tested' = tested
      BY <2>2
    <3> QED
      BY <2>1, <3>1, <3>2 DEF Unheard
  <2>3. CASE /\ out' = Append(out, ev)
             /\ tested' = IF D!Op1.op = "load" THEN Append(tested, D!Loaded("none"))
                          ELSE tested
    <3>1. Hears(out', st, c, e, st, c, e)
      BY <1>3, <2>3, LineUnheard
    <3>2. CASE D!Op1.op = "load"
      <4>1. PICK failure \in {"none", "load"} : failure = "none"
        OBVIOUS
      <4>2. tested' = Append(tested, D!Loaded(failure))
        BY <2>3, <3>2, <4>1
      <4>3. LostIn(tested') /\ Kept(request.action, tested') = Kept(request.action, tested)
        BY <1>1, <3>2, <4>2, LoadUnseen
      <4> QED
        BY <2>1, <3>1, <4>3 DEF Unheard, LooseOf
    <3>3. CASE D!Op1.op # "load"
      <4>1. tested' = tested
        BY <2>3, <3>3
      <4> QED
        BY <2>1, <3>1, <4>1 DEF Unheard
    <3> QED
      BY <3>2, <3>3
  <2>4. CASE /\ D!Op1.op = "commit"
             /\ out' = out \o D!Lines(<<"commit", "empty">>)
             /\ UNCHANGED tested
    <3>1. PICK lines : lines = <<"commit", "empty">>
      OBVIOUS
    <3>2. lines \in Talk /\ lines \in Calm /\ Len(lines) <= 5
      BY <3>1, BriefLines, CommitTalk DEF Brief
    <3>3. Reads(lines, st, c, e, st, c, e)
      BY <3>2, DeafReads
    <3>4. Hears(out', st, c, e, st, c, e)
      BY <2>4, <3>1, <3>2, <3>3, HeardOut
    <3>5. tested' = tested
      BY <2>4
    <3> QED
      BY <2>1, <3>4, <3>5 DEF Unheard
  <2> QED
    BY <1>2, <1>8, <2>2, <2>3, <2>4 DEF D!Interrupted
<1> QED
  BY <1>4, <1>5, <1>6, <1>7, <1>8

----------------------------------------------------------------------------
(* The lines of the other steps of DrNED                                   *)

\* The first commit, with its banner: it is read where it is expected.
LEMMA PrepareHeard ==
  ASSUME out = <<>>, D!Prepare, NEW c \in F!Context, NEW e \in Events, NEW st0, NEW st1,
         Takes("noqueue", st0, st1, "keep"), Takes("empty", st1, st1, "keep"),
         Takes("reason", st1, st1, "keep")
  PROVE  \E st2 \in {st0, st1} :
           /\ Hears(out', st0, c, e, st2, c, e)
           /\ rpc' # "idle" => st2 = st1
<1>1. "noqueue" \in Told /\ "empty" \in Told /\ "reason" \in Told
  BY DEF Told, F!EventTypes, F!CommitEvents, F!ResultEvents
<1>2. "noqueue" \in Word /\ "empty" \in Word /\ "reason" \in Word
  BY DEF Word, F!EventTypes, F!CommitEvents, F!ResultEvents
<1>3. /\ <<"noqueue", "empty">> = Push("noqueue", Push("empty", <<>>))
      /\ <<"noqueue", "reason">> = Push("noqueue", Push("reason", <<>>))
  BY <1>2, Words2, Zenon
<1>4. <<>> \in Talk /\ Push("empty", <<>>) \in Talk /\ Push("reason", <<>>) \in Talk
  <2>1. <<>> \in Talk
    BY DEF Talk
  <2> QED
    BY <1>1, <2>1, TalkLines
<1>5. <<"noqueue", "empty">> \in Talk /\ <<"noqueue", "reason">> \in Talk
  BY <1>1, <1>3, <1>4, TalkLines
<1>6. Reads(<<"noqueue", "empty">>, st0, c, e, st1, c, e)
  <2>1. Reads(<<>>, st1, c, e, st1, c, e)
    BY ReadsNone
  <2>2. Reads(Push("empty", <<>>), st1, c, e, st1, c, e)
    BY <1>1, <1>4, <2>1, ReadsKeep
  <2> QED
    BY <1>1, <1>3, <1>4, <2>2, ReadsKeep
<1>7. Reads(<<"noqueue", "reason">>, st0, c, e, st1, c, e)
  <2>1. Reads(<<>>, st1, c, e, st1, c, e)
    BY ReadsNone
  <2>2. Reads(Push("reason", <<>>), st1, c, e, st1, c, e)
    BY <1>1, <1>4, <2>1, ReadsKeep
  <2> QED
    BY <1>1, <1>3, <1>4, <2>2, ReadsKeep
<1>8. CASE out' = out \o D!Lines(<<"noqueue", "empty">>)
  BY <1>5, <1>6, <1>8, HeardOut
<1>9. CASE out' = out \o D!Lines(<<"noqueue", "reason">>)
  BY <1>5, <1>7, <1>9, HeardOut
<1>10. CASE out' = out /\ rpc' = "idle"
  BY <1>10, HearsNone
<1>11. \/ out' = out \o D!Lines(<<"noqueue", "empty">>)
       \/ out' = out \o D!Lines(<<"noqueue", "reason">>)
       \/ out' = out /\ rpc' = "idle"
  BY DEF D!Prepare, D!End
<1> QED
  BY <1>8, <1>9, <1>10, <1>11

\* What a restore makes of the record, and of the history
Blurred(a, lines, c2, e2) ==
  /\ LooseOf(a, tested', c2, e2)
  /\ D!Astray(lines) /\ tested # <<>> => LostIn(tested')
  /\ ~D!Astray(lines) /\ ~LostIn(tested) => ~LostIn(tested')
  /\ LostIn(tested) => LostIn(tested')

LEMMA BlurLast ==
  ASSUME NEW p \in Loads, NEW x \in D!Tested, tested = Append(p, x), NEW lines, D!Blur(lines),
         NEW smooth \in BOOLEAN,
         smooth <=> lines \in D!RestoreGood /\ \A i \in DOMAIN lines : lines[i] # "diff"
  PROVE  \E y \in D!Tested :
           /\ tested' = Append(p, y)
           /\ y.to = x.to /\ y.from = x.from /\ y.told = x.told /\ y.failure = x.failure
           /\ y.blurred = (x.blurred \/ ~smooth)
           /\ y.astray = (x.astray \/ D!Astray(lines))
<1>1. PICK n : n = Len(tested)
  OBVIOUS
<1>2. n = Len(p) + 1 /\ n # 0 /\ tested[n] = x /\ n \in DOMAIN tested
  BY <1>1 DEF Loads
<1>3. PICK b : b = (x.blurred \/ ~smooth)
  OBVIOUS
<1>4. PICK w : w = (x.astray \/ D!Astray(lines))
  OBVIOUS
<1>5. b \in BOOLEAN
  BY <1>3, Zenon
<1>6. w \in BOOLEAN
  BY <1>4, Zenon
<1>7. PICK y : y = [x EXCEPT !.blurred = b, !.astray = w]
  OBVIOUS
<1>8. /\ y \in D!Tested /\ y.to = x.to /\ y.from = x.from /\ y.told = x.told
      /\ y.failure = x.failure /\ y.blurred = b /\ y.astray = w
  BY <1>5, <1>6, <1>7 DEF D!Tested
<1>9. PICK g : g = (lines \in D!RestoreGood /\ \A i \in DOMAIN lines : lines[i] # "diff")
  OBVIOUS
<1>10. tested' = [tested EXCEPT ![n].blurred = @ \/ ~g, ![n].astray = @ \/ D!Astray(lines)]
  BY <1>1, <1>2, <1>9 DEF D!Blur
<1>11. b = (x.blurred \/ ~g)
  BY <1>3, <1>9, Zenon
<1>12. tested' = [tested EXCEPT ![n].blurred = b, ![n].astray = w]
  BY <1>2, <1>4, <1>10, <1>11
<1>13. tested' = [tested EXCEPT ![n] = y]
  BY <1>2, <1>7, <1>12
<1>14. tested' = Append(p, y)
  BY <1>2, <1>8, <1>13, LastReplaced
<1> QED
  BY <1>3, <1>4, <1>8, <1>14

LEMMA BlurLoose ==
  ASSUME NEW a, tested \in Loads, NEW c \in F!Context, NEW e \in Events, LooseOf(a, tested, c, e),
         NEW lines, D!Blur(lines), NEW c2, NEW e2, Softly(c, e, c2, e2),
         lines \in D!RestoreGood /\ (\A i \in DOMAIN lines : lines[i] # "diff")
           => Mildly(c, e, c2, e2),
         ~UnseenAt(a, tested) \/ Mildly(c, e, c2, e2)
  PROVE  Blurred(a, lines, c2, e2)
<1>1. CASE tested = <<>>
  <2>1. tested' = tested
    BY <1>1 DEF D!Blur
  <2>2. Kept(a, tested) = <<>>
    BY <1>1, NoneKept
  <2>3. Recs(c2, e2, Kept(a, tested))
    BY <2>2 DEF Softly, LooseOf
  <2> QED
    BY <1>1, <2>1, <2>3 DEF Blurred, LooseOf
<1>2. CASE tested # <<>>
  <2>1. PICK p \in Loads, x \in D!Tested : tested = Append(p, x)
    BY <1>2, LastOf
  <2>2. PICK smooth : smooth = (lines \in D!RestoreGood /\ \A i \in DOMAIN lines : lines[i] # "diff")
    OBVIOUS
  <2>3. smooth \in BOOLEAN /\ (smooth => Mildly(c, e, c2, e2))
        /\ (smooth <=> lines \in D!RestoreGood /\ \A i \in DOMAIN lines : lines[i] # "diff")
    BY <2>2, Zenon
  <2>4. PICK y \in D!Tested :
           /\ tested' = Append(p, y)
           /\ y.to = x.to /\ y.from = x.from /\ y.told = x.told /\ y.failure = x.failure
           /\ y.blurred = (x.blurred \/ ~smooth)
           /\ y.astray = (x.astray \/ D!Astray(lines))
    BY <2>1, <2>3, BlurLast
  <2>5. /\ Misses(a, p, x) => Kept(a, Append(p, y)) = Kept(a, Append(p, x))
        /\ ~Misses(a, p, x) => Kept(a, Append(p, y)) = Append(Kept(a, p), y)
        /\ LostIn(Append(p, y)) <=> y.astray \/ (x.from # NoState /\ LostIn(p))
    BY <2>1, <2>4, LastChanged, ZenonT(60)
  <2>6. LostIn(tested) <=> x.astray \/ (x.from # NoState /\ LostIn(p))
    BY <2>1, LostMore
  <2>7. LooseOf(a, tested', c2, e2)
    <3>1. CASE Misses(a, p, x)
      <4>1. UnseenAt(a, tested)
        BY <2>1, <3>1 DEF UnseenAt
      <4>2. Recs(c2, e2, Kept(a, tested))
        BY <4>1 DEF Mildly, LooseOf
      <4> QED
        BY <2>1, <2>4, <2>5, <3>1, <4>2 DEF LooseOf
    <3>2. CASE ~Misses(a, p, x)
      <4>1. PICK g : g = Kept(a, p)
        OBVIOUS
      <4>2. g \in Loads /\ Kept(a, tested) = Append(g, x) /\ Kept(a, tested') = Append(g, y)
        BY <2>1, <2>4, <2>5, <3>2, <4>1, KeptMore
      <4>3. Recs(c, e, Append(g, x))
        BY <4>2 DEF LooseOf
      <4>4. x.blurred => y.blurred
        BY <2>4
      <4>5. Recs(c, e, Append(g, y))
        BY <2>1, <2>4, <4>2, <4>3, <4>4, RecChange
      <4>6. Recs(c2, e2, Append(g, y))
        <5>1. CASE smooth
          BY <2>3, <4>5, <5>1 DEF Mildly
        <5>2. CASE ~smooth
          <6>1. y.blurred
            BY <2>4, <5>2
          <6>2. PICK f : f = Append(g, y)
            OBVIOUS
          <6>3. f[Len(f)] = y
            BY <2>4, <4>2, <6>2, LoadsMore
          <6> QED
            BY <4>5, <6>1, <6>2, <6>3 DEF Softly
        <5> QED
          BY <5>1, <5>2
      <4> QED
        BY <4>2, <4>6 DEF LooseOf
    <3> QED
      BY <3>1, <3>2
  <2> QED
    BY <2>4, <2>5, <2>6, <2>7 DEF Blurred
<1> QED
  BY <1>1, <1>2

\* Only what explore-transitions tests can go unseen.
LEMMA UnseenIsLost ==
  ASSUME NEW a, NEW q, UnseenAt(a, q)
  PROVE  a = "explore" /\ LostIn(q)
<1>1. PICK p \in Loads, x \in D!Tested : q = Append(p, x) /\ Misses(a, p, x)
  BY DEF UnseenAt
<1> QED
  BY <1>1, LostMore DEF Misses

LEMMA RestoreTalks ==
  ASSUME NEW lines \in D!RestoreGood \cup D!RestoreBad
  PROVE  lines \in Talk
<1>1. Quiet \subseteq Told
  BY DEF Quiet, Told
<1>2. lines \in Seq(Quiet)
  BY RestoreLines
<1> QED
  BY <1>1, <1>2 DEF Talk

\* A restore that is read, and one that is not
LEMMA RestoreRead ==
  ASSUME NEW a, tested \in Loads, NEW c \in F!Context, NEW e \in Events, LooseOf(a, tested, c, e),
         NEW lines \in D!RestoreGood \cup D!RestoreBad, D!Blur(lines), ~UnseenAt(a, tested),
         NEW E \in Text, NEW L, Unfit(E, L), Unfit(L, L),
         NEW st, Takes("teardown", st, Restoring(E), "keep")
  PROVE  \E st2, c2, e2 : /\ Reads(lines, st, c, e, st2, c2, e2)
                          /\ Restored(lines, E, L, st2, c, e, c2, e2)
                          /\ Blurred(a, lines, c2, e2)
<1>1. PICK st2, c2, e2 : /\ Reads(lines, st, c, e, st2, c2, e2)
                         /\ Restored(lines, E, L, st2, c, e, c2, e2)
  BY ReadRestore
<1>2. /\ Softly(c, e, c2, e2)
      /\ lines \in D!RestoreGood /\ (\A i \in DOMAIN lines : lines[i] # "diff")
           => Mildly(c, e, c2, e2)
  BY <1>1 DEF Restored
<1>3. Blurred(a, lines, c2, e2)
  BY <1>2, BlurLoose
<1> QED
  BY <1>1, <1>3

LEMMA RestoreDeaf ==
  ASSUME NEW a, tested \in Loads, NEW c \in F!Context, NEW e \in Events, LooseOf(a, tested, c, e),
         NEW lines \in D!RestoreGood \cup D!RestoreBad, D!Blur(lines),
         NEW st, NEW st2, Takes("teardown", st, st2, "keep"), Deaf(st2)
  PROVE  Reads(lines, st, c, e, st2, c, e) /\ Blurred(a, lines, c, e)
<1>1. Reads(lines, st, c, e, st2, c, e)
  BY ReadRestoreEnd
<1>2. Mildly(c, e, c, e)
  BY SoftlyNone
<1>3. Softly(c, e, c, e)
  BY <1>2, SoftlyOn
<1>4. Blurred(a, lines, c, e)
  BY <1>2, <1>3, BlurLoose
<1> QED
  BY <1>1, <1>4

\* What the two restores print
LEMMA RestoreForms2 ==
  ASSUME out = <<>>
  PROVE  /\ D!RestoreAfterSet =>
              \E lines \in D!RestoreGood \cup D!RestoreBad :
                /\ D!Blur(lines) /\ out' = out \o D!Lines(lines)
                /\ (rpc' = "set" /\ lines \in D!RestoreGood) \/ rpc' = "restore"
         /\ D!RestoreAtEnd =>
              \E lines \in D!RestoreGood \cup D!RestoreBad :
                /\ D!Blur(lines) /\ rpc' = "idle"
                /\ (exit' = "ok" /\ lines \in D!RestoreGood) \/ exit' = "failed"
                /\ \/ out' = out \o D!Lines(lines)
                   \/ failed_states # <<>> /\ out' = D!Lines(lines) \o <<D!Line("failed_states")>>
<1>1. ASSUME D!RestoreAfterSet
      PROVE  \E lines \in D!RestoreGood \cup D!RestoreBad :
                /\ D!Blur(lines) /\ out' = out \o D!Lines(lines)
                /\ (rpc' = "set" /\ lines \in D!RestoreGood) \/ rpc' = "restore"
  BY <1>1, Zenon DEF D!RestoreAfterSet
<1>2. ASSUME D!RestoreAtEnd
      PROVE  \E lines \in D!RestoreGood \cup D!RestoreBad :
                /\ D!Blur(lines) /\ rpc' = "idle"
                /\ (exit' = "ok" /\ lines \in D!RestoreGood) \/ exit' = "failed"
                /\ \/ out' = out \o D!Lines(lines)
                   \/ failed_states # <<>> /\ out' = D!Lines(lines) \o <<D!Line("failed_states")>>
  <2>1. PICK lines \in D!RestoreGood \cup D!RestoreBad :
          /\ D!Blur(lines)
          /\ \/ /\ lines \in D!RestoreGood
                /\ out' = out \o D!Lines(lines) \o
                     (IF failed_states = <<>> THEN <<>> ELSE <<D!Line("failed_states")>>)
                /\ D!End(IF raised THEN "failed" ELSE "ok")
             \/ /\ lines \in D!RestoreBad
                /\ out' = out \o D!Lines(lines)
                /\ D!End("failed")
    BY <1>2, Zenon DEF D!RestoreAtEnd
  <2>2. PICK q : q = D!Lines(lines)
    OBVIOUS
  <2>3. q \in LinesLeft
    <3>1. "commit" \in Told
      BY DEF Told, F!EventTypes, F!CommitEvents, F!ResultEvents
    <3>2. lines \in Talk
      BY RestoreTalks
    <3> QED
      BY <2>2, <3>1, <3>2, TalkLines
  <2>4. <<>> \o q = q /\ q \o <<>> = q
    BY <2>3, ConcatEmptySeq DEF LinesLeft
  <2>5. rpc' = "idle" /\ ((exit' = "ok" /\ lines \in D!RestoreGood) \/ exit' = "failed")
    BY <2>1 DEF D!End
  <2>6. CASE lines \in D!RestoreGood /\ out' = out \o q \o
               (IF failed_states = <<>> THEN <<>> ELSE <<D!Line("failed_states")>>)
    <3>1. CASE failed_states = <<>>
      <4>1. out' = out \o q
        BY <2>4, <2>6, <3>1
      <4> QED
        BY <2>1, <2>2, <2>5, <4>1
    <3>2. CASE failed_states # <<>>
      <4>1. out' = q \o <<D!Line("failed_states")>>
        BY <2>4, <2>6, <3>2
      <4> QED
        BY <2>1, <2>2, <2>5, <3>2, <4>1
    <3> QED
      BY <3>1, <3>2
  <2>7. CASE out' = out \o q
    BY <2>1, <2>2, <2>5, <2>7
  <2> QED
    BY <2>1, <2>2, <2>6, <2>7
<1> QED
  BY <1>1, <1>2

\* The filter reads what the step prints; then the record fits the history again.
Moves(st, c, e, st2, c2, e2) ==
  Hears(out', st, c, e, st2, c2, e2) /\ LooseOf(request.action, tested', c2, e2)

LEMMA RestoredKeeps ==
  ASSUME NEW lines, NEW E, NEW L, NEW st2, NEW c, NEW e, NEW c2, NEW e2,
         Restored(lines, E, L, st2, c, e, c2, e2)
  PROVE  /\ SameEnds(c, c2) /\ e2 \in Events
         /\ st2 = L \/ st2 \in Torn(E)
         /\ D!Astray(lines) => st2 = L
         /\ ~D!Astray(lines) => st2 \in Torn(E)
         /\ ~D!Astray(lines) /\ lines \in D!RestoreGood
              => st2 = Push("compare", Push("gen-trans-failed", E))
BY DEF Restored, Softly

\* The list of the failed states comes last.
LEMMA FailedHeard ==
  ASSUME NEW lines \in D!RestoreGood \cup D!RestoreBad, NEW st, NEW c, NEW e,
         NEW st2, NEW c2 \in F!Context, NEW e2 \in Events, Reads(lines, st, c, e, st2, c2, e2),
         NEW st3, Takes("failed_states", st2, st3, "keep"),
         out' = D!Lines(lines) \o <<D!Line("failed_states")>>
  PROVE  Hears(out', st, c, e, st3, c2, e2)
<1>1. "failed_states" \in Told
  BY DEF Told, F!EventTypes, F!CommitEvents, F!ResultEvents
<1>2. lines \in Talk
  BY RestoreTalks
<1>3. PICK q : q = D!Lines(lines)
  OBVIOUS
<1>4. PICK ev : ev = D!Line("failed_states")
  OBVIOUS
<1>5. q \in LinesLeft /\ ev \in GoodEvent /\ ev.type = "failed_states"
  BY <1>1, <1>2, <1>3, <1>4, TalkLines
<1>6. <<ev>> \in LinesLeft
  BY <1>5 DEF LinesLeft
<1>7. PICK d : d = Does("keep", ev, c2, e2)
  OBVIOUS
<1>8. d.c = c2 /\ d.e = e2
  BY <1>7 DEF Does
<1>9. Hears(<<ev>>, st2, c2, e2, st3, d.c, d.e)
  BY <1>5, <1>7, HearsOne
<1>10. Hears(q, st, c, e, st2, c2, e2)
  BY <1>3 DEF Reads
<1>11. Hears(q \o <<ev>>, st, c, e, st3, c2, e2)
  BY <1>5, <1>6, <1>8, <1>9, <1>10, HearsMore
<1> QED
  BY <1>3, <1>4, <1>11

\* walk-states is restored.
LEMMA WalkRestores ==
  ASSUME tested \in Loads, out = <<>>, request.action # "explore",
         NEW c \in F!Context, NEW e \in Events, LooseOf(request.action, tested, c, e),
         NEW st \in WalkAny, D!RestoreAfterSet \/ D!RestoreAtEnd
  PROVE  \E st2, c2, e2 :
           /\ Moves(st, c, e, st2, c2, e2) /\ c2.exploring_from = c.exploring_from
           /\ rpc' = "set" => st2 \in WalkRest
           /\ rpc' = "restore" => st2 \in WalkAny
<1>1. ~UnseenAt(request.action, tested)
  BY UnseenIsLost
<1>2. WT \in Text /\ Unfit(WT, WT) /\ Takes("teardown", st, Restoring(WT), "keep")
  BY TailText, UnfitTails, WalkTakes
<1>3. PICK a : a = request.action
  OBVIOUS
<1>4. ASSUME NEW lines \in D!RestoreGood \cup D!RestoreBad, D!Blur(lines)
      PROVE  \E st2, c2, e2 : /\ Reads(lines, st, c, e, st2, c2, e2)
                              /\ Restored(lines, WT, WT, st2, c, e, c2, e2)
                              /\ Blurred(a, lines, c2, e2)
  BY <1>1, <1>2, <1>3, <1>4, RestoreRead
<1>5. /\ Push("compare", Push("gen-trans-failed", WT)) \in WalkRest
      /\ WT \in WalkRest /\ WalkRest \subseteq WalkAny /\ Torn(WT) \subseteq WalkAny
  BY DEF WalkRest, WalkAny
<1>6. CASE D!RestoreAfterSet
  <2>1. PICK lines \in D!RestoreGood \cup D!RestoreBad :
          /\ D!Blur(lines) /\ out' = out \o D!Lines(lines)
          /\ (rpc' = "set" /\ lines \in D!RestoreGood) \/ rpc' = "restore"
    BY <1>6, RestoreForms2
  <2>2. PICK st2, c2, e2 : /\ Reads(lines, st, c, e, st2, c2, e2)
                           /\ Restored(lines, WT, WT, st2, c, e, c2, e2)
                           /\ Blurred(a, lines, c2, e2)
    BY <1>4, <2>1
  <2>3. /\ SameEnds(c, c2)
        /\ st2 = WT \/ st2 \in Torn(WT)
        /\ D!Astray(lines) => st2 = WT
        /\ ~D!Astray(lines) /\ lines \in D!RestoreGood
              => st2 = Push("compare", Push("gen-trans-failed", WT))
    BY <2>2, RestoredKeeps
  <2>4. Hears(out', st, c, e, st2, c2, e2)
    BY <2>1, <2>2, RestoreTalks, HeardOut
  <2>5. Moves(st, c, e, st2, c2, e2)
    BY <1>3, <2>2, <2>4 DEF Moves, Blurred
  <2>6. (rpc' = "set" => st2 \in WalkRest) /\ (rpc' = "restore" => st2 \in WalkAny)
    BY <1>5, <2>1, <2>3
  <2> QED
    BY <2>3, <2>5, <2>6 DEF SameEnds
<1>7. CASE D!RestoreAtEnd
  <2>1. PICK lines \in D!RestoreGood \cup D!RestoreBad :
                /\ D!Blur(lines) /\ rpc' = "idle"
                /\ \/ out' = out \o D!Lines(lines)
                   \/ out' = D!Lines(lines) \o <<D!Line("failed_states")>>
    BY <1>7, RestoreForms2
  <2>2. PICK st2, c2, e2 : /\ Reads(lines, st, c, e, st2, c2, e2)
                           /\ Restored(lines, WT, WT, st2, c, e, c2, e2)
                           /\ Blurred(a, lines, c2, e2)
    BY <1>4, <2>1
  <2>3. SameEnds(c, c2) /\ e2 \in Events /\ (st2 = WT \/ st2 \in Torn(WT))
    BY <2>2, RestoredKeeps
  <2>4. \E st3 : Hears(out', st, c, e, st3, c2, e2)
    <3>1. CASE out' = out \o D!Lines(lines)
      BY <2>1, <2>2, <3>1, RestoreTalks, HeardOut
    <3>2. CASE out' = D!Lines(lines) \o <<D!Line("failed_states")>>
      <4>1. Takes("failed_states", st2, <<>>, "keep")
        BY <2>3, WalkTakes
      <4>2. c2 \in F!Context
        BY <2>3 DEF SameEnds
      <4> QED
        BY <2>1, <2>2, <2>3, <3>2, <4>1, <4>2, FailedHeard
    <3> QED
      BY <2>1, <3>1, <3>2
  <2>5. PICK st3 : Hears(out', st, c, e, st3, c2, e2)
    BY <2>4
  <2>6. Moves(st, c, e, st3, c2, e2)
    BY <1>3, <2>2, <2>5 DEF Moves, Blurred
  <2> QED
    BY <2>1, <2>3, <2>6 DEF SameEnds
<1> QED
  BY <1>6, <1>7

\* A restore that is not heard, but for the teardown.
LEMMA DeafRestores ==
  ASSUME tested \in Loads, out = <<>>,
         NEW c \in F!Context, NEW e \in Events, LooseOf(request.action, tested, c, e),
         NEW st, NEW st2, Takes("teardown", st, st2, "keep"), Deaf(st2), D!RestoreAtEnd
  PROVE  /\ Moves(st, c, e, st2, c, e) /\ rpc' = "idle"
         /\ LostIn(tested) => LostIn(tested')
<1>1. PICK lines \in D!RestoreGood \cup D!RestoreBad :
                /\ D!Blur(lines) /\ rpc' = "idle"
                /\ \/ out' = out \o D!Lines(lines)
                   \/ out' = D!Lines(lines) \o <<D!Line("failed_states")>>
  BY RestoreForms2
<1>2. PICK a : a = request.action
  OBVIOUS
<1>3. Reads(lines, st, c, e, st2, c, e) /\ Blurred(a, lines, c, e)
  BY <1>1, <1>2, RestoreDeaf
<1>4. Hears(out', st, c, e, st2, c, e)
  <2>1. CASE out' = out \o D!Lines(lines)
    BY <1>1, <1>3, <2>1, RestoreTalks, HeardOut
  <2>2. CASE out' = D!Lines(lines) \o <<D!Line("failed_states")>>
    <3>1. Takes("failed_states", st2, st2, "keep")
      BY DEF Deaf, F!EventTypes
    <3> QED
      BY <1>1, <1>3, <2>2, <3>1, FailedHeard
  <2> QED
    BY <1>1, <2>1, <2>2
<1> QED
  BY <1>1, <1>2, <1>3, <1>4 DEF Moves, Blurred

\* After a transition that explore-transitions has followed
LEMMA ExploreRestores ==
  ASSUME tested \in Loads, tested # <<>>, out = <<>>, ~LostIn(tested), failed_states = <<>>,
         NEW c \in F!Context, NEW e \in Events, LooseOf(request.action, tested, c, e),
         NEW st \in Made(TX), D!RestoreAtEnd
  PROVE  \E st2, c2, e2 :
           /\ Moves(st, c, e, st2, c2, e2) /\ SameEnds(c, c2) /\ rpc' = "idle"
           /\ \/ /\ ~LostIn(tested') /\ st2 \in Torn(EX)
                 /\ exit' = "ok" => st2 = Push("compare", Push("gen-trans-failed", EX))
              \/ st2 = ET /\ LostIn(tested')
<1>1. PICK lines \in D!RestoreGood \cup D!RestoreBad :
                /\ D!Blur(lines) /\ rpc' = "idle"
                /\ (exit' = "ok" /\ lines \in D!RestoreGood) \/ exit' = "failed"
                /\ out' = out \o D!Lines(lines)
  BY RestoreForms2
<1>2. EX \in Text /\ Unfit(EX, ET) /\ Unfit(ET, ET) /\ ~UnseenAt(request.action, tested)
  BY TailText, UnfitTails, UnseenIsLost
<1>3. Takes("teardown", st, Restoring(EX), "keep")
  <2>1. Drops("teardown", st, TX)
    BY TailText, MadeFalls DEF Failing, Breaks
  <2>2. Takes("teardown", TX, Restoring(EX), "keep")
    BY TailTakes DEF Restoring
  <2> QED
    BY <2>1, <2>2, TakesAfter
<1>4. PICK a : a = request.action
  OBVIOUS
<1>5. PICK st2, c2, e2 : /\ Reads(lines, st, c, e, st2, c2, e2)
                         /\ Restored(lines, EX, ET, st2, c, e, c2, e2)
                         /\ Blurred(a, lines, c2, e2)
  BY <1>1, <1>2, <1>3, <1>4, RestoreRead
<1>6. /\ SameEnds(c, c2)
      /\ D!Astray(lines) => st2 = ET
      /\ ~D!Astray(lines) => st2 \in Torn(EX)
      /\ ~D!Astray(lines) /\ lines \in D!RestoreGood
              => st2 = Push("compare", Push("gen-trans-failed", EX))
  BY <1>5, RestoredKeeps
<1>7. Moves(st, c, e, st2, c2, e2)
  <2>1. Hears(out', st, c, e, st2, c2, e2)
    BY <1>1, <1>5, RestoreTalks, HeardOut
  <2> QED
    BY <1>4, <1>5, <2>1 DEF Moves, Blurred
<1>8. /\ D!Astray(lines) => LostIn(tested')
      /\ ~D!Astray(lines) => ~LostIn(tested')
  BY <1>5 DEF Blurred
<1> QED
  BY <1>1, <1>6, <1>7, <1>8

----------------------------------------------------------------------------
(* The order of the operations on a file, and where a run may be           *)

NextOp(o) ==
  CASE o = "commit" -> {"compare_config"}
    [] o = "compare_config" -> {"load", "rollback"}
    [] OTHER -> {"commit"}

LEMMA Orders ==
  /\ "commit" \in NextOp("load") /\ "commit" \in NextOp("rollback")
  /\ "compare_config" \in NextOp("commit")
  /\ "load" \in NextOp("compare_config") /\ "rollback" \in NextOp("compare_config")
BY DEF NextOp

Course(q) ==
  /\ q # <<>> /\ q[Len(q)].op = "compare_config"
  /\ \A i \in 1..(Len(q) - 1) : q[i + 1].op \in NextOp(q[i].op)

LEMMA CourseTail ==
  ASSUME NEW q \in Seq(GoodOp), Course(q)
  PROVE  /\ Tail(q) # <<>> => Course(Tail(q)) /\ Head(Tail(q)).op \in NextOp(Head(q).op)
         /\ Tail(q) = <<>> => Head(q).op = "compare_config"
<1>1. PICK n : n = Len(q)
  OBVIOUS
<1>2. PICK r : r = Tail(q)
  OBVIOUS
<1>3. /\ n \in Nat /\ n > 0 /\ r \in Seq(GoodOp) /\ Len(r) = n - 1 /\ Head(q) = q[1]
      /\ \A i \in 1..(n - 1) : r[i] = q[i + 1]
  BY <1>1, <1>2, EmptySeq DEF Course
<1>4. q[n].op = "compare_config" /\ \A i \in 1..(n - 1) : q[i + 1].op \in NextOp(q[i].op)
  BY <1>1 DEF Course
<1>5. CASE r = <<>>
  <2>1. n = 1
    BY <1>3, <1>5
  <2>2. Head(q).op = "compare_config"
    BY <1>3, <1>4, <2>1
  <2> QED
    BY <1>2, <1>5, <2>2
<1>6. CASE r # <<>>
  <2>1. n > 1 /\ Head(r) = r[1]
    BY <1>3, <1>6, EmptySeq
  <2>2. Head(r).op \in NextOp(Head(q).op)
    BY <1>3, <1>4, <2>1
  <2>3. r[Len(r)].op = "compare_config"
    BY <1>3, <1>4, <2>1
  <2>4. ASSUME NEW i \in 1..(Len(r) - 1)
        PROVE  r[i + 1].op \in NextOp(r[i].op)
    <3>1. i + 1 \in 1..(n - 1) /\ i \in 1..(n - 1)
      BY <1>3, <2>4
    <3>2. r[i + 1] = q[i + 2] /\ r[i] = q[i + 1]
      BY <1>3, <3>1
    <3>3. q[i + 1 + 1].op \in NextOp(q[i + 1].op)
      BY <1>4, <3>1
    <3> QED
      BY <3>2, <3>3
  <2> QED
    BY <1>2, <1>6, <2>2, <2>3, <2>4 DEF Course
<1> QED
  BY <1>5, <1>6

\* A transition, with or without a rollback
LoadsOnly(r, s) ==
  /\ r \in Seq(GoodOp) /\ Course(r) /\ Head(r).op = "load" /\ Head(r).state = s
  /\ \A i \in 2..Len(r) : r[i].op # "load"

LEMMA AttemptCourse ==
  ASSUME NEW s \in States, NEW q, q = D!Rollback \/ q = <<>>, NEW r, r = D!Attempt(s) \o q
  PROVE  LoadsOnly(r, s)
<1>1. PICK p : p = D!Attempt(s)
  OBVIOUS
<1>2. /\ p \in Seq(GoodOp) /\ Len(p) = 3
      /\ p[1].op = "load" /\ p[1].state = s /\ p[2].op = "commit" /\ p[3].op = "compare_config"
  <2>1. p \in Seq(GoodOp) /\ Len(p) = 3
    BY <1>1, AttemptTypes
  <2> QED
    BY <1>1, <2>1 DEF D!Attempt, D!Do
<1>3. q \in Seq(GoodOp)
  <2>1. D!Rollback \in Seq(GoodOp)
    BY AttemptTypes
  <2>2. <<>> \in Seq(GoodOp)
    OBVIOUS
  <2> QED
    BY <2>1, <2>2
<1>4. q # <<>> => /\ Len(q) = 3 /\ q[1].op = "rollback" /\ q[2].op = "commit"
                  /\ q[3].op = "compare_config"
  BY DEF D!Rollback, D!Do
<1>5. /\ r \in Seq(GoodOp) /\ Len(r) = 3 + Len(q)
      /\ r[1] = p[1] /\ r[2] = p[2] /\ r[3] = p[3]
      /\ \A i \in 1..Len(q) : r[3 + i] = q[i]
  <2>1. /\ p \o q \in Seq(GoodOp) /\ Len(p \o q) = Len(p) + Len(q)
        /\ \A i \in 1..(Len(p) + Len(q)) :
             (p \o q)[i] = IF i <= Len(p) THEN p[i] ELSE q[i - Len(p)]
    BY <1>2, <1>3, ConcatProperties
  <2>2. r = p \o q
    BY <1>1
  <2>3. PICK m \in Nat : m = Len(q)
    BY <1>3
  <2>4. /\ r \in Seq(GoodOp) /\ Len(r) = 3 + m
        /\ \A i \in 1..(3 + m) : r[i] = IF i <= 3 THEN p[i] ELSE q[i - 3]
    BY <1>2, <2>1, <2>2, <2>3
  <2>5. r[1] = p[1] /\ r[2] = p[2] /\ r[3] = p[3]
    BY <2>3, <2>4
  <2>6. ASSUME NEW i \in 1..m
        PROVE  r[3 + i] = q[i]
    <3>1. 3 + i \in 1..(3 + m) /\ ~(3 + i <= 3) /\ (3 + i) - 3 = i
      BY <2>3, <2>6
    <3> QED
      BY <2>4, <3>1
  <2> QED
    BY <2>3, <2>4, <2>5, <2>6
<1>6. Head(r).op = "load" /\ Head(r).state = s
  BY <1>2, <1>3, <1>5
<1>7. Course(r) /\ \A i \in 2..Len(r) : r[i].op # "load"
  <2>1. CASE q = <<>>
    <3>0. Len(q) = 0
      BY <2>1
    <3>1. Len(r) = 3 /\ r # <<>>
      BY <1>5, <3>0, EmptySeq
    <3>2. r[1].op = "load" /\ r[2].op = "commit" /\ r[3].op = "compare_config"
      BY <1>2, <1>5
    <3>3. \A i \in 1..(Len(r) - 1) : i = 1 \/ i = 2
      BY <3>1
    <3>4. \A i \in 2..Len(r) : i = 2 \/ i = 3
      BY <3>1
    <3>5. \A i \in 1..(Len(r) - 1) : r[i + 1].op \in NextOp(r[i].op)
      <4>1. r[2].op \in NextOp(r[1].op) /\ r[3].op \in NextOp(r[2].op)
        BY <3>2, Orders
      <4>2. ASSUME NEW i \in 1..(Len(r) - 1)
            PROVE  r[i + 1].op \in NextOp(r[i].op)
        <5>1. PICK j : j = i + 1
          OBVIOUS
        <5>2. (i = 1 /\ j = 2) \/ (i = 2 /\ j = 3)
          <6>1. i = 1 \/ i = 2
            BY <3>3
          <6> QED
            BY <5>1, <6>1
        <5>3. r[j].op \in NextOp(r[i].op)
          BY <4>1, <5>2, Zenon
        <5> QED
          BY <5>1, <5>3, Zenon
      <4> QED
        BY <4>2
    <3> QED
      BY <3>1, <3>2, <3>4, <3>5 DEF Course
  <2>2. CASE q # <<>>
    <3>1. /\ Len(r) = 6 /\ r[1].op = "load" /\ r[2].op = "commit" /\ r[3].op = "compare_config"
          /\ r[4].op = "rollback" /\ r[5].op = "commit" /\ r[6].op = "compare_config"
      <4>1. Len(q) = 3 /\ 1 \in 1..3 /\ 2 \in 1..3 /\ 3 \in 1..3
        BY <1>4, <2>2
      <4>2. r[3 + 1] = q[1] /\ r[3 + 2] = q[2] /\ r[3 + 3] = q[3]
        BY <1>5, <4>1
      <4>3. r[4] = q[1] /\ r[5] = q[2] /\ r[6] = q[3] /\ Len(r) = 6
        BY <1>5, <4>1, <4>2
      <4>4. /\ q[1].op = "rollback" /\ q[2].op = "commit" /\ q[3].op = "compare_config"
        BY <1>4, <2>2
      <4>5. r[1].op = "load" /\ r[2].op = "commit" /\ r[3].op = "compare_config"
        BY <1>2, <1>5
      <4> QED
        BY <4>3, <4>4, <4>5
    <3>2. \A i \in 2..Len(r) : i = 2 \/ i = 3 \/ i = 4 \/ i = 5 \/ i = 6
      BY <3>1
    <3>3. \A i \in 1..(Len(r) - 1) : i = 1 \/ i = 2 \/ i = 3 \/ i = 4 \/ i = 5
      BY <3>1
    <3>4. \A i \in 1..(Len(r) - 1) : r[i + 1].op \in NextOp(r[i].op)
      <4>1. r[2].op \in NextOp(r[1].op) /\ r[3].op \in NextOp(r[2].op)
        BY <3>1, Orders
      <4>2. r[4].op \in NextOp(r[3].op)
        BY <3>1, Orders
      <4>3. r[5].op \in NextOp(r[4].op) /\ r[6].op \in NextOp(r[5].op)
        BY <3>1, Orders
      <4>4. ASSUME NEW i \in 1..(Len(r) - 1)
            PROVE  r[i + 1].op \in NextOp(r[i].op)
        <5>1. PICK j : j = i + 1
          OBVIOUS
        <5>2. \/ (i = 1 /\ j = 2) \/ (i = 2 /\ j = 3) \/ (i = 3 /\ j = 4)
              \/ (i = 4 /\ j = 5) \/ (i = 5 /\ j = 6)
          <6>1. i = 1 \/ i = 2 \/ i = 3 \/ i = 4 \/ i = 5
            BY <3>3
          <6> QED
            BY <5>1, <6>1
        <5>3. r[j].op \in NextOp(r[i].op)
          BY <4>1, <4>2, <4>3, <5>2, Zenon
        <5> QED
          BY <5>1, <5>3, Zenon
      <4> QED
        BY <4>4
    <3>5. r # <<>>
      BY <3>1
    <3> QED
      BY <3>1, <3>2, <3>4, <3>5 DEF Course
  <2> QED
    BY <2>1, <2>2
<1> QED
  BY <1>5, <1>6, <1>7 DEF LoadsOnly

\* A state set
LEMMA SetCourse ==
  ASSUME NEW tset \in Seq(States) \ {<<>>}, NEW rollback \in BOOLEAN
  PROVE  Course(D!SetOps(tset, rollback))
<1> DEFINE turn(k)  == ((k - 1) \div 3) + 1
           place(k) == ((k - 1) % 3) + 1
<1>1. PICK turns : turns = Len(tset) + (IF rollback THEN Len(tset) + 2 ELSE 0)
  OBVIOUS
<1>2. Len(tset) \in Nat /\ Len(tset) > 0 /\ turns \in Nat /\ turns > 0
  BY <1>1, EmptySeq
<1>3. PICK q : q = D!SetOps(tset, rollback)
  OBVIOUS
<1>4. q = [k \in 1..(3 * turns) |->
             IF turn(k) <= Len(tset) THEN D!Attempt(tset[turn(k)])[place(k)]
             ELSE D!Rollback[place(k)]]
  BY <1>1, <1>3 DEF D!SetOps
<1>5. PICK n \in Nat : n = 3 * turns
  BY <1>2
<1>6. q \in Seq(GoodOp) /\ q # <<>>
  BY <1>3, SetOpsTypes
<1>7. Len(q) = n
  <2>1. DOMAIN q = 1..n
    BY <1>4, <1>5
  <2> QED
    BY <1>6, <2>1
<1>8. ASSUME NEW k \in 1..n
      PROVE  /\ place(k) = 1 => q[k].op \in {"load", "rollback"}
             /\ place(k) = 2 => q[k].op = "commit"
             /\ place(k) = 3 => q[k].op = "compare_config"
  <2>1. PICK j, m : j = turn(k) /\ m = place(k)
    OBVIOUS
  <2>2. q[k] = IF j <= Len(tset) THEN D!Attempt(tset[j])[m] ELSE D!Rollback[m]
    BY <1>4, <1>5, <1>8, <2>1
  <2>3. \A s : /\ D!Attempt(s)[1].op = "load" /\ D!Attempt(s)[2].op = "commit"
               /\ D!Attempt(s)[3].op = "compare_config"
    BY DEF D!Attempt, D!Do
  <2>4. /\ D!Rollback[1].op = "rollback" /\ D!Rollback[2].op = "commit"
        /\ D!Rollback[3].op = "compare_config"
    BY DEF D!Rollback, D!Do
  <2>5. CASE j <= Len(tset)
    <3>1. q[k] = D!Attempt(tset[j])[m]
      BY <2>2, <2>5
    <3> HIDE DEF place, turn
    <3> QED
      BY <2>1, <2>3, <3>1
  <2>6. CASE ~(j <= Len(tset))
    <3>1. q[k] = D!Rollback[m]
      BY <2>2, <2>6
    <3> HIDE DEF place, turn
    <3> QED
      BY <2>1, <2>4, <3>1
  <2> QED
    BY <2>5, <2>6
<1>9. place(n) = 3
  BY <1>2, <1>5
<1>10. ASSUME NEW i \in 1..(n - 1)
       PROVE  /\ place(i) \in 1..3
              /\ place(i + 1) = IF place(i) = 3 THEN 1 ELSE place(i) + 1
  BY <1>5, <1>10
<1>11. ASSUME NEW i \in 1..(n - 1)
       PROVE  q[i + 1].op \in NextOp(q[i].op)
  <2>1. i \in 1..n /\ i + 1 \in 1..n
    BY <1>5, <1>11
  <2>2. PICK m \in 1..3 : m = place(i)
    BY <1>10
  <2>3. m = 1 \/ m = 2 \/ m = 3
    BY <2>2
  <2>4. place(i + 1) = IF m = 3 THEN 1 ELSE m + 1
    BY <1>10, <2>2
  <2> HIDE DEF place, turn
  <2>5. CASE m = 1
    <3>1. place(i + 1) = 2
      BY <2>4, <2>5
    <3> QED
      BY <1>8, <2>1, <2>2, <2>5, <3>1 DEF NextOp
  <2>6. CASE m = 2
    <3>1. place(i + 1) = 3
      BY <2>4, <2>6
    <3> QED
      BY <1>8, <2>1, <2>2, <2>6, <3>1 DEF NextOp
  <2>7. CASE m = 3
    <3>1. place(i + 1) = 1
      BY <2>4, <2>7
    <3> QED
      BY <1>8, <2>1, <2>2, <2>7, <3>1 DEF NextOp
  <2> QED
    BY <2>3, <2>5, <2>6, <2>7
<1>12. q[n].op = "compare_config"
  <2>1. n \in 1..n
    BY <1>2, <1>5
  <2> HIDE DEF place, turn
  <2> QED
    BY <1>8, <1>9, <2>1
<1> QED
  BY <1>3, <1>6, <1>7, <1>11, <1>12 DEF Course

\* What is left to do goes on like this; only the tests of state sets go on
\* after a failure, and load more than one state.
RunCourse ==
  /\ rpc = "op" => Course(ops)
  /\ job.test # "set" =>
       /\ failed_states = <<>> /\ rpc \notin {"set", "restore_set"}
       /\ rpc = "op" => \A i \in 2..Len(ops) : ops[i].op # "load"
  /\ job.test = "raw" => rpc # "restore"

\* A run of a single state loads that one.
FirstLoad(s) ==
  /\ rpc = "prepare" => Head(Head(sets)) = s
  /\ rpc = "op" /\ D!Op1.op = "load" => D!Op1.state = s

\* What becomes of a run after an operation
OpsGo ==
  /\ rpc' = "op" => Tail(ops) # <<>> /\ ops' = Tail(ops)
  /\ failed_states' # failed_states => job.test = "set"
  /\ job.test = "set" \/ rpc' \notin {"set", "restore_set"}
  /\ job.test = "raw" => rpc' # "restore"

LEMMA OpsGoOn ==
  ASSUME RunInv, rpc = "op", D!Proceed \/ D!Fail \/ D!Leave
  PROVE  OpsGo
<1>1. job.test \in {"raw", "single", "set"}
  BY DEF RunInv, D!Job
<1>2. CASE D!Proceed
  <2>1. CASE Tail(ops) # <<>>
    BY <1>1, <1>2, <2>1 DEF D!Proceed, OpsGo
  <2>2. CASE Tail(ops) = <<>>
    <3>1. CASE job.test = "set"
      BY <1>2, <2>2, <3>1 DEF D!Proceed, OpsGo
    <3>2. CASE job.test = "single"
      BY <1>2, <2>2, <3>2 DEF D!Proceed, OpsGo
    <3>3. CASE job.test = "raw"
      BY <1>2, <2>2, <3>3 DEF D!Proceed, D!End, OpsGo
    <3> QED
      BY <1>1, <3>1, <3>2, <3>3
  <2> QED
    BY <2>1, <2>2
<1>3. CASE D!Leave
  BY <1>1, <1>3 DEF D!Leave, D!End, OpsGo
<1>4. CASE D!Fail /\ ~D!Leave
  <2>1. /\ job.test = "set"
        /\ rpc' = IF Len(sets) = 1 THEN "restore" ELSE "restore_set"
    BY <1>4 DEF D!Fail
  <2> QED
    BY <2>1 DEF OpsGo
<1> QED
  BY <1>2, <1>3, <1>4

LEMMA OpSteps ==
  ASSUME \/ D!Load \/ D!CommitSucceeds \/ D!QueueItemFails \/ D!CommitAborted
         \/ D!Compare \/ D!RollBack \/ D!Interrupted
  PROVE  rpc = "op" /\ UNCHANGED job /\ (D!Proceed \/ D!Fail \/ D!Leave)
BY DEF D!Load, D!CommitSucceeds, D!QueueItemFails, D!CommitAborted, D!Compare, D!RollBack,
       D!Interrupted, D!Outcome

LEMMA RunCourseStep ==
  ASSUME RunInv, RunCourse, D!Step
  PROVE  RunCourse' /\ UNCHANGED job
<1>1. CASE D!Prepare
  <2>1. rpc = "prepare" /\ UNCHANGED <<job, failed_states>>
    BY <1>1 DEF D!Prepare
  <2>2. CASE rpc' = "idle"
    BY <2>1, <2>2 DEF RunCourse
  <2>3. CASE rpc' \in {"set", "restore"}
    <3>1. job.test = "set"
      BY <1>1, <2>3 DEF D!Prepare, D!End
    <3> QED
      BY <2>1, <2>3, <3>1 DEF RunCourse
  <2>4. CASE rpc' \notin {"idle", "set", "restore"}
    <3>1. PICK s, q : s = Head(Head(sets)) /\ q = IF job.test = "single" THEN D!Rollback ELSE <<>>
      OBVIOUS
    <3>2. rpc' = "op" /\ ops' = D!Attempt(s) \o q /\ job.test # "set"
      BY <1>1, <2>4, <3>1 DEF D!Prepare, D!End
    <3>3. s \in States
      <4>1. sets # <<>> /\ sets \in Seq(Seq(States) \ {<<>>})
        BY <2>1, <3>2 DEF RunInv
      <4>2. Head(sets) \in Seq(States) \ {<<>>}
        BY <4>1
      <4> QED
        BY <3>1, <4>2
    <3>4. q = D!Rollback \/ q = <<>>
      BY <3>1
    <3>5. PICK r : r = D!Attempt(s) \o q
      OBVIOUS
    <3>6. LoadsOnly(r, s)
      BY <3>3, <3>4, <3>5, AttemptCourse
    <3>7. Course(r) /\ \A i \in 2..Len(r) : r[i].op # "load"
      BY <3>6 DEF LoadsOnly
    <3> QED
      BY <2>1, <3>2, <3>5, <3>7 DEF RunCourse
  <2> QED
    BY <2>2, <2>3, <2>4
<1>2. CASE D!Load \/ D!CommitSucceeds \/ D!QueueItemFails \/ D!CommitAborted \/ D!Compare
           \/ D!RollBack \/ D!Interrupted
  <2>1. rpc = "op" /\ UNCHANGED job /\ (D!Proceed \/ D!Fail \/ D!Leave)
    BY <1>2, OpSteps
  <2>2. OpsGo
    BY <2>1, OpsGoOn
  <2>3. ops \in Seq(GoodOp) /\ Course(ops)
    BY <2>1 DEF RunInv, RunCourse
  <2>4. rpc' = "op" => Course(ops')
    BY <2>2, <2>3, CourseTail DEF OpsGo
  <2>5. ASSUME job.test # "set", rpc' = "op", NEW i \in 2..Len(ops')
        PROVE  ops'[i].op # "load"
    <3>1. ops' = Tail(ops) /\ ops # <<>>
      BY <2>2, <2>3, <2>5 DEF OpsGo, Course
    <3>2. i + 1 \in 2..Len(ops) /\ ops'[i] = ops[i + 1]
      BY <2>3, <2>5, <3>1
    <3> QED
      BY <2>1, <2>5, <3>2 DEF RunCourse
  <2> QED
    BY <2>1, <2>2, <2>4, <2>5 DEF RunCourse, OpsGo
<1>3. CASE D!BeginSet
  <2>1. /\ rpc = "set" /\ rpc' = "op" /\ ops' = D!SetOps(Head(sets), job.rollback)
        /\ UNCHANGED <<job, failed_states>> /\ sets # <<>>
    BY <1>3 DEF D!BeginSet
  <2>2. Head(sets) \in Seq(States) \ {<<>>} /\ job.rollback \in BOOLEAN
    BY <2>1 DEF RunInv, D!Job
  <2>3. Course(ops')
    BY <2>1, <2>2, SetCourse
  <2> QED
    BY <2>1, <2>3 DEF RunCourse
<1>4. CASE D!EndSets \/ D!RestoreAfterSet
  BY <1>4 DEF RunCourse, D!EndSets, D!RestoreAfterSet
<1>5. CASE D!RestoreAtEnd \/ D!Killed
  BY <1>5 DEF RunCourse, D!RestoreAtEnd, D!Killed, D!End
<1> QED
  BY <1>1, <1>2, <1>3, <1>4, <1>5 DEF D!Step

LEMMA FirstLoadStep ==
  ASSUME RunInv, RunCourse, D!Step, job.test # "set", NEW s, FirstLoad(s)
  PROVE  FirstLoad(s)'
<1>1. CASE D!Prepare
  <2>1. rpc = "prepare" /\ rpc' # "prepare"
    BY <1>1 DEF D!Prepare, D!End
  <2>2. CASE rpc' # "op"
    BY <2>1, <2>2 DEF FirstLoad
  <2>3. CASE rpc' = "op"
    <3>1. PICK q : q = IF job.test = "single" THEN D!Rollback ELSE <<>>
      OBVIOUS
    <3>2. ops' = D!Attempt(s) \o q
      BY <1>1, <2>1, <2>3, <3>1 DEF D!Prepare, D!End, FirstLoad
    <3>3. s \in States
      <4>1. sets # <<>> /\ sets \in Seq(Seq(States) \ {<<>>})
        BY <2>1 DEF RunInv
      <4>2. Head(sets) \in Seq(States) \ {<<>>}
        BY <4>1
      <4> QED
        BY <2>1, <4>2 DEF FirstLoad
    <3>4. q = D!Rollback \/ q = <<>>
      BY <3>1
    <3>5. LoadsOnly(ops', s)
      BY <3>2, <3>3, <3>4, AttemptCourse
    <3>6. Head(ops').state = s
      BY <3>5 DEF LoadsOnly
    <3> QED
      BY <2>3, <3>6 DEF FirstLoad, D!Op1
  <2> QED
    BY <2>2, <2>3
<1>2. CASE D!Load \/ D!CommitSucceeds \/ D!QueueItemFails \/ D!CommitAborted \/ D!Compare
           \/ D!RollBack \/ D!Interrupted
  <2>1. rpc = "op" /\ UNCHANGED job /\ (D!Proceed \/ D!Fail \/ D!Leave)
    BY <1>2, OpSteps
  <2>2. OpsGo
    BY <2>1, OpsGoOn
  <2>3. ops \in Seq(GoodOp) /\ ops # <<>>
    BY <2>1 DEF RunInv
  <2>4. rpc' = "op" => Head(ops').op # "load"
    <3>1. SUFFICES ASSUME rpc' = "op" PROVE Head(ops').op # "load"
      OBVIOUS
    <3>2. ops' = Tail(ops) /\ Tail(ops) # <<>>
      BY <2>2, <3>1 DEF OpsGo
    <3>3. 2 \in 2..Len(ops) /\ Head(ops') = ops[2]
      <4>1. Len(ops) \in Nat /\ Len(ops) > 1 /\ Tail(ops) \in Seq(GoodOp) /\ Tail(ops)[1] = ops[2]
        BY <2>3, <3>2, EmptySeq
      <4> QED
        BY <3>2, <4>1
    <3> QED
      BY <2>1, <3>3 DEF RunCourse
  <2>5. rpc' # "prepare"
    BY <2>1 DEF D!Proceed, D!Fail, D!Leave, D!End, RunInv, D!Job
  <2> QED
    BY <2>4, <2>5 DEF FirstLoad, D!Op1
<1>3. CASE D!BeginSet \/ D!EndSets \/ D!RestoreAfterSet
  BY <1>3 DEF RunCourse, D!BeginSet, D!EndSets, D!RestoreAfterSet
<1>4. CASE D!RestoreAtEnd \/ D!Killed
  BY <1>4 DEF FirstLoad, D!RestoreAtEnd, D!Killed, D!End
<1> QED
  BY <1>1, <1>2, <1>3, <1>4 DEF D!Step

----------------------------------------------------------------------------
(* Where the operation is, and the run that it waits for                   *)

\* The transitions from one state come one after the other; the ones from s, if
\* any, come first; there are none from s.
Grouped(p) ==
  \A i, j, k \in 1..Len(p) : i <= j /\ j <= k /\ p[i][1] = p[k][1] => p[j][1] = p[i][1]
FirstFrom(p, s) == \A i \in 1..Len(p) : p[i][1] = s => p[1][1] = s
NoneFrom(p, s)  == \A i \in 1..Len(p) : p[i][1] # s

LEMMA TailPairs ==
  ASSUME NEW p \in Seq(States \X States), p # <<>>, NEW r, r = Tail(p)
  PROVE  /\ Grouped(p) => Grouped(r)
         /\ \A s : NoneFrom(p, s) => NoneFrom(r, s)
         /\ \A s : Grouped(p) /\ FirstFrom(p, s) => FirstFrom(r, s)
         /\ Grouped(p) => FirstFrom(r, Head(p)[1])
         /\ \A s : FirstFrom(p, s) /\ Head(p)[1] # s => NoneFrom(p, s)
<1>1. PICK n : n = Len(p)
  OBVIOUS
<1>2. /\ n \in Nat /\ n > 0 /\ Len(r) = n - 1 /\ Head(p) = p[1]
      /\ \A i \in 1..(n - 1) : r[i] = p[i + 1]
  BY <1>1, EmptySeq
<1>3. ASSUME Grouped(p) PROVE Grouped(r)
  <2>1. SUFFICES ASSUME NEW i \in 1..Len(r), NEW j \in 1..Len(r), NEW k \in 1..Len(r),
                        i <= j, j <= k, r[i][1] = r[k][1]
                 PROVE  r[j][1] = r[i][1]
    BY ZenonT(30) DEF Grouped
  <2>2. /\ i + 1 \in 1..n /\ j + 1 \in 1..n /\ k + 1 \in 1..n /\ i + 1 <= j + 1 /\ j + 1 <= k + 1
        /\ r[i] = p[i + 1] /\ r[j] = p[j + 1] /\ r[k] = p[k + 1]
    BY <1>2, <2>1
  <2>3. p[i + 1][1] = p[k + 1][1]
    BY <2>1, <2>2
  <2>4. p[j + 1][1] = p[i + 1][1]
    BY <1>1, <1>3, <2>2, <2>3 DEF Grouped
  <2> QED
    BY <2>2, <2>4
<1>4. ASSUME NEW s, NoneFrom(p, s) PROVE NoneFrom(r, s)
  <2>1. SUFFICES ASSUME NEW i \in 1..Len(r) PROVE r[i][1] # s
    BY DEF NoneFrom
  <2>2. i + 1 \in 1..n /\ r[i] = p[i + 1]
    BY <1>2, <2>1
  <2>3. p[i + 1][1] # s
    BY <1>1, <1>4, <2>2 DEF NoneFrom
  <2> QED
    BY <2>2, <2>3
<1>5. ASSUME NEW s, Grouped(p), p[1][1] = s PROVE FirstFrom(r, s)
  <2>1. SUFFICES ASSUME NEW i \in 1..Len(r), r[i][1] = s PROVE r[1][1] = s
    BY DEF FirstFrom
  <2>2. /\ 1 \in 1..n /\ 2 \in 1..n /\ i + 1 \in 1..n /\ 1 <= 2 /\ 2 <= i + 1
        /\ r[i] = p[i + 1] /\ r[1] = p[2]
    BY <1>2, <2>1
  <2>3. p[1][1] = p[i + 1][1]
    BY <1>5, <2>1, <2>2
  <2>4. p[2][1] = p[1][1]
    BY <1>1, <1>5, <2>2, <2>3 DEF Grouped
  <2> QED
    BY <1>5, <2>2, <2>4
<1>6. ASSUME NEW s, FirstFrom(p, s), p[1][1] # s PROVE NoneFrom(p, s)
  BY <1>6 DEF FirstFrom, NoneFrom
<1>7. ASSUME NEW s, Grouped(p), FirstFrom(p, s) PROVE FirstFrom(r, s)
  <2>1. CASE p[1][1] = s
    BY <1>5, <1>7, <2>1
  <2>2. CASE p[1][1] # s
    <3>1. NoneFrom(r, s)
      BY <1>4, <1>6, <1>7, <2>2
    <3> QED
      BY <3>1 DEF NoneFrom, FirstFrom
  <2> QED
    BY <2>1, <2>2
<1>8. Grouped(p) => FirstFrom(r, Head(p)[1])
  BY <1>2, <1>5
<1>9. \A s : FirstFrom(p, s) /\ Head(p)[1] # s => NoneFrom(p, s)
  BY <1>2, <1>6
<1> QED
  BY <1>3, <1>4, <1>7, <1>8, <1>9

\* What is planned is something only for two states or more.
LEMMA PlannedGrouped ==
  ASSUME request \in Request, Planned # <<>>
  PROVE  Grouped(Planned) /\ FirstFrom(Planned, NoState)
<1>1. request.states \in Seq(States) /\ Len(request.states) \in Nat
  BY DEF Request
<1>2. Len(request.states) > 1
  <2>1. PICK n \in Nat : n = Len(request.states)
    BY <1>1
  <2>2. CASE n <= 1
    <3>1. n * (n - 1) = 0
      BY <2>1, <2>2
    <3>2. Permutations2(request.states) = <<>>
      <4>1. 1..(Len(request.states) * (Len(request.states) - 1)) = {}
        BY <2>1, <3>1
      <4> QED
        BY <4>1 DEF Permutations2
    <3>3. Len(Permutations2(request.states)) = 0
      BY <3>2
    <3>4. request.cases \notin 1..Len(Permutations2(request.states))
      BY <3>3
    <3>5. Planned = <<>>
      BY <3>2, <3>4 DEF Planned
    <3> QED
      BY <3>5
  <2> QED
    BY <2>1, <2>2
<1>3. PICK p : p = Planned
  OBVIOUS
<1>4. p \in Seq(States \X States) /\ Listing(p)
  BY <1>2, <1>3, PlannedTypes
<1>5. Grouped(p)
  <2>1. DOMAIN p = 1..Len(p)
    BY <1>4
  <2> QED
    BY <1>4, <2>1 DEF Listing, Grouped
<1>6. FirstFrom(p, NoState)
  <2>1. \A i \in 1..Len(p) : p[i][1] \in States
    BY <1>4
  <2> QED
    BY <2>1, TransitionsAssumption DEF FirstFrom
<1> QED
  BY <1>3, <1>5, <1>6

\* What the operation has started, and waits for.
StartedInv ==
  /\ tpc = "begin" => /\ prev_state = NoState /\ job.test = "none"
                      /\ request.action # "walk" => event = F!NoEvent
  /\ tpc = "running" => /\ request.action # "explore" /\ job.from = NoState
                        /\ job.test = "set" <=> request.action = "walk"
  /\ tpc = "initialize" => job.test = "raw" /\ job.from = NoState /\ FirstLoad(from)
  /\ tpc = "transition" => job.test = "single" /\ job.from = from
GroupInv ==
  /\ tpc \in {"next", "initialize", "transition"} =>
       request.action = "explore" /\ Grouped(pairs)
  /\ tpc = "next" => FirstFrom(pairs, prev_state)
  /\ tpc = "initialize" => NoneFrom(pairs, prev_state)
  /\ tpc = "transition" => prev_state = from
CtlInv == RunCourse /\ StartedInv /\ GroupInv

LEMMA CtlInit ==
  ASSUME Init
  PROVE  CtlInv
<1>1. rpc = "idle" /\ job = D!NoJob /\ failed_states = <<>> /\ tpc = "begin" /\ prev_state = NoState
  BY DEF Init, D!Init
<1>2. request.action # "walk" => event = F!NoEvent
  BY TransitionsAssumption DEF Init, F!InitFilter, Request
<1> QED
  BY <1>1, <1>2 DEF CtlInv, RunCourse, StartedInv, GroupInv, D!NoJob

\* A run that is started
LEMMA StartCourse ==
  ASSUME NEW j, NEW w, D!Start(j, w)
  PROVE  RunCourse' /\ job' = j /\ rpc' = "prepare" /\ sets' = w /\ \A s : w = <<<<s>>>> => FirstLoad(s)'
<1>1. /\ job' = j /\ rpc' = "prepare" /\ sets' = w /\ failed_states' = <<>>
  BY DEF D!Start
<1>2. ASSUME NEW s, w = <<<<s>>>> PROVE FirstLoad(s)'
  BY <1>1, <1>2 DEF FirstLoad
<1> QED
  BY <1>1, <1>2 DEF RunCourse

LEMMA StepRuns ==
  ASSUME D!Step
  PROVE  rpc # "idle"
BY DEF D!Step, D!Prepare, D!BeginSet, D!EndSets, D!Load, D!CommitSucceeds, D!QueueItemFails,
       D!CommitAborted, D!Compare, D!RollBack, D!Interrupted, D!RestoreAfterSet, D!RestoreAtEnd,
       D!Killed

LEMMA CtlNext ==
  ASSUME TypeInv, EndInv, CtlInv, [Next]_vars
  PROVE  CtlInv'
<1>0. RunInv /\ RunCourse /\ OwnTypes
  BY DEF TypeInv, DrnedInv, CtlInv
<1>1. CASE SendOwn \/ SendLine
  <2>1. UNCHANGED <<job, rpc, sets, ops, failed_states, plan, request, tpc>> /\ (say # <<>> \/ out # <<>>)
    BY <1>1 DEF SendOwn, SendLine, F!Send, drned
  <2>2. tpc # "begin"
    BY <2>1 DEF EndInv
  <2> QED
    BY <2>1, <2>2 DEF CtlInv, RunCourse, StartedInv, GroupInv, FirstLoad, D!Op1, plan, from
<1>2. CASE FilterStep
  <2>1. UNCHANGED <<job, rpc, sets, ops, failed_states, plan, request, tpc>> /\ event # F!NoEvent
    BY <1>2 DEF FilterStep, F!Filter, F!Pop, F!Ignore, F!Idle, drned
  <2> QED
    BY <2>1 DEF CtlInv, RunCourse, StartedInv, GroupInv, FirstLoad, D!Op1, plan, from
<1>3. CASE LoseLines \/ UNCHANGED vars
  <2>1. UNCHANGED <<job, rpc, sets, ops, failed_states, plan, request, tpc, event>>
    BY <1>3 DEF LoseLines, vars, filter, drned
  <2> QED
    BY <2>1 DEF CtlInv, RunCourse, StartedInv, GroupInv, FirstLoad, D!Op1, plan, from
<1>4. CASE DrnedStep
  <2>1. /\ D!Step /\ rpc # "idle" /\ UNCHANGED <<plan, request, tpc, event>>
    BY <1>4, StepRuns DEF DrnedStep, filter
  <2>2. RunCourse' /\ UNCHANGED job
    BY <1>0, <2>1, RunCourseStep
  <2>3. tpc # "begin"
    BY <2>1 DEF EndInv
  <2>4. from' = from
    BY <2>1 DEF from, plan
  <2>5. tpc = "initialize" => FirstLoad(from)'
    <3>1. SUFFICES ASSUME tpc = "initialize" PROVE FirstLoad(from)'
      OBVIOUS
    <3>2. job.test # "set" /\ FirstLoad(from)
      BY <3>1 DEF CtlInv, StartedInv
    <3>3. PICK s : s = from
      OBVIOUS
    <3>4. FirstLoad(s)'
      BY <1>0, <2>1, <3>2, <3>3, FirstLoadStep
    <3> QED
      BY <2>4, <3>3, <3>4
  <2> QED
    BY <2>1, <2>2, <2>3, <2>4, <2>5 DEF CtlInv, StartedInv, GroupInv, plan
<1>5. CASE NotStarted \/ EndRun \/ EndExplore \/ Terminate \/ Close \/ Store
  <2>1. /\ tpc' \in {"terminate", "close", "store", "done"} /\ UNCHANGED drned
    BY <1>5 DEF NotStarted, EndRun, EndExplore, Terminate, Close, Store, Finish
  <2> QED
    BY <2>1 DEF CtlInv, RunCourse, StartedInv, GroupInv, drned
<1>6. CASE BeginRun
  <2>1. /\ tpc' = "running" /\ request.action # "explore" /\ UNCHANGED request
        /\ \/ request.action = "walk" /\ Run("set", NoState, request.sets)
           \/ /\ request.action # "walk"
              /\ Run(IF request.rollback THEN "single" ELSE "raw", NoState, request.sets)
    BY <1>6 DEF BeginRun
  <2>2. RunCourse' /\ job'.from = NoState /\ (job'.test = "set" <=> request.action = "walk")
    BY <2>1, StartCourse DEF Run
  <2> QED
    BY <2>1, <2>2 DEF CtlInv, StartedInv, GroupInv
<1>7. CASE BeginExplore
  <2>1. /\ request.action = "explore" /\ UNCHANGED <<drned, request, prev_state>>
        /\ tpc = "begin"
        /\ \/ tpc' = "terminate"
           \/ tpc' = "next" /\ pairs' = Planned /\ Planned # <<>>
    BY <1>7 DEF BeginExplore, Finish
  <2>2. tpc' = "next" => Grouped(pairs') /\ FirstFrom(pairs', NoState)
    BY <1>0, <2>1, PlannedGrouped DEF OwnTypes
  <2>3. prev_state' = NoState
    BY <2>1 DEF CtlInv, StartedInv
  <2> QED
    BY <2>1, <2>2, <2>3 DEF CtlInv, RunCourse, StartedInv, GroupInv, drned
<1>8. CASE SkipFailed \/ InitFailed \/ EndTransition
  <2>1. /\ tpc' = "next" /\ pairs' = Tail(pairs) /\ UNCHANGED <<drned, request, prev_state>>
        /\ tpc \in {"next", "initialize", "transition"} /\ (tpc = "next" => pairs # <<>>)
    BY <1>8 DEF SkipFailed, InitFailed, EndTransition
  <2>2. pairs \in Seq(States \X States) /\ pairs # <<>>
    BY <1>0, <2>1 DEF OwnTypes, TypeInv, WaitInv
  <2>3. Grouped(pairs)
    BY <2>1 DEF CtlInv, GroupInv
  <2>4. FirstFrom(pairs, prev_state) \/ prev_state = Head(pairs)[1]
    <3>1. \A s : NoneFrom(pairs, s) => FirstFrom(pairs, s)
      BY DEF NoneFrom, FirstFrom
    <3> QED
      BY <2>1, <3>1 DEF CtlInv, GroupInv, from
  <2>5. Grouped(pairs') /\ FirstFrom(pairs', prev_state)
    BY <2>1, <2>2, <2>3, <2>4, TailPairs
  <2> QED
    BY <2>1, <2>5 DEF CtlInv, RunCourse, StartedInv, GroupInv, drned
<1>9. CASE StartingWith
  <2>1. /\ tpc = "next" /\ tpc' = "initialize" /\ pairs # <<>> /\ from # prev_state
        /\ Run("raw", NoState, <<<<from>>>>) /\ UNCHANGED <<plan, request>>
    BY <1>9 DEF StartingWith
  <2>2. /\ RunCourse' /\ job'.test = "raw" /\ job'.from = NoState
    BY <2>1, StartCourse DEF Run
  <2>3. FirstLoad(from)'
    <3>1. PICK s : s = from
      OBVIOUS
    <3>2. PICK w : w = <<<<s>>>>
      OBVIOUS
    <3>3. FirstLoad(s)'
      BY <2>1, <3>1, <3>2, StartCourse DEF Run
    <3>4. from' = s
      BY <2>1, <3>1 DEF from, plan
    <3> QED
      BY <3>3, <3>4
  <2>4. NoneFrom(pairs, prev_state) /\ Grouped(pairs) /\ request.action = "explore"
    <3>1. pairs \in Seq(States \X States) /\ Head(pairs)[1] # prev_state
      BY <1>0, <2>1 DEF OwnTypes, from
    <3> QED
      BY <2>1, <3>1, TailPairs DEF CtlInv, GroupInv
  <2> QED
    BY <2>1, <2>2, <2>3, <2>4 DEF CtlInv, StartedInv, GroupInv, plan
<1>10. CASE MakeTransition
  <2>1. /\ tpc \in {"initialize", "next"} /\ tpc' = "transition" /\ prev_state' = from
        /\ Run("single", from, <<<<to>>>>) /\ UNCHANGED <<pairs, request>>
    BY <1>10 DEF MakeTransition
  <2>2. RunCourse' /\ job'.test = "single" /\ job'.from = from
    BY <2>1, StartCourse DEF Run
  <2>3. from' = from
    BY <2>1 DEF from
  <2> QED
    BY <2>1, <2>2, <2>3 DEF CtlInv, StartedInv, GroupInv
<1> QED
  BY <1>1, <1>2, <1>3, <1>4, <1>5, <1>6, <1>7, <1>8, <1>9, <1>10 DEF Next

\* The control of the operation and of its runs, with what is known of the types
WholeCtl == RecordInv /\ CtlInv

LEMMA CtlInvariant == Spec => []WholeCtl
<1>1. Init => CtlInv
  BY CtlInit
<1>2. Spec => []RecordInv
  BY RecordInvariant
<1>3. RecordInv /\ CtlInv /\ [Next]_vars => CtlInv'
  BY CtlNext DEF RecordInv
<1> QED
  BY <1>1, <1>2, <1>3, PTL DEF Spec, WholeCtl

----------------------------------------------------------------------------
(* A step of DrNED, wherever the operation is                              *)

\* The transition is expected with its load, R below it.
Ready(R) == Push("commits", Push("load", Commits(Push("rollbacks", R))))

LEMMA ReadyMade ==
  ASSUME NEW R
  PROVE  Ready(R) \in Made(R) /\ Push("transition", R) \in Made(R)
BY DEF Ready, Made

LEMMA ReadyTakes ==
  ASSUME NEW R \in Text
  PROVE  /\ Ready(R) \in Text
         /\ Takes("load", Ready(R), LoadedOn(R), "load")
         /\ Takes("noqueue", Push("transition", R), Ready(R), "keep")
         /\ Takes("empty", Ready(R), Ready(R), "keep")
         /\ Takes("reason", Ready(R), Ready(R), "keep")
<1>1. PICK b : b = Push("load", Commits(Push("rollbacks", R)))
  OBVIOUS
<1>2. Word = F!LogStates \cup F!EventTypes
  BY DEF Word
<1>3. /\ "rollbacks" \in Word /\ "action-compare" \in Word /\ "action-commit" \in Word
      /\ "load" \in Word /\ "commits" \in Word
  BY <1>2 DEF F!LogStates
<1>4. b \in Text
  BY <1>1, <1>3, PushText DEF Commits, Compares
<1>5. Ready(R) = Push("commits", b)
  BY <1>1 DEF Ready
<1>6. Ready(R) \in Text
  BY <1>3, <1>4, <1>5, PushText
<1>7. /\ Takes("empty", Push("commits", b), Push("commits", b), "keep")
      /\ Takes("reason", Push("commits", b), Push("commits", b), "keep")
  BY <1>4, BaseTakes
<1>8. /\ Takes("load", Ready(R), LoadedOn(R), "load")
      /\ Takes("noqueue", Push("transition", R), Ready(R), "keep")
  BY BaseTakes DEF Ready, LoadedOn
<1> QED
  BY <1>5, <1>6, <1>7, <1>8

\* Where a load is expected in a walk
WalkLoad == WalkRest \cup {Push("transition", WT)}

LEMMA AllExpect ==
  /\ Expects(WT, WT, WalkLoad)
  /\ Expects(<<>>, <<>>, {Ready(<<>>)})
  /\ Expects(EX, ET, {Ready(EX)})
  /\ Expects(TX, ET, {Ready(TX)})
<1>1. Expects(WT, WT, WalkLoad)
  BY TailText, UnfitTails, WalkTakes DEF Expects, WalkLoad
<1>2. \A L : \A R \in Text : Unfit(R, L) /\ Unfit(L, L) => Expects(R, L, {Ready(R)})
  BY ReadyTakes DEF Expects
<1> QED
  BY <1>1, <1>2, TailText, UnfitTails

\* The next operation finds the filter where it expects it.
LEMMA NextAt ==
  ASSUME NEW o \in {"load", "commit", "compare_config", "rollback"}, NEW o2 \in NextOp(o),
         NEW R, NEW S, NEW a, NEW q, NEW st \in AfterOp(o, R), NEW c, NEW e, TightOf(a, q, c, e),
         o2 = "load" => Push("compare", Push("rollbacks", R)) \in S
  PROVE  OpAt(o2, a, q, S, R, st, c, e)
<1>1. LooseOf(a, q, c, e)
  BY TightIsLoose
<1>2. CASE o = "commit"
  <2>1. o2 = "compare_config" /\ st = Compares(Push("rollbacks", R))
    BY <1>2 DEF NextOp, AfterOp
  <2> QED
    BY <1>1, <2>1 DEF OpAt
<1>3. CASE o = "compare_config"
  <2>1. o2 \in {"load", "rollback"} /\ st = Push("compare", Push("rollbacks", R))
    BY <1>3 DEF NextOp, AfterOp
  <2> QED
    BY <1>1, <2>1 DEF OpAt
<1>4. CASE o \in {"load", "rollback"}
  <2>1. o2 = "commit" /\ st \in Fresh(R)
    BY <1>4 DEF NextOp, AfterOp
  <2> QED
    BY <1>1, <2>1 DEF OpAt
<1> QED
  BY <1>2, <1>3, <1>4

LEMMA OpAtMade ==
  ASSUME NEW o \in {"load", "commit", "compare_config", "rollback"}, NEW R, NEW S,
         S \subseteq Made(R), NEW a, NEW q, NEW st, NEW c, NEW e, OpAt(o, a, q, S, R, st, c, e)
  PROVE  st \in Made(R)
BY LoadedMade DEF OpAt

\* What has become of the run when the filter has read what an operation prints:
\* it goes on with the next one, it is at its end, or it has failed.
OpGoesOn(R, S, st2, c2, e2) ==
  /\ rpc' = "op"
  /\ OpAt(Head(ops').op, request.action, tested', S, R, st2, c2, e2)
  /\ Head(ops').op # "load" \/ job.test = "set"
  /\ (D!Op1.op = "load" /\ job.from = NoState) => After(c2) = D!Op1.state
  /\ (~LostIn(tested) \/ (D!Op1.op = "load" /\ job.from = NoState)) => ~LostIn(tested')
OpsOver(R, st2) ==
  /\ D!Op1.op # "load" /\ st2 = Push("compare", Push("rollbacks", R))
  /\ CASE job.test = "set" -> rpc' = "set"
       [] job.test = "single" -> rpc' = "restore"
       [] job.test = "raw" -> rpc' = "idle" /\ exit' = "ok"
  /\ ~LostIn(tested) => ~LostIn(tested')
OpStops(R, L, S, st2) ==
  /\ CASE job.test = "set" -> rpc' \in {"restore", "restore_set"}
       [] job.test = "single" -> rpc' = "restore"
       [] job.test = "raw" -> rpc' = "idle" /\ exit' = "failed"
  /\ \/ st2 \in Made(R) \cup S /\ (~LostIn(tested) => ~LostIn(tested'))
     \/ st2 = L /\ LostIn(tested')
OpDone(R, L, S, st, c, e) ==
  \E st2, c2, e2 :
    /\ Moves(st, c, e, st2, c2, e2) /\ c2.exploring_from = c.exploring_from
    /\ (D!Op1.op # "load" \/ job.from # NoState) => After(c2) = After(c)
    /\ \/ OpGoesOn(R, S, st2, c2, e2)
       \/ OpsOver(R, st2)
       \/ OpStops(R, L, S, st2)

\* Where the run is after an operation
LEMMA ProceedTo ==
  ASSUME RunInv, RunCourse, rpc = "op", D!Proceed
  PROVE  /\ Tail(ops) # <<>> => /\ rpc' = "op" /\ ops' = Tail(ops)
                                /\ Head(ops').op \in NextOp(D!Op1.op)
                                /\ Head(ops').op # "load" \/ job.test = "set"
         /\ Tail(ops) = <<>> =>
              /\ D!Op1.op = "compare_config"
              /\ CASE job.test = "set" -> rpc' = "set"
                   [] job.test = "single" -> rpc' = "restore"
                   [] job.test = "raw" -> rpc' = "idle" /\ exit' = "ok"
<1>1. ops \in Seq(GoodOp) /\ Course(ops) /\ job.test \in {"raw", "single", "set"}
  BY DEF RunInv, RunCourse, D!Job
<1>2. ASSUME Tail(ops) # <<>>
      PROVE  /\ rpc' = "op" /\ ops' = Tail(ops) /\ Head(ops').op \in NextOp(D!Op1.op)
             /\ Head(ops').op # "load" \/ job.test = "set"
  <2>1. rpc' = "op" /\ ops' = Tail(ops)
    BY <1>2 DEF D!Proceed
  <2>2. Head(ops').op \in NextOp(D!Op1.op)
    BY <1>1, <1>2, <2>1, CourseTail DEF D!Op1
  <2>3. ASSUME job.test # "set" PROVE Head(ops').op # "load"
    <3>1. 2 \in 2..Len(ops) /\ Head(ops') = ops[2]
      <4>1. ops # <<>> /\ Tail(ops) \in Seq(GoodOp)
        BY <1>1 DEF Course
      <4>2. Len(ops) \in Nat /\ Len(ops) > 1 /\ Tail(ops)[1] = ops[2]
        BY <1>1, <1>2, <4>1, EmptySeq
      <4> QED
        BY <1>2, <2>1, <4>1, <4>2
    <3> QED
      BY <2>3, <3>1 DEF RunCourse
  <2> QED
    BY <2>1, <2>2, <2>3
<1>3. ASSUME Tail(ops) = <<>>
      PROVE  /\ D!Op1.op = "compare_config"
             /\ CASE job.test = "set" -> rpc' = "set"
                  [] job.test = "single" -> rpc' = "restore"
                  [] job.test = "raw" -> rpc' = "idle" /\ exit' = "ok"
  <2>1. D!Op1.op = "compare_config"
    BY <1>1, <1>3, CourseTail DEF D!Op1
  <2>2. CASE job.test = "set"
    BY <1>3, <2>1, <2>2 DEF D!Proceed
  <2>3. CASE job.test = "single"
    BY <1>3, <2>1, <2>3 DEF D!Proceed
  <2>4. CASE job.test = "raw"
    BY <1>3, <2>1, <2>4 DEF D!Proceed, D!End
  <2> QED
    BY <1>1, <2>2, <2>3, <2>4
<1> QED
  BY <1>2, <1>3

LEMMA StopsTo ==
  ASSUME RunInv, rpc = "op", D!Fail \/ D!Leave
  PROVE  CASE job.test = "set" -> rpc' \in {"restore", "restore_set"}
           [] job.test = "single" -> rpc' = "restore"
           [] job.test = "raw" -> rpc' = "idle" /\ exit' = "failed"
<1>1. job.test \in {"raw", "single", "set"}
  BY DEF RunInv, D!Job
<1>2. CASE D!Leave
  BY <1>1, <1>2 DEF D!Leave, D!End
<1>3. CASE D!Fail /\ ~D!Leave
  <2>1. job.test = "set" /\ rpc' = IF Len(sets) = 1 THEN "restore" ELSE "restore_set"
    BY <1>3 DEF D!Fail
  <2> QED
    BY <2>1
<1> QED
  BY <1>2, <1>3

LEMMA WentDone ==
  ASSUME RunInv, RunCourse, rpc = "op", UNCHANGED job, NEW R, NEW L, NEW S, NEW st, NEW c, NEW e,
         Went(R, L, S, st, c, e), job.test = "set" => Push("compare", Push("rollbacks", R)) \in S
  PROVE  OpDone(R, L, S, st, c, e)
<1>1. PICK st2, c2, e2 :
        /\ Hears(out', st, c, e, st2, c2, e2)
        /\ LooseOf(request.action, tested', c2, e2)
        /\ c2.exploring_from = c.exploring_from
        /\ (D!Op1.op # "load" \/ job.from # NoState) => After(c2) = After(c)
        /\ \/ /\ D!Proceed /\ st2 \in AfterOp(D!Op1.op, R)
              /\ TightOf(request.action, tested', c2, e2)
              /\ (D!Op1.op = "load" /\ job.from = NoState) => After(c2) = D!Op1.state
              /\ (~LostIn(tested) \/ (D!Op1.op = "load" /\ job.from = NoState)) => ~LostIn(tested')
           \/ /\ D!Fail \/ D!Leave
              /\ \/ st2 \in Made(R) \cup S /\ (~LostIn(tested) => ~LostIn(tested'))
                 \/ st2 = L /\ LostIn(tested')
  BY DEF Went
<1>2. Moves(st, c, e, st2, c2, e2)
  BY <1>1 DEF Moves
<1>3. CASE D!Fail \/ D!Leave
  <2>1. CASE /\ D!Proceed /\ st2 \in AfterOp(D!Op1.op, R)
             /\ TightOf(request.action, tested', c2, e2)
             /\ (D!Op1.op = "load" /\ job.from = NoState) => After(c2) = D!Op1.state
             /\ (~LostIn(tested) \/ (D!Op1.op = "load" /\ job.from = NoState)) => ~LostIn(tested')
    <3>1. st2 \in Made(R)
      <4>1. D!Op1.op \in {"load", "commit", "compare_config", "rollback"}
        BY Op1Good DEF GoodOp, D!Op
      <4> QED
        BY <2>1, <4>1, LoadedMade DEF AfterOp
    <3>2. OpStops(R, L, S, st2)
      BY <1>3, <2>1, <3>1, StopsTo DEF OpStops
    <3> QED
      BY <1>1, <1>2, <3>2 DEF OpDone
  <2>2. CASE \/ st2 \in Made(R) \cup S /\ (~LostIn(tested) => ~LostIn(tested'))
             \/ st2 = L /\ LostIn(tested')
    <3>1. OpStops(R, L, S, st2)
      BY <1>3, <2>2, StopsTo DEF OpStops
    <3> QED
      BY <1>1, <1>2, <3>1 DEF OpDone
  <2> QED
    BY <1>1, <2>1, <2>2
<1>4. CASE ~(D!Fail \/ D!Leave)
  <2>1. /\ D!Proceed /\ st2 \in AfterOp(D!Op1.op, R)
        /\ TightOf(request.action, tested', c2, e2)
        /\ (D!Op1.op = "load" /\ job.from = NoState) => After(c2) = D!Op1.state
        /\ (~LostIn(tested) \/ (D!Op1.op = "load" /\ job.from = NoState)) => ~LostIn(tested')
    BY <1>1, <1>4
  <2>2. D!Op1.op \in {"load", "commit", "compare_config", "rollback"}
    BY Op1Good DEF GoodOp, D!Op
  <2>3. CASE Tail(ops) # <<>>
    <3>1. /\ rpc' = "op" /\ Head(ops').op \in NextOp(D!Op1.op)
          /\ Head(ops').op # "load" \/ job.test = "set"
      BY <2>1, <2>3, ProceedTo
    <3>2. PICK a, q, o, o2 : a = request.action /\ q = tested' /\ o = D!Op1.op /\ o2 = Head(ops').op
      OBVIOUS
    <3>3. OpAt(o2, a, q, S, R, st2, c2, e2)
      BY <2>1, <2>2, <3>1, <3>2, NextAt
    <3>4. OpGoesOn(R, S, st2, c2, e2)
      BY <2>1, <3>1, <3>2, <3>3 DEF OpGoesOn
    <3> QED
      BY <1>1, <1>2, <3>4 DEF OpDone
  <2>4. CASE Tail(ops) = <<>>
    <3>1. /\ D!Op1.op = "compare_config"
          /\ CASE job.test = "set" -> rpc' = "set"
               [] job.test = "single" -> rpc' = "restore"
               [] job.test = "raw" -> rpc' = "idle" /\ exit' = "ok"
      BY <2>1, <2>4, ProceedTo
    <3>2. st2 = Push("compare", Push("rollbacks", R))
      BY <2>1, <3>1 DEF AfterOp
    <3>3. OpsOver(R, st2)
      BY <2>1, <3>1, <3>2 DEF OpsOver
    <3> QED
      BY <1>1, <1>2, <3>3 DEF OpDone
  <2> QED
    BY <2>3, <2>4
<1> QED
  BY <1>3, <1>4

\* Any operation, with what it makes of the run
LEMMA OpHeard ==
  ASSUME DrnedInv, RunCourse, out = <<>>, NEW c \in F!Context, NEW e \in Events,
         NEW R, NEW L, NEW S, NEW st,
         Expects(R, L, S), OpAt(D!Op1.op, request.action, tested, S, R, st, c, e), LoadFits(c),
         job.test = "set" => Push("compare", Push("rollbacks", R)) \in S,
         \/ D!Load \/ D!CommitSucceeds \/ D!QueueItemFails \/ D!CommitAborted
         \/ D!Compare \/ D!RollBack \/ D!Interrupted
  PROVE  OpDone(R, L, S, st, c, e)
<1>1. Went(R, L, S, st, c, e)
  BY OpWent
<1>2. rpc = "op" /\ UNCHANGED job
  BY OpSteps
<1>3. RunInv
  BY DEF DrnedInv
<1> QED
  BY <1>1, <1>2, <1>3, WentDone

----------------------------------------------------------------------------
(* What the filter and the record have to do with what DrNED is at: when   *)
(* the filter has read all lines, its stack is st, and its context c with  *)
(* the test events e.                                                      *)

WalkMatch(st, c, e) ==
  /\ rpc = "prepare" => st = Push("commits", WT)
  /\ rpc = "set" => st \in WalkRest
  /\ rpc = "op" => OpAt(D!Op1.op, request.action, tested, WalkLoad, WT, st, c, e)
  /\ rpc \in {"restore_set", "restore"} => st \in WalkAny

TransMatch(st, c, e) ==
  /\ rpc = "prepare" => st = Push("transition-test", <<>>)
  /\ rpc = "op" => OpAt(D!Op1.op, request.action, tested, {Ready(<<>>)}, <<>>, st, c, e)
  /\ rpc = "restore" => st \in Made(<<>>) \cup {<<>>}

\* explore-transitions initializes a state; or the automaton has lost track.
Initializes(st, c, e) ==
  /\ c.exploring_from = from
  /\ rpc = "prepare" => st = Push("transition", EX)
  /\ rpc = "op" => OpAt(D!Op1.op, request.action, tested, {Ready(EX)}, EX, st, c, e)
  /\ (rpc = "op" /\ D!Op1.op # "load") \/ (rpc = "idle" /\ exit = "ok")
       => ~LostIn(tested) /\ After(c) = from
  /\ rpc = "idle" /\ exit = "ok" => st = Push("compare", Push("rollbacks", EX))
  /\ rpc = "idle" /\ exit = "failed" => st \in Made(EX)
InitMatch(st, c, e) ==
  Initializes(st, c, e) \/ (st = ET /\ rpc = "idle" /\ exit = "failed")

\* It makes a transition.
Makes(st, c, e) ==
  /\ ~LostIn(tested) /\ c.exploring_from = from /\ After(c) = from
  /\ rpc = "prepare" => st = Push("transition", TX)
  /\ rpc = "op" => OpAt(D!Op1.op, request.action, tested, {Ready(TX)}, TX, st, c, e)
  /\ rpc = "restore" => st \in Made(TX)
  /\ rpc = "idle" /\ exit = "ok" => st = Push("compare", Push("gen-trans-failed", EX))
  /\ rpc = "idle" /\ exit = "failed" => st \in Made(TX) \cup Torn(EX)
Misled(st) ==
  /\ st = ET /\ LostIn(tested)
  /\ rpc = "op" /\ D!Op1.op # "load" => UnseenAt(request.action, tested)
ExpMatch(st, c, e) == Makes(st, c, e) \/ Misled(st)

\* The filter reads what the step prints, and then it is as it should be.
Steps(st, c, e, st2, c2, e2) ==
  Moves(st, c, e, st2, c2, e2) /\ c2.exploring_from = c.exploring_from

LEMMA SilentStep ==
  ASSUME out = <<>>, out' = out, tested' = tested, NEW c, NEW e, NEW st,
         LooseOf(request.action, tested, c, e)
  PROVE  Steps(st, c, e, st, c, e)
<1>1. Hears(out', st, c, e, st, c, e)
  BY HearsNone
<1> QED
  BY <1>1 DEF Steps, Moves

LEMMA PrepareStep ==
  ASSUME out = <<>>, D!Prepare, NEW c \in F!Context, NEW e \in Events, NEW st0, NEW st1,
         LooseOf(request.action, tested, c, e),
         Takes("noqueue", st0, st1, "keep"), Takes("empty", st1, st1, "keep"),
         Takes("reason", st1, st1, "keep")
  PROVE  \E st2 \in {st0, st1} : Steps(st0, c, e, st2, c, e) /\ (rpc' # "idle" => st2 = st1)
<1>1. PICK st2 \in {st0, st1} : Hears(out', st0, c, e, st2, c, e) /\ (rpc' # "idle" => st2 = st1)
  BY PrepareHeard
<1>2. tested' = tested
  BY DEF D!Prepare
<1> QED
  BY <1>1, <1>2 DEF Steps, Moves

\* After the preparation there comes a state set, or a load.
LEMMA PrepareTo ==
  ASSUME RunInv, D!Prepare
  PROVE  /\ rpc = "prepare" /\ UNCHANGED <<tested, job>>
         /\ job.test = "set" => rpc' \in {"set", "restore", "idle"}
         /\ job.test # "set" => rpc' \in {"op", "idle"} /\ (rpc' = "op" => Head(ops').op = "load")
         /\ rpc' = "idle" => exit' = "failed"
<1>1. rpc = "prepare" /\ UNCHANGED <<tested, job>>
  BY DEF D!Prepare
<1>2. rpc' \in {"set", "restore", "op", "idle"} /\ (rpc' \in {"set", "restore"} => job.test = "set")
      /\ (rpc' = "op" => job.test # "set") /\ (rpc' = "idle" => exit' = "failed")
  BY DEF D!Prepare, D!End
<1>3. ASSUME job.test # "set", rpc' = "op" PROVE Head(ops').op = "load"
  <2>1. PICK q, s : q = (IF job.test = "single" THEN D!Rollback ELSE <<>>) /\ s = Head(Head(sets))
    OBVIOUS
  <2>2. ops' = D!Attempt(s) \o q
    BY <1>3, <2>1 DEF D!Prepare, D!End
  <2>3. s \in States
    <3>1. sets # <<>> /\ sets \in Seq(Seq(States) \ {<<>>})
      BY <1>1, <1>3 DEF RunInv
    <3>2. Head(sets) \in Seq(States) \ {<<>>}
      BY <3>1
    <3> QED
      BY <2>1, <3>2
  <2>4. q = D!Rollback \/ q = <<>>
    BY <2>1
  <2>5. LoadsOnly(ops', s)
    BY <2>2, <2>3, <2>4, AttemptCourse
  <2> QED
    BY <2>5 DEF LoadsOnly
<1> QED
  BY <1>1, <1>2, <1>3

OpsOf == \/ D!Load \/ D!CommitSucceeds \/ D!QueueItemFails \/ D!CommitAborted
         \/ D!Compare \/ D!RollBack \/ D!Interrupted

LEMMA StepKinds ==
  ASSUME D!Step
  PROVE  \/ D!Prepare \/ D!BeginSet \/ D!EndSets \/ OpsOf
         \/ D!RestoreAfterSet \/ D!RestoreAtEnd \/ D!Killed
BY DEF D!Step, OpsOf

LEMMA KilledTo ==
  ASSUME D!Killed
  PROVE  rpc' = "idle" /\ exit' = "failed" /\ out' = out /\ tested' = tested
BY DEF D!Killed, D!End

LEMMA OpKinds ==
  ASSUME RunInv, rpc = "op"
  PROVE  D!Op1.op \in {"load", "commit", "compare_config", "rollback"}
BY Op1Good DEF GoodOp, D!Op

----------------------------------------------------------------------------
(* walk-states                                                             *)

LEMMA WalkStep ==
  ASSUME DrnedInv, RunCourse, job.from = NoState, job.test = "set", request.action = "walk",
         out = <<>>, NEW c \in F!Context, NEW e \in Events, NEW st,
         LooseOf(request.action, tested, c, e), c.exploring_from = NoState,
         WalkMatch(st, c, e), D!Step, UNCHANGED request
  PROVE  \E st2, c2, e2 : Steps(st, c, e, st2, c2, e2) /\ WalkMatch(st2, c2, e2)'
<1>0. RunInv /\ tested \in Loads
  BY DEF DrnedInv, LinesInv, Loads
<1>1. CASE D!Prepare
  <2>1. st = Push("commits", WT)
    BY <1>1, <1>0, PrepareTo DEF WalkMatch
  <2>2. /\ Takes("noqueue", st, st, "keep") /\ Takes("empty", st, st, "keep")
        /\ Takes("reason", st, st, "keep")
    BY <2>1, BaseTakes, TailText
  <2>3. Steps(st, c, e, st, c, e)
    BY <1>1, <2>2, PrepareStep
  <2>4. rpc' \in {"set", "restore", "idle"}
    BY <1>0, <1>1, PrepareTo
  <2>5. WalkMatch(st, c, e)'
    BY <2>1, <2>4 DEF WalkMatch, WalkRest, WalkAny
  <2> QED
    BY <2>3, <2>5
<1>2. CASE D!BeginSet
  <2>1. /\ rpc = "set" /\ rpc' = "op" /\ tested' = tested /\ ops' = D!SetOps(Head(sets), job.rollback)
        /\ sets # <<>>
        /\ out' = out \/ out' = Append(out, D!Line("py_test"))
    BY <1>2 DEF D!BeginSet
  <2>2. st \in WalkRest
    BY <2>1 DEF WalkMatch
  <2>3. Head(ops').op = "load"
    <3>1. Head(sets) \in Seq(States) \ {<<>>} /\ job.rollback \in BOOLEAN
      BY <1>0, <2>1 DEF RunInv, D!Job
    <3> QED
      BY <2>1, <3>1, SetOpsTypes
  <2>4. ASSUME NEW st2 \in WalkLoad PROVE WalkMatch(st2, c, e)'
    <3>1. D!Op1'.op = "load"
      BY <2>3 DEF D!Op1
    <3>2. OpAt("load", request.action, tested, WalkLoad, WT, st2, c, e)
      BY <2>4 DEF OpAt
    <3> QED
      BY <2>1, <3>1, <3>2 DEF WalkMatch
  <2>5. CASE out' = out
    <3>1. Steps(st, c, e, st, c, e)
      BY <2>1, <2>5, SilentStep
    <3> QED
      BY <2>2, <2>4, <3>1 DEF WalkLoad
  <2>6. CASE out' = Append(out, D!Line("py_test"))
    <3>1. "py_test" \in Told
      BY DEF Told, F!EventTypes
    <3>2. PICK ev : ev = D!Line("py_test")
      OBVIOUS
    <3>3. ev \in GoodEvent /\ ev.type = "py_test"
      <4>1. <<>> \in Talk
        BY DEF Talk
      <4> QED
        BY <3>1, <3>2, <4>1, TalkLines
    <3>4. Takes("py_test", st, Push("transition", WT), "keep")
      BY <2>2, WalkTakes
    <3>5. Hears(<<ev>>, st, c, e, Push("transition", WT), c, e)
      <4>1. Does("keep", ev, c, e).c = c /\ Does("keep", ev, c, e).e = e
        BY DEF Does
      <4>2. PICK d : d = Does("keep", ev, c, e)
        OBVIOUS
      <4>3. Hears(<<ev>>, st, c, e, Push("transition", WT), d.c, d.e)
        BY <3>3, <3>4, <4>2, HearsOne
      <4> QED
        BY <4>1, <4>2, <4>3
    <3>6. out' = <<ev>>
      BY <2>6, <3>2
    <3>7. Steps(st, c, e, Push("transition", WT), c, e)
      BY <2>1, <3>5, <3>6 DEF Steps, Moves
    <3> QED
      BY <2>4, <3>7 DEF WalkLoad
  <2> QED
    BY <2>1, <2>5, <2>6
<1>3. CASE D!EndSets
  <2>1. rpc = "set" /\ rpc' = "restore" /\ UNCHANGED <<out, tested>>
    BY <1>3 DEF D!EndSets
  <2>2. Steps(st, c, e, st, c, e)
    BY <2>1, SilentStep
  <2>3. WalkMatch(st, c, e)'
    BY <2>1 DEF WalkMatch, WalkAny
  <2> QED
    BY <2>2, <2>3
<1>4. CASE OpsOf
  <2>0. rpc = "op" /\ UNCHANGED job
    BY <1>4, OpSteps DEF OpsOf
  <2>1. LoadFits(c)
    BY TransitionsAssumption DEF LoadFits
  <2>2. Expects(WT, WT, WalkLoad)
    BY AllExpect
  <2>3. Push("compare", Push("rollbacks", WT)) \in WalkLoad
    BY DEF WalkLoad, WalkRest
  <2>4. OpAt(D!Op1.op, request.action, tested, WalkLoad, WT, st, c, e)
    BY <2>0 DEF WalkMatch
  <2>5. OpDone(WT, WT, WalkLoad, st, c, e)
    BY <1>4, <2>1, <2>2, <2>3, <2>4, OpHeard DEF OpsOf
  <2>6. PICK st2, c2, e2 :
          /\ Moves(st, c, e, st2, c2, e2) /\ c2.exploring_from = c.exploring_from
          /\ OpGoesOn(WT, WalkLoad, st2, c2, e2) \/ OpsOver(WT, st2) \/ OpStops(WT, WT, WalkLoad, st2)
    BY <2>5 DEF OpDone
  <2>7. CASE OpGoesOn(WT, WalkLoad, st2, c2, e2)
    <3>1. WalkMatch(st2, c2, e2)'
      BY <2>7 DEF OpGoesOn, WalkMatch, D!Op1
    <3> QED
      BY <2>6, <3>1 DEF Steps
  <2>8. CASE OpsOver(WT, st2)
    <3>1. rpc' = "set" /\ st2 \in WalkRest
      BY <2>8 DEF OpsOver, WalkRest
    <3>2. WalkMatch(st2, c2, e2)'
      BY <3>1 DEF WalkMatch
    <3> QED
      BY <2>6, <3>2 DEF Steps
  <2>9. CASE OpStops(WT, WT, WalkLoad, st2)
    <3>1. rpc' \in {"restore", "restore_set"} /\ st2 \in Made(WT) \cup WalkLoad \cup {WT}
      BY <2>9 DEF OpStops
    <3>2. st2 \in WalkAny
      BY <3>1, ReadyMade DEF WalkAny, WalkLoad, WalkRest
    <3>3. WalkMatch(st2, c2, e2)'
      BY <3>1, <3>2 DEF WalkMatch
    <3> QED
      BY <2>6, <3>3 DEF Steps
  <2> QED
    BY <2>6, <2>7, <2>8, <2>9
<1>5. CASE D!RestoreAfterSet \/ D!RestoreAtEnd
  <2>1. rpc \in {"restore_set", "restore"} /\ rpc' \in {"set", "restore", "idle"}
    BY <1>5 DEF D!RestoreAfterSet, D!RestoreAtEnd, D!End
  <2>2. st \in WalkAny /\ request.action # "explore"
    BY <2>1 DEF WalkMatch
  <2>3. PICK st2, c2, e2 :
          /\ Moves(st, c, e, st2, c2, e2) /\ c2.exploring_from = c.exploring_from
          /\ rpc' = "set" => st2 \in WalkRest
          /\ rpc' = "restore" => st2 \in WalkAny
    BY <1>0, <1>5, <2>2, WalkRestores
  <2>4. WalkMatch(st2, c2, e2)'
    BY <2>1, <2>3 DEF WalkMatch
  <2> QED
    BY <2>3, <2>4 DEF Steps
<1>6. CASE D!Killed
  <2>1. rpc' = "idle" /\ out' = out /\ tested' = tested
    BY <1>6, KilledTo
  <2>2. Steps(st, c, e, st, c, e)
    BY <2>1, SilentStep
  <2>3. WalkMatch(st, c, e)'
    BY <2>1 DEF WalkMatch
  <2> QED
    BY <2>2, <2>3
<1> QED
  BY <1>1, <1>2, <1>3, <1>4, <1>5, <1>6, StepKinds

----------------------------------------------------------------------------
(* transition-to-state, and explore-transitions                            *)

\* The preparation, and the load that is expected after it
Prepared(R, st0, st2, c, e) ==
  /\ Steps(st0, c, e, st2, c, e)
  /\ rpc' \in {"op", "idle"} /\ tested' = tested
  /\ rpc' = "op" => /\ D!Op1'.op = "load"
                    /\ OpAt("load", request.action, tested', {Ready(R)}, R, st2, c, e)
  /\ rpc' = "idle" => exit' = "failed"

LEMMA PrepareReady ==
  ASSUME RunInv, job.test # "set", out = <<>>, D!Prepare, NEW c \in F!Context, NEW e \in Events,
         NEW st0, NEW R \in Text, LooseOf(request.action, tested, c, e),
         Takes("noqueue", st0, Ready(R), "keep")
  PROVE  \E st2 \in {st0, Ready(R)} : Prepared(R, st0, st2, c, e)
<1>1. /\ Takes("empty", Ready(R), Ready(R), "keep")
      /\ Takes("reason", Ready(R), Ready(R), "keep")
  BY ReadyTakes
<1>2. PICK st2 \in {st0, Ready(R)} :
        Steps(st0, c, e, st2, c, e) /\ (rpc' # "idle" => st2 = Ready(R))
  BY <1>1, PrepareStep
<1>3. /\ rpc' \in {"op", "idle"} /\ tested' = tested /\ (rpc' = "op" => Head(ops').op = "load")
      /\ rpc' = "idle" => exit' = "failed"
  BY PrepareTo
<1>4. rpc' = "op" => D!Op1'.op = "load"
  BY <1>3 DEF D!Op1
<1>5. rpc' = "op" => OpAt("load", request.action, tested', {Ready(R)}, R, st2, c, e)
  BY <1>2, <1>3 DEF OpAt
<1> QED
  BY <1>2, <1>3, <1>4, <1>5 DEF Prepared

LEMMA TransStep ==
  ASSUME DrnedInv, RunCourse, job.from = NoState, job.test # "set", request.action = "transition",
         out = <<>>, NEW c \in F!Context, NEW e \in Events, NEW st,
         LooseOf(request.action, tested, c, e), c.exploring_from = NoState,
         TransMatch(st, c, e), D!Step, UNCHANGED request
  PROVE  \E st2, c2, e2 : Steps(st, c, e, st2, c2, e2) /\ TransMatch(st2, c2, e2)'
<1>0. RunInv /\ tested \in Loads /\ rpc \notin {"set", "restore_set"}
  BY DEF DrnedInv, LinesInv, Loads, RunCourse
<1>1. CASE D!Prepare
  <2>1. st = Push("transition-test", <<>>) /\ <<>> \in Text
    BY <1>1, <1>0, PrepareTo, EmptyText DEF TransMatch
  <2>2. Takes("noqueue", st, Ready(<<>>), "keep")
    BY <2>1, LoadTakes DEF Ready
  <2>3. PICK st2 : Prepared(<<>>, st, st2, c, e)
    BY <1>0, <1>1, <2>1, <2>2, PrepareReady
  <2>4. TransMatch(st2, c, e)'
    BY <2>3 DEF Prepared, TransMatch
  <2> QED
    BY <2>3, <2>4 DEF Prepared
<1>2. CASE D!BeginSet \/ D!EndSets \/ D!RestoreAfterSet
  BY <1>0, <1>2 DEF D!BeginSet, D!EndSets, D!RestoreAfterSet
<1>3. CASE OpsOf
  <2>0. rpc = "op" /\ UNCHANGED job
    BY <1>3, OpSteps DEF OpsOf
  <2>1. LoadFits(c)
    BY TransitionsAssumption DEF LoadFits
  <2>2. Expects(<<>>, <<>>, {Ready(<<>>)})
    BY AllExpect
  <2>3. OpAt(D!Op1.op, request.action, tested, {Ready(<<>>)}, <<>>, st, c, e)
    BY <2>0 DEF TransMatch
  <2>4. OpDone(<<>>, <<>>, {Ready(<<>>)}, st, c, e)
    BY <1>3, <2>1, <2>2, <2>3, OpHeard DEF OpsOf
  <2>5. PICK st2, c2, e2 :
          /\ Moves(st, c, e, st2, c2, e2) /\ c2.exploring_from = c.exploring_from
          /\ \/ OpGoesOn(<<>>, {Ready(<<>>)}, st2, c2, e2)
             \/ OpsOver(<<>>, st2) \/ OpStops(<<>>, <<>>, {Ready(<<>>)}, st2)
    BY <2>4 DEF OpDone
  <2>6. CASE OpGoesOn(<<>>, {Ready(<<>>)}, st2, c2, e2)
    <3>1. TransMatch(st2, c2, e2)'
      BY <2>6 DEF OpGoesOn, TransMatch, D!Op1
    <3> QED
      BY <2>5, <3>1 DEF Steps
  <2>7. CASE OpsOver(<<>>, st2) \/ OpStops(<<>>, <<>>, {Ready(<<>>)}, st2)
    <3>1. job.test \in {"raw", "single"}
      BY <1>0, <2>0 DEF RunInv, D!Job
    <3>2. rpc' \in {"restore", "idle"} /\ st2 \in Made(<<>>) \cup {Ready(<<>>)} \cup {<<>>}
      BY <2>7, <3>1, LoadedMade DEF OpsOver, OpStops
    <3>3. st2 \in Made(<<>>) \cup {<<>>}
      BY <3>2, ReadyMade
    <3>4. TransMatch(st2, c2, e2)'
      BY <3>2, <3>3 DEF TransMatch
    <3> QED
      BY <2>5, <3>4 DEF Steps
  <2> QED
    BY <2>5, <2>6, <2>7
<1>4. CASE D!RestoreAtEnd
  <2>1. rpc = "restore" /\ st \in Made(<<>>) \cup {<<>>}
    BY <1>4 DEF TransMatch, D!RestoreAtEnd
  <2>2. Takes("teardown", st, <<>>, "keep")
    <3>1. "teardown" \in Failing
      BY DEF Failing, Breaks
    <3>2. Takes("teardown", <<>>, <<>>, "keep")
      BY TailTakes
    <3>3. st \in Made(<<>>) => Drops("teardown", st, <<>>)
      BY <3>1, MadeFalls, EmptyText
    <3> QED
      BY <2>1, <3>2, <3>3, TakesAfter
  <2>3. Moves(st, c, e, <<>>, c, e) /\ rpc' = "idle"
    BY <1>0, <1>4, <2>2, DeafAre, DeafRestores
  <2>4. TransMatch(<<>>, c, e)'
    BY <2>3 DEF TransMatch
  <2> QED
    BY <2>3, <2>4 DEF Steps
<1>5. CASE D!Killed
  <2>1. rpc' = "idle" /\ out' = out /\ tested' = tested
    BY <1>5, KilledTo
  <2>2. Steps(st, c, e, st, c, e)
    BY <2>1, SilentStep
  <2>3. TransMatch(st, c, e)'
    BY <2>1 DEF TransMatch
  <2> QED
    BY <2>2, <2>3
<1> QED
  BY <1>1, <1>2, <1>3, <1>4, <1>5, StepKinds

LEMMA InitStep ==
  ASSUME DrnedInv, RunCourse, job.from = NoState, job.test = "raw", request.action = "explore",
         FirstLoad(from), out = <<>>, NEW c \in F!Context, NEW e \in Events, NEW st,
         LooseOf(request.action, tested, c, e), InitMatch(st, c, e), rpc # "idle", D!Step,
         UNCHANGED <<request, pairs>>
  PROVE  \E st2, c2, e2 : Steps(st, c, e, st2, c2, e2) /\ InitMatch(st2, c2, e2)'
<1>0. RunInv /\ tested \in Loads /\ rpc \notin {"set", "restore_set", "restore"}
  BY DEF DrnedInv, LinesInv, Loads, RunCourse
<1>1. Initializes(st, c, e) /\ c.exploring_from = from /\ from' = from
  BY DEF InitMatch, Initializes, from
<1>2. CASE D!Prepare
  <2>1. st = Push("transition", EX) /\ EX \in Text
    BY <1>0, <1>1, <1>2, PrepareTo, TailText DEF Initializes
  <2>2. Takes("noqueue", st, Ready(EX), "keep")
    BY <2>1, ReadyTakes
  <2>3. PICK st2 \in {st, Ready(EX)} : Prepared(EX, st, st2, c, e)
    BY <1>0, <1>2, <2>1, <2>2, PrepareReady
  <2>4. st2 \in Made(EX)
    BY <2>1, <2>3, ReadyMade
  <2>5. Initializes(st2, c, e)'
    BY <1>1, <2>3, <2>4 DEF Prepared, Initializes
  <2> QED
    BY <2>3, <2>5 DEF Prepared, InitMatch
<1>3. CASE D!BeginSet \/ D!EndSets \/ D!RestoreAfterSet \/ D!RestoreAtEnd
  BY <1>0, <1>3 DEF D!BeginSet, D!EndSets, D!RestoreAfterSet, D!RestoreAtEnd
<1>4. CASE OpsOf
  <2>0. rpc = "op" /\ UNCHANGED job
    BY <1>4, OpSteps DEF OpsOf
  <2>1. LoadFits(c)
    BY <1>1, <2>0 DEF LoadFits, FirstLoad
  <2>2. Expects(EX, ET, {Ready(EX)})
    BY AllExpect
  <2>3. OpAt(D!Op1.op, request.action, tested, {Ready(EX)}, EX, st, c, e)
    BY <1>1, <2>0 DEF Initializes
  <2>4. OpDone(EX, ET, {Ready(EX)}, st, c, e)
    BY <1>4, <2>1, <2>2, <2>3, OpHeard DEF OpsOf
  <2>5. PICK st2, c2, e2 :
          /\ Moves(st, c, e, st2, c2, e2) /\ c2.exploring_from = c.exploring_from
          /\ (D!Op1.op # "load" \/ job.from # NoState) => After(c2) = After(c)
          /\ \/ OpGoesOn(EX, {Ready(EX)}, st2, c2, e2)
             \/ OpsOver(EX, st2) \/ OpStops(EX, ET, {Ready(EX)}, st2)
    BY <2>4 DEF OpDone
  <2>6. D!Op1.op = "load" => D!Op1.state = from
    BY <2>0 DEF FirstLoad
  <2>7. D!Op1.op # "load" => ~LostIn(tested) /\ After(c) = from
    BY <1>1, <2>0 DEF Initializes
  <2>8. CASE OpGoesOn(EX, {Ready(EX)}, st2, c2, e2)
    <3>1. ~LostIn(tested') /\ After(c2) = from
      BY <2>5, <2>6, <2>7, <2>8 DEF OpGoesOn
    <3>2. rpc' = "op" /\ OpAt(D!Op1.op, request.action, tested, {Ready(EX)}, EX, st2, c2, e2)'
      BY <2>8 DEF OpGoesOn, D!Op1
    <3>3. Initializes(st2, c2, e2)'
      BY <1>1, <2>5, <3>1, <3>2 DEF Initializes
    <3> QED
      BY <2>5, <3>3 DEF Steps, InitMatch
  <2>9. CASE OpsOver(EX, st2)
    <3>1. /\ rpc' = "idle" /\ exit' = "ok" /\ st2 = Push("compare", Push("rollbacks", EX))
          /\ D!Op1.op # "load" /\ (~LostIn(tested) => ~LostIn(tested'))
      BY <2>9 DEF OpsOver
    <3>2. ~LostIn(tested') /\ After(c2) = from
      BY <2>5, <2>7, <3>1
    <3>3. Initializes(st2, c2, e2)'
      BY <1>1, <2>5, <3>1, <3>2 DEF Initializes
    <3> QED
      BY <2>5, <3>3 DEF Steps, InitMatch
  <2>10. CASE OpStops(EX, ET, {Ready(EX)}, st2)
    <3>1. rpc' = "idle" /\ exit' = "failed" /\ (st2 \in Made(EX) \cup {Ready(EX)} \/ st2 = ET)
      BY <2>10 DEF OpStops
    <3>2. CASE st2 \in Made(EX) \cup {Ready(EX)}
      <4>1. st2 \in Made(EX)
        BY <3>2, ReadyMade
      <4>2. Initializes(st2, c2, e2)'
        BY <1>1, <2>5, <3>1, <4>1 DEF Initializes
      <4> QED
        BY <2>5, <4>2 DEF Steps, InitMatch
    <3>3. CASE st2 = ET
      <4>1. InitMatch(st2, c2, e2)'
        BY <3>1, <3>3 DEF InitMatch
      <4> QED
        BY <2>5, <4>1 DEF Steps
    <3> QED
      BY <3>1, <3>2, <3>3
  <2> QED
    BY <2>5, <2>8, <2>9, <2>10
<1>5. CASE D!Killed
  <2>1. rpc' = "idle" /\ exit' = "failed" /\ out' = out /\ tested' = tested
    BY <1>5, KilledTo
  <2>2. Steps(st, c, e, st, c, e)
    BY <2>1, SilentStep
  <2>3. st \in Made(EX)
    <3>1. rpc \in {"prepare", "op"}
      BY <1>0 DEF RunInv, D!RunPC
    <3>2. CASE rpc = "prepare"
      BY <1>1, <3>2, ReadyMade DEF Initializes
    <3>3. CASE rpc = "op"
      <4>1. {Ready(EX)} \subseteq Made(EX)
        BY ReadyMade
      <4>2. OpAt(D!Op1.op, request.action, tested, {Ready(EX)}, EX, st, c, e)
        BY <1>1, <3>3 DEF Initializes
      <4>3. D!Op1.op \in {"load", "commit", "compare_config", "rollback"}
        BY <1>0, <3>3, OpKinds
      <4> QED
        BY <4>1, <4>2, <4>3, OpAtMade
    <3> QED
      BY <3>1, <3>2, <3>3
  <2>4. Initializes(st, c, e)'
    BY <1>1, <2>1, <2>3 DEF Initializes
  <2> QED
    BY <2>2, <2>4 DEF InitMatch
<1> QED
  BY <1>2, <1>3, <1>4, <1>5, StepKinds

LEMMA ExpStep ==
  ASSUME DrnedInv, RunCourse, job.from = from, job.test = "single", request.action = "explore",
         from \in States, out = <<>>, NEW c \in F!Context, NEW e \in Events, NEW st,
         LooseOf(request.action, tested, c, e), ExpMatch(st, c, e), rpc # "idle", D!Step,
         UNCHANGED <<request, pairs>>
  PROVE  \E st2, c2, e2 : Steps(st, c, e, st2, c2, e2) /\ ExpMatch(st2, c2, e2)'
<1>0. /\ RunInv /\ tested \in Loads /\ rpc \notin {"set", "restore_set"} /\ from' = from
      /\ failed_states = <<>>
  BY DEF DrnedInv, LinesInv, Loads, RunCourse, from
<1>1. job.from # NoState
  BY TransitionsAssumption
<1>2. CASE D!BeginSet \/ D!EndSets \/ D!RestoreAfterSet
  BY <1>0, <1>2 DEF D!BeginSet, D!EndSets, D!RestoreAfterSet
<1>3. CASE Makes(st, c, e)
  <2>0. ~LostIn(tested) /\ c.exploring_from = from /\ After(c) = from
    BY <1>3 DEF Makes
  <2>1. CASE D!Prepare
    <3>1. st = Push("transition", TX) /\ TX \in Text
      BY <1>0, <1>3, <2>1, PrepareTo, TailText DEF Makes
    <3>2. Takes("noqueue", st, Ready(TX), "keep")
      BY <3>1, ReadyTakes
    <3>6. RunInv /\ job.test # "set"
      BY <1>0
    <3>3. PICK st2 \in {st, Ready(TX)} : Prepared(TX, st, st2, c, e)
      BY <2>1, <3>1, <3>2, <3>6, PrepareReady
    <3>4. st2 \in Made(TX)
      BY <3>1, <3>3, ReadyMade
    <3>5. Makes(st2, c, e)'
      BY <1>0, <2>0, <3>3, <3>4 DEF Prepared, Makes
    <3> QED
      BY <3>3, <3>5 DEF Prepared, ExpMatch
  <2>2. CASE OpsOf
    <3>0. rpc = "op" /\ UNCHANGED job
      BY <2>2, OpSteps DEF OpsOf
    <3>1. LoadFits(c)
      BY <1>1, <2>0 DEF LoadFits
    <3>2. Expects(TX, ET, {Ready(TX)})
      BY AllExpect
    <3>3. OpAt(D!Op1.op, request.action, tested, {Ready(TX)}, TX, st, c, e)
      BY <1>3, <3>0 DEF Makes
    <3>4. OpDone(TX, ET, {Ready(TX)}, st, c, e)
      BY <2>2, <3>1, <3>2, <3>3, OpHeard DEF OpsOf
    <3>5. PICK st2, c2, e2 :
            /\ Moves(st, c, e, st2, c2, e2) /\ c2.exploring_from = c.exploring_from
            /\ (D!Op1.op # "load" \/ job.from # NoState) => After(c2) = After(c)
            /\ \/ OpGoesOn(TX, {Ready(TX)}, st2, c2, e2)
               \/ OpsOver(TX, st2) \/ OpStops(TX, ET, {Ready(TX)}, st2)
      BY <3>4 DEF OpDone
    <3>6. After(c2) = from /\ c2.exploring_from = from
      BY <1>1, <2>0, <3>5
    <3>7. CASE OpGoesOn(TX, {Ready(TX)}, st2, c2, e2)
      <4>1. ~LostIn(tested')
        BY <2>0, <3>7 DEF OpGoesOn
      <4>2. rpc' = "op" /\ OpAt(D!Op1.op, request.action, tested, {Ready(TX)}, TX, st2, c2, e2)'
        BY <3>7 DEF OpGoesOn, D!Op1
      <4>3. Makes(st2, c2, e2)'
        BY <1>0, <3>6, <4>1, <4>2 DEF Makes
      <4> QED
        BY <3>5, <4>3 DEF Steps, ExpMatch
    <3>8. CASE OpsOver(TX, st2)
      <4>1. rpc' = "restore" /\ st2 = Push("compare", Push("rollbacks", TX)) /\ ~LostIn(tested')
        BY <2>0, <3>8 DEF OpsOver
      <4>2. st2 \in Made(TX)
        BY <4>1, LoadedMade
      <4>3. Makes(st2, c2, e2)'
        BY <1>0, <3>6, <4>1, <4>2 DEF Makes
      <4> QED
        BY <3>5, <4>3 DEF Steps, ExpMatch
    <3>9. CASE OpStops(TX, ET, {Ready(TX)}, st2)
      <4>1. /\ rpc' = "restore"
            /\ \/ st2 \in Made(TX) \cup {Ready(TX)} /\ ~LostIn(tested')
               \/ st2 = ET /\ LostIn(tested')
        BY <2>0, <3>9 DEF OpStops
      <4>2. CASE st2 \in Made(TX) \cup {Ready(TX)} /\ ~LostIn(tested')
        <5>1. st2 \in Made(TX)
          BY <4>2, ReadyMade
        <5>2. Makes(st2, c2, e2)'
          BY <1>0, <3>6, <4>1, <4>2, <5>1 DEF Makes
        <5> QED
          BY <3>5, <5>2 DEF Steps, ExpMatch
      <4>3. CASE st2 = ET /\ LostIn(tested')
        <5>1. Misled(st2)'
          BY <4>1, <4>3 DEF Misled
        <5> QED
          BY <3>5, <5>1 DEF Steps, ExpMatch
      <4> QED
        BY <4>1, <4>2, <4>3
    <3> QED
      BY <3>5, <3>7, <3>8, <3>9
  <2>3. CASE D!RestoreAtEnd
    <3>1. rpc = "restore" /\ st \in Made(TX)
      BY <1>3, <2>3 DEF Makes, D!RestoreAtEnd
    <3>2. tested # <<>>
      <4>1. After(c) = LastEnd(Kept(request.action, tested))
        BY DEF LooseOf, Recs
      <4>2. tested = <<>> => After(c) = InitState
        BY <4>1, NoneKept DEF LastEnd
      <4> QED
        BY <2>0, <4>2, TransitionsAssumption
    <3>3. PICK st2, c2, e2 :
            /\ Moves(st, c, e, st2, c2, e2) /\ SameEnds(c, c2) /\ rpc' = "idle"
            /\ \/ /\ ~LostIn(tested') /\ st2 \in Torn(EX)
                  /\ exit' = "ok" => st2 = Push("compare", Push("gen-trans-failed", EX))
               \/ st2 = ET /\ LostIn(tested')
      BY <1>0, <2>0, <2>3, <3>1, <3>2, ExploreRestores
    <3>4. c2.exploring_from = from /\ After(c2) = from /\ c2.exploring_from = c.exploring_from
      BY <2>0, <3>3 DEF SameEnds
    <3>5. CASE /\ ~LostIn(tested') /\ st2 \in Torn(EX)
               /\ exit' = "ok" => st2 = Push("compare", Push("gen-trans-failed", EX))
      <4>1. Makes(st2, c2, e2)'
        BY <1>0, <3>3, <3>4, <3>5 DEF Makes
      <4> QED
        BY <3>3, <3>4, <4>1 DEF Steps, ExpMatch
    <3>6. CASE st2 = ET /\ LostIn(tested')
      <4>1. Misled(st2)'
        BY <3>3, <3>6 DEF Misled
      <4> QED
        BY <3>3, <3>4, <4>1 DEF Steps, ExpMatch
    <3> QED
      BY <3>3, <3>5, <3>6
  <2>4. CASE D!Killed
    <3>1. rpc' = "idle" /\ exit' = "failed" /\ out' = out /\ tested' = tested
      BY <2>4, KilledTo
    <3>2. Steps(st, c, e, st, c, e)
      BY <3>1, SilentStep
    <3>3. st \in Made(TX)
      <4>1. rpc \in {"prepare", "op", "restore"}
        BY <1>0 DEF RunInv, D!RunPC
      <4>2. CASE rpc = "prepare" \/ rpc = "restore"
        BY <1>3, <4>2, ReadyMade DEF Makes
      <4>3. CASE rpc = "op"
        <5>1. {Ready(TX)} \subseteq Made(TX)
          BY ReadyMade
        <5>2. OpAt(D!Op1.op, request.action, tested, {Ready(TX)}, TX, st, c, e)
          BY <1>3, <4>3 DEF Makes
        <5>3. D!Op1.op \in {"load", "commit", "compare_config", "rollback"}
          BY <1>0, <4>3, OpKinds
        <5> QED
          BY <5>1, <5>2, <5>3, OpAtMade
      <4> QED
        BY <4>1, <4>2, <4>3
    <3>4. Makes(st, c, e)'
      BY <1>0, <2>0, <3>1, <3>3 DEF Makes
    <3> QED
      BY <3>2, <3>4 DEF ExpMatch
  <2> QED
    BY <1>2, <2>1, <2>2, <2>3, <2>4, StepKinds
<1>4. CASE Misled(st)
  <2>0. st = ET /\ LostIn(tested) /\ Deaf(ET)
    BY <1>4, DeafAre DEF Misled
  <2>1. CASE D!Prepare
    <3>1. /\ Takes("noqueue", ET, ET, "keep") /\ Takes("empty", ET, ET, "keep")
          /\ Takes("reason", ET, ET, "keep")
      BY TailTakes, UnfitTakes
    <3>2. Steps(st, c, e, st, c, e)
      BY <2>0, <2>1, <3>1, PrepareStep
    <3>3. tested' = tested /\ (rpc' = "op" => D!Op1'.op = "load")
      BY <1>0, <2>1, PrepareTo DEF D!Op1
    <3>4. Misled(st)'
      BY <2>0, <3>3 DEF Misled
    <3> QED
      BY <3>2, <3>4 DEF ExpMatch
  <2>2. CASE OpsOf
    <3>0. rpc = "op" /\ UNCHANGED job
      BY <2>2, OpSteps DEF OpsOf
    <3>1. D!Op1.op # "load" => UnseenAt(request.action, tested)
      BY <1>4, <3>0 DEF Misled
    <3>2. Deaf(st)
      BY <2>0
    <3>3. Unheard(st, c, e)
      BY <1>1, <2>0, <2>2, <3>1, <3>2, OpUnheard DEF OpsOf
    <3>4. Steps(st, c, e, st, c, e)
      BY <3>3 DEF Unheard, Steps, Moves
    <3>5. LostIn(tested') /\ (rpc' = "op" => UnseenAt(request.action, tested'))
      <4>1. CASE D!Proceed /\ UnseenAt(request.action, tested')
        BY <3>3, <4>1 DEF Unheard
      <4>2. CASE D!Fail \/ D!Leave
        BY <1>0, <3>0, <3>3, <4>2, StopsTo DEF Unheard
      <4> QED
        BY <3>3, <4>1, <4>2 DEF Unheard
    <3>6. Misled(st)'
      BY <2>0, <3>5 DEF Misled
    <3> QED
      BY <3>4, <3>6 DEF ExpMatch
  <2>3. CASE D!RestoreAtEnd
    <3>1. Takes("teardown", st, st, "keep") /\ Deaf(st)
      BY <2>0, TailTakes
    <3>2. Moves(st, c, e, st, c, e) /\ rpc' = "idle" /\ LostIn(tested')
      BY <1>0, <2>0, <2>3, <3>1, DeafRestores
    <3>3. Misled(st)'
      BY <2>0, <3>2 DEF Misled
    <3> QED
      BY <3>2, <3>3 DEF Steps, ExpMatch
  <2>4. CASE D!Killed
    <3>1. rpc' = "idle" /\ out' = out /\ tested' = tested
      BY <2>4, KilledTo
    <3>2. Steps(st, c, e, st, c, e)
      BY <3>1, SilentStep
    <3>3. Misled(st)'
      BY <2>0, <3>1 DEF Misled
    <3> QED
      BY <3>2, <3>3 DEF ExpMatch
  <2> QED
    BY <1>2, <2>1, <2>2, <2>3, <2>4, StepKinds
<1> QED
  BY <1>3, <1>4 DEF ExpMatch

----------------------------------------------------------------------------
(* The same, wherever the operation is                                     *)

\* Between the transitions of explore-transitions, the filter is at the end of
\* the last one, or nothing is to come from the state it started from.
NextMatch(st, c) ==
  \/ st = ET /\ (LostIn(tested) \/ NoneFrom(pairs, prev_state))
  \/ /\ \/ st = Push("compare", Push("gen-trans-failed", EX))
        \/ st = EX
        \/ st = Push("gen-init-failed", Push("teardown", EX))
     /\ ~LostIn(tested) /\ c.exploring_from = prev_state /\ After(c) = prev_state

BeginMatch(st) ==
  /\ request.action = "walk" => st = Push("commits", WT)
  /\ request.action = "explore" => st = Push("explore", <<>>)
  /\ request.action = "transition" => st = Push("transition-test", <<>>)

Match(st, c, e) ==
  /\ LooseOf(request.action, tested, c, e)
  /\ request.action # "explore" => c.exploring_from = NoState
  /\ tpc = "begin" => BeginMatch(st)
  /\ tpc = "running" /\ request.action = "walk" => WalkMatch(st, c, e)
  /\ tpc = "running" /\ request.action = "transition" => TransMatch(st, c, e)
  /\ tpc = "initialize" => InitMatch(st, c, e)
  /\ tpc = "transition" => ExpMatch(st, c, e)
  /\ tpc = "next" => NextMatch(st, c)

LEMMA MatchSame ==
  ASSUME UNCHANGED <<job, rpc, ops, exit, tested, request, tpc, pairs, prev_state>>,
         NEW st, NEW c, NEW e, Match(st, c, e)
  PROVE  Match(st, c, e)'
<1>1. rpc' = rpc /\ exit' = exit /\ tested' = tested /\ request' = request /\ tpc' = tpc
      /\ prev_state' = prev_state /\ pairs' = pairs /\ from' = from
  BY DEF from
<1>2. D!Op1' = D!Op1
  BY DEF D!Op1
<1>3. LooseOf(request.action, tested, c, e) /\ (request.action # "explore" => c.exploring_from = NoState)
  BY DEF Match
<1>4. tpc = "begin" => BeginMatch(st)'
  BY <1>1 DEF Match, BeginMatch
<1>5. tpc = "running" /\ request.action = "walk" => WalkMatch(st, c, e)'
  BY <1>1, <1>2 DEF Match, WalkMatch
<1>6. tpc = "running" /\ request.action = "transition" => TransMatch(st, c, e)'
  BY <1>1, <1>2 DEF Match, TransMatch
<1>7. tpc = "initialize" => InitMatch(st, c, e)'
  BY <1>1, <1>2 DEF Match, InitMatch, Initializes
<1>8. tpc = "transition" => ExpMatch(st, c, e)'
  BY <1>1, <1>2 DEF Match, ExpMatch, Makes, Misled
<1>9. tpc = "next" => NextMatch(st, c)'
  BY <1>1 DEF Match, NextMatch
<1> QED
  BY <1>1, <1>3, <1>4, <1>5, <1>6, <1>7, <1>8, <1>9 DEF Match

\* The filter reads what the step prints, and gets to where it should be.
Fitting(p, st, c, e) ==
  \E st2, c2, e2 : Hears(p, st, c, e, st2, c2, e2) /\ Match(st2, c2, e2)'

LEMMA Runs ==
  ASSUME TypeInv, EndInv, rpc # "idle"
  PROVE  tpc \in {"running", "initialize", "transition"}
BY DEF TypeInv, OwnTypes, TPC, EndInv

LEMMA DrnedMatch ==
  ASSUME TypeInv, EndInv, CtlInv, out = <<>>, D!Step,
         UNCHANGED <<request, tpc, pairs, prev_state>>,
         NEW c \in F!Context, NEW e \in Events, NEW st, Match(st, c, e)
  PROVE  Fitting(out', st, c, e)
<1>0. /\ DrnedInv /\ RunCourse /\ StartedInv /\ GroupInv
      /\ request.action \in {"transition", "explore", "walk"}
  BY DEF TypeInv, CtlInv, OwnTypes, Request
<1>1. LooseOf(request.action, tested, c, e) /\ (request.action # "explore" => c.exploring_from = NoState)
  BY DEF Match
<1>2. rpc # "idle" /\ tpc \in {"running", "initialize", "transition"}
  <2>1. rpc # "idle"
    BY StepRuns
  <2> QED
    BY <2>1, Runs
<1>3. ASSUME NEW st2, NEW c2, NEW e2, Steps(st, c, e, st2, c2, e2)
      PROVE  /\ Hears(out', st, c, e, st2, c2, e2)
             /\ LooseOf(request.action, tested, c2, e2)'
             /\ (request.action # "explore" => c2.exploring_from = NoState)'
  BY <1>1, <1>3 DEF Steps, Moves
<1>4. CASE tpc = "running" /\ request.action = "walk"
  <2>1. job.from = NoState /\ job.test = "set" /\ WalkMatch(st, c, e)
    BY <1>0, <1>4 DEF StartedInv, Match
  <2>2. PICK st2, c2, e2 : Steps(st, c, e, st2, c2, e2) /\ WalkMatch(st2, c2, e2)'
    BY <1>0, <1>1, <1>4, <2>1, WalkStep
  <2>3. Match(st2, c2, e2)'
    BY <1>3, <1>4, <2>2 DEF Match
  <2> QED
    BY <1>3, <2>2, <2>3 DEF Fitting
<1>5. CASE tpc = "running" /\ request.action = "transition"
  <2>1. job.from = NoState /\ job.test # "set" /\ TransMatch(st, c, e)
    BY <1>0, <1>5 DEF StartedInv, Match
  <2>2. PICK st2, c2, e2 : Steps(st, c, e, st2, c2, e2) /\ TransMatch(st2, c2, e2)'
    BY <1>0, <1>1, <1>5, <2>1, TransStep
  <2>3. Match(st2, c2, e2)'
    BY <1>3, <1>5, <2>2 DEF Match
  <2> QED
    BY <1>3, <2>2, <2>3 DEF Fitting
<1>6. CASE tpc = "initialize"
  <2>1. /\ job.from = NoState /\ job.test = "raw" /\ request.action = "explore"
        /\ FirstLoad(from) /\ InitMatch(st, c, e)
    BY <1>0, <1>6 DEF StartedInv, GroupInv, Match
  <2>2. PICK st2, c2, e2 : Steps(st, c, e, st2, c2, e2) /\ InitMatch(st2, c2, e2)'
    BY <1>0, <1>1, <1>2, <2>1, InitStep
  <2>3. Match(st2, c2, e2)'
    BY <1>3, <1>6, <2>1, <2>2 DEF Match
  <2> QED
    BY <1>3, <2>2, <2>3 DEF Fitting
<1>7. CASE tpc = "transition"
  <2>1. /\ job.from = from /\ job.test = "single" /\ request.action = "explore"
        /\ ExpMatch(st, c, e)
    BY <1>0, <1>7 DEF StartedInv, GroupInv, Match
  <2>2. from \in States
    <3>1. pairs \in Seq(States \X States) /\ pairs # <<>>
      BY <1>7 DEF TypeInv, OwnTypes, WaitInv
    <3> QED
      BY <3>1 DEF from
  <2>3. PICK st2, c2, e2 : Steps(st, c, e, st2, c2, e2) /\ ExpMatch(st2, c2, e2)'
    BY <1>0, <1>1, <1>2, <2>1, <2>2, ExpStep
  <2>4. Match(st2, c2, e2)'
    BY <1>3, <1>7, <2>1, <2>3 DEF Match
  <2> QED
    BY <1>3, <2>3, <2>4 DEF Fitting
<1>8. tpc = "running" => request.action # "explore"
  BY <1>0 DEF StartedInv
<1> QED
  BY <1>0, <1>2, <1>4, <1>5, <1>6, <1>7, <1>8

----------------------------------------------------------------------------
(* The progress messages of the operation itself                           *)

LEMMA HearLine ==
  ASSUME NEW t \in Told, NEW st, NEW st2, NEW c \in F!Context, NEW e \in Events,
         Takes(t, st, st2, "keep")
  PROVE  Hears(<<F!Line(t)>>, st, c, e, st2, c, e) /\ F!Line(t) \in GoodEvent
<1>0. <<>> \in Talk
  BY DEF Talk
<1>1. D!Line(t) \in GoodEvent /\ D!Line(t).type = t
  BY <1>0, TalkLines
<1>2. F!Line(t) = D!Line(t)
  BY DEF F!Line, D!Line
<1>3. PICK ev : ev = F!Line(t)
  OBVIOUS
<1>4. PICK d : d = Does("keep", ev, c, e)
  OBVIOUS
<1>5. Hears(<<ev>>, st, c, e, st2, d.c, d.e)
  BY <1>1, <1>2, <1>3, <1>4, HearsOne
<1>6. d.c = c /\ d.e = e
  BY <1>4 DEF Does
<1> QED
  BY <1>1, <1>2, <1>3, <1>5, <1>6

LEMMA HearTwo ==
  ASSUME NEW ev \in GoodEvent, NEW t \in Told, NEW st, NEW st2, NEW st3,
         NEW c \in F!Context, NEW e \in Events, NEW c2 \in F!Context, NEW e2 \in Events,
         Hears(<<ev>>, st, c, e, st2, c2, e2), Takes(t, st2, st3, "keep")
  PROVE  Hears(<<ev, F!Line(t)>>, st, c, e, st3, c2, e2)
<1>1. Hears(<<F!Line(t)>>, st2, c2, e2, st3, c2, e2) /\ F!Line(t) \in GoodEvent
  BY HearLine
<1>2. PICK l \in GoodEvent : l = F!Line(t)
  BY <1>1
<1>3. <<ev>> \in LinesLeft /\ <<l>> \in LinesLeft
  BY DEF LinesLeft
<1>4. Hears(<<ev>> \o <<l>>, st, c, e, st3, c2, e2)
  BY <1>1, <1>2, <1>3, HearsMore
<1>5. <<ev>> \o <<l>> = <<ev, l>>
  <2>1. PICK p, q : p = <<ev>> \o <<l>> /\ q = <<ev, l>>
    OBVIOUS
  <2>2. q \in LinesLeft /\ Len(q) = 2 /\ q[1] = ev /\ q[2] = l
    BY <2>1 DEF LinesLeft
  <2>3. p \in LinesLeft /\ Len(p) = 2 /\ p[1] = ev /\ p[2] = l
    <3>1. /\ <<ev>> \o <<l>> \in LinesLeft /\ Len(<<ev>> \o <<l>>) = 2
          /\ (<<ev>> \o <<l>>)[1] = ev /\ (<<ev>> \o <<l>>)[2] = l
      BY <1>3, ConcatProperties DEF LinesLeft
    <3> QED
      BY <2>1, <3>1
  <2>4. \A i \in 1..Len(p) : p[i] = q[i]
    <3>1. ASSUME NEW i \in 1..Len(p) PROVE p[i] = q[i]
      <4>1. i = 1 \/ i = 2
        BY <2>3, <3>1
      <4> QED
        BY <2>2, <2>3, <4>1
    <3> QED
      BY <3>1
  <2>5. p = q
    BY <2>2, <2>3, <2>4, SeqEqual DEF LinesLeft
  <2> QED
    BY <2>1, <2>5
<1> QED
  BY <1>2, <1>4, <1>5

\* Two of its messages, of which the first is not a start
LEMMA HearBoth ==
  ASSUME NEW t \in Told, NEW u \in Told, NEW st, NEW st2, NEW st3,
         NEW c \in F!Context, NEW e \in Events,
         Takes(t, st, st2, "keep"), Takes(u, st2, st3, "keep")
  PROVE  Hears(<<F!Line(t), F!Line(u)>>, st, c, e, st3, c, e)
<1>1. PICK ev \in GoodEvent : ev = F!Line(t) /\ Hears(<<ev>>, st, c, e, st2, c, e)
  BY HearLine
<1>2. Hears(<<ev, F!Line(u)>>, st, c, e, st3, c, e)
  BY <1>1, HearTwo
<1> QED
  BY <1>1, <1>2

LEMMA Silent ==
  ASSUME NEW st, NEW c, NEW e, Match(st, c, e)'
  PROVE  Fitting(<<>>, st, c, e)
BY HearsNone DEF Fitting

LEMMA OwnTold ==
  {"init_states", "prepare", "transition", "init_failed", "trans_failed", "start", "initial_prepare"}
    \subseteq Told
BY DEF Told, F!EventTypes

\* Messages that change only where the filter is
LEMMA FitsThere ==
  ASSUME NEW p, NEW st, NEW c, NEW e, NEW st2, Hears(p, st, c, e, st2, c, e), Match(st2, c, e)'
  PROVE  Fitting(p, st, c, e)
BY DEF Fitting

LEMMA BeginRunFits ==
  ASSUME TypeInv, CaughtUp, BeginRun, NEW c, NEW e, NEW st, Match(st, c, e)
  PROVE  Match(st, c, e)'
<1>1. /\ tpc = "begin" /\ tpc' = "running" /\ rpc' = "prepare" /\ tested' = tested
      /\ request' = request /\ request.action # "explore"
  BY DEF BeginRun, Run, D!Start
<1>2. /\ LooseOf(request.action, tested, c, e) /\ c.exploring_from = NoState
      /\ BeginMatch(st)
  BY <1>1 DEF Match
<1>3. request.action = "walk" => WalkMatch(st, c, e)'
  BY <1>1, <1>2 DEF WalkMatch, BeginMatch
<1>4. request.action = "transition" => TransMatch(st, c, e)'
  BY <1>1, <1>2 DEF TransMatch, BeginMatch
<1> QED
  BY <1>1, <1>2, <1>3, <1>4 DEF Match

\* The operation comes to its end.
LEMMA EndFits ==
  ASSUME tpc' = "terminate", UNCHANGED <<request, tested>>, NEW c, NEW e, NEW st, Match(st, c, e)
  PROVE  Match(st, c, e)'
BY DEF Match

LEMMA BeginExploreFits ==
  ASSUME TypeInv, StartedInv, BeginExplore, tpc' = "next", NEW c \in F!Context, NEW e \in Events,
         NEW st, Match(st, c, e)
  PROVE  Fitting(say', st, c, e)
<1>1. /\ tpc = "begin" /\ request.action = "explore" /\ UNCHANGED <<request, prev_state, tested>>
      /\ Planned # <<>> /\ pairs' = Planned /\ say' = <<F!Line("init_states")>>
  BY DEF BeginExplore, Finish, drned
<1>2. st = Push("explore", <<>>) /\ LooseOf(request.action, tested, c, e) /\ prev_state = NoState
  BY <1>1 DEF Match, BeginMatch, StartedInv
<1>3. Hears(say', st, c, e, ET, c, e)
  BY <1>1, <1>2, LoadTakes, OwnTold, HearLine
<1>4. NoneFrom(pairs, prev_state)'
  <2>1. Planned \in Seq(States \X States)
    BY PlannedTypes DEF TypeInv, OwnTypes
  <2>2. \A i \in 1..Len(Planned) : Planned[i] \in States \X States
    BY <2>1
  <2>3. \A i \in 1..Len(Planned) : Planned[i][1] # NoState
    BY <2>2, TransitionsAssumption
  <2> QED
    BY <1>1, <1>2, <2>3 DEF NoneFrom
<1>5. NextMatch(ET, c)'
  BY <1>4 DEF NextMatch
<1>6. Match(ET, c, e)'
  BY <1>1, <1>2, <1>5 DEF Match
<1> QED
  BY <1>3, <1>6, FitsThere

LEMMA SkipFits ==
  ASSUME TypeInv, SkipFailed, NEW c, NEW e, NEW st, Match(st, c, e)
  PROVE  Match(st, c, e)'
<1>1. /\ tpc = "next" /\ tpc' = tpc /\ pairs # <<>> /\ pairs' = Tail(pairs)
      /\ UNCHANGED <<request, tested, prev_state>> /\ pairs \in Seq(States \X States)
  BY DEF SkipFailed, drned, TypeInv, OwnTypes
<1>2. NextMatch(st, c)
  BY <1>1 DEF Match
<1>3. NoneFrom(pairs, prev_state) => NoneFrom(pairs, prev_state)'
  <2>1. \A s : NoneFrom(pairs, s) => NoneFrom(pairs', s)
    BY <1>1, TailPairs
  <2> QED
    BY <1>1, <2>1
<1>4. NextMatch(st, c)'
  BY <1>1, <1>2, <1>3 DEF NextMatch
<1> QED
  BY <1>1, <1>4 DEF Match

LEMMA PairStates ==
  ASSUME TypeInv, pairs # <<>>
  PROVE  from \in States /\ to \in States /\ pairs[1][1] = from /\ Len(pairs) >= 1
<1>1. pairs \in Seq(States \X States) /\ Head(pairs) = pairs[1] /\ Len(pairs) >= 1
  BY DEF TypeInv, OwnTypes
<1>2. pairs[1] \in States \X States
  BY <1>1
<1> QED
  BY <1>1, <1>2 DEF from, to

\* Where the filter may be between two transitions, and a start, or another one
Between == {ET, Push("compare", Push("gen-trans-failed", EX)), EX,
            Push("gen-init-failed", Push("teardown", EX))}

LEMMA BetweenTakes ==
  /\ \A s \in Between : Takes("start", s, Push("gen-prepare", Push("transition", EX)), "start")
  /\ \A s \in Between \ {ET} :
       Takes("transition", s, Push("gen-prepare", Push("transition", TX)), "keep")
BY TailTakes, NextTakes DEF Between

LEMMA PrepareTakes ==
  /\ Takes("prepare", Push("gen-prepare", Push("transition", EX)), Push("transition", EX), "keep")
  /\ Takes("prepare", Push("gen-prepare", Push("transition", TX)), Push("transition", TX), "keep")
<1>1. "transition" \in Word
  BY DEF Word, F!LogStates
<1>2. Push("transition", EX) \in Text /\ Push("transition", TX) \in Text
  BY <1>1, TailText, PushText
<1> QED
  BY <1>2, BaseTakes

LEMMA NotExploring ==
  /\ ET # Push("compare", Push("gen-trans-failed", EX)) /\ ET # EX
  /\ ET # Push("gen-init-failed", Push("teardown", EX))
  /\ ET # Push("compare", Push("rollbacks", EX))
<1>1. {"compare", "gen-trans-failed", "gen-init-failed", "teardown", "rollbacks", "extended",
       "explore-transitions"} \subseteq Word
  BY DEF Word, F!LogStates
<1>2. PICK a, b, d :
        /\ a = Push("gen-trans-failed", EX) /\ b = Push("teardown", EX) /\ d = Push("rollbacks", EX)
        /\ a \in Text /\ b \in Text /\ d \in Text
  BY <1>1, TailText, PushText
<1>3. \A x, q : x \in Word /\ q \in Text => Head(Push(x, q)) = x
  BY PushFacts DEF Text
<1>4. /\ Head(ET) = "explore-transitions" /\ Head(EX) = "extended"
      /\ Head(Push("compare", a)) = "compare" /\ Head(Push("compare", d)) = "compare"
      /\ Head(Push("gen-init-failed", b)) = "gen-init-failed"
  BY <1>1, <1>2, <1>3, TailText DEF ET, EX
<1> QED
  BY <1>2, <1>4

LEMMA StartingFits ==
  ASSUME TypeInv, CtlInv, CaughtUp, StartingWith, NEW c \in F!Context, NEW e \in Events,
         NEW st, Match(st, c, e)
  PROVE  Fitting(say', st, c, e)
<1>1. /\ tpc = "next" /\ tpc' = "initialize" /\ rpc' = "prepare" /\ pairs # <<>>
      /\ UNCHANGED <<request, tested, pairs>> /\ say' = <<F!Of("start", from), F!Line("prepare")>>
  BY DEF StartingWith, Run, D!Start, plan
<1>2. /\ st \in Between /\ LooseOf(request.action, tested, c, e)
      /\ request.action = "explore" /\ from \in States /\ from' = from
  BY <1>1, PairStates DEF Match, NextMatch, Between, CtlInv, GroupInv, from
<1>3. PICK ev : ev = F!Of("start", from)
  OBVIOUS
<1>4. ev \in GoodEvent /\ ev.type = "start" /\ ev.state = from
  BY <1>2, <1>3 DEF GoodEvent, F!Event, F!Of, F!EventTypes
<1>5. PICK d : d = F!StartExplore(c, e, from)
  OBVIOUS
<1>6. /\ Recs(d.c, d.e, Kept(request.action, tested)) /\ d.c \in F!Context /\ d.e \in Events
      /\ d.c.exploring_from = from
  BY <1>2, <1>5, RecExplore DEF LooseOf
<1>7. PICK st1 : st1 = Push("gen-prepare", Push("transition", EX))
  OBVIOUS
<1>8. Hears(<<ev>>, st, c, e, st1, d.c, d.e)
  <2>1. Takes("start", st, st1, "start")
    BY <1>2, <1>7, BetweenTakes
  <2>2. Does("start", ev, c, e) = d
    BY <1>4, <1>5 DEF Does
  <2> QED
    BY <1>4, <2>1, <2>2, HearsOne
<1>9. Hears(<<ev, F!Line("prepare")>>, st, c, e, Push("transition", EX), d.c, d.e)
  <2>1. Takes("prepare", st1, Push("transition", EX), "keep")
    BY <1>7, PrepareTakes
  <2>2. "prepare" \in Told
    BY OwnTold
  <2> QED
    BY <1>4, <1>6, <1>8, <2>1, <2>2, HearTwo
<1>10. Match(Push("transition", EX), d.c, d.e)'
  <2>1. Initializes(Push("transition", EX), d.c, d.e)'
    BY <1>1, <1>2, <1>6 DEF Initializes
  <2>2. InitMatch(Push("transition", EX), d.c, d.e)'
    BY <2>1 DEF InitMatch
  <2> QED
    BY <1>1, <1>2, <1>6, <2>2 DEF Match, LooseOf
<1> QED
  BY <1>1, <1>3, <1>9, <1>10 DEF Fitting

LEMMA InitFailedFits ==
  ASSUME TypeInv, CtlInv, CaughtUp, InitFailed, NEW c \in F!Context, NEW e \in Events,
         NEW st, Match(st, c, e)
  PROVE  Fitting(say', st, c, e)
<1>1. /\ tpc = "initialize" /\ tpc' = "next" /\ rpc = "idle" /\ pairs # <<>> /\ exit = "failed"
      /\ UNCHANGED <<request, tested, prev_state>> /\ pairs' = Tail(pairs)
      /\ say' = <<F!Line("init_failed")>> /\ pairs \in Seq(States \X States)
  BY DEF InitFailed, RunOver, drned, TypeInv, WaitInv, OwnTypes, DrnedInv, RunInv
<1>2. /\ InitMatch(st, c, e) /\ LooseOf(request.action, tested, c, e)
      /\ request.action = "explore" /\ NoneFrom(pairs, prev_state)
  BY <1>1 DEF Match, CtlInv, GroupInv
<1>3. Takes("init_failed", st, ET, "keep")
  <2>1. st = ET => Takes("init_failed", st, ET, "keep")
    BY TailTakes
  <2>2. ASSUME st \in Made(EX) PROVE Takes("init_failed", st, ET, "keep")
    <3>1. "init_failed" \in Failing
      BY DEF Failing, Breaks
    <3>2. Drops("init_failed", st, EX)
      BY <2>2, <3>1, MadeFalls, TailText
    <3>3. Takes("init_failed", EX, ET, "keep")
      BY TailTakes
    <3> QED
      BY <3>2, <3>3, TakesAfter
  <2> QED
    BY <1>1, <1>2, <2>1, <2>2 DEF InitMatch, Initializes
<1>4. Hears(say', st, c, e, ET, c, e)
  BY <1>1, <1>3, OwnTold, HearLine
<1>5. NoneFrom(pairs, prev_state)'
  <2>1. \A s : NoneFrom(pairs, s) => NoneFrom(pairs', s)
    BY <1>1, TailPairs
  <2> QED
    BY <1>1, <1>2, <2>1
<1>6. Match(ET, c, e)'
  <2>1. NextMatch(ET, c)'
    BY <1>5 DEF NextMatch
  <2> QED
    BY <1>1, <1>2, <2>1 DEF Match
<1> QED
  BY <1>4, <1>6, FitsThere

\* Where the filter is before it is told of a transition
ReadyToMake(st, c) ==
  \/ /\ st \in (Between \ {ET}) \cup {Push("compare", Push("rollbacks", EX))}
     /\ ~LostIn(tested) /\ c.exploring_from = from /\ After(c) = from
  \/ st = ET /\ LostIn(tested)

LEMMA BeforeTransition ==
  ASSUME TypeInv, CtlInv, NEW c \in F!Context, NEW e \in Events, NEW st, Match(st, c, e),
         \/ tpc = "initialize" /\ exit = "ok" /\ rpc = "idle"
         \/ tpc = "next" /\ pairs # <<>> /\ from = prev_state
  PROVE  /\ ReadyToMake(st, c)
         /\ LooseOf(request.action, tested, c, e) /\ request.action = "explore"
         /\ pairs # <<>> /\ pairs[1][1] = from /\ Len(pairs) >= 1
<1>1. /\ LooseOf(request.action, tested, c, e) /\ request.action = "explore"
      /\ pairs # <<>> /\ pairs[1][1] = from /\ Len(pairs) >= 1
  <2>1. pairs # <<>>
    BY DEF TypeInv, WaitInv
  <2> QED
    BY <2>1, PairStates DEF Match, CtlInv, GroupInv, from
<1>2. Len(pairs) \in Nat
  BY DEF TypeInv, OwnTypes
<1>3. \/ /\ st \in (Between \ {ET}) \cup {Push("compare", Push("rollbacks", EX))}
         /\ ~LostIn(tested) /\ c.exploring_from = from /\ After(c) = from
      \/ st = ET /\ LostIn(tested)
  <2>1. CASE tpc = "initialize" /\ exit = "ok" /\ rpc = "idle"
    <3>1. InitMatch(st, c, e)
      BY <2>1 DEF Match
    <3> QED
      BY <2>1, <3>1 DEF InitMatch, Initializes
  <2>2. CASE tpc = "next" /\ from = prev_state
    <3>1. NextMatch(st, c)
      BY <2>2 DEF Match
    <3>2. ~NoneFrom(pairs, prev_state)
      BY <1>1, <1>2, <2>2 DEF NoneFrom
    <3>3. st # ET \/ LostIn(tested) \/ ~LostIn(tested)
      OBVIOUS
    <3>4. CASE st = ET /\ LostIn(tested)
      BY <3>4
    <3>5. CASE ~(st = ET /\ LostIn(tested))
      <4>1. /\ \/ st = Push("compare", Push("gen-trans-failed", EX))
               \/ st = EX
               \/ st = Push("gen-init-failed", Push("teardown", EX))
            /\ ~LostIn(tested) /\ c.exploring_from = from /\ After(c) = from
        BY <2>2, <3>1, <3>2, <3>5 DEF NextMatch
      <4>2. st # ET
        BY <4>1, NotExploring
      <4> QED
        BY <4>1, <4>2 DEF Between
    <3> QED
      BY <3>4, <3>5
  <2> QED
    BY <2>1, <2>2
<1> QED
  BY <1>1, <1>3 DEF ReadyToMake

LEMMA MakeFits ==
  ASSUME TypeInv, CtlInv, CaughtUp, MakeTransition, NEW c \in F!Context, NEW e \in Events,
         NEW st, Match(st, c, e)
  PROVE  Fitting(say', st, c, e)
<1>1. /\ \/ tpc = "initialize" /\ exit = "ok" /\ rpc = "idle"
         \/ tpc = "next" /\ pairs # <<>> /\ from = prev_state
      /\ tpc' = "transition" /\ rpc' = "prepare" /\ UNCHANGED <<request, tested, pairs>>
      /\ say' = <<F!Line("transition"), F!Line("prepare")>>
  BY DEF MakeTransition, RunOver, Run, D!Start
<1>2. /\ LooseOf(request.action, tested, c, e) /\ request.action = "explore" /\ from' = from
      /\ pairs # <<>> /\ pairs[1][1] = from /\ Len(pairs) >= 1 /\ ReadyToMake(st, c)
  BY <1>1, BeforeTransition DEF from
<1>4. \/ /\ st \in (Between \ {ET}) \cup {Push("compare", Push("rollbacks", EX))}
         /\ ~LostIn(tested) /\ c.exploring_from = from /\ After(c) = from
      \/ st = ET /\ LostIn(tested)
  BY <1>2 DEF ReadyToMake
<1>5. "transition" \in Told /\ "prepare" \in Told
  BY OwnTold
<1>6. CASE /\ st \in (Between \ {ET}) \cup {Push("compare", Push("rollbacks", EX))}
           /\ ~LostIn(tested) /\ c.exploring_from = from /\ After(c) = from
  <2>1. Takes("transition", st, Push("gen-prepare", Push("transition", TX)), "keep")
    BY <1>6, BetweenTakes, NextTakes
  <2>2. Hears(say', st, c, e, Push("transition", TX), c, e)
    BY <1>1, <1>5, <2>1, PrepareTakes, HearBoth
  <2>3. Makes(Push("transition", TX), c, e)'
    BY <1>1, <1>2, <1>6 DEF Makes
  <2>4. Match(Push("transition", TX), c, e)'
    BY <1>1, <1>2, <2>3 DEF Match, ExpMatch
  <2> QED
    BY <2>2, <2>4, FitsThere
<1>7. CASE st = ET /\ LostIn(tested)
  <2>1. Takes("transition", ET, ET, "keep") /\ Takes("prepare", ET, ET, "keep")
    BY TailTakes
  <2>2. Hears(say', st, c, e, ET, c, e)
    BY <1>1, <1>5, <1>7, <2>1, HearBoth
  <2>3. Misled(ET)'
    BY <1>1, <1>7 DEF Misled
  <2>4. Match(ET, c, e)'
    BY <1>1, <1>2, <2>3 DEF Match, ExpMatch
  <2> QED
    BY <2>2, <2>4, FitsThere
<1> QED
  BY <1>4, <1>6, <1>7

LEMMA EndTransitionFits ==
  ASSUME TypeInv, CtlInv, CaughtUp, EndTransition, NEW c \in F!Context, NEW e \in Events,
         NEW st, Match(st, c, e)
  PROVE  Fitting(say', st, c, e)
<1>1. /\ tpc = "transition" /\ tpc' = "next" /\ rpc = "idle" /\ exit \in {"ok", "failed"}
      /\ UNCHANGED <<request, tested, prev_state>>
      /\ exit = "ok" => say' = <<>>
      /\ exit = "failed" => say' = <<F!Line("trans_failed")>>
  BY DEF EndTransition, RunOver, CaughtUp, drned, TypeInv, WaitInv, DrnedInv, RunInv
<1>2. /\ ExpMatch(st, c, e) /\ LooseOf(request.action, tested, c, e)
      /\ request.action = "explore" /\ prev_state = from
  BY <1>1 DEF Match, CtlInv, GroupInv
<1>3. ASSUME NEW st2, NextMatch(st2, c)' PROVE Match(st2, c, e)'
  BY <1>1, <1>2, <1>3 DEF Match
<1>4. "trans_failed" \in Told
  BY OwnTold
<1>5. CASE Misled(st)
  <2>1. st = ET /\ LostIn(tested) /\ Takes("trans_failed", ET, ET, "keep")
    BY <1>5, TailTakes DEF Misled
  <2>2. Hears(say', st, c, e, ET, c, e)
    BY <1>1, <1>4, <2>1, HearLine, HearsNone
  <2>3. NextMatch(ET, c)'
    BY <1>1, <2>1 DEF NextMatch
  <2> QED
    BY <1>3, <2>2, <2>3, FitsThere
<1>6. CASE Makes(st, c, e)
  <2>1. ~LostIn(tested') /\ c.exploring_from = prev_state' /\ After(c) = prev_state'
    BY <1>1, <1>2, <1>6 DEF Makes
  <2>2. CASE exit = "ok"
    <3>1. st = Push("compare", Push("gen-trans-failed", EX))
      BY <1>1, <1>6, <2>2 DEF Makes
    <3>2. NextMatch(st, c)'
      BY <2>1, <3>1 DEF NextMatch
    <3> QED
      BY <1>1, <1>3, <2>2, <3>2, Silent
  <2>3. CASE exit = "failed" /\ st \in Made(TX)
    <3>1. "trans_failed" \in Failing
      BY DEF Failing, Breaks
    <3>2. Drops("trans_failed", st, TX)
      BY <2>3, <3>1, MadeFalls, TailText
    <3>3. Takes("trans_failed", TX, Push("gen-init-failed", Push("teardown", EX)), "keep")
      BY TailTakes
    <3>4. Takes("trans_failed", st, Push("gen-init-failed", Push("teardown", EX)), "keep")
      BY <3>2, <3>3, TakesAfter
    <3>5. Hears(say', st, c, e, Push("gen-init-failed", Push("teardown", EX)), c, e)
      BY <1>1, <1>4, <2>3, <3>4, HearLine
    <3>6. NextMatch(Push("gen-init-failed", Push("teardown", EX)), c)'
      BY <2>1 DEF NextMatch
    <3> QED
      BY <1>3, <3>5, <3>6, FitsThere
  <2>4. CASE exit = "failed" /\ st \in Torn(EX)
    <3>1. Takes("trans_failed", st, EX, "keep")
      BY <2>4, TornEnds, TailText
    <3>2. Hears(say', st, c, e, EX, c, e)
      BY <1>1, <1>4, <2>4, <3>1, HearLine
    <3>3. NextMatch(EX, c)'
      BY <2>1 DEF NextMatch
    <3> QED
      BY <1>3, <3>2, <3>3, FitsThere
  <2>5. exit = "failed" => st \in Made(TX) \cup Torn(EX)
    BY <1>1, <1>6 DEF Makes
  <2> QED
    BY <1>1, <2>2, <2>3, <2>4, <2>5
<1> QED
  BY <1>2, <1>5, <1>6 DEF ExpMatch

----------------------------------------------------------------------------
(* At every moment: where the filter gets to when it has read what is on   *)
(* its way                                                                 *)

ToRead(ev, p, q) == (IF ev = F!NoEvent THEN <<>> ELSE <<ev>>) \o (p \o q)
Pending == ToRead(event, say, out)
Held    == <<Pending, stack, context, test_events>>
Meets(st, c, e) == Reach(Held, <<<<>>, st, c, e>>)
Closing == {"close", "store", "done"}

SimInv == ~lost /\ tpc \notin Closing => \E st, c, e : Meets(st, c, e) /\ Match(st, c, e)

LEMMA LinesToRead ==
  ASSUME NEW p \in LinesLeft, NEW q \in LinesLeft
  PROVE  p \o q \in LinesLeft /\ ToRead(F!NoEvent, p, q) = p \o q
<1>1. p \o q \in LinesLeft
  BY ConcatProperties DEF LinesLeft
<1>2. PICK r : r = p \o q
  OBVIOUS
<1>3. ToRead(F!NoEvent, p, q) = r
  BY <1>1, <1>2, ConcatEmptySeq DEF ToRead, LinesLeft
<1> QED
  BY <1>1, <1>2, <1>3

Begins(x, ev, r) == x = Push(ev, r) /\ x # <<>> /\ Head(x) = ev /\ Tail(x) = r

LEMMA EventToRead ==
  ASSUME NEW ev \in GoodEvent, ev # F!NoEvent, NEW p \in LinesLeft, NEW q \in LinesLeft
  PROVE  Begins(ToRead(ev, p, q), ev, p \o q)
<1>1. p \o q \in LinesLeft
  BY LinesToRead
<1>2. PICK x, r : r = p \o q /\ x = ToRead(ev, p, q)
  OBVIOUS
<1>3. x = Push(ev, r)
  BY <1>2 DEF ToRead, Push
<1>4. /\ Push(ev, r) \in LinesLeft /\ Push(ev, r) # <<>>
      /\ Head(Push(ev, r)) = ev /\ Tail(Push(ev, r)) = r
  BY <1>1, <1>2, PushFacts DEF LinesLeft
<1> QED
  BY <1>2, <1>3, <1>4 DEF Begins

LEMMA ReadTypes ==
  ASSUME TypeInv
  PROVE  event \in GoodEvent \cup {F!NoEvent} /\ say \in LinesLeft /\ out \in LinesLeft
BY DEF TypeInv, OwnTypes, DrnedInv, LinesInv, FilterTypes, LinesLeft

LEMMA CaughtUpMatch ==
  ASSUME TypeInv, SimInv, CaughtUp, ~lost, tpc \notin Closing
  PROVE  Match(stack, context, test_events)
<1>1. PICK st, c, e : Meets(st, c, e) /\ Match(st, c, e)
  BY DEF SimInv
<1>2. Pending = <<>>
  <2>1. event = F!NoEvent /\ say = <<>> /\ out = <<>>
    BY DEF CaughtUp, F!Idle
  <2>2. Pending = say \o out
    BY <2>1, ReadTypes, LinesToRead DEF Pending
  <2>3. <<>> \o <<>> = <<>>
    OBVIOUS
  <2> QED
    BY <2>1, <2>2, <2>3
<1>3. Held[1] = <<>>
  BY <1>2 DEF Held
<1>4. <<<<>>, st, c, e>> = Held
  BY <1>1, <1>3, ReachEnd DEF Meets
<1>5. st = stack /\ c = context /\ e = test_events
  BY <1>4 DEF Held
<1> QED
  BY <1>1, <1>5

\* A step that leaves the filter alone, and after which these lines are on
\* their way to it
Sends(p) ==
  /\ UNCHANGED <<stack, context, test_events>>
  /\ event' = F!NoEvent /\ p = say' \o out'

LEMMA Arrives ==
  ASSUME TypeInv', NEW p, Sends(p), Fitting(p, stack, context, test_events)
  PROVE  SimInv'
<1>1. PICK st2, c2, e2 : Hears(p, stack, context, test_events, st2, c2, e2) /\ Match(st2, c2, e2)'
  BY DEF Fitting
<1>2. Pending' = p /\ p \in LinesLeft
  <2>1. event' = F!NoEvent /\ say' \in LinesLeft /\ out' \in LinesLeft
    BY DEF Sends, TypeInv, OwnTypes, DrnedInv, LinesInv, LinesLeft
  <2>2. ToRead(event', say', out') = say' \o out' /\ say' \o out' \in LinesLeft
    BY <2>1, LinesToRead
  <2> QED
    BY <2>2 DEF Sends, Pending
<1>3. Reach(<<p, stack, context, test_events>>, <<<<>>, st2, c2, e2>>)
  <2>1. <<>> \in LinesLeft /\ p \o <<>> = p
    BY <1>2, ConcatEmptySeq, EmptySeq DEF LinesLeft
  <2>2. Reach(<<p \o <<>>, stack, context, test_events>>, <<<<>>, st2, c2, e2>>)
    BY <1>1, <2>1 DEF Hears
  <2> QED
    BY <2>1, <2>2
<1>4. Held' = <<p, stack, context, test_events>>
  BY <1>2 DEF Held, Sends
<1>5. Meets(st2, c2, e2)'
  BY <1>3, <1>4 DEF Meets
<1> QED
  BY <1>1, <1>5 DEF SimInv

LEMMA HeadPushed ==
  ASSUME NEW p \in LinesLeft, p # <<>>
  PROVE  Head(p) \in GoodEvent /\ Tail(p) \in LinesLeft /\ p = Push(Head(p), Tail(p))
BY HeadTailProperties DEF Push, LinesLeft

LEMMA LineIsNone ==
  ASSUME NEW ev \in GoodEvent
  PROVE  ev # F!NoEvent
BY DEF GoodEvent, F!Event, F!NoEvent, F!EventTypes, F!CommitEvents, F!ResultEvents

----------------------------------------------------------------------------
(* The steps of the filter, and the lines that are sent to it              *)

LEMMA SendKeeps ==
  ASSUME TypeInv, SendOwn \/ SendLine
  PROVE  Pending' = Pending /\ UNCHANGED <<stack, context, test_events>>
<1>1. event = F!NoEvent /\ UNCHANGED <<stack, context, test_events>>
  BY DEF SendOwn, SendLine, F!Send, F!Idle
<1>2. say \in LinesLeft /\ out \in LinesLeft
  BY ReadTypes
<1>3. Pending = say \o out
  BY <1>1, <1>2, LinesToRead DEF Pending
<1>4. CASE SendOwn
  <2>1. say # <<>> /\ event' = Head(say) /\ say' = Tail(say) /\ out' = out
    BY <1>4 DEF SendOwn, F!Send, drned
  <2>2. Head(say) \in GoodEvent /\ Tail(say) \in LinesLeft /\ say = Push(Head(say), Tail(say))
    BY <1>2, <2>1, HeadPushed DEF LinesLeft
  <2>3. PICK ev, p : ev = Head(say) /\ p = Tail(say)
    OBVIOUS
  <2>4. ToRead(ev, p, out) = Push(ev, p \o out)
    <3>1. Begins(ToRead(ev, p, out), ev, p \o out)
      BY <1>2, <2>2, <2>3, LineIsNone, EventToRead
    <3> QED
      BY <3>1 DEF Begins
  <2>5. Push(ev, p) \o out = Push(ev, p \o out)
    BY <1>2, <2>2, <2>3, ConcatAssociative DEF Push, LinesLeft
  <2> QED
    BY <1>1, <1>3, <2>1, <2>2, <2>3, <2>4, <2>5 DEF Pending
<1>5. CASE SendLine
  <2>1. say = <<>> /\ out # <<>> /\ event' = Head(out) /\ out' = Tail(out) /\ say' = say
    BY <1>5 DEF SendLine, F!Send
  <2>2. Head(out) \in GoodEvent /\ Tail(out) \in LinesLeft /\ out = Push(Head(out), Tail(out))
    BY <1>2, <2>1, HeadPushed DEF LinesLeft
  <2>3. PICK ev, p : ev = Head(out) /\ p = Tail(out)
    OBVIOUS
  <2>4. ToRead(ev, say, p) = Push(ev, say \o p)
    <3>1. Begins(ToRead(ev, say, p), ev, say \o p)
      BY <1>2, <2>2, <2>3, LineIsNone, EventToRead
    <3> QED
      BY <3>1 DEF Begins
  <2>5. say \o p = p /\ say \o out = out
    BY <1>2, <2>1, <2>2, <2>3, ConcatEmptySeq DEF LinesLeft
  <2> QED
    BY <1>1, <1>3, <2>1, <2>2, <2>3, <2>4, <2>5 DEF Pending
<1> QED
  BY <1>1, <1>4, <1>5

LEMMA SendSim ==
  ASSUME TypeInv, SimInv, SendOwn \/ SendLine
  PROVE  SimInv'
<1>1. Held' = Held
  BY SendKeeps DEF Held
<1>2. UNCHANGED <<job, rpc, ops, exit, tested, request, tpc, pairs, prev_state, lost>>
  BY DEF SendOwn, SendLine, drned, plan
<1>3. ASSUME NEW st, NEW c, NEW e, Meets(st, c, e), Match(st, c, e)
      PROVE  Meets(st, c, e)' /\ Match(st, c, e)'
  BY <1>1, <1>2, <1>3, MatchSame DEF Meets
<1> QED
  BY <1>2, <1>3 DEF SimInv

LEMMA FilterTurns ==
  ASSUME TypeInv, F!Filter, UNCHANGED <<say, out>>
  PROVE  Held[1] # <<>> /\ Held' = Turn(Held)
<1>1. event # F!NoEvent /\ event \in GoodEvent /\ say \in LinesLeft /\ out \in LinesLeft
  BY ReadTypes DEF F!Filter, F!Pop, F!Ignore, F!Idle
<1>2. PICK r : r = say \o out
  OBVIOUS
<1>3. Pending # <<>> /\ Head(Pending) = event /\ Tail(Pending) = r
  <2>1. Begins(ToRead(event, say, out), event, say \o out)
    BY <1>1, EventToRead
  <2> QED
    BY <1>2, <2>1 DEF Begins, Pending
<1>4. event' = F!NoEvent => Pending' = r
  BY <1>1, <1>2, LinesToRead DEF Pending
<1>5. event' = event => Pending' = Pending
  BY DEF Pending
<1>6. /\ Held[1] = Pending /\ Held[2] = stack /\ Held[3] = context /\ Held[4] = test_events
  BY DEF Held
<1>7. Held' = <<Pending', stack', context', test_events'>>
  BY DEF Held
<1>8. CASE F!Ignore
  <2>1. /\ stack = <<>> /\ event' = F!NoEvent /\ UNCHANGED <<stack, context, test_events>>
    BY <1>8 DEF F!Ignore
  <2>2. Turn(Held) = <<Tail(Pending), <<>>, context, test_events>>
    BY <1>6, <2>1 DEF Turn
  <2> QED
    BY <1>3, <1>4, <1>6, <1>7, <2>1, <2>2
<1>9. CASE F!Pop
  <2>1. PICK s, x, d : /\ s = Head(stack) /\ x = F!Handle(s, event)
                       /\ d = F!Update(s, event, context, test_events)
    OBVIOUS
  <2>2. /\ stack # <<>> /\ stack' = x.expansion \o Tail(stack)
        /\ x.handled => event' = F!NoEvent /\ context' = d.c /\ test_events' = d.e
        /\ ~x.handled => UNCHANGED <<event, context, test_events>>
    BY <1>9, <2>1 DEF F!Pop
  <2>3. Turn(Held) = IF x.handled THEN <<Tail(Pending), x.expansion \o Tail(stack), d.c, d.e>>
                     ELSE <<Pending, x.expansion \o Tail(stack), context, test_events>>
    BY <1>3, <1>6, <2>1, <2>2 DEF Turn
  <2>4. CASE x.handled
    BY <1>3, <1>4, <1>6, <1>7, <2>2, <2>3, <2>4
  <2>5. CASE ~x.handled
    BY <1>3, <1>5, <1>6, <1>7, <2>2, <2>3, <2>5
  <2> QED
    BY <2>4, <2>5
<1> QED
  BY <1>8, <1>9 DEF F!Filter

LEMMA FilterSim ==
  ASSUME TypeInv, SimInv, FilterStep
  PROVE  SimInv'
<1>1. Held[1] # <<>> /\ Held' = Turn(Held)
  BY FilterTurns DEF FilterStep, drned
<1>2. UNCHANGED <<job, rpc, ops, exit, tested, request, tpc, pairs, prev_state, lost>>
  BY DEF FilterStep, drned, plan
<1>3. ASSUME NEW st, NEW c, NEW e, Meets(st, c, e), Match(st, c, e)
      PROVE  Meets(st, c, e)' /\ Match(st, c, e)'
  <2>1. PICK y : y = <<<<>>, st, c, e>>
    OBVIOUS
  <2>2. y[1] = <<>> /\ Reach(Held, y)
    BY <1>3, <2>1 DEF Meets
  <2>3. Reach(Turn(Held), y)
    BY <1>1, <2>2, ReachAfterTurn
  <2>4. Meets(st, c, e)'
    BY <1>1, <2>1, <2>3 DEF Meets
  <2> QED
    BY <1>2, <1>3, <2>4, MatchSame
<1> QED
  BY <1>2, <1>3 DEF SimInv

----------------------------------------------------------------------------
(* The steps of DrNED and of the operation                                 *)

\* A step that says p to a filter that has read everything
LEMMA CaughtUpSends ==
  ASSUME TypeInv', CaughtUp, UNCHANGED <<event, stack, context, test_events>>,
         NEW p, p = say' \o out', Fitting(p, stack, context, test_events)
  PROVE  SimInv'
<1>1. Sends(p)
  BY DEF Sends, CaughtUp, F!Idle
<1> QED
  BY <1>1, Arrives

LEMMA SaysOnly ==
  ASSUME TypeInv', out' = <<>>
  PROVE  say' = say' \o out' /\ (say' = <<>> => <<>> = say' \o out')
<1>1. say' \in LinesLeft
  BY DEF TypeInv, OwnTypes, LinesLeft
<1>2. PICK p : p = say'
  OBVIOUS
<1>3. p \o <<>> = p
  BY <1>1, <1>2, ConcatEmptySeq DEF LinesLeft
<1> QED
  BY <1>2, <1>3

LEMMA DrnedSim ==
  ASSUME TypeInv, TypeInv', EndInv, CtlInv, SimInv, DrnedStep
  PROVE  SimInv'
<1> SUFFICES ASSUME ~lost', tpc' \notin Closing
             PROVE  SimInv'
  BY DEF SimInv
<1>1. /\ CaughtUp /\ D!Step /\ UNCHANGED <<event, stack, context, test_events>>
      /\ say' = say /\ say = <<>> /\ out = <<>>
      /\ UNCHANGED <<request, tpc, pairs, prev_state, lost>>
  BY DEF DrnedStep, CaughtUp, filter, plan
<1>2. Match(stack, context, test_events)
  BY <1>1, CaughtUpMatch
<1>3. context \in F!Context /\ test_events \in Events
  BY DEF TypeInv, FilterTypes, Events
<1>4. Fitting(out', stack, context, test_events)
  BY <1>1, <1>2, <1>3, DrnedMatch
<1>5. out' = say' \o out'
  <2>1. out' \in LinesLeft
    BY DEF TypeInv, DrnedInv, LinesInv, LinesLeft
  <2>2. PICK p : p = out'
    OBVIOUS
  <2>3. <<>> \o p = p
    BY <2>1, <2>2, ConcatEmptySeq DEF LinesLeft
  <2> QED
    BY <1>1, <2>2, <2>3
<1> QED
  BY <1>1, <1>4, <1>5, CaughtUpSends

\* The steps of the operation up to its end
Working ==
  \/ NotStarted \/ BeginRun \/ EndRun
  \/ BeginExplore \/ SkipFailed \/ EndExplore \/ StartingWith \/ InitFailed
  \/ MakeTransition \/ EndTransition

LEMMA WorkingFrom ==
  ASSUME TypeInv, EndInv, CtlInv, Working
  PROVE  /\ CaughtUp /\ UNCHANGED <<event, stack, context, test_events, out, lost>>
         /\ tpc \notin Closing /\ out = <<>>
<1>1. out' = out /\ lost' = lost
  BY DEF Working, NotStarted, BeginRun, EndRun, BeginExplore, SkipFailed, EndExplore,
     StartingWith, InitFailed, MakeTransition, EndTransition, drned, Run, D!Start
<1>2. UNCHANGED <<event, stack, context, test_events>> /\ tpc \notin Closing
  BY DEF Working, NotStarted, BeginRun, EndRun, BeginExplore, SkipFailed, EndExplore,
     StartingWith, InitFailed, MakeTransition, EndTransition, filter, Closing
<1>3. CASE BeginExplore
  <2>1. tpc = "begin" /\ request.action = "explore"
    BY <1>3 DEF BeginExplore
  <2>2. out = <<>> /\ say = <<>> /\ event = F!NoEvent
    BY <2>1 DEF EndInv, CtlInv, StartedInv
  <2> QED
    BY <1>1, <1>2, <2>2 DEF CaughtUp, F!Idle
<1>4. CASE ~BeginExplore
  <2>1. CaughtUp
    BY <1>4 DEF Working, NotStarted, BeginRun, EndRun, SkipFailed, EndExplore,
     StartingWith, InitFailed, MakeTransition, EndTransition, RunOver
  <2> QED
    BY <1>1, <1>2, <2>1 DEF CaughtUp
<1> QED
  BY <1>3, <1>4

\* A run that could not be started leaves the filter where nothing is read any
\* more but the event that closes it.
LEMMA EndsAnywhere ==
  ASSUME tpc' = "terminate", UNCHANGED <<request, tested>>, NEW c, NEW e, NEW st,
         LooseOf(request.action, tested, c, e),
         request.action # "explore" => c.exploring_from = NoState
  PROVE  Match(st, c, e)'
BY DEF Match

LEMMA NotStartedFits ==
  ASSUME TypeInv, CtlInv, CaughtUp, NotStarted, NEW c \in F!Context, NEW e \in Events,
         NEW st, Match(st, c, e)
  PROVE  Fitting(say', st, c, e)
<1>1. tpc' = "terminate" /\ UNCHANGED <<request, tested>> /\ rpc = "idle"
  BY DEF NotStarted, Finish, RunOver, drned
<1>2. CASE tpc = "begin" /\ say' = <<>>
  BY <1>1, <1>2, EndFits, Silent
<1>3. CASE /\ tpc = "next" /\ pairs # <<>>
           /\ say' = <<F!Of("start", from)>>
  <2>1. /\ st \in Between /\ LooseOf(request.action, tested, c, e)
        /\ request.action = "explore" /\ from \in States
    BY <1>3, PairStates DEF Match, NextMatch, Between, CtlInv, GroupInv, from
  <2>2. PICK ev : ev = F!Of("start", from)
    OBVIOUS
  <2>3. ev \in GoodEvent /\ ev.type = "start" /\ ev.state = from
    BY <2>1, <2>2 DEF GoodEvent, F!Event, F!Of, F!EventTypes
  <2>4. PICK d : d = F!StartExplore(c, e, from)
    OBVIOUS
  <2>5. Recs(d.c, d.e, Kept(request.action, tested)) /\ d.c \in F!Context /\ d.e \in Events
    BY <2>1, <2>4, RecExplore DEF LooseOf
  <2>6. PICK st1 : st1 = Push("gen-prepare", Push("transition", EX))
    OBVIOUS
  <2>7. Hears(<<ev>>, st, c, e, st1, d.c, d.e)
    <3>1. Takes("start", st, st1, "start")
      BY <2>1, <2>6, BetweenTakes
    <3>2. Does("start", ev, c, e) = d
      BY <2>3, <2>4 DEF Does
    <3> QED
      BY <2>3, <3>1, <3>2, HearsOne
  <2>8. Match(st1, d.c, d.e)'
    BY <1>1, <2>1, <2>5, EndsAnywhere DEF LooseOf
  <2> QED
    BY <1>3, <2>2, <2>7, <2>8 DEF Fitting
<1>4. CASE /\ \/ tpc = "initialize" /\ exit = "ok" /\ rpc = "idle"
              \/ tpc = "next" /\ pairs # <<>> /\ from = prev_state
           /\ say' = <<F!Line("transition")>>
  <2>1. /\ LooseOf(request.action, tested, c, e) /\ request.action = "explore"
        /\ ReadyToMake(st, c)
    BY <1>4, BeforeTransition
  <2>2. \E st2 : Takes("transition", st, st2, "keep")
    <3>1. CASE st \in (Between \ {ET}) \cup {Push("compare", Push("rollbacks", EX))}
      BY <3>1, BetweenTakes, NextTakes
    <3>2. CASE st = ET
      BY <3>2, TailTakes
    <3> QED
      BY <2>1, <3>1, <3>2 DEF ReadyToMake
  <2>3. PICK st2 : Takes("transition", st, st2, "keep")
    BY <2>2
  <2>4. "transition" \in Told
    BY OwnTold
  <2>5. Hears(say', st, c, e, st2, c, e)
    BY <1>4, <2>3, <2>4, HearLine
  <2>6. Match(st2, c, e)'
    BY <1>1, <2>1, EndsAnywhere
  <2> QED
    BY <2>5, <2>6, FitsThere
<1> QED
  BY <1>1, <1>2, <1>3, <1>4 DEF NotStarted

LEMMA EndsOnly ==
  ASSUME EndRun \/ EndExplore \/ (BeginExplore /\ Planned = <<>>)
  PROVE  tpc' = "terminate" /\ UNCHANGED <<request, tested, say>>
BY DEF EndRun, EndExplore, BeginExplore, Finish, drned

LEMMA WorkingFits ==
  ASSUME TypeInv, EndInv, CtlInv, Working, CaughtUp, NEW c \in F!Context, NEW e \in Events,
         NEW st, Match(st, c, e)
  PROVE  Fitting(say', st, c, e)
<1>1. say = <<>>
  BY DEF CaughtUp
<1>2. ASSUME say' = say, Match(st, c, e)'
      PROVE  Fitting(say', st, c, e)
  BY <1>1, <1>2, Silent
<1>3. CASE EndRun \/ EndExplore \/ (BeginExplore /\ Planned = <<>>)
  <2>1. tpc' = "terminate" /\ UNCHANGED <<request, tested, say>>
    BY <1>3, EndsOnly
  <2>2. Match(st, c, e)'
    BY <2>1, EndFits
  <2> QED
    BY <1>2, <2>1, <2>2
<1>4. CASE BeginRun
  <2>1. Match(st, c, e)' /\ say' = say
    BY <1>4, BeginRunFits DEF BeginRun
  <2> QED
    BY <1>2, <2>1
<1>5. CASE BeginExplore /\ Planned # <<>>
  <2>1. tpc' = "next"
    BY <1>5 DEF BeginExplore
  <2> QED
    BY <1>5, <2>1, BeginExploreFits DEF CtlInv
<1>6. CASE SkipFailed
  <2>1. Match(st, c, e)' /\ say' = say
    BY <1>6, SkipFits DEF SkipFailed
  <2> QED
    BY <1>2, <2>1
<1>7. CASE StartingWith
  BY <1>7, StartingFits
<1>8. CASE InitFailed
  BY <1>8, InitFailedFits
<1>9. CASE MakeTransition
  BY <1>9, MakeFits
<1>10. CASE EndTransition
  BY <1>10, EndTransitionFits
<1>11. CASE NotStarted
  BY <1>11, NotStartedFits
<1> QED
  BY <1>3, <1>4, <1>5, <1>6, <1>7, <1>8, <1>9, <1>10, <1>11 DEF Working

LEMMA WorkingSim ==
  ASSUME TypeInv, TypeInv', EndInv, CtlInv, SimInv, Working
  PROVE  SimInv'
<1> SUFFICES ASSUME ~lost'
             PROVE  SimInv'
  BY DEF SimInv
<1>1. /\ CaughtUp /\ UNCHANGED <<event, stack, context, test_events, out, lost>>
      /\ tpc \notin Closing /\ out = <<>>
  BY WorkingFrom
<1>2. PICK st, c, e : st = stack /\ c = context /\ e = test_events
  OBVIOUS
<1>3. Match(st, c, e)
  BY <1>1, <1>2, CaughtUpMatch
<1>4. c \in F!Context /\ e \in Events
  BY <1>2 DEF TypeInv, FilterTypes, Events
<1>5. Fitting(say', st, c, e)
  BY <1>1, <1>3, <1>4, WorkingFits
<1>6. say' = say' \o out'
  BY <1>1, SaysOnly
<1> QED
  BY <1>1, <1>2, <1>5, <1>6, CaughtUpSends

LEMMA SimNext ==
  ASSUME TypeInv, TypeInv', EndInv, CtlInv, SimInv, [Next]_vars
  PROVE  SimInv'
<1>1. CASE SendOwn \/ SendLine
  BY <1>1, SendSim
<1>2. CASE FilterStep
  BY <1>2, FilterSim
<1>3. CASE LoseLines
  BY <1>3 DEF LoseLines, SimInv
<1>4. CASE DrnedStep
  BY <1>4, DrnedSim
<1>5. CASE Working
  BY <1>5, WorkingSim
<1>6. CASE Terminate \/ Close \/ Store
  <2>1. tpc' \in Closing
    BY <1>6 DEF Terminate, Close, Store, Closing
  <2> QED
    BY <2>1 DEF SimInv
<1>7. CASE UNCHANGED vars
  <2>1. Held' = Held
    BY <1>7 DEF vars, filter, drned, Held, Pending, ToRead
  <2>2. UNCHANGED <<job, rpc, ops, exit, tested, request, tpc, pairs, prev_state, lost>>
    BY <1>7 DEF vars, drned, plan
  <2>3. ASSUME NEW st, NEW c, NEW e, Meets(st, c, e), Match(st, c, e)
        PROVE  Meets(st, c, e)' /\ Match(st, c, e)'
    BY <2>1, <2>2, <2>3, MatchSame DEF Meets
  <2> QED
    BY <2>2, <2>3 DEF SimInv
<1> QED
  BY <1>1, <1>2, <1>3, <1>4, <1>5, <1>6, <1>7 DEF Next, Working

LEMMA SimInit ==
  ASSUME Init
  PROVE  SimInv
<1>1. /\ tested = <<>> /\ context = F!NewContext /\ test_events = <<>> /\ say = <<>> /\ out = <<>>
      /\ tpc = "begin" /\ request \in Request
  BY TransitionsAssumption DEF Init, F!InitFilter, D!Init
<1>2. /\ context \in F!Context /\ context.to = NoState /\ context.state = InitState
      /\ context.exploring_from = NoState
  <2>1. context \in F!Context
    BY InitTypes DEF TypeInv, FilterTypes
  <2> QED
    BY <1>1, <2>1 DEF F!NewContext
<1>3. PICK c, e : c = context /\ e = test_events
  OBVIOUS
<1>4. LooseOf(request.action, tested, c, e)
  <2>1. Kept(request.action, tested) = <<>>
    BY <1>1, NoneKept
  <2>2. RecordedIn(c, e) = <<>> /\ After(c) = InitState
    BY <1>1, <1>2, <1>3 DEF RecordedIn, After
  <2>3. <<>> \in Loads
    BY DEF Loads
  <2>4. Agrees(<<>>, <<>>) /\ ToldFailures(<<>>) /\ LastEnd(<<>>) = InitState
    BY DEF Agrees, ToldFailures, LastEnd
  <2> QED
    BY <2>1, <2>2, <2>3, <2>4 DEF LooseOf, Recs
<1>5. ASSUME NEW st, BeginMatch(st)
      PROVE  Match(st, c, e)
  BY <1>1, <1>2, <1>3, <1>4, <1>5 DEF Match
<1>6. request.action \in {"transition", "explore", "walk"}
  BY <1>1 DEF Request
<1>7. CASE request.action = "walk"
  <2>1. stack = <<"walk">> /\ event = F!Line("initial_prepare")
    BY <1>7 DEF Init, F!InitFilter
  <2>2. stack = Push("walk", <<>>)
    BY <2>1 DEF Push
  <2>3. "initial_prepare" \in Told
    BY OwnTold
  <2>4. c \in F!Context /\ e \in Events
    BY <1>1, <1>2, <1>3 DEF Events
  <2>5. /\ Hears(<<F!Line("initial_prepare")>>, Push("walk", <<>>), c, e, Push("commits", WT), c, e)
        /\ F!Line("initial_prepare") \in GoodEvent
    BY <2>3, <2>4, WalkBegins, HearLine
  <2>6. Pending = <<F!Line("initial_prepare")>> \o <<>>
    <3>1. event # F!NoEvent /\ <<>> \o <<>> = <<>>
      BY <2>1, <2>5, LineIsNone
    <3> QED
      BY <1>1, <2>1, <3>1 DEF Pending, ToRead
  <2>7. Meets(Push("commits", WT), c, e)
    <3>1. <<>> \in LinesLeft
      BY DEF LinesLeft
    <3>2. Reach(<<<<F!Line("initial_prepare")>> \o <<>>, Push("walk", <<>>), c, e>>,
                <<<<>>, Push("commits", WT), c, e>>)
      BY <2>5, <3>1 DEF Hears
    <3> QED
      BY <1>3, <2>2, <2>6, <3>2 DEF Meets, Held
  <2>8. BeginMatch(Push("commits", WT))
    BY <1>7 DEF BeginMatch
  <2> QED
    BY <1>5, <2>7, <2>8 DEF SimInv
<1>8. CASE request.action # "walk"
  <2>1. event = F!NoEvent /\ stack = <<IF request.action = "explore" THEN "explore" ELSE "transition-test">>
    BY <1>6, <1>8 DEF Init, F!InitFilter
  <2>2. BeginMatch(stack)
    BY <1>6, <1>8, <2>1 DEF BeginMatch, Push
  <2>3. Pending = <<>>
    <3>1. <<>> \o <<>> = <<>>
      OBVIOUS
    <3> QED
      BY <1>1, <2>1, <3>1 DEF Pending, ToRead
  <2>4. Meets(stack, c, e)
    BY <1>3, <2>3, ReachSelf DEF Meets, Held
  <2> QED
    BY <1>5, <2>2, <2>4 DEF SimInv
<1> QED
  BY <1>6, <1>7, <1>8

----------------------------------------------------------------------------
(* The filter is closed                                                    *)

CloseInv ==
  ~lost /\ tpc \in Closing =>
    /\ LooseOf(request.action, tested, context, test_events)
    /\ out = <<>> /\ say = <<>> /\ event \in {F!NoEvent, F!Line("terminate")}

\* The event that closes the filter changes nothing of the record.
LEMMA TerminateKeeps ==
  ASSUME NEW s, NEW c, NEW e, F!Handle(s, F!Line("terminate")).handled
  PROVE  LET d == F!Update(s, F!Line("terminate"), c, e) IN d.c = c /\ d.e = e
<1>1. PICK ev : ev = F!Line("terminate")
  OBVIOUS
<1>2. ev.type = "terminate" /\ F!Handle(s, ev).handled
  BY <1>1 DEF F!Line
<1>3. s \notin {"load", "load-failure", "action-commit", "action-compare", "action-rollback",
                "commit-failed", "compare"}
  BY <1>2 DEF F!Handle, F!LoadState, F!LoadFailureState, F!Action, F!CommitFailureState,
     F!CompareState, F!Unhandled, F!Result
<1>4. F!Update(s, ev, c, e) = [c |-> c, e |-> e]
  BY <1>2, <1>3 DEF F!Update
<1> QED
  BY <1>1, <1>4

LEMMA FilterCloses ==
  ASSUME CloseInv, ~lost, tpc \in Closing, F!Filter
  PROVE  UNCHANGED <<context, test_events>> /\ event' \in {F!NoEvent, F!Line("terminate")}
<1>1. event = F!Line("terminate")
  BY DEF CloseInv, F!Filter, F!Pop, F!Ignore, F!Idle
<1>2. CASE F!Ignore
  BY <1>2 DEF F!Ignore
<1>3. CASE F!Pop
  <2>1. PICK s, d, h : /\ s = Head(stack) /\ d = F!Update(s, event, context, test_events)
                       /\ h = F!Handle(s, event).handled
    OBVIOUS
  <2>2. IF h THEN event' = F!NoEvent /\ context' = d.c /\ test_events' = d.e
        ELSE UNCHANGED <<event, context, test_events>>
    BY <1>3, <2>1 DEF F!Pop
  <2>3. ASSUME h
        PROVE  d.c = context /\ d.e = test_events
    <3>1. /\ F!Handle(s, F!Line("terminate")).handled
          /\ d = F!Update(s, F!Line("terminate"), context, test_events)
      BY <1>1, <2>1, <2>3
    <3> QED
      BY <3>1, TerminateKeeps
  <2> QED
    BY <1>1, <2>2, <2>3
<1> QED
  BY <1>2, <1>3 DEF F!Filter

LEMMA LostForGood ==
  ASSUME TypeInv, [Next]_vars, ~lost'
  PROVE  ~lost
BY DEF Next, vars, SendOwn, SendLine, FilterStep, LoseLines, DrnedStep, NotStarted, BeginRun,
   EndRun, BeginExplore, SkipFailed, EndExplore, StartingWith, InitFailed, MakeTransition,
   EndTransition, Terminate, Close, Store

LEMMA CloseNext ==
  ASSUME TypeInv, EndInv, CtlInv, SimInv, CloseInv, [Next]_vars
  PROVE  CloseInv'
<1> SUFFICES ASSUME ~lost', tpc' \in Closing
             PROVE  CloseInv'
  BY DEF CloseInv
<1>1. ~lost
  BY LostForGood
<1>2. tpc \in Closing => /\ LooseOf(request.action, tested, context, test_events)
                         /\ out = <<>> /\ say = <<>>
                         /\ event \in {F!NoEvent, F!Line("terminate")} /\ rpc = "idle"
  BY <1>1 DEF CloseInv, EndInv, Closing
<1>3. ASSUME UNCHANGED <<context, test_events, request, tested, out, say, tpc>>,
             event' \in {F!NoEvent, F!Line("terminate")}
      PROVE  CloseInv'
  BY <1>2, <1>3 DEF CloseInv
<1>4. CASE SendOwn \/ SendLine
  <2>1. tpc \in Closing
    BY <1>4 DEF SendOwn, SendLine
  <2> QED
    BY <1>2, <1>4, <2>1 DEF SendOwn, SendLine
<1>5. CASE FilterStep
  <2>1. UNCHANGED <<request, tested, out, say, tpc>> /\ F!Filter
    BY <1>5 DEF FilterStep, drned
  <2>2. UNCHANGED <<context, test_events>> /\ event' \in {F!NoEvent, F!Line("terminate")}
    BY <1>1, <2>1, FilterCloses
  <2> QED
    BY <1>3, <2>1, <2>2
<1>6. CASE LoseLines
  BY <1>6 DEF LoseLines
<1>7. CASE DrnedStep
  <2>1. tpc \in Closing /\ rpc # "idle"
    BY <1>7, StepRuns DEF DrnedStep, filter
  <2> QED
    BY <1>2, <2>1
<1>8. CASE Working
  BY <1>8 DEF Working, NotStarted, BeginRun, EndRun, BeginExplore, SkipFailed, EndExplore,
     StartingWith, InitFailed, MakeTransition, EndTransition, Finish, Closing
<1>9. CASE Terminate
  <2>1. /\ tpc = "terminate" /\ CaughtUp /\ event' = F!Line("terminate")
        /\ UNCHANGED <<stack, context, test_events, request, tested, out, say>>
    BY <1>9 DEF Terminate, F!Send, drned
  <2>2. Match(stack, context, test_events)
    BY <1>1, <2>1, CaughtUpMatch DEF Closing
  <2>3. LooseOf(request.action, tested, context, test_events) /\ out = <<>> /\ say = <<>>
    BY <2>1, <2>2 DEF Match, CaughtUp
  <2> QED
    BY <2>1, <2>3 DEF CloseInv
<1>10. CASE Close
  <2>1. /\ tpc \in Closing /\ UNCHANGED <<request, tested, out, say, event>>
        /\ event = F!NoEvent
    BY <1>10 DEF Close, F!CloseContext, F!Idle, drned, Closing
  <2>2. PICK c, e, d : c = context /\ e = test_events /\ d = F!Complete(c, e, "none")
    OBVIOUS
  <2>3. context' = d.c /\ test_events' = d.e
    BY <1>10, <2>2 DEF Close, F!CloseContext
  <2>4. PICK f : f = Kept(request.action, tested)
    OBVIOUS
  <2>5. Recs(c, e, f) /\ c \in F!Context /\ e \in Events
    BY <1>2, <2>1, <2>2, <2>4 DEF LooseOf, TypeInv, FilterTypes, Events
  <2>6. Recs(d.c, d.e, f)
    BY <2>2, <2>5, RecClose
  <2>7. f = Kept(request.action', tested')
    BY <2>1, <2>4
  <2>8. LooseOf(request.action, tested, context, test_events)'
    BY <2>3, <2>6, <2>7 DEF LooseOf
  <2> QED
    BY <1>2, <2>1, <2>8 DEF CloseInv
<1>11. CASE Store
  <2>1. tpc \in Closing /\ UNCHANGED <<context, test_events, request, tested, out, say, event>>
    BY <1>11 DEF Store, filter, drned, Closing
  <2> QED
    BY <1>2, <2>1 DEF CloseInv
<1>12. CASE UNCHANGED vars
  <2>1. UNCHANGED <<context, test_events, request, tested, out, say, tpc, event>>
    BY <1>12 DEF vars, filter, drned
  <2> QED
    BY <1>2, <1>3, <2>1
<1> QED
  BY <1>4, <1>5, <1>6, <1>7, <1>8, <1>9, <1>10, <1>11, <1>12 DEF Next, Working

----------------------------------------------------------------------------
(* What is recorded is what was loaded                                     *)

WholeRecord == WholeCtl /\ SimInv /\ CloseInv

LEMMA WholeRecordInvariant == Spec => []WholeRecord
<1>1. Init => SimInv /\ CloseInv
  <2> SUFFICES ASSUME Init PROVE SimInv /\ CloseInv
    OBVIOUS
  <2>1. CloseInv
    BY DEF Init, CloseInv, Closing
  <2> QED
    BY <2>1, SimInit
<1>2. WholeCtl /\ WholeCtl' /\ SimInv /\ CloseInv /\ [Next]_vars => SimInv' /\ CloseInv'
  BY SimNext, CloseNext DEF WholeCtl, RecordInv
<1> QED
  BY <1>1, <1>2, CtlInvariant, PTL DEF Spec, WholeRecord

LEMMA WholeRecs ==
  ASSUME WholeRecord, Comparable
  PROVE  Recs(context, test_events, Followed)
<1>1. CASE tpc \in Closing
  BY <1>1, FollowedIs DEF WholeRecord, CloseInv, Comparable, LooseOf
<1>2. CASE tpc \notin Closing
  <2>1. Match(stack, context, test_events)
    BY <1>2, CaughtUpMatch DEF WholeRecord, WholeCtl, RecordInv, Comparable
  <2> QED
    BY <2>1, FollowedIs DEF Match, LooseOf
<1> QED
  BY <1>1, <1>2

LEMMA WholeAgrees ==
  ASSUME WholeRecord, Comparable
  PROVE  /\ Followed \in Loads /\ DOMAIN Followed = 1..Len(Followed)
         /\ Recorded \in Events /\ DOMAIN Recorded = 1..Len(Followed)
         /\ Agrees(Recorded, Followed)
<1>1. Followed \in Loads /\ Agrees(Recorded, Followed)
  BY WholeRecs DEF Recs, Recorded, RecordedIn
<1>2. Recorded \in Events
  BY RecordedTypes DEF WholeRecord, WholeCtl, RecordInv, TypeInv, FilterTypes, Recorded,
     RecordedIn, Events
<1>3. Len(Recorded) = Len(Followed)
  BY <1>1 DEF Agrees
<1>4. DOMAIN Followed = 1..Len(Followed)
  BY <1>1 DEF Loads
<1>5. DOMAIN Recorded = 1..Len(Recorded)
  BY <1>2 DEF Events
<1> QED
  BY <1>1, <1>2, <1>3, <1>4, <1>5

\* Whatever fails, is interrupted or torn down: each state that DrNED loads is
\* recorded as one transition, in that order; for explore-transitions, but those
\* that come from the same state after the automaton has lost track.
THEOREM LoadsAreRecorded == Spec => []EveryLoadRecorded
<1>1. ASSUME WholeRecord, Comparable, NEW i \in DOMAIN Followed
      PROVE  Recorded[i].to = Followed[i].to
  BY <1>1, WholeAgrees DEF Agrees, Agree
<1>2. WholeRecord => EveryLoadRecorded
  BY <1>1, WholeAgrees DEF EveryLoadRecorded, Agrees
<1> QED
  BY <1>2, WholeRecordInvariant, PTL

\* A transition is recorded with the state that it starts from: for
\* explore-transitions the one that was initialized, however the transitions
\* before have ended; else the state before, or the initial one.
THEOREM StartsAreRecorded == Spec => []StartsRecorded
<1>1. ASSUME WholeRecord, Comparable, NEW i \in DOMAIN Recorded
      PROVE  Recorded[i].start =
               IF Followed[i].from # NoState THEN Followed[i].from
               ELSE IF i = 1 THEN InitState
               ELSE IF Followed[i-1].from # NoState THEN Followed[i-1].from
               ELSE Followed[i-1].to
  <2>1. PICK p, q : p = Recorded /\ q = Followed
    OBVIOUS
  <2>2. i \in 1..Len(q) /\ Agrees(p, q)
    BY <1>1, <2>1, WholeAgrees
  <2>3. p[i].start = IF q[i].from # NoState THEN q[i].from
                     ELSE IF i = 1 THEN InitState ELSE EndOf(q[i - 1])
    BY <2>2 DEF Agrees
  <2> QED
    BY <2>1, <2>3 DEF EndOf
<1>2. WholeRecord => StartsRecorded
  BY <1>1 DEF StartsRecorded
<1> QED
  BY <1>2, WholeRecordInvariant, PTL

\* A failure that the output tells is recorded for the transition that failed,
\* as what it was, the first one if there are several; and no failure is
\* recorded for a transition that did not fail and was restored smoothly.
THEOREM FailuresAreRecorded == Spec => []FailuresRecorded
<1>1. ASSUME WholeRecord, Comparable, NEW i \in DOMAIN Recorded
      PROVE  /\ Followed[i].told => Recorded[i].failure = Followed[i].failure
             /\ Recorded[i].failure # "none"
                  => Followed[i].failure # "none" \/ Followed[i].blurred
  BY <1>1, WholeAgrees DEF Agrees, Agree
<1>2. WholeRecord => FailuresRecorded
  BY <1>1 DEF FailuresRecorded
<1> QED
  BY <1>2, WholeRecordInvariant, PTL

AllTo(p, q, n) == Len(p) = n /\ \A i \in 1..n : p[i].to = q[i].to

LEMMA TargetsEqual ==
  ASSUME NEW S, NEW T, NEW p \in Seq(S), NEW q \in Seq(T), AllTo(p, q, Len(q))
  PROVE  Targets(p) = Targets(q)
<1>1. DOMAIN p = 1..Len(q) /\ DOMAIN q = 1..Len(q)
  BY DEF AllTo
<1> QED
  BY <1>1 DEF Targets, AllTo

LEMMA AllIsStored ==
  ASSUME WholeRecord, tpc = "done", stored.stored, ~lost
  PROVE  Targets(stored.events) = Targets(Followed)
<1>1. stored.events = Recorded /\ Comparable
  BY DEF WholeRecord, WholeCtl, RecordInv, EndInv, Recorded, Comparable
<1>2. PICK p, q : p = Recorded /\ q = Followed
  OBVIOUS
<1>3. p \in Events /\ q \in Loads /\ Agrees(p, q)
  BY <1>1, <1>2, WholeAgrees
<1>4. AllTo(p, q, Len(q))
  BY <1>3 DEF Agrees, Agree, AllTo
<1> QED
  BY <1>1, <1>2, <1>3, <1>4, TargetsEqual DEF Events, Loads

\* What last-test-results holds at the end is all that was tested by the action,
\* the last transition included; or, if output was lost, a part of it, in its
\* order, with nothing made up.
THEOREM StoredIsWhole == Spec => []StoredWhole
<1>1. ASSUME WholeRecord, tpc = "done", stored.stored
      PROVE  IF lost THEN PartOf(stored.events, tested)
             ELSE Targets(stored.events) = Targets(Followed)
  BY <1>1, AllIsStored, StoredIsPart DEF WholeRecord, WholeCtl
<1>2. WholeRecord => StoredWhole
  BY <1>1 DEF StoredWhole
<1> QED
  BY <1>2, WholeRecordInvariant, PTL
=============================================================================
