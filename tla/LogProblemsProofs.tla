------------------------- MODULE LogProblemsProofs -------------------------
(***************************************************************************)
(* Proofs about LogProblems, for any log, patterns and test cases.         *)
(***************************************************************************)
EXTENDS LogProblems, FiniteSetTheorems, WellFoundedInduction, SequenceTheorems, TLAPS

----------------------------------------------------------------------------
(* Numbers                                                                 *)

\* A set of numbers has a least one: the sets 1..n are well-founded.
LEMMA Least ==
  ASSUME NEW S \in SUBSET Nat, S # {}
  PROVE  \E m \in S : \A n \in S : m <= n
<1>. DEFINE Below == {1..n : n \in S}
<1>1. \A n \in S : 1..n \in FiniteSubsetsOf(Nat)
  BY FS_Interval DEF FiniteSubsetsOf
<1>2. Below \subseteq FiniteSubsetsOf(Nat) /\ Below # {}
  BY <1>1
<1>3. IsWellFoundedOn(StrictSubsetOrdering(Nat), FiniteSubsetsOf(Nat))
  BY FS_StrictSubsetOrderingWellFounded
<1>4. \E b \in Below : \A c \in Below : <<c, b>> \notin StrictSubsetOrdering(Nat)
  <2>. HIDE DEF Below
  <2>. QED
    BY <1>2, <1>3, WFMin
<1>5. PICK m \in S : \A n \in S : <<1..n, 1..m>> \notin StrictSubsetOrdering(Nat)
  BY <1>4
<1>6. ASSUME NEW n \in S, n < m
      PROVE  FALSE
  <2>1. 1..n \subseteq 1..m /\ m \in 1..m /\ m \notin 1..n
    BY <1>6
  <2>2. <<1..n, 1..m>> \in StrictSubsetOrdering(Nat)
    BY <2>1 DEF StrictSubsetOrdering
  <2>3. QED
    BY <1>5, <2>2
<1>7. QED
  BY <1>6

LEMMA Greatest ==
  ASSUME NEW n \in Nat, NEW S \in SUBSET (1..n), S # {}
  PROVE  \E m \in S : \A k \in S : k <= m
<1>. DEFINE Mirror == {n - k : k \in S}
<1>1. Mirror \in SUBSET Nat /\ Mirror # {}
  <2>1. \A k \in S : n - k \in Nat
    OBVIOUS
  <2>2. PICK k \in S : TRUE
    OBVIOUS
  <2>3. n - k \in Mirror
    BY <2>2
  <2>4. QED
    BY <2>1, <2>3
<1>2. \E x \in Mirror : \A y \in Mirror : x <= y
  <2>. HIDE DEF Mirror
  <2>. QED
    BY <1>1, Least
<1>3. PICK m \in S : \A k \in S : n - m <= n - k
  BY <1>2
<1>4. QED
  BY <1>3

----------------------------------------------------------------------------
(* The test case of a line, in a log that grows                            *)

Opened(q, k) == {i \in 1..k : q[i].case # NoCase}
LastOf(S) == CHOOSE i \in S : \A j \in S : j <= i
CaseIn(q, k) == IF Opened(q, k) = {} THEN NoCase ELSE q[LastOf(Opened(q, k))].case

LEMMA LastOpened ==
  ASSUME NEW k \in Nat, NEW S \in SUBSET (1..k), S # {}
  PROVE  LastOf(S) \in S /\ \A j \in S : j <= LastOf(S)
BY Greatest DEF LastOf

LEMMA CaseGrows ==
  ASSUME NEW q \in Seq(LineType), NEW line \in LineType, NEW k \in 0..Len(q)
  PROVE  CaseIn(Append(q, line), k) = CaseIn(q, k)
<1>1. PICK r : r = Append(q, line)
  OBVIOUS
<1>2. \A i \in 1..k : r[i] = q[i]
  BY <1>1, AppendProperties
<1>3. k \in Nat /\ Opened(r, k) = Opened(q, k) /\ Opened(q, k) \in SUBSET (1..k)
  BY <1>2 DEF Opened
<1>4. Opened(q, k) # {} => LastOf(Opened(q, k)) \in 1..k
  BY <1>3, LastOpened
<1>5. CaseIn(r, k) = CaseIn(q, k)
  BY <1>2, <1>3, <1>4 DEF CaseIn
<1>6. QED
  BY <1>1, <1>5

LEMMA CaseOfLast ==
  ASSUME NEW q \in Seq(LineType), NEW line \in LineType
  PROVE  CaseIn(Append(q, line), Len(q) + 1) =
           IF line.case = NoCase THEN CaseIn(q, Len(q)) ELSE line.case
<1>1. PICK n \in Nat : n = Len(q)
  OBVIOUS
<1>2. PICK r : r = Append(q, line)
  OBVIOUS
<1>3. r[n + 1] = line /\ \A i \in 1..n : r[i] = q[i]
  BY <1>1, <1>2, AppendProperties
<1>4. \A i \in 1..n + 1 : i \in 1..n \/ i = n + 1
  OBVIOUS
<1>5. CASE line.case = NoCase
  <2>1. Opened(r, n + 1) = Opened(r, n)
    BY <1>3, <1>4, <1>5 DEF Opened
  <2>2. CaseIn(r, n + 1) = CaseIn(r, n)
    BY <2>1 DEF CaseIn
  <2>3. CaseIn(r, n) = CaseIn(q, n)
    BY <1>1, <1>2, CaseGrows
  <2>4. QED
    BY <1>1, <1>2, <1>5, <2>2, <2>3
<1>6. CASE line.case # NoCase
  <2>1. n + 1 \in Opened(r, n + 1) /\ Opened(r, n + 1) \in SUBSET (1..n + 1)
    BY <1>3, <1>6 DEF Opened
  <2>2. LastOf(Opened(r, n + 1)) = n + 1
    <3>1. PICK m \in Nat : m = n + 1
      OBVIOUS
    <3>2. LastOf(Opened(r, n + 1)) \in 1..m /\ m <= LastOf(Opened(r, n + 1))
      BY <2>1, <3>1, LastOpened
    <3>3. QED
      BY <3>1, <3>2
  <2>3. CaseIn(r, n + 1) = r[n + 1].case
    BY <2>1, <2>2 DEF CaseIn
  <2>4. QED
    BY <1>1, <1>2, <1>3, <1>6, <2>3
<1>7. QED
  BY <1>5, <1>6

----------------------------------------------------------------------------
(* Lists of problems, in a log of n lines whose test cases are c           *)

\* The lines of a problem are in order, and of its test case.
Sorted(q) == \A k, l \in DOMAIN q : k < l => q[k] < q[l]

Well(pr, n, c) ==
  /\ pr.line_num \in 1..n
  /\ \A k \in Elements(pr.lines) : k \in pr.line_num..n /\ c[k] = pr.case
  /\ Sorted(pr.lines)

Precedes(p, m) == p.line_num < m /\ \A k \in Elements(p.lines) : k < m

\* The problems of a list are so, and each before the next one.
Good(ps, n, c) ==
  /\ \A i \in DOMAIN ps : Well(ps[i], n, c)
  /\ \A i, j \in DOMAIN ps : i < j => Precedes(ps[i], ps[j].line_num)

\* So is the problem that is pending.
Follows(pr, ps, n, c) ==
  /\ Well(pr, n, c)
  /\ \A i \in DOMAIN ps : Precedes(ps[i], pr.line_num)

\* Each problem of S is in T, perhaps as a part of another one.
Covered(S, T) ==
  \A p \in S : \E q \in T :
    q.match = p.match /\ q.line_num <= p.line_num /\ Elements(p.lines) \subseteq Elements(q.lines)

LEMMA Joined ==
  ASSUME NEW a \in Seq(Nat), NEW b \in Seq(Nat)
  PROVE  /\ a \o b \in Seq(Nat)
         /\ Elements(a \o b) = Elements(a) \cup Elements(b)
         /\ Sorted(a) /\ Sorted(b) /\ (\A k \in Elements(a), l \in Elements(b) : k < l)
              => Sorted(a \o b)
<1>1. PICK x \in Nat, y \in Nat : x = Len(a) /\ y = Len(b)
  OBVIOUS
<1>2. PICK r : r = a \o b
  OBVIOUS
<1>3. /\ r \in Seq(Nat) /\ DOMAIN r = 1..x + y /\ DOMAIN a = 1..x /\ DOMAIN b = 1..y
      /\ \A k \in 1..x + y : r[k] = IF k <= x THEN a[k] ELSE b[k - x]
  BY <1>1, <1>2, ConcatProperties
<1>4. \A k \in 1..x : k \in 1..x + y /\ r[k] = a[k] /\ a[k] \in Nat
  BY <1>3
<1>5. \A k \in 1..y : k + x \in 1..x + y /\ r[k + x] = b[k] /\ b[k] \in Nat
  <2>1. \A k \in 1..y : k + x \in 1..x + y /\ ~(k + x <= x) /\ (k + x) - x = k
    OBVIOUS
  <2>2. QED
    BY <1>3, <2>1
<1>6. \A k \in 1..x + y : k \in 1..x \/ (k - x \in 1..y /\ r[k] = b[k - x])
  BY <1>3
<1>7. Elements(r) = Elements(a) \cup Elements(b)
  <2>1. ASSUME NEW k \in 1..x + y
        PROVE  r[k] \in Elements(a) \/ r[k] \in Elements(b)
    BY <1>3, <1>4, <1>6 DEF Elements
  <2>2. \A e \in Elements(a) : e \in Elements(r)
    BY <1>3, <1>4 DEF Elements
  <2>3. \A e \in Elements(b) : e \in Elements(r)
    BY <1>3, <1>5 DEF Elements
  <2>4. Elements(r) = {r[k] : k \in 1..x + y}
    BY <1>3 DEF Elements
  <2>5. QED
    BY <2>1, <2>2, <2>3, <2>4
<1>8. ASSUME Sorted(a), Sorted(b), \A k \in Elements(a), l \in Elements(b) : k < l,
             NEW k \in 1..x + y, NEW l \in 1..x + y, k < l
      PROVE  r[k] < r[l]
  <2>1. CASE k \in 1..x /\ l \in 1..x
    BY <2>1, <1>3, <1>4, <1>8 DEF Sorted
  <2>2. CASE k \in 1..x /\ l - x \in 1..y /\ r[l] = b[l - x]
    <3>1. a[k] \in Elements(a) /\ b[l - x] \in Elements(b)
      BY <2>2, <1>3 DEF Elements
    <3>2. QED
      BY <3>1, <2>2, <1>4, <1>8
  <2>3. CASE k - x \in 1..y /\ l - x \in 1..y /\ r[k] = b[k - x] /\ r[l] = b[l - x]
    <3>1. k - x < l - x
      BY <1>8
    <3>2. QED
      BY <3>1, <2>3, <1>3, <1>8 DEF Sorted
  <2>4. ~(l \in 1..x /\ k - x \in 1..y)
    BY <1>8
  <2>5. QED
    BY <1>6, <2>1, <2>2, <2>3, <2>4
<1>9. Sorted(a) /\ Sorted(b) /\ (\A k \in Elements(a), l \in Elements(b) : k < l) => Sorted(r)
  BY <1>3, <1>8 DEF Sorted
<1>10. QED
  BY <1>2, <1>3, <1>7, <1>9

LEMMA WellGrows ==
  ASSUME NEW n \in Nat, NEW c, NEW d, \A k \in 0..n : d[k] = c[k],
         NEW pr \in Problem, Well(pr, n, c)
  PROVE  Well(pr, n + 1, d)
<1>1. pr.line_num \in Nat
  BY DEF Problem
<1>2. \A k \in pr.line_num..n : k \in 0..n /\ k \in pr.line_num..n + 1
  BY <1>1
<1>3. QED
  BY <1>1, <1>2 DEF Well

LEMMA GoodGrows ==
  ASSUME NEW n \in Nat, NEW c, NEW d, \A k \in 0..n : d[k] = c[k],
         NEW ps \in Seq(Problem), Good(ps, n, c)
  PROVE  Good(ps, n + 1, d)
<1>1. \A i \in DOMAIN ps : Well(ps[i], n + 1, d)
  <2>1. \A i \in DOMAIN ps : ps[i] \in Problem /\ Well(ps[i], n, c)
    BY DEF Good
  <2>2. QED
    BY <2>1, WellGrows
<1>2. QED
  BY <1>1 DEF Good

LEMMA Adds ==
  ASSUME NEW n \in Nat, NEW c, NEW ps \in Seq(Problem), Good(ps, n, c),
         NEW pr \in Problem, Follows(pr, ps, n, c)
  PROVE  /\ Append(ps, pr) \in Seq(Problem)
         /\ Good(Append(ps, pr), n, c)
         /\ Covered(Elements(ps) \cup {pr}, Elements(Append(ps, pr)))
<1>1. PICK m \in Nat : m = Len(ps)
  OBVIOUS
<1>2. PICK qs : qs = Append(ps, pr)
  OBVIOUS
<1>3. /\ qs \in Seq(Problem) /\ DOMAIN qs = 1..m + 1 /\ DOMAIN ps = 1..m
      /\ qs[m + 1] = pr /\ \A i \in 1..m : qs[i] = ps[i]
  BY <1>1, <1>2, AppendProperties
<1>4. \A i \in 1..m + 1 : i \in 1..m \/ i = m + 1
  OBVIOUS
<1>5. \A i \in 1..m + 1 : Well(qs[i], n, c)
  BY <1>3, <1>4 DEF Good, Follows
<1>6. ASSUME NEW i \in 1..m + 1, NEW j \in 1..m + 1, i < j
      PROVE  Precedes(qs[i], qs[j].line_num)
  <2>1. i \in 1..m
    BY <1>6
  <2>2. CASE j = m + 1
    BY <2>1, <2>2, <1>3 DEF Follows
  <2>3. CASE j \in 1..m
    BY <2>1, <2>3, <1>3, <1>6 DEF Good
  <2>4. QED
    BY <1>4, <2>2, <2>3
<1>7. Good(qs, n, c)
  BY <1>3, <1>5, <1>6 DEF Good
<1>8. Covered(Elements(ps) \cup {pr}, Elements(qs))
  <2>1. \A p \in Elements(ps) \cup {pr} : p \in Elements(qs) /\ p \in Problem
    BY <1>3, <1>4 DEF Elements
  <2>2. \A p \in Problem : p.line_num <= p.line_num
    BY DEF Problem
  <2>3. QED
    BY <2>1, <2>2 DEF Covered
<1>9. QED
  BY <1>2, <1>3, <1>7, <1>8

Merged(p, pr) == [p EXCEPT !.lines = @ \o pr.lines]

LEMMA MergedWell ==
  ASSUME NEW n \in Nat, NEW c, NEW last \in Problem, NEW pr \in Problem,
         Well(last, n, c), Well(pr, n, c), Precedes(last, pr.line_num), last.case = pr.case
  PROVE  /\ Merged(last, pr) \in Problem /\ Well(Merged(last, pr), n, c)
         /\ Merged(last, pr).line_num = last.line_num /\ Merged(last, pr).match = last.match
         /\ Elements(Merged(last, pr).lines) = Elements(last.lines) \cup Elements(pr.lines)
<1>. DEFINE long == Merged(last, pr)
<1>1. PICK a \in Seq(Nat), b \in Seq(Nat) : a = last.lines /\ b = pr.lines
  BY DEF Problem
<1>2. PICK r : r = a \o b
  OBVIOUS
<1>3. /\ r \in Seq(Nat) /\ Elements(r) = Elements(a) \cup Elements(b)
      /\ Sorted(a) /\ Sorted(b) /\ (\A k \in Elements(a), l \in Elements(b) : k < l) => Sorted(r)
  BY <1>2, Joined
<1>4. long = [last EXCEPT !.lines = r]
  BY <1>1, <1>2 DEF Merged
<1>5. /\ long \in Problem /\ long.lines = r /\ long.line_num = last.line_num
      /\ long.case = last.case /\ long.match = last.match
  BY <1>3, <1>4 DEF Problem
<1>6. PICK low \in Nat, mid \in Nat : low = last.line_num /\ mid = pr.line_num
  BY DEF Problem
<1>7. /\ low < mid /\ low \in 1..n /\ Sorted(a) /\ Sorted(b)
      /\ \A k \in Elements(a) : k \in low..n /\ c[k] = last.case /\ k < mid
      /\ \A k \in Elements(b) : k \in mid..n /\ c[k] = last.case
  BY <1>1, <1>6 DEF Well, Precedes
<1>8. Sorted(r)
  <2>1. ASSUME NEW k \in Elements(a), NEW l \in Elements(b)
        PROVE  k < l
    <3>1. k \in low..n /\ k < mid /\ l \in mid..n
      BY <1>7
    <3>2. QED
      BY <3>1
  <2>2. QED
    BY <1>3, <1>7, <2>1
<1>9. \A k \in Elements(r) : k \in low..n /\ c[k] = last.case
  <2>1. \A k \in mid..n : k \in low..n
    BY <1>7
  <2>2. QED
    BY <1>3, <1>7, <2>1
<1>10. Well(long, n, c)
  BY <1>5, <1>6, <1>7, <1>8, <1>9 DEF Well
<1>11. QED
  BY <1>1, <1>3, <1>5, <1>10

GoesWithLast(ps, pr) ==
  ps # <<>> /\ ps[Len(ps)].match = pr.match /\ ps[Len(ps)].case = pr.case

WithLast(ps, pr) == [ps EXCEPT ![Len(ps)].lines = @ \o pr.lines]

LEMMA Merges ==
  ASSUME NEW n \in Nat, NEW c, NEW ps \in Seq(Problem), Good(ps, n, c),
         NEW pr \in Problem, Follows(pr, ps, n, c), GoesWithLast(ps, pr)
  PROVE  /\ WithLast(ps, pr) \in Seq(Problem)
         /\ Good(WithLast(ps, pr), n, c)
         /\ Covered(Elements(ps) \cup {pr}, Elements(WithLast(ps, pr)))
<1>0. PICK qs : qs = WithLast(ps, pr)
  OBVIOUS
<1>1. PICK m \in Nat : m = Len(ps) /\ m \in 1..m
  BY EmptySeq DEF GoesWithLast
<1>2. PICK last \in Problem : last = ps[m] /\ last.match = pr.match /\ last.case = pr.case
  BY <1>1 DEF GoesWithLast
<1>3. PICK long : long = Merged(last, pr)
  OBVIOUS
<1>4. Well(last, n, c) /\ Well(pr, n, c) /\ Precedes(last, pr.line_num)
  BY <1>1, <1>2 DEF Good, Follows
<1>5. /\ long \in Problem /\ Well(long, n, c)
      /\ long.line_num = last.line_num /\ long.match = last.match
      /\ Elements(long.lines) = Elements(last.lines) \cup Elements(pr.lines)
  <2>1. last.case = pr.case
    BY <1>2
  <2>2. Merged(last, pr) \in Problem /\ Well(Merged(last, pr), n, c)
    BY <1>4, <2>1, MergedWell
  <2>3. /\ Merged(last, pr).line_num = last.line_num
        /\ Merged(last, pr).match = last.match
    BY <1>4, <2>1, MergedWell
  <2>4. Elements(Merged(last, pr).lines) = Elements(last.lines) \cup Elements(pr.lines)
    BY <1>4, <2>1, MergedWell
  <2>5. QED
    BY <1>3, <2>2, <2>3, <2>4
<1>6. qs = [ps EXCEPT ![m] = long]
  BY <1>0, <1>1, <1>2, <1>3 DEF WithLast, Merged
<1>7. DOMAIN ps = 1..m /\ \A i \in 1..m : ps[i] \in Problem
  BY <1>1
<1>8. qs \in [1..m -> Problem] /\ qs[m] = long /\ \A i \in 1..m : i # m => qs[i] = ps[i]
  BY <1>1, <1>5, <1>6, <1>7
<1>9. qs \in Seq(Problem) /\ DOMAIN qs = 1..m
  BY <1>8
<1>10. Good(qs, n, c)
  <2>1. \A i \in 1..m : Well(qs[i], n, c)
    BY <1>5, <1>7, <1>8 DEF Good
  <2>2. ASSUME NEW i \in 1..m, NEW j \in 1..m, i < j
        PROVE  Precedes(qs[i], qs[j].line_num)
    <3>1. i # m
      BY <2>2
    <3>2. qs[i] = ps[i]
      BY <1>8, <3>1
    <3>3. qs[j].line_num = ps[j].line_num
      BY <1>2, <1>5, <1>8
    <3>4. QED
      BY <1>7, <2>2, <3>2, <3>3 DEF Good
  <2>3. QED
    BY <1>9, <2>1, <2>2 DEF Good
<1>11. Covered(Elements(ps) \cup {pr}, Elements(qs))
  <2>1. long \in Elements(qs) /\ \A p \in Elements(ps) : p \in Elements(qs) \/ p = last
    BY <1>1, <1>2, <1>7, <1>8, <1>9 DEF Elements
  <2>2. \A p \in Elements(ps) \cup {pr} : p.line_num \in Nat
    BY <1>7 DEF Elements, Problem
  <2>3. last.line_num <= pr.line_num
    BY <1>4 DEF Problem, Precedes
  <2>4. ASSUME NEW p \in Elements(ps) \cup {pr}
        PROVE  \E q \in Elements(qs) :
                 /\ q.match = p.match /\ q.line_num <= p.line_num
                 /\ Elements(p.lines) \subseteq Elements(q.lines)
    <3>1. CASE p \in Elements(qs)
      BY <3>1, <2>2
    <3>2. CASE p = last
      <4>1. long.line_num <= p.line_num
        BY <3>2, <1>5 DEF Problem
      <4>2. QED
        BY <4>1, <3>2, <2>1, <1>5
    <3>3. CASE p = pr
      BY <3>3, <2>1, <2>3, <1>2, <1>5
    <3>4. QED
      BY <2>1, <3>1, <3>2, <3>3
  <2>5. QED
    BY <2>4 DEF Covered
<1>12. QED
  BY <1>0, <1>9, <1>10, <1>11

----------------------------------------------------------------------------
(* Adding a line to a problem                                              *)

Longer(q, k, max) == IF max \in 1..Len(q) THEN Tail(Append(q, k)) ELSE Append(q, k)

LEMMA Appended ==
  ASSUME NEW q \in Seq(Nat), NEW k \in Nat, Sorted(q), \A j \in Elements(q) : j < k
  PROVE  /\ Append(q, k) \in Seq(Nat) /\ Append(q, k) # <<>> /\ Sorted(Append(q, k))
         /\ Elements(Append(q, k)) = Elements(q) \cup {k}
<1>1. PICK n \in Nat : n = Len(q)
  OBVIOUS
<1>2. PICK r : r = Append(q, k)
  OBVIOUS
<1>3. /\ r \in Seq(Nat) /\ DOMAIN r = 1..n + 1 /\ DOMAIN q = 1..n /\ Len(r) = n + 1
      /\ r[n + 1] = k /\ \A i \in 1..n : r[i] = q[i]
  BY <1>1, <1>2, AppendProperties
<1>4. \A i \in 1..n + 1 : i \in 1..n \/ i = n + 1
  OBVIOUS
<1>5. Elements(r) = Elements(q) \cup {k}
  BY <1>3, <1>4 DEF Elements
<1>6. ASSUME NEW i \in 1..n + 1, NEW j \in 1..n + 1, i < j
      PROVE  r[i] < r[j]
  <2>1. i \in 1..n
    BY <1>6
  <2>2. CASE j \in 1..n
    BY <2>1, <2>2, <1>3, <1>6 DEF Sorted
  <2>3. CASE j = n + 1
    BY <2>1, <2>3, <1>3 DEF Elements
  <2>4. QED
    BY <1>4, <2>2, <2>3
<1>7. Sorted(r)
  BY <1>3, <1>6 DEF Sorted
<1>8. r # <<>>
  BY <1>3
<1>9. QED
  BY <1>2, <1>3, <1>5, <1>7, <1>8

LEMMA TailOf ==
  ASSUME NEW q \in Seq(Nat), q # <<>>, Sorted(q)
  PROVE  Tail(q) \in Seq(Nat) /\ Sorted(Tail(q)) /\ Elements(Tail(q)) \subseteq Elements(q)
<1>1. PICK n \in Nat : n = Len(q)
  OBVIOUS
<1>2. PICK r : r = Tail(q)
  OBVIOUS
<1>3. /\ r \in Seq(Nat) /\ DOMAIN r = 1..n - 1 /\ DOMAIN q = 1..n
      /\ \A i \in 1..n - 1 : r[i] = q[i + 1]
  BY <1>1, <1>2, HeadTailProperties
<1>4. \A i \in 1..n - 1 : i + 1 \in 1..n
  OBVIOUS
<1>5. Elements(r) \subseteq Elements(q)
  BY <1>3, <1>4 DEF Elements
<1>6. ASSUME NEW i \in 1..n - 1, NEW j \in 1..n - 1, i < j
      PROVE  r[i] < r[j]
  <2>1. i + 1 \in 1..n /\ j + 1 \in 1..n /\ i + 1 < j + 1
    BY <1>4, <1>6
  <2>2. QED
    BY <2>1, <1>3 DEF Sorted
<1>7. Sorted(r)
  BY <1>3, <1>6 DEF Sorted
<1>8. QED
  BY <1>2, <1>3, <1>5, <1>7

LEMMA LongerLines ==
  ASSUME NEW q \in Seq(Nat), NEW k \in Nat, NEW max \in Nat,
         Sorted(q), \A j \in Elements(q) : j < k
  PROVE  /\ Longer(q, k, max) \in Seq(Nat) /\ Sorted(Longer(q, k, max))
         /\ k \in Elements(Longer(q, k, max))
         /\ Elements(Longer(q, k, max)) \subseteq Elements(q) \cup {k}
         /\ max = 0 => Elements(q) \subseteq Elements(Longer(q, k, max))
<1>1. PICK r : r = Append(q, k)
  OBVIOUS
<1>2. r \in Seq(Nat) /\ r # <<>> /\ Sorted(r) /\ Elements(r) = Elements(q) \cup {k}
  BY <1>1, Appended
<1>3. CASE max \in 1..Len(q)
  <2>1. Longer(q, k, max) = Tail(r)
    BY <1>1, <1>3 DEF Longer
  <2>2. Tail(r) \in Seq(Nat) /\ Sorted(Tail(r)) /\ Elements(Tail(r)) \subseteq Elements(r)
    BY <1>2, TailOf
  <2>3. k \in Elements(Tail(r))
    <3>1. PICK n \in Nat : n = Len(q) /\ n >= 1
      BY <1>3
    <3>2. Len(r) = n + 1 /\ r[n + 1] = k
      BY <1>1, <3>1, AppendProperties
    <3>3. DOMAIN Tail(r) = 1..n /\ n \in 1..n /\ Tail(r)[n] = k
      BY <1>2, <3>1, <3>2, HeadTailProperties
    <3>4. QED
      BY <3>3 DEF Elements
  <2>4. max # 0
    BY <1>3
  <2>5. QED
    BY <1>2, <2>1, <2>2, <2>3, <2>4
<1>4. CASE max \notin 1..Len(q)
  <2>1. Longer(q, k, max) = r
    BY <1>1, <1>4 DEF Longer
  <2>2. QED
    BY <1>2, <2>1
<1>5. QED
  BY <1>3, <1>4

----------------------------------------------------------------------------
(* The inductive invariant                                                 *)

\* The problems of the result, and the one that is pending.
Known == Elements(problems) \cup (IF problem = NoProblem THEN {} ELSE {problem})

Attribution == [k \in 0..Len(log) |-> CaseIn(log, k)]

ListInv ==
  /\ Good(problems, Len(log), Attribution)
  /\ problem # NoProblem =>
       Follows(problem, problems, Len(log), Attribution) /\ problem.case = test_case
  /\ test_case = CaseIn(log, Len(log))

\* What becomes of line k: it is a line of p, or p kept it from being one.
Explains(p, k) ==
  \/ k \in Elements(p.lines)
  \/ \E l \in Elements(p.lines) : l < k /\ Pending(p.match, l, k)
  \/ \E l \in Elements(p.lines) :
       l > k /\ p.line_num <= k /\ matchers[p.match].max_lines > 0

MatchInv ==
  \A k \in DOMAIN log :
    log[k].case = NoCase /\ GetMatcher(log[k]) # None => \E p \in Known : Explains(p, k)

\* The matcher that is pending has been so since a line of a problem.
KeepInv ==
  matcher # None =>
    \E p \in Known : /\ p.match = matcher
                     /\ \E l \in Elements(p.lines) : Pending(matcher, l, Len(log) + 1)

PlaceInv ==
  /\ pc = "begin" => log = <<>> /\ matcher = None /\ problem = NoProblem /\ problems = <<>>
  /\ pc \in {"parsed", "stored"} => problem = NoProblem
  /\ pc = "stored" => \A i \in DOMAIN problems : stored[problems[i].line_num] = problems[i]

IInv == TypeOK /\ ListInv /\ MatchInv /\ KeepInv /\ PlaceInv

LEMMA CaseAtIn ==
  \A k : CaseAt(k) = CaseIn(log, k)
BY DEF CaseAt, CaseIn, Opened, LastOf

LEMMA GetMatcherType ==
  ASSUME matchers \in Seq(MatcherType), NEW line
  PROVE  GetMatcher(line) \in 0..Len(matchers)
<1>1. PICK n \in Nat : n = Len(matchers) /\ DOMAIN matchers = 1..n
  OBVIOUS
<1>2. PICK found : found = line.match \cap 1..n
  OBVIOUS
<1>3. found \in SUBSET Nat /\ found \in SUBSET (1..n)
  BY <1>2
<1>4. found # {} => \E m \in found : \A k \in found : m <= k
  BY <1>3, Least
<1>5. GetMatcher(line) =
        IF found = {} THEN None ELSE CHOOSE m \in found : \A k \in found : m <= k
  BY <1>1, <1>2 DEF GetMatcher
<1>6. GetMatcher(line) = None \/ GetMatcher(line) \in found
  BY <1>4, <1>5
<1>7. QED
  <2>1. 0 \in 0..n /\ \A m \in 1..n : m \in 0..n
    OBVIOUS
  <2>2. GetMatcher(line) \in 0..n
    BY <1>3, <1>6, <2>1 DEF None
  <2>3. QED
    BY <1>1, <2>2

\* The numbers of the lines of the problems.
LEMMA LinesRead ==
  ASSUME TypeOK, ListInv, NEW p \in Known
  PROVE  /\ p \in Problem /\ p.line_num \in Nat
         /\ \A k \in Elements(p.lines) : k \in 1..Len(log) /\ k >= p.line_num
<1>1. Len(log) \in Nat /\ problems \in Seq(Problem) /\ problem \in Problem
  BY DEF TypeOK
<1>2. p \in Problem /\ Well(p, Len(log), Attribution)
  <2>1. CASE p \in Elements(problems)
    <3>1. PICK i \in DOMAIN problems : p = problems[i]
      BY <2>1 DEF Elements
    <3>2. QED
      BY <1>1, <3>1 DEF ListInv, Good
  <2>2. CASE problem # NoProblem /\ p = problem
    BY <1>1, <2>2 DEF ListInv, Follows
  <2>3. QED
    BY <2>1, <2>2 DEF Known
<1>3. PICK n \in Nat : n = Len(log)
  BY <1>1
<1>4. PICK low \in Nat : low = p.line_num
  BY <1>2 DEF Problem
<1>5. low \in 1..n /\ \A k \in Elements(p.lines) : k \in low..n
  BY <1>2, <1>3, <1>4 DEF Well
<1>6. \A k \in low..n : k \in 1..n /\ k >= low
  BY <1>5
<1>7. QED
  BY <1>2, <1>3, <1>4, <1>5, <1>6

LEMMA FlushedList ==
  ASSUME TypeOK, ListInv
  PROVE  /\ Flushed \in Seq(Problem)
         /\ Good(Flushed, Len(log), Attribution)
         /\ Covered(Known, Elements(Flushed))
<1>1. /\ Len(log) \in Nat /\ problems \in Seq(Problem) /\ problem \in Problem
      /\ Good(problems, Len(log), Attribution)
  BY DEF TypeOK, ListInv
<1>2. CASE problem = NoProblem
  <2>1. Flushed = problems /\ Known = Elements(problems)
    BY <1>2 DEF Flushed, Known
  <2>2. \A p \in Known : p.line_num <= p.line_num
    BY LinesRead
  <2>3. Covered(Known, Elements(problems))
    BY <2>1, <2>2 DEF Covered
  <2>4. QED
    BY <1>1, <2>1, <2>3
<1>3. CASE problem # NoProblem
  <2>1. /\ Flushed = AddNew(problem) /\ Known = Elements(problems) \cup {problem}
        /\ Follows(problem, problems, Len(log), Attribution)
    BY <1>3 DEF Flushed, Known, ListInv
  <2>2. CASE DoMerge(problem)
    <3>1. Flushed = WithLast(problems, problem) /\ GoesWithLast(problems, problem)
      BY <2>1, <2>2 DEF AddNew, WithLast, DoMerge, GoesWithLast
    <3>2. /\ WithLast(problems, problem) \in Seq(Problem)
          /\ Good(WithLast(problems, problem), Len(log), Attribution)
      BY <1>1, <2>1, <3>1, Merges
    <3>3. Covered(Elements(problems) \cup {problem}, Elements(WithLast(problems, problem)))
      BY <1>1, <2>1, <3>1, Merges
    <3>4. QED
      BY <2>1, <3>1, <3>2, <3>3
  <2>3. CASE ~DoMerge(problem)
    <3>1. Flushed = Append(problems, problem)
      BY <2>1, <2>3 DEF AddNew
    <3>2. Append(problems, problem) \in Seq(Problem)
      BY <1>1
    <3>3. Good(Append(problems, problem), Len(log), Attribution)
      BY <1>1, <2>1, Adds
    <3>4. Covered(Elements(problems) \cup {problem}, Elements(Append(problems, problem)))
      BY <1>1, <2>1, Adds
    <3>5. QED
      BY <2>1, <3>1, <3>2, <3>3, <3>4
  <2>4. QED
    BY <2>2, <2>3
<1>4. QED
  BY <1>2, <1>3

----------------------------------------------------------------------------
(* A line is read                                                          *)

\* What the kinds of line have in common.
Reads(line) ==
  /\ line \in LineType
  /\ log' = Append(log, line)
  /\ matchers' = matchers

LEMMA LogGrows ==
  ASSUME TypeOK, NEW line, Reads(line)
  PROVE  /\ Len(log) \in Nat /\ log' \in Seq(LineType) /\ Len(log)' = Len(log) + 1
         /\ DOMAIN log' = 1..Len(log) + 1
         /\ log'[Len(log) + 1] = line
         /\ \A k \in 1..Len(log) : log'[k] = log[k]
<1>1. log \in Seq(LineType) /\ line \in LineType /\ log' = Append(log, line)
  BY DEF TypeOK, Reads
<1>2. QED
  BY <1>1, AppendProperties

LEMMA AttributionGrows ==
  ASSUME TypeOK, NEW line, Reads(line)
  PROVE  /\ \A k \in 0..Len(log) : Attribution'[k] = Attribution[k]
         /\ CaseIn(log, Len(log))' = IF line.case = NoCase THEN CaseIn(log, Len(log)) ELSE line.case
         /\ Attribution'[Len(log) + 1] = CaseIn(log, Len(log))'
<1>1. log \in Seq(LineType) /\ line \in LineType /\ log' = Append(log, line)
  BY DEF TypeOK, Reads
<1>2. PICK n \in Nat : n = Len(log) /\ Len(log') = n + 1
  BY LogGrows
<1>3. \A k \in 0..n : CaseIn(log', k) = CaseIn(log, k)
  BY <1>1, <1>2, CaseGrows
<1>4. CaseIn(log', n + 1) = IF line.case = NoCase THEN CaseIn(log, n) ELSE line.case
  BY <1>1, <1>2, CaseOfLast
<1>5. Attribution = [k \in 0..n |-> CaseIn(log, k)]
  BY <1>2 DEF Attribution
<1>6. Attribution' = [k \in 0..n + 1 |-> CaseIn(log', k)]
  BY <1>2 DEF Attribution
<1>7. \A k \in 0..n : k \in 0..n + 1
  OBVIOUS
<1>8. n + 1 \in 0..n + 1
  OBVIOUS
<1>9. QED
  BY <1>2, <1>3, <1>4, <1>5, <1>6, <1>7, <1>8

\* Whether a matcher is pending, among the lines read before.
LEMMA PendingStays ==
  ASSUME TypeOK, NEW line, Reads(line), NEW m, NEW l \in Nat, NEW k \in Nat, k <= Len(log) + 1
  PROVE  Pending(m, l, k)' = Pending(m, l, k)
<1>1. PICK n \in Nat : n = Len(log)
  BY LogGrows
<1>2. \A j \in l + 1..k - 1 : j \in 1..n
  BY <1>1
<1>3. \A j \in l + 1..k - 1 : log'[j] = log[j]
  BY <1>1, <1>2, LogGrows
<1>4. matchers' = matchers
  BY DEF Reads
<1>5. QED
  BY <1>3, <1>4 DEF Pending

\* The line that is read leaves the matcher pending.
LEMMA PendingOn ==
  ASSUME TypeOK, NEW line, Reads(line), NEW m, NEW l \in Nat, Pending(m, l, Len(log) + 1),
         \/ line.case # NoCase
         \/ IF matchers[m].terminated THEN m \notin line.stop ELSE m \in line.match
  PROVE  Pending(m, l, Len(log) + 1)'
<1>1. PICK n \in Nat : n = Len(log) /\ Len(log') = n + 1 /\ log'[n + 1] = line
  BY LogGrows
<1>2. Pending(m, l, n + 1)'
  BY <1>1, PendingStays
<1>3. matchers' = matchers
  BY DEF Reads
<1>4. \A j \in l + 1..(n + 2) - 1 : j \in l + 1..(n + 1) - 1 \/ j = n + 1
  OBVIOUS
<1>5. \A j \in l + 1..(n + 2) - 1 :
        \/ log'[j].case # NoCase
        \/ IF matchers'[m].terminated THEN m \notin log'[j].stop ELSE m \in log'[j].match
  BY <1>1, <1>2, <1>3, <1>4 DEF Pending
<1>6. Len(log') + 1 = n + 2
  BY <1>1
<1>7. QED
  BY <1>5, <1>6 DEF Pending

\* A problem that takes over another one's lines takes over what it explains.
LEMMA ExplainsOn ==
  ASSUME TypeOK, ListInv, NEW line, Reads(line), NEW p \in Known, NEW q,
         q.match = p.match, q.line_num \in Nat, q.line_num <= p.line_num,
         Elements(p.lines) \subseteq Elements(q.lines),
         NEW k \in 1..Len(log), Explains(p, k)
  PROVE  Explains(q, k)'
<1>1. PICK n \in Nat : n = Len(log)
  BY LogGrows
<1>2. k \in Nat /\ k <= n + 1
  BY <1>1
<1>3. CASE k \in Elements(p.lines)
  BY <1>3 DEF Explains
<1>4. CASE \E l \in Elements(p.lines) : l < k /\ Pending(p.match, l, k)
  <2>1. PICK l \in Elements(p.lines) : l < k /\ Pending(p.match, l, k)
    BY <1>4
  <2>2. l \in Nat
    BY <1>1, LinesRead
  <2>3. Pending(q.match, l, k)'
    BY <1>1, <1>2, <2>1, <2>2, PendingStays
  <2>4. QED
    BY <2>1, <2>3 DEF Explains
<1>5. CASE \E l \in Elements(p.lines) :
             l > k /\ p.line_num <= k /\ matchers[p.match].max_lines > 0
  <2>1. PICK l \in Elements(p.lines) :
               l > k /\ p.line_num <= k /\ matchers[p.match].max_lines > 0
    BY <1>5
  <2>2. q.line_num <= k
    BY <2>1, LinesRead
  <2>3. matchers' = matchers
    BY DEF Reads
  <2>4. QED
    BY <2>1, <2>2, <2>3 DEF Explains
<1>6. QED
  BY <1>3, <1>4, <1>5 DEF Explains

\* Nothing that explained a line is lost when the problems are covered.
LEMMA MatchesStay ==
  ASSUME TypeOK, ListInv, MatchInv, NEW line, Reads(line),
         problems' \in Seq(Problem), Covered(Known, Elements(problems')),
         NEW k \in 1..Len(log), log[k].case = NoCase, GetMatcher(log[k]) # None
  PROVE  \E p \in Elements(problems') : Explains(p, k)'
<1>1. PICK p \in Known : Explains(p, k)
  <2>1. k \in DOMAIN log
    BY LogGrows DEF TypeOK
  <2>2. QED
    BY <2>1 DEF MatchInv
<1>2. PICK q \in Elements(problems') :
        q.match = p.match /\ q.line_num <= p.line_num /\ Elements(p.lines) \subseteq Elements(q.lines)
  BY DEF Covered
<1>3. q.line_num \in Nat
  <2>1. PICK i \in DOMAIN problems' : q = problems'[i]
    BY <1>2 DEF Elements
  <2>2. q \in Problem
    BY <2>1
  <2>3. QED
    BY <2>2 DEF Problem
<1>4. QED
  BY <1>1, <1>2, <1>3, ExplainsOn

\* Nor that a matcher is pending since a line of a problem.
LEMMA KeepStays ==
  ASSUME TypeOK, ListInv, KeepInv, NEW line, Reads(line), matcher # None,
         problems' \in Seq(Problem), Covered(Known, Elements(problems'))
  PROVE  \E p \in Elements(problems') :
           /\ p.match = matcher
           /\ \E l \in Elements(p.lines) : /\ l \in 1..Len(log)
                                         /\ Pending(matcher, l, Len(log) + 1)
<1>1. PICK p \in Known :
        p.match = matcher /\ \E l \in Elements(p.lines) : Pending(matcher, l, Len(log) + 1)
  BY DEF KeepInv
<1>2. PICK l \in Elements(p.lines) : Pending(matcher, l, Len(log) + 1)
  BY <1>1
<1>3. l \in 1..Len(log)
  BY LinesRead
<1>4. PICK q \in Elements(problems') :
        q.match = p.match /\ q.line_num <= p.line_num /\ Elements(p.lines) \subseteq Elements(q.lines)
  BY DEF Covered
<1>5. QED
  BY <1>1, <1>2, <1>3, <1>4

Earliest(found) == IF found = {} THEN None ELSE CHOOSE m \in found : \A n \in found : m <= n

LEMMA SameMatcher ==
  ASSUME TypeOK, NEW line, Reads(line), NEW n \in Nat, n = Len(log)
  PROVE  /\ \A k \in 1..n : GetMatcher(log[k])' = GetMatcher(log[k])
         /\ GetMatcher(log[n + 1])' = GetMatcher(line)
<1>1. /\ matchers' = matchers
      /\ log'[n + 1] = line /\ \A k \in 1..n : log'[k] = log[k]
  BY LogGrows DEF Reads
<1>2. GetMatcher(line) = Earliest(line.match \cap DOMAIN matchers)
  BY DEF GetMatcher, Earliest
<1>3. \A k : GetMatcher(log[k]) = Earliest(log[k].match \cap DOMAIN matchers)
  BY DEF GetMatcher, Earliest
<1>4. \A k : GetMatcher(log[k])' = Earliest(log'[k].match \cap DOMAIN matchers')
  BY DEF GetMatcher, Earliest
<1>5. QED
  BY <1>1, <1>2, <1>3, <1>4

(***************************************************************************)
(* Steps after which no problem is pending.                                *)
(***************************************************************************)
LEMMA ListClosed ==
  ASSUME TypeOK, ListInv, NEW line, Reads(line), problem' = NoProblem,
         problems' \in Seq(Problem), Good(problems', Len(log), Attribution),
         test_case' = IF line.case = NoCase THEN test_case ELSE line.case
  PROVE  ListInv'
<1>1. PICK n \in Nat : n = Len(log) /\ Len(log') = n + 1
  BY LogGrows
<1>2. PICK c, d : c = Attribution /\ d = Attribution'
  OBVIOUS
<1>3. \A k \in 0..n : d[k] = c[k]
  BY <1>1, <1>2, AttributionGrows
<1>4. PICK ps \in Seq(Problem) : ps = problems' /\ Good(ps, n, c)
  BY <1>1, <1>2
<1>5. Good(ps, n + 1, d)
  BY <1>3, <1>4, GoodGrows
<1>6. test_case' = CaseIn(log, Len(log))'
  BY AttributionGrows DEF ListInv
<1>7. QED
  BY <1>1, <1>2, <1>4, <1>5, <1>6 DEF ListInv

LEMMA MatchClosed ==
  ASSUME TypeOK, ListInv, MatchInv, KeepInv, NEW line, Reads(line), problem' = NoProblem,
         problems' \in Seq(Problem), Covered(Known, Elements(problems')),
         line.case # NoCase \/ GetMatcher(line) = None \/ matcher # None
  PROVE  MatchInv'
<1>1. PICK n \in Nat : n = Len(log) /\ DOMAIN log' = 1..n + 1 /\ log'[n + 1] = line
  BY LogGrows
<1>2. Known' = Elements(problems')
  BY DEF Known
<1>3. \A k \in 1..n + 1 : k \in 1..n \/ k = n + 1
  OBVIOUS
<1>4. ASSUME NEW k \in 1..n, log'[k].case = NoCase, GetMatcher(log[k])' # None
      PROVE  \E p \in Known' : Explains(p, k)'
  <2>1. log'[k] = log[k]
    BY <1>1, LogGrows
  <2>2. log[k].case = NoCase /\ GetMatcher(log[k]) # None
    BY <2>1, <1>1, <1>4, SameMatcher
  <2>3. QED
    BY <1>1, <1>2, <2>2, MatchesStay
<1>5. ASSUME line.case = NoCase, GetMatcher(log[n + 1])' # None
      PROVE  \E p \in Known' : Explains(p, n + 1)'
  <2>1. matcher # None
    BY <1>1, <1>5, SameMatcher
  <2>2. PICK p \in Elements(problems') :
          /\ p.match = matcher
          /\ \E l \in Elements(p.lines) : l \in 1..n /\ Pending(matcher, l, n + 1)
    BY <1>1, <2>1, KeepStays
  <2>3. PICK l \in Elements(p.lines) : l \in 1..n /\ Pending(p.match, l, n + 1)
    BY <2>2
  <2>4. Pending(p.match, l, n + 1)'
    <3>1. l \in Nat /\ n + 1 \in Nat /\ n + 1 <= Len(log) + 1
      BY <1>1, <2>3
    <3>2. QED
      BY <2>3, <3>1, PendingStays
  <2>5. l < n + 1
    BY <2>3
  <2>6. QED
    BY <1>2, <2>3, <2>4, <2>5 DEF Explains
<1>6. QED
  BY <1>1, <1>3, <1>4, <1>5 DEF MatchInv

LEMMA KeepClosed ==
  ASSUME TypeOK, ListInv, KeepInv, NEW line, Reads(line), problem' = NoProblem,
         problems' \in Seq(Problem), Covered(Known, Elements(problems')),
         matcher' # None =>
           /\ matcher' = matcher
           /\ \/ line.case # NoCase
              \/ IF matchers[matcher].terminated THEN matcher \notin line.stop
                                                 ELSE matcher \in line.match
  PROVE  KeepInv'
<1>1. Known' = Elements(problems')
  BY DEF Known
<1>2. PICK m : m = matcher
  OBVIOUS
<1>3. ASSUME matcher' # None
      PROVE  \E p \in Known' : /\ p.match = m
                               /\ \E l \in Elements(p.lines) : Pending(m, l, Len(log) + 1)'
  <2>1. PICK p \in Elements(problems') :
          /\ p.match = m
          /\ \E l \in Elements(p.lines) : l \in 1..Len(log) /\ Pending(m, l, Len(log) + 1)
    BY <1>2, <1>3, KeepStays
  <2>2. PICK l \in Elements(p.lines) : l \in 1..Len(log) /\ Pending(m, l, Len(log) + 1)
    BY <2>1
  <2>3. Pending(m, l, Len(log) + 1)'
    BY <1>2, <1>3, <2>2, PendingOn
  <2>4. QED
    BY <1>1, <2>1, <2>2, <2>3
<1>4. matcher' # None => matcher' = m
  BY <1>2
<1>5. QED
  BY <1>3, <1>4 DEF KeepInv

(***************************************************************************)
(* Steps after which a problem is pending: a new one, or a longer one.     *)
(***************************************************************************)
Lengthened(pr, k, max) == [pr EXCEPT !.lines = Longer(pr.lines, k, max)]

LEMMA LengthenedFields ==
  ASSUME NEW pr \in Problem, NEW k \in Nat, NEW max
  PROVE  /\ Lengthened(pr, k, max) \in Problem
         /\ Lengthened(pr, k, max).lines = Longer(pr.lines, k, max)
         /\ Lengthened(pr, k, max).line_num = pr.line_num
         /\ Lengthened(pr, k, max).match = pr.match
         /\ Lengthened(pr, k, max).case = pr.case
<1>1. PICK a \in Seq(Nat) : a = pr.lines
  BY DEF Problem
<1>2. PICK r : r = Append(a, k)
  OBVIOUS
<1>3. r \in Seq(Nat) /\ r # <<>>
  BY <1>2
<1>4. PICK b : b = Longer(a, k, max)
  OBVIOUS
<1>5. b \in Seq(Nat)
  BY <1>2, <1>3, <1>4, HeadTailProperties DEF Longer
<1>6. Lengthened(pr, k, max) = [pr EXCEPT !.lines = b]
  BY <1>1, <1>4 DEF Lengthened
<1>7. QED
  BY <1>1, <1>4, <1>5, <1>6 DEF Problem

LEMMA FollowsGrows ==
  ASSUME NEW n \in Nat, NEW c, NEW d, \A k \in 0..n : d[k] = c[k],
         NEW ps, NEW pr \in Problem, Follows(pr, ps, n, c),
         NEW max \in Nat, d[n + 1] = pr.case
  PROVE  Follows(Lengthened(pr, n + 1, max), ps, n + 1, d)
<1>1. PICK a \in Seq(Nat), low \in Nat : a = pr.lines /\ low = pr.line_num
  BY DEF Problem
<1>2. PICK b, new : b = Longer(a, n + 1, max) /\ new = Lengthened(pr, n + 1, max)
  OBVIOUS
<1>3. low \in 1..n /\ Sorted(a) /\ \A k \in Elements(a) : k \in low..n /\ c[k] = pr.case
  BY <1>1 DEF Follows, Well
<1>4. \A k \in low..n : k \in 0..n /\ k < n + 1 /\ k \in low..n + 1
  BY <1>3
<1>5. Sorted(b) /\ Elements(b) \subseteq Elements(a) \cup {n + 1}
  <2>1. PICK k \in Nat : k = n + 1 /\ \A j \in Elements(a) : j < k
    BY <1>3, <1>4
  <2>2. Sorted(Longer(a, k, max)) /\ Elements(Longer(a, k, max)) \subseteq Elements(a) \cup {k}
    BY <1>3, <2>1, LongerLines
  <2>3. QED
    BY <1>2, <2>1, <2>2
<1>6. new.lines = b /\ new.line_num = low /\ new.case = pr.case
  <2>1. PICK k \in Nat : k = n + 1
    OBVIOUS
  <2>2. Lengthened(pr, k, max).lines = Longer(pr.lines, k, max)
    BY LengthenedFields
  <2>3. Lengthened(pr, k, max).line_num = pr.line_num
    BY LengthenedFields
  <2>4. Lengthened(pr, k, max).case = pr.case
    BY LengthenedFields
  <2>5. QED
    BY <1>1, <1>2, <2>1, <2>2, <2>3, <2>4
<1>7. \A k \in Elements(b) : k \in low..n + 1 /\ d[k] = pr.case
  <2>1. n + 1 \in low..n + 1
    BY <1>3
  <2>2. QED
    BY <1>3, <1>4, <1>5, <2>1
<1>8. low \in 1..n + 1
  BY <1>3
<1>9. Well(new, n + 1, d)
  BY <1>5, <1>6, <1>7, <1>8 DEF Well
<1>10. \A i \in DOMAIN ps : Precedes(ps[i], new.line_num)
  BY <1>1, <1>6 DEF Follows
<1>11. QED
  BY <1>2, <1>9, <1>10 DEF Follows

\* The problem that is pending after Continue.
LEMMA UpdatedProblem ==
  ASSUME TypeOK, ListInv, NEW line, Reads(line), line.case = NoCase, problem # NoProblem,
         problem' = Updated(problem, matcher)
  PROVE  /\ problem' \in Problem /\ problem'.line_num = problem.line_num
         /\ problem'.match = matcher /\ problem'.case = problem.case
         /\ problem'.lines = Longer(problem.lines, Len(log) + 1, matchers[matcher].max_lines)
         /\ Follows(problem', problems, Len(log) + 1, Attribution')
<1>1. PICK n \in Nat : n = Len(log)
  BY LogGrows
<1>2. PICK c, d : c = Attribution /\ d = Attribution'
  OBVIOUS
<1>3. PICK pr \in Problem, ps \in Seq(Problem) : pr = problem /\ ps = problems
  BY DEF TypeOK
<1>4. PICK max \in Nat : max = matchers[matcher].max_lines
  <2>1. matchers \in Seq(MatcherType) /\ matcher \in 1..Len(matchers)
    BY DEF TypeOK, None
  <2>2. matchers[matcher] \in MatcherType
    BY <2>1
  <2>3. QED
    BY <2>2 DEF MatcherType
<1>5. \A k \in 0..n : d[k] = c[k]
  BY <1>1, <1>2, AttributionGrows
<1>6. d[n + 1] = pr.case
  BY <1>1, <1>2, <1>3, AttributionGrows DEF ListInv
<1>7. Follows(pr, ps, n, c) /\ pr.match = matcher
  BY <1>1, <1>2, <1>3 DEF ListInv, TypeOK
<1>8. PICK new : new = Lengthened(pr, n + 1, max)
  OBVIOUS
<1>9. problem' = new
  BY <1>1, <1>3, <1>4, <1>8 DEF Updated, Longer, Lengthened
<1>10. /\ new \in Problem /\ new.lines = Longer(pr.lines, n + 1, max)
       /\ new.line_num = pr.line_num /\ new.match = pr.match /\ new.case = pr.case
  <2>1. n + 1 \in Nat
    OBVIOUS
  <2>2. QED
    BY <1>8, <2>1, LengthenedFields
<1>11. Follows(new, ps, n + 1, d)
  BY <1>5, <1>6, <1>7, <1>8, FollowsGrows
<1>12. QED
  BY <1>1, <1>2, <1>3, <1>4, <1>7, <1>9, <1>10, <1>11

\* The invariant after a step that leaves the list as it is and a problem pending.
LEMMA ListOpen ==
  ASSUME TypeOK, ListInv, NEW line, Reads(line), line.case = NoCase,
         problems' = problems, test_case' = test_case, problem'.case = test_case,
         Follows(problem', problems, Len(log) + 1, Attribution')
  PROVE  ListInv'
<1>1. PICK n \in Nat : n = Len(log) /\ Len(log') = n + 1
  BY LogGrows
<1>2. PICK c, d : c = Attribution /\ d = Attribution'
  OBVIOUS
<1>3. \A k \in 0..n : d[k] = c[k]
  BY <1>1, <1>2, AttributionGrows
<1>4. PICK ps \in Seq(Problem) : ps = problems /\ Good(ps, n, c)
  BY <1>1, <1>2 DEF TypeOK, ListInv
<1>5. Good(ps, n + 1, d)
  BY <1>3, <1>4, GoodGrows
<1>6. test_case' = CaseIn(log, Len(log))'
  BY AttributionGrows DEF ListInv
<1>7. QED
  BY <1>1, <1>2, <1>4, <1>5, <1>6 DEF ListInv

LEMMA ContinueExplains ==
  ASSUME TypeOK, ListInv, MatchInv, NEW line, Reads(line), line.case = NoCase,
         problem # NoProblem, problems' = problems, problem' = Updated(problem, matcher),
         matcher' = matcher
  PROVE  MatchInv' /\ KeepInv'
<1>1. PICK n \in Nat : n = Len(log) /\ DOMAIN log' = 1..n + 1 /\ Len(log') = n + 1
  BY LogGrows
<1>2. PICK pr \in Problem, new \in Problem : pr = problem /\ new = problem'
  BY UpdatedProblem DEF TypeOK
<1>3. PICK a \in Seq(Nat), b \in Seq(Nat), max \in Nat :
        a = pr.lines /\ b = new.lines /\ max = matchers[matcher].max_lines /\ b = Longer(a, n + 1, max)
  <2>1. matchers \in Seq(MatcherType) /\ matcher \in 1..Len(matchers)
    BY DEF TypeOK, None
  <2>2. matchers[matcher] \in MatcherType
    BY <2>1
  <2>3. matchers[matcher].max_lines \in Nat
    BY <2>2 DEF MatcherType
  <2>4. pr.lines \in Seq(Nat) /\ new.lines \in Seq(Nat)
    BY DEF Problem
  <2>5. new.lines = Longer(pr.lines, n + 1, matchers[matcher].max_lines)
    BY <1>1, <1>2, UpdatedProblem
  <2>6. QED
    BY <2>3, <2>4, <2>5
<1>4. /\ pr.match = matcher /\ new.match = matcher /\ new.line_num = pr.line_num
      /\ pr.line_num \in Nat
  BY <1>2, UpdatedProblem DEF TypeOK, Problem
<1>5. pr \in Known
  BY <1>2 DEF Known
<1>6. Sorted(a) /\ \A j \in Elements(a) : j \in 1..n /\ j < n + 1 /\ j >= pr.line_num
  <2>1. \A j \in Elements(a) : j \in 1..n /\ j >= pr.line_num
    BY <1>1, <1>3, <1>5, LinesRead
  <2>2. Sorted(a)
    BY <1>2, <1>3 DEF ListInv, Follows, Well
  <2>3. QED
    BY <2>1, <2>2
<1>7. n + 1 \in Elements(b) /\ (max = 0 => Elements(a) \subseteq Elements(b))
  <2>1. PICK k \in Nat : k = n + 1 /\ \A j \in Elements(a) : j < k
    BY <1>6
  <2>2. k \in Elements(Longer(a, k, max))
    BY <1>6, <2>1, LongerLines
  <2>3. max = 0 => Elements(a) \subseteq Elements(Longer(a, k, max))
    BY <1>6, <2>1, LongerLines
  <2>4. QED
    BY <1>3, <2>1, <2>2, <2>3
<1>8. Known' = Elements(problems) \cup {new}
  <2>1. new.line_num \in 1..n
    BY <1>1, <1>2, <1>4, UpdatedProblem DEF ListInv, Follows, Well
  <2>2. new # NoProblem
    BY <2>1 DEF NoProblem
  <2>3. QED
    BY <1>2, <2>2 DEF Known
<1>9. ASSUME NEW k \in 1..n, Explains(pr, k)
      PROVE  Explains(new, k)'
  <2>1. CASE max = 0
    <3>1. Elements(pr.lines) \subseteq Elements(new.lines)
      BY <2>1, <1>3, <1>7
    <3>2. new.match = pr.match /\ new.line_num \in Nat /\ new.line_num <= pr.line_num
      BY <1>4
    <3>3. k \in 1..Len(log)
      BY <1>1
    <3>4. QED
      BY <3>1, <3>2, <3>3, <1>5, <1>9, ExplainsOn
  <2>2. CASE max # 0
    <3>1. pr.line_num <= k
      <4>1. CASE k \in Elements(a)
        BY <4>1, <1>6
      <4>2. CASE \E l \in Elements(a) : l < k
        BY <4>2, <1>4, <1>6
      <4>3. QED
        BY <4>1, <4>2, <1>3, <1>9 DEF Explains
    <3>2. matchers' = matchers
      BY DEF Reads
    <3>3. n + 1 > k /\ max > 0
      BY <2>2
    <3>4. QED
      BY <3>1, <3>2, <3>3, <1>3, <1>4, <1>7 DEF Explains
  <2>3. QED
    BY <2>1, <2>2
<1>10. ASSUME NEW k \in 1..n, log[k].case = NoCase, GetMatcher(log[k]) # None
       PROVE  \E p \in Known' : Explains(p, k)'
  <2>1. PICK p \in Known : Explains(p, k)
    <3>1. k \in DOMAIN log
      BY <1>1 DEF TypeOK
    <3>2. QED
      BY <3>1, <1>10 DEF MatchInv
  <2>2. CASE p = pr
    BY <2>1, <2>2, <1>8, <1>9
  <2>3. CASE p \in Elements(problems)
    <3>1. p.line_num \in Nat /\ p.line_num <= p.line_num
      BY <2>1, LinesRead
    <3>2. Explains(p, k)'
      BY <2>1, <3>1, <1>1, ExplainsOn
    <3>3. QED
      BY <2>3, <3>2, <1>8
  <2>4. QED
    BY <1>2, <2>1, <2>2, <2>3 DEF Known
<1>11. new \in Known' /\ Explains(new, n + 1)'
  BY <1>3, <1>7, <1>8 DEF Explains
<1>12. \A k \in 1..n + 1 : k \in 1..n \/ k = n + 1
  OBVIOUS
<1>13. \A k \in 1..n : log'[k] = log[k] /\ GetMatcher(log[k])' = GetMatcher(log[k])
  BY <1>1, LogGrows, SameMatcher
<1>14. MatchInv'
  BY <1>1, <1>10, <1>11, <1>12, <1>13 DEF MatchInv
<1>15. PICK m : m = matcher /\ m = matcher'
  OBVIOUS
<1>16. KeepInv'
  <2>1. Len(log') + 1 = n + 2
    BY <1>1
  <2>2. \A j \in (n + 1) + 1..(n + 2) - 1 : FALSE
    OBVIOUS
  <2>3. Pending(m, n + 1, n + 2)'
    BY <2>2 DEF Pending
  <2>4. new.match = m /\ n + 1 \in Elements(new.lines)
    BY <1>3, <1>4, <1>7, <1>15
  <2>5. QED
    BY <2>1, <2>3, <2>4, <1>11, <1>15 DEF KeepInv
<1>17. QED
  BY <1>14, <1>16

LEMMA StartList ==
  ASSUME TypeOK, ListInv, NEW line, Reads(line), line.case = NoCase,
         problem'.line_num = Len(log) + 1, problem'.case = test_case,
         problem'.lines = <<Len(log) + 1>>
  PROVE  Follows(problem', problems, Len(log) + 1, Attribution')
<1>1. PICK n \in Nat : n = Len(log)
  BY LogGrows
<1>2. PICK d, new : d = Attribution' /\ new = problem'
  OBVIOUS
<1>3. d[n + 1] = new.case
  BY <1>1, <1>2, AttributionGrows DEF ListInv
<1>4. new.line_num = n + 1 /\ new.lines = <<n + 1>>
  BY <1>1, <1>2
<1>5. Elements(new.lines) = {n + 1} /\ Sorted(new.lines)
  BY <1>4 DEF Elements, Sorted
<1>6. Well(new, n + 1, d)
  BY <1>3, <1>4, <1>5 DEF Well
<1>7. ASSUME NEW i \in DOMAIN problems
      PROVE  Precedes(problems[i], n + 1)
  <2>1. problems[i] \in Known
    BY DEF Known, Elements
  <2>2. PICK p : p = problems[i]
    OBVIOUS
  <2>3. p.line_num \in 1..n /\ \A k \in Elements(p.lines) : k \in 1..n
    BY <1>1, <2>1, <2>2, LinesRead DEF ListInv, Good, Well
  <2>4. QED
    BY <2>2, <2>3 DEF Precedes
<1>8. QED
  BY <1>1, <1>2, <1>4, <1>6, <1>7 DEF Follows

LEMMA StartExplains ==
  ASSUME TypeOK, ListInv, MatchInv, NEW line, Reads(line), problem = NoProblem,
         problems' = problems, problem'.line_num = Len(log) + 1,
         problem'.lines = <<Len(log) + 1>>, problem'.match = matcher'
  PROVE  MatchInv' /\ KeepInv'
<1>1. PICK n \in Nat : n = Len(log) /\ DOMAIN log' = 1..n + 1 /\ Len(log') = n + 1
  BY LogGrows
<1>2. PICK new, m : new = problem' /\ m = matcher'
  OBVIOUS
<1>3. new.match = m /\ n + 1 \in Elements(new.lines) /\ new.line_num = n + 1
  BY <1>1, <1>2 DEF Elements
<1>4. Known = Elements(problems) /\ Known' = Elements(problems) \cup {new}
  BY <1>2, <1>3 DEF Known, NoProblem
<1>5. ASSUME NEW k \in 1..n, log[k].case = NoCase, GetMatcher(log[k]) # None
      PROVE  \E p \in Known' : Explains(p, k)'
  <2>1. PICK p \in Known : Explains(p, k)
    <3>1. k \in DOMAIN log
      BY <1>1 DEF TypeOK
    <3>2. QED
      BY <3>1, <1>5 DEF MatchInv
  <2>2. p.line_num \in Nat /\ p.line_num <= p.line_num
    BY <2>1, LinesRead
  <2>3. Explains(p, k)'
    BY <2>1, <2>2, <1>1, ExplainsOn
  <2>4. QED
    BY <2>3, <1>4
<1>6. new \in Known' /\ Explains(new, n + 1)'
  BY <1>3, <1>4 DEF Explains
<1>7. \A k \in 1..n + 1 : k \in 1..n \/ k = n + 1
  OBVIOUS
<1>8. \A k \in 1..n : log'[k] = log[k] /\ GetMatcher(log[k])' = GetMatcher(log[k])
  BY <1>1, LogGrows, SameMatcher
<1>9. MatchInv'
  BY <1>1, <1>5, <1>6, <1>7, <1>8 DEF MatchInv
<1>10. KeepInv'
  <2>1. Len(log') + 1 = n + 2
    BY <1>1
  <2>2. \A j \in (n + 1) + 1..(n + 2) - 1 : FALSE
    OBVIOUS
  <2>3. Pending(m, n + 1, n + 2)'
    BY <2>2 DEF Pending
  <2>4. QED
    BY <2>1, <2>3, <1>2, <1>3, <1>6 DEF KeepInv
<1>11. QED
  BY <1>9, <1>10

(***************************************************************************)
(* The steps of the loop.                                                  *)
(***************************************************************************)
Loops == ListInv /\ MatchInv /\ KeepInv

\* The list and the pending matcher after a step that ends with no problem pending.
LEMMA Closed ==
  ASSUME TypeOK, Loops, NEW line, Reads(line), problem' = NoProblem,
         problems' \in Seq(Problem), Good(problems', Len(log), Attribution),
         Covered(Known, Elements(problems')),
         test_case' = IF line.case = NoCase THEN test_case ELSE line.case,
         line.case # NoCase \/ GetMatcher(line) = None \/ matcher # None,
         matcher' # None =>
           /\ matcher' = matcher
           /\ \/ line.case # NoCase
              \/ IF matchers[matcher].terminated THEN matcher \notin line.stop
                                                 ELSE matcher \in line.match
  PROVE  Loops'
BY ListClosed, MatchClosed, KeepClosed DEF Loops

LEMMA KnownAsItIs ==
  ASSUME TypeOK, ListInv, problem = NoProblem
  PROVE  /\ problems \in Seq(Problem) /\ Good(problems, Len(log), Attribution)
         /\ Covered(Known, Elements(problems))
BY FlushedList DEF Flushed

LEMMA OpenTestCaseStep ==
  ASSUME TypeOK, Loops, NEW line, Reads(line), OpenTestCase(line)
  PROVE  Loops' /\ problems' \in Seq(Problem)
<1>1. /\ line.case # NoCase /\ problems' = Flushed /\ problem' = NoProblem
      /\ test_case' = line.case /\ matcher' = matcher
  BY DEF OpenTestCase
<1>2. /\ problems' \in Seq(Problem) /\ Good(problems', Len(log), Attribution)
      /\ Covered(Known, Elements(problems'))
  BY <1>1, FlushedList DEF Loops
<1>3. QED
  BY <1>1, <1>2, Closed

LEMMA StartProblemStep ==
  ASSUME TypeOK, Loops, NEW line, Reads(line), StartProblem(line)
  PROVE  Loops' /\ problems' \in Seq(Problem) /\ problem' \in Problem
<1>1. /\ line.case = NoCase /\ matcher = None /\ matcher' = GetMatcher(line)
      /\ test_case' = test_case /\ problems' = problems
  BY DEF StartProblem
<1>2. problem = NoProblem
  BY <1>1 DEF TypeOK
<1>3. CASE matcher' = None
  <2>1. problem' = NoProblem
    BY <1>3 DEF StartProblem
  <2>2. /\ problems' \in Seq(Problem) /\ Good(problems', Len(log), Attribution)
        /\ Covered(Known, Elements(problems'))
    BY <1>1, <1>2, KnownAsItIs DEF Loops
  <2>3. Loops'
    BY <1>1, <1>3, <2>1, <2>2, Closed
  <2>4. NoProblem \in Problem
    BY DEF NoProblem, Problem, None
  <2>5. QED
    BY <2>1, <2>2, <2>3, <2>4
<1>4. CASE matcher' # None
  <2>1. problem' = [line_num |-> Len(log) + 1, match |-> matcher', case |-> test_case,
                    lines |-> <<Len(log) + 1>>]
    BY <1>4 DEF StartProblem
  <2>2. /\ problem'.line_num = Len(log) + 1 /\ problem'.case = test_case
        /\ problem'.lines = <<Len(log) + 1>> /\ problem'.match = matcher'
    BY <2>1
  <2>3. Follows(problem', problems, Len(log) + 1, Attribution')
    BY <1>1, <2>2, StartList DEF Loops
  <2>4. ListInv'
    BY <1>1, <2>2, <2>3, ListOpen DEF Loops
  <2>5. MatchInv' /\ KeepInv'
    BY <1>1, <1>2, <2>2, StartExplains DEF Loops
  <2>6. problem' \in Problem
    <3>1. Len(log) + 1 \in Nat /\ matcher' \in Nat /\ test_case \in Cases \cup {NoCase}
      BY <1>1, LogGrows, GetMatcherType DEF TypeOK
    <3>2. <<Len(log) + 1>> \in Seq(Nat)
      BY <3>1
    <3>3. QED
      BY <2>1, <3>1, <3>2 DEF Problem
  <2>7. QED
    BY <1>1, <2>4, <2>5, <2>6 DEF Loops, TypeOK
<1>5. QED
  BY <1>3, <1>4

LEMMA ContinueStep ==
  ASSUME TypeOK, Loops, NEW line, Reads(line), line.case = NoCase, matcher # None, Continue,
         IF matchers[matcher].terminated THEN matcher \notin line.stop ELSE matcher \in line.match
  PROVE  Loops' /\ problems' \in Seq(Problem) /\ problem' \in Problem
<1>1. test_case' = test_case /\ matcher' = matcher /\ problems' = problems
  BY DEF Continue
<1>2. CASE problem = NoProblem
  <2>1. problem' = NoProblem /\ problem' \in Problem
    BY <1>2 DEF Continue, TypeOK
  <2>2. /\ problems' \in Seq(Problem) /\ Good(problems', Len(log), Attribution)
        /\ Covered(Known, Elements(problems'))
    BY <1>1, <1>2, KnownAsItIs DEF Loops
  <2>3. Loops'
    BY <1>1, <2>1, <2>2, Closed
  <2>4. QED
    BY <2>1, <2>2, <2>3
<1>3. CASE problem # NoProblem
  <2>1. problem' = Updated(problem, matcher)
    BY <1>3 DEF Continue
  <2>2. problem' \in Problem /\ problem'.case = test_case
    BY <1>3, <2>1, UpdatedProblem DEF Loops, ListInv
  <2>3. Follows(problem', problems, Len(log) + 1, Attribution')
    BY <1>3, <2>1, UpdatedProblem DEF Loops
  <2>4. ListInv'
    BY <1>1, <2>2, <2>3, ListOpen DEF Loops
  <2>5. MatchInv' /\ KeepInv'
    BY <1>1, <1>3, <2>1, ContinueExplains DEF Loops
  <2>6. QED
    BY <1>1, <2>2, <2>4, <2>5 DEF Loops, TypeOK
<1>4. QED
  BY <1>2, <1>3

LEMMA NoProblemType ==
  NoProblem \in Problem
BY DEF NoProblem, Problem, None

LEMMA TerminatedStep ==
  ASSUME TypeOK, Loops, NEW line, Reads(line), Terminated(line)
  PROVE  Loops' /\ problems' \in Seq(Problem) /\ problem' \in Problem
<1>1. line.case = NoCase /\ matcher # None /\ matchers[matcher].terminated
  BY DEF Terminated
<1>2. CASE matcher \notin line.stop
  BY <1>1, <1>2, ContinueStep DEF Terminated
<1>3. CASE matcher \in line.stop
  <2>1. /\ problems' = IF problem = NoProblem THEN problems ELSE Append(problems, problem)
        /\ problem' = NoProblem /\ matcher' = None /\ test_case' = test_case
    BY <1>3 DEF Terminated
  <2>2. /\ problems' \in Seq(Problem) /\ Good(problems', Len(log), Attribution)
        /\ Covered(Known, Elements(problems'))
    <3>1. CASE problem = NoProblem
      BY <2>1, <3>1, KnownAsItIs DEF Loops
    <3>2. CASE problem # NoProblem
      <4>1. /\ Len(log) \in Nat /\ problems \in Seq(Problem) /\ problem \in Problem
            /\ Good(problems, Len(log), Attribution)
            /\ Follows(problem, problems, Len(log), Attribution)
        BY <3>2 DEF TypeOK, Loops, ListInv
      <4>2. problems' = Append(problems, problem) /\ Known = Elements(problems) \cup {problem}
        BY <2>1, <3>2 DEF Known
      <4>3. Append(problems, problem) \in Seq(Problem)
        BY <4>1
      <4>4. Good(Append(problems, problem), Len(log), Attribution)
        BY <4>1, Adds
      <4>5. Covered(Elements(problems) \cup {problem}, Elements(Append(problems, problem)))
        BY <4>1, Adds
      <4>6. QED
        BY <4>2, <4>3, <4>4, <4>5
    <3>3. QED
      BY <3>1, <3>2
  <2>3. QED
    BY <1>1, <2>1, <2>2, Closed, NoProblemType
<1>4. QED
  BY <1>2, <1>3

LEMMA ExactStep ==
  ASSUME TypeOK, Loops, NEW line, Reads(line), Exact(line)
  PROVE  Loops' /\ problems' \in Seq(Problem) /\ problem' \in Problem
<1>1. line.case = NoCase /\ matcher # None /\ ~matchers[matcher].terminated
  BY DEF Exact
<1>2. CASE matcher \in line.match
  BY <1>1, <1>2, ContinueStep DEF Exact
<1>3. CASE matcher \notin line.match
  <2>1. /\ problems' = Flushed /\ problem' = NoProblem /\ matcher' = None
        /\ test_case' = test_case
    BY <1>3 DEF Exact
  <2>2. /\ problems' \in Seq(Problem) /\ Good(problems', Len(log), Attribution)
        /\ Covered(Known, Elements(problems'))
    BY <2>1, FlushedList DEF Loops
  <2>3. QED
    BY <1>1, <2>1, <2>2, Closed, NoProblemType
<1>4. QED
  BY <1>2, <1>3

\* The rest of the types after a line.
LEMMA LineTypes ==
  ASSUME TypeOK, Loops, NEW line, Reads(line), line \in Lines,
         OpenTestCase(line) \/ StartProblem(line) \/ Terminated(line) \/ Exact(line)
  PROVE  /\ test_case' \in Cases \cup {NoCase}
         /\ matcher' \in 0..Len(matchers)
         /\ problem' # NoProblem => problem'.match = matcher' /\ matcher' # None
<1>1. line.case \in Cases \cup {NoCase}
  BY LogAssumption DEF LineType
<1>2. 0 \in 0..Len(matchers)
  BY DEF TypeOK
<1>3. CASE OpenTestCase(line)
  BY <1>1, <1>3 DEF OpenTestCase, TypeOK
<1>4. CASE StartProblem(line)
  BY <1>4, GetMatcherType DEF StartProblem, TypeOK
<1>5. ASSUME Continue, matcher # None
      PROVE  /\ test_case' \in Cases \cup {NoCase}
             /\ matcher' \in 0..Len(matchers)
             /\ problem' # NoProblem => problem'.match = matcher' /\ matcher' # None
  <2>1. test_case' = test_case /\ matcher' = matcher
    BY <1>5 DEF Continue
  <2>2. CASE problem = NoProblem
    BY <1>5, <2>1, <2>2 DEF Continue, TypeOK
  <2>3. CASE problem # NoProblem
    <3>1. problem' = [problem EXCEPT !.lines = Updated(problem, matcher).lines]
      BY <1>5, <2>3 DEF Continue, Updated, TypeOK, Problem
    <3>2. problem'.match = problem.match
      BY <3>1 DEF TypeOK, Problem
    <3>3. QED
      BY <1>5, <2>1, <2>3, <3>2 DEF TypeOK
  <2>4. QED
    BY <2>2, <2>3
<1>6. CASE Terminated(line)
  BY <1>2, <1>5, <1>6 DEF Terminated, TypeOK, None
<1>7. CASE Exact(line)
  BY <1>2, <1>5, <1>7 DEF Exact, TypeOK, None
<1>8. QED
  BY <1>3, <1>4, <1>6, <1>7

LEMMA ReadLineStep ==
  ASSUME IInv, ReadLine
  PROVE  IInv'
<1>1. PICK line \in Lines :
        /\ log' = Append(log, line)
        /\ OpenTestCase(line) \/ StartProblem(line) \/ Terminated(line) \/ Exact(line)
  BY DEF ReadLine
<1>2. pc = "parsing" /\ pc' = pc /\ matchers' = matchers /\ stored' = stored /\ count' = count
  BY DEF ReadLine
<1>3. TypeOK /\ Loops /\ Reads(line)
  BY <1>1, <1>2, LogAssumption DEF IInv, Loops, Reads
<1>4. Loops' /\ problems' \in Seq(Problem) /\ problem' \in Problem
  <2>1. CASE OpenTestCase(line)
    BY <1>3, <2>1, OpenTestCaseStep, NoProblemType DEF OpenTestCase
  <2>2. CASE StartProblem(line)
    BY <1>3, <2>2, StartProblemStep
  <2>3. CASE Terminated(line)
    BY <1>3, <2>3, TerminatedStep
  <2>4. CASE Exact(line)
    BY <1>3, <2>4, ExactStep
  <2>5. QED
    BY <1>1, <2>1, <2>2, <2>3, <2>4
<1>5. problem'.line_num <= Len(log)'
  <2>1. PICK n \in Nat : n = Len(log')
    BY <1>3, LogGrows
  <2>2. CASE problem' = NoProblem
    BY <2>1, <2>2 DEF NoProblem
  <2>3. CASE problem' # NoProblem
    <3>1. problem'.line_num \in 1..n
      BY <1>4, <2>1, <2>3 DEF Loops, ListInv, Follows, Well
    <3>2. QED
      BY <2>1, <3>1
  <2>4. QED
    BY <2>2, <2>3
<1>6. log' \in Seq(LineType)
  BY <1>3, LogGrows
<1>7. TypeOK'
  BY <1>1, <1>2, <1>3, <1>4, <1>5, <1>6, LineTypes DEF TypeOK
<1>8. PlaceInv'
  BY <1>2 DEF PlaceInv
<1>9. QED
  BY <1>4, <1>7, <1>8 DEF IInv, Loops

----------------------------------------------------------------------------
(* The other actions                                                       *)

\* What a step that reads nothing leaves as it was.
LEMMA SameLog ==
  ASSUME UNCHANGED <<log, matchers>>
  PROVE  /\ Attribution' = Attribution
         /\ CaseIn(log, Len(log))' = CaseIn(log, Len(log))
         /\ \A p, k : Explains(p, k)' = Explains(p, k)
         /\ \A m, l, k : Pending(m, l, k)' = Pending(m, l, k)
         /\ \A k : GetMatcher(log[k])' = GetMatcher(log[k])
<1>1. \A m, l, k : Pending(m, l, k)' = Pending(m, l, k)
  BY DEF Pending
<1>2. \A p, k : Explains(p, k)' = Explains(p, k)
  BY <1>1 DEF Explains
<1>3. \A k : GetMatcher(log[k])' = GetMatcher(log[k])
  BY DEF GetMatcher
<1>4. QED
  BY <1>1, <1>2, <1>3 DEF Attribution

LEMMA SameLoops ==
  ASSUME Loops, UNCHANGED <<log, matchers, test_case, matcher, problem, problems>>
  PROVE  Loops'
<1>1. Known' = Known
  BY DEF Known
<1>2. ListInv'
  BY SameLog DEF Loops, ListInv
<1>3. MatchInv'
  BY <1>1, SameLog DEF Loops, MatchInv
<1>4. KeepInv'
  BY <1>1, SameLog DEF Loops, KeepInv
<1>5. QED
  BY <1>2, <1>3, <1>4 DEF Loops

LEMMA InitIInv ==
  Init => IInv
<1>. SUFFICES ASSUME Init
              PROVE  IInv
  OBVIOUS
<1>1. log = <<>> /\ problems = <<>> /\ problem = NoProblem /\ matcher = None /\ pc = "begin"
  BY DEF Init
<1>2. TypeOK
  <2>1. log \in Seq(LineType) /\ Len(log) = 0 /\ problems \in Seq(Problem)
    BY <1>1
  <2>2. problem.line_num <= Len(log)
    BY <1>1, <2>1 DEF NoProblem
  <2>3. matchers \in Seq(MatcherType) /\ matcher \in 0..Len(matchers)
    BY DEF Init, None
  <2>4. DOMAIN stored = {}
    BY DEF Init
  <2>5. QED
    BY <1>1, <2>1, <2>2, <2>3, <2>4, NoProblemType DEF Init, TypeOK
<1>3. ListInv
  <2>1. Good(problems, Len(log), Attribution)
    BY <1>1 DEF Good
  <2>2. test_case = NoCase /\ CaseIn(log, Len(log)) = NoCase
    BY <1>1 DEF Init, CaseIn, Opened
  <2>3. QED
    BY <1>1, <2>1, <2>2 DEF ListInv
<1>4. MatchInv /\ KeepInv /\ PlaceInv
  BY <1>1 DEF MatchInv, KeepInv, PlaceInv
<1>5. QED
  BY <1>2, <1>3, <1>4 DEF IInv

LEMMA BeginStep ==
  ASSUME IInv, Begin
  PROVE  IInv'
<1>1. /\ log = <<>> /\ problems = <<>> /\ problem = NoProblem /\ matcher = None
      /\ matchers' \in Seq(MatcherType) /\ pc' \in {"parsing", "failed"}
      /\ UNCHANGED <<log, test_case, matcher, problem, problems, stored, count>>
  BY LogAssumption DEF IInv, PlaceInv, Begin
<1>2. TypeOK'
  <2>1. matcher' \in 0..Len(matchers')
    BY <1>1 DEF None
  <2>2. QED
    BY <1>1, <2>1 DEF IInv, TypeOK
<1>3. ListInv'
  <2>1. Attribution' = Attribution /\ CaseIn(log, Len(log))' = CaseIn(log, Len(log))
    BY <1>1 DEF Attribution
  <2>2. QED
    BY <1>1, <2>1 DEF IInv, ListInv
<1>4. MatchInv' /\ KeepInv' /\ PlaceInv'
  BY <1>1 DEF MatchInv, KeepInv, PlaceInv
<1>5. QED
  BY <1>2, <1>3, <1>4 DEF IInv

LEMMA EndOfFileStep ==
  ASSUME IInv, EndOfFile
  PROVE  IInv'
<1>1. /\ problems' = Flushed /\ problem' = NoProblem /\ pc' = "parsed"
      /\ UNCHANGED <<matchers, log, test_case, matcher, stored, count>>
  BY DEF EndOfFile
<1>2. /\ problems' \in Seq(Problem) /\ Good(problems', Len(log), Attribution)
      /\ Covered(Known, Elements(problems')) /\ Known' = Elements(problems')
  BY <1>1, FlushedList DEF IInv, Known
<1>3. TypeOK'
  <2>1. problem'.line_num <= Len(log')
    BY <1>1 DEF NoProblem, IInv, TypeOK
  <2>2. QED
    BY <1>1, <1>2, <2>1, NoProblemType DEF IInv, TypeOK
<1>4. ListInv'
  BY <1>1, <1>2, SameLog DEF IInv, ListInv
<1>5. \A q \in Elements(problems') : q.line_num \in Nat
  <2>1. ASSUME NEW q \in Elements(problems')
        PROVE  q \in Problem
    <3>1. PICK i \in DOMAIN problems' : q = problems'[i]
      BY DEF Elements
    <3>2. QED
      BY <1>2, <3>1
  <2>2. QED
    BY <2>1 DEF Problem
<1>6. ASSUME NEW k \in DOMAIN log, NEW p \in Known, Explains(p, k)
      PROVE  \E q \in Known' : Explains(q, k)'
  <2>1. PICK q \in Elements(problems') :
          q.match = p.match /\ q.line_num <= p.line_num /\ Elements(p.lines) \subseteq Elements(q.lines)
    BY <1>2 DEF Covered
  <2>2. k \in Nat /\ p.line_num \in Nat /\ q.line_num \in Nat
    BY <1>5, LinesRead DEF IInv, TypeOK
  <2>3. p.line_num <= k => q.line_num <= k
    BY <2>1, <2>2
  <2>4. Explains(q, k)
    BY <1>6, <2>1, <2>3 DEF Explains
  <2>5. Explains(q, k)'
    BY <2>4, <1>1, SameLog
  <2>6. QED
    BY <1>2, <2>5
<1>7. MatchInv'
  <2>1. \A k \in DOMAIN log : log[k].case = NoCase /\ GetMatcher(log[k]) # None
                               => \E q \in Known' : Explains(q, k)'
    BY <1>6 DEF IInv, MatchInv
  <2>2. \A k : GetMatcher(log[k])' = GetMatcher(log[k])
    BY <1>1, SameLog
  <2>3. QED
    BY <1>1, <2>1, <2>2 DEF MatchInv
<1>8. KeepInv'
  <2>1. PICK m : m = matcher /\ m = matcher'
    BY <1>1
  <2>2. ASSUME m # None
        PROVE  \E q \in Known' : /\ q.match = m
                                 /\ \E l \in Elements(q.lines) : Pending(m, l, Len(log) + 1)
    <3>1. PICK p \in Known : /\ p.match = m
                             /\ \E l \in Elements(p.lines) : Pending(m, l, Len(log) + 1)
      BY <2>1, <2>2 DEF IInv, KeepInv
    <3>2. PICK q \in Elements(problems') :
            q.match = p.match /\ Elements(p.lines) \subseteq Elements(q.lines)
      BY <1>2 DEF Covered
    <3>3. QED
      BY <1>2, <3>1, <3>2
  <2>3. \A l : Pending(m, l, Len(log) + 1)' = Pending(m, l, Len(log) + 1)
    BY <1>1 DEF Pending
  <2>4. QED
    BY <2>1, <2>2, <2>3 DEF KeepInv
<1>9. PlaceInv'
  BY <1>1 DEF PlaceInv
<1>10. QED
  BY <1>3, <1>4, <1>7, <1>8, <1>9 DEF IInv

LEMMA StoreStep ==
  ASSUME IInv, Store
  PROVE  IInv'
<1>1. /\ stored' = [n \in {problems[i].line_num : i \in DOMAIN problems} |->
                      problems[CHOOSE i \in DOMAIN problems : problems[i].line_num = n]]
      /\ pc = "parsed" /\ pc' = "stored" /\ count' = Len(problems)
      /\ UNCHANGED <<matchers, log, test_case, matcher, problem, problems>>
  BY DEF Store
<1>2. Loops'
  BY <1>1, SameLoops DEF IInv, Loops
<1>3. problems \in Seq(Problem) /\ Good(problems, Len(log), Attribution)
  BY DEF IInv, TypeOK, ListInv
<1>4. PICK n \in Nat : DOMAIN problems = 1..n
  BY <1>3
<1>5. ASSUME NEW i \in 1..n, NEW j \in 1..n, problems[i].line_num = problems[j].line_num
      PROVE  i = j
  <2>1. problems[i].line_num \in Nat /\ problems[j].line_num \in Nat
    <3>1. problems[i] \in Problem /\ problems[j] \in Problem
      BY <1>3, <1>4
    <3>2. \A p \in Problem : p.line_num \in Nat
      BY DEF Problem
    <3>3. QED
      BY <3>1, <3>2
  <2>2. \A a, b \in 1..n : a < b => problems[a].line_num < problems[b].line_num
    BY <1>3, <1>4 DEF Good, Precedes
  <2>3. ~(i < j) /\ ~(j < i)
    BY <1>5, <2>1, <2>2
  <2>4. QED
    BY <2>3
<1>6. ASSUME NEW i \in 1..n
      PROVE  stored'[problems[i].line_num] = problems[i]
  <2>1. (CHOOSE j \in DOMAIN problems : problems[j].line_num = problems[i].line_num) = i
    BY <1>4, <1>5
  <2>2. QED
    BY <1>1, <1>4, <2>1
<1>7. \A m \in DOMAIN stored' : stored'[m] \in Problem
  <2>1. ASSUME NEW m \in DOMAIN stored'
        PROVE  stored'[m] \in Problem
    <3>1. PICK i \in 1..n : m = problems[i].line_num
      BY <1>1, <1>4
    <3>2. QED
      BY <1>3, <1>4, <1>6, <3>1
  <2>2. QED
    BY <2>1
<1>8. TypeOK'
  BY <1>1, <1>3, <1>7 DEF IInv, TypeOK
<1>9. PlaceInv'
  BY <1>1, <1>4, <1>6 DEF IInv, PlaceInv
<1>10. QED
  BY <1>2, <1>8, <1>9 DEF IInv, Loops

LEMMA StepIInv ==
  IInv /\ [Next]_vars => IInv'
<1>. SUFFICES ASSUME IInv, [Next]_vars
              PROVE  IInv'
  OBVIOUS
<1>1. CASE Begin
  BY <1>1, BeginStep
<1>2. CASE ReadLine
  BY <1>2, ReadLineStep
<1>3. CASE EndOfFile
  BY <1>3, EndOfFileStep
<1>4. CASE Store
  BY <1>4, StoreStep
<1>5. CASE StoreFails
  <2>1. /\ pc = "parsed" /\ pc' = "failed"
        /\ UNCHANGED <<matchers, log, test_case, matcher, problem, problems, stored, count>>
    BY <1>5 DEF StoreFails
  <2>2. Loops'
    BY <2>1, SameLoops DEF IInv, Loops
  <2>3. TypeOK' /\ PlaceInv'
    BY <2>1 DEF IInv, TypeOK, PlaceInv
  <2>4. QED
    BY <2>2, <2>3 DEF IInv, Loops
<1>6. CASE UNCHANGED vars
  <2>1. Loops'
    BY <1>6, SameLoops DEF IInv, Loops, vars
  <2>2. TypeOK' /\ PlaceInv'
    BY <1>6 DEF IInv, TypeOK, PlaceInv, vars
  <2>3. QED
    BY <2>1, <2>2 DEF IInv, Loops
<1>7. QED
  BY <1>1, <1>2, <1>3, <1>4, <1>5, <1>6 DEF Next

LEMMA Invariant ==
  Spec => []IInv
<1>1. Init => IInv
  BY InitIInv
<1>2. IInv /\ [Next]_vars => IInv'
  BY StepIInv
<1>3. QED
  BY <1>1, <1>2, PTL DEF Spec

----------------------------------------------------------------------------
(* The properties                                                          *)

\* The type invariant: a pending problem is one of the matcher that is pending,
\* whatever the order of its matches, terminators and test cases.
THEOREM TypeCorrect ==
  Spec => []TypeOK
<1>1. IInv => TypeOK
  BY DEF IInv
<1>2. QED
  BY <1>1, Invariant, PTL

\* No line is reported twice or out of order, and each problem is in the CDB under
\* a key of its own.
THEOREM ProblemsInOrder ==
  Spec => []InOrder
<1>1. IInv => InOrder
  <2>. SUFFICES ASSUME IInv
                PROVE  InOrder
    OBVIOUS
  <2>1. problems \in Seq(Problem) /\ Good(problems, Len(log), Attribution) /\ Len(log) \in Nat
    BY DEF IInv, TypeOK, ListInv
  <2>2. \A i \in DOMAIN problems : Well(problems[i], Len(log), Attribution) /\ problems[i].line_num \in Nat
    <3>1. \A i \in DOMAIN problems : problems[i] \in Problem
      BY <2>1
    <3>2. \A p \in Problem : p.line_num \in Nat
      BY DEF Problem
    <3>3. QED
      BY <2>1, <3>1, <3>2 DEF Good
  <2>3. ASSUME NEW i \in DOMAIN problems, NEW j \in DOMAIN problems, i < j
        PROVE  /\ problems[i].line_num < problems[j].line_num
               /\ \A k \in Elements(problems[i].lines), l \in Elements(problems[j].lines) : k < l
    <3>1. Precedes(problems[i], problems[j].line_num)
      BY <2>1, <2>3 DEF Good
    <3>2. PICK n \in Nat, low \in Nat, mid \in Nat :
            n = Len(log) /\ low = problems[i].line_num /\ mid = problems[j].line_num
      BY <2>1, <2>2
    <3>3. \A k \in Elements(problems[i].lines) : k \in low..n /\ k < mid
      BY <2>2, <3>1, <3>2 DEF Well, Precedes
    <3>4. \A l \in Elements(problems[j].lines) : l \in mid..n
      BY <2>2, <3>2 DEF Well
    <3>5. \A k \in low..n, l \in mid..n : k < mid => k < l
      OBVIOUS
    <3>6. QED
      BY <3>1, <3>3, <3>4, <3>5 DEF Precedes
  <2>4. ASSUME NEW i \in DOMAIN problems
        PROVE  LET lines == problems[i].lines
               IN /\ \A k, l \in DOMAIN lines : k < l => lines[k] < lines[l]
                  /\ \A k \in DOMAIN lines : lines[k] >= problems[i].line_num
    <3>1. PICK low \in Nat, n \in Nat : low = problems[i].line_num /\ n = Len(log)
      BY <2>1, <2>2
    <3>2. Sorted(problems[i].lines) /\ \A k \in Elements(problems[i].lines) : k \in low..n
      BY <2>2, <3>1 DEF Well
    <3>3. \A k \in low..n : k >= low
      OBVIOUS
    <3>4. QED
      BY <3>1, <3>2, <3>3 DEF Sorted, Elements
  <2>5. pc = "stored" => \A i \in DOMAIN problems : stored[problems[i].line_num] = problems[i]
    BY DEF IInv, PlaceInv
  <2>6. QED
    BY <2>3, <2>4, <2>5 DEF InOrder
<1>2. QED
  BY <1>1, Invariant, PTL

\* Every line of a problem comes from the test case that the problem names.
THEOREM ProblemsOfTheirCase ==
  Spec => []RightCase
<1>1. IInv => RightCase
  <2>. SUFFICES ASSUME IInv, NEW i \in DOMAIN problems, NEW k \in Elements(problems[i].lines)
                PROVE  CaseAt(k) = problems[i].case
    BY DEF RightCase
  <2>1. Well(problems[i], Len(log), Attribution)
    BY DEF IInv, ListInv, Good
  <2>2. Attribution[k] = problems[i].case
    BY <2>1 DEF Well
  <2>3. k \in 0..Len(log)
    <3>1. problems[i] \in Known
      BY DEF Known, Elements
    <3>2. PICK p \in Known : p = problems[i]
      BY <3>1
    <3>3. k \in 1..Len(log)
      BY <3>2, LinesRead DEF IInv
    <3>4. QED
      BY <3>3
  <2>4. QED
    BY <2>2, <2>3, CaseAtIn DEF Attribution
<1>2. QED
  BY <1>1, Invariant, PTL

\* A line that matches is reported, or a line that is says why it is not.
THEOREM MatchesAreFound ==
  Spec => []MatchesFound
<1>1. IInv => MatchesFound
  <2>. SUFFICES ASSUME IInv, pc = "parsed", NEW k \in DOMAIN log, log[k].case = NoCase,
                       GetMatcher(log[k]) # None, k \notin Reported
                PROVE  \E i \in DOMAIN problems : \E l \in Elements(problems[i].lines) :
                         \/ l < k /\ Pending(problems[i].match, l, k)
                         \/ /\ l > k /\ problems[i].line_num <= k
                            /\ matchers[problems[i].match].max_lines > 0
    BY DEF MatchesFound
  <2>1. PICK p \in Known : Explains(p, k)
    BY DEF IInv, MatchInv
  <2>2. PICK i \in DOMAIN problems : p = problems[i]
    BY DEF IInv, PlaceInv, Known, Elements
  <2>3. k \notin Elements(p.lines)
    BY <2>2 DEF Reported
  <2>4. QED
    BY <2>1, <2>2, <2>3 DEF Explains
<1>2. QED
  BY <1>1, Invariant, PTL
=============================================================================
