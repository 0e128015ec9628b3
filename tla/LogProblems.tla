---------------------------- MODULE LogProblems ----------------------------
(***************************************************************************)
(* parse-log-errors: op/parse_log_errors.py reads a log line by line and   *)
(* gathers clusters of lines that match error patterns; the action stores  *)
(* them in the CDB list parsed-problems, whose key is the line number.     *)
(*                                                                         *)
(* A line is what the parser finds in it: which patterns match it, which   *)
(* terminators it contains, and whether it opens a test case.  The log may *)
(* be the one that is being written to; it ends at any line.               *)
(***************************************************************************)
EXTENDS Naturals, Sequences

CONSTANTS
  Lines,        (* the lines that a log may have                           *)
  Cases,        (* test cases                                              *)
  NoCase,       (* no test case, "----unknown----" in the result           *)
  Patterns,     (* the error patterns that may be configured               *)
  MaxLog        (* bound: lines of the log                                 *)

VARIABLES
  pc,           (* where ParseLogErrorsOp.perform() is                     *)
  matchers,     (* ProblemsParser.matchers                                 *)
  log,          (* the lines that have been read                           *)
  test_case,    (* pending.test_case                                       *)
  matcher,      (* pending.matcher, as its position in matchers            *)
  problem,      (* pending.problem                                         *)
  problems,     (* the result of gather_problems()                         *)
  stored,       (* CDB: parsed-problems, by line number                    *)
  count         (* CDB: their count                                        *)

vars == <<pc, matchers, log, test_case, matcher, problem, problems, stored, count>>

None == 0

\* terminated: whether there is a match_stop; max_lines: 0 for no limit.
MatcherType == [terminated : BOOLEAN, max_lines : Nat]
LineType == [match : SUBSET Nat, stop : SUBSET Nat, case : Cases \cup {NoCase}]

\* line_num, match_start, test_case and lines; a line as its number in the log.
Problem == [line_num : Nat, match : Nat, case : Cases \cup {NoCase}, lines : Seq(Nat)]
NoProblem == [line_num |-> 0, match |-> None, case |-> NoCase, lines |-> <<>>]

ASSUME LogAssumption ==
  /\ Lines \subseteq LineType
  /\ Patterns \subseteq Seq(MatcherType)
  /\ NoCase \notin Cases
  /\ MaxLog \in Nat

\* The type of each variable; a problem is pending only with its matcher.
TypeOK ==
  /\ pc \in {"begin", "parsing", "parsed", "stored", "failed"}
  /\ matchers \in Seq(MatcherType) /\ log \in Seq(LineType)
  /\ test_case \in Cases \cup {NoCase}
  /\ matcher \in 0..Len(matchers)
  /\ problem \in Problem /\ problem.line_num <= Len(log)
  /\ problem # NoProblem => problem.match = matcher /\ matcher # None
  /\ problems \in Seq(Problem)
  /\ \A n \in DOMAIN stored : stored[n] \in Problem
  /\ count \in Nat

Init ==
  /\ pc = "begin" /\ matchers = <<>> /\ log = <<>>
  /\ test_case = NoCase /\ matcher = None /\ problem = NoProblem /\ problems = <<>>
  /\ stored = <<>> /\ count = 0

Begin ==
  /\ pc = "begin"
  /\ matchers' \in Patterns
  /\ pc' \in {"parsing", "failed"}
  /\ UNCHANGED <<log, test_case, matcher, problem, problems, stored, count>>

\* The first matcher that matches.
GetMatcher(line) ==
  LET found == line.match \cap DOMAIN matchers
  IN IF found = {} THEN None ELSE CHOOSE m \in found : \A n \in found : m <= n

(***************************************************************************)
(* Adding to the pending problem, which is then a problem of its own or    *)
(* goes with the last one.                                                 *)
(***************************************************************************)
Updated(pr, m) ==
  LET lines == Append(pr.lines, Len(log) + 1)
  IN [pr EXCEPT !.lines = IF matchers[m].max_lines \in 1..Len(pr.lines) THEN Tail(lines)
                                                                         ELSE lines]

\* Mutant: problems are merged whatever their test cases.
DoMergeAnyCase(pr) ==
  problems # <<>> /\ problems[Len(problems)].match = pr.match

DoMerge(pr) ==
  /\ problems # <<>>
  /\ problems[Len(problems)].match = pr.match
  /\ problems[Len(problems)].case = pr.case

AddNew(pr) ==
  IF DoMerge(pr) THEN [problems EXCEPT ![Len(problems)].lines = @ \o pr.lines]
                 ELSE Append(problems, pr)

Flushed == IF problem = NoProblem THEN problems ELSE AddNew(problem)

(***************************************************************************)
(* The loop of gather_problems(), by the kind of line and what is pending. *)
(***************************************************************************)
\* The matcher stays: after a problem of it, lines go on to be matched by it.
OpenTestCase(line) ==
  /\ line.case # NoCase
  /\ problems' = Flushed /\ problem' = NoProblem
  /\ test_case' = line.case
  /\ UNCHANGED matcher

StartProblem(line) ==
  /\ line.case = NoCase /\ matcher = None
  /\ matcher' = GetMatcher(line)
  /\ problem' =
       IF matcher' = None THEN NoProblem
       ELSE [line_num |-> Len(log) + 1, match |-> matcher', case |-> test_case,
             lines |-> <<Len(log) + 1>>]
  /\ UNCHANGED <<test_case, problems>>

Continue ==
  /\ problem' = IF problem = NoProblem THEN NoProblem ELSE Updated(problem, matcher)
  /\ UNCHANGED <<test_case, matcher, problems>>

\* Mutant: the problem stays pending after its terminator.
TerminatedKeepsProblem(line) ==
  /\ line.case = NoCase /\ matcher # None /\ matchers[matcher].terminated
  /\ IF matcher \in line.stop
     THEN /\ problems' = IF problem = NoProblem THEN problems ELSE Append(problems, problem)
          /\ matcher' = None
          /\ UNCHANGED <<test_case, problem>>
     ELSE Continue

\* With a terminator the problem is never merged with the one before.
Terminated(line) ==
  /\ line.case = NoCase /\ matcher # None /\ matchers[matcher].terminated
  /\ IF matcher \in line.stop
     THEN /\ problems' = IF problem = NoProblem THEN problems ELSE Append(problems, problem)
          /\ problem' = NoProblem /\ matcher' = None
          /\ UNCHANGED test_case
     ELSE Continue

\* Mutant: the problem stays pending after its last line.
ExactKeepsProblem(line) ==
  /\ line.case = NoCase /\ matcher # None /\ ~matchers[matcher].terminated
  /\ IF matcher \in line.match
     THEN Continue
     ELSE /\ problems' = Flushed /\ matcher' = None
          /\ UNCHANGED <<test_case, problem>>

\* "two different matches cannot run in sequence with no separation": the line
\* that ends a cluster starts none.
Exact(line) ==
  /\ line.case = NoCase /\ matcher # None /\ ~matchers[matcher].terminated
  /\ IF matcher \in line.match
     THEN Continue
     ELSE /\ problems' = Flushed /\ problem' = NoProblem /\ matcher' = None
          /\ UNCHANGED test_case

ReadLine ==
  /\ pc = "parsing" /\ Len(log) < MaxLog
  /\ \E line \in Lines :
       /\ log' = Append(log, line)
       /\ OpenTestCase(line) \/ StartProblem(line) \/ Terminated(line) \/ Exact(line)
  /\ UNCHANGED <<pc, matchers, stored, count>>

\* Mutant: a cluster that goes on to the end of the log is not added.
EndOfFileDrops ==
  /\ pc = "parsing"
  /\ problem' = NoProblem /\ pc' = "parsed"
  /\ UNCHANGED <<matchers, log, test_case, matcher, problems, stored, count>>

EndOfFile ==
  /\ pc = "parsing"
  /\ problems' = Flushed /\ problem' = NoProblem
  /\ pc' = "parsed"
  /\ UNCHANGED <<matchers, log, test_case, matcher, stored, count>>

\* One transaction: the old list is deleted, and each problem created by its key.
Store ==
  /\ pc = "parsed"
  /\ stored' = [n \in {problems[i].line_num : i \in DOMAIN problems} |->
                  problems[CHOOSE i \in DOMAIN problems : problems[i].line_num = n]]
  /\ count' = Len(problems)
  /\ pc' = "stored"
  /\ UNCHANGED <<matchers, log, test_case, matcher, problem, problems>>

StoreFails ==
  /\ pc = "parsed"
  /\ pc' = "failed"
  /\ UNCHANGED <<matchers, log, test_case, matcher, problem, problems, stored, count>>

Next == Begin \/ ReadLine \/ EndOfFile \/ Store \/ StoreFails

Spec == Init /\ [][Next]_vars

(***************************************************************************)
(* Properties.                                                             *)
(***************************************************************************)
Elements(q) == {q[i] : i \in DOMAIN q}
Reported == UNION {Elements(problems[i].lines) : i \in DOMAIN problems}

\* The test case of line k: the one that was opened last.
CaseAt(k) ==
  LET opened == {i \in 1..k : log[i].case # NoCase}
  IN IF opened = {} THEN NoCase
     ELSE log[CHOOSE i \in opened : \A j \in opened : j <= i].case

\* No line is reported twice or out of order, in a problem or in two, and the
\* line numbers, the keys of the CDB list, are distinct: count is right.
InOrder ==
  /\ \A i, j \in DOMAIN problems : i < j =>
       /\ problems[i].line_num < problems[j].line_num
       /\ \A k \in Elements(problems[i].lines), l \in Elements(problems[j].lines) : k < l
  /\ \A i \in DOMAIN problems :
       LET lines == problems[i].lines
       IN /\ \A k, l \in DOMAIN lines : k < l => lines[k] < lines[l]
          /\ \A k \in DOMAIN lines : lines[k] >= problems[i].line_num
  /\ pc = "stored" => \A i \in DOMAIN problems : stored[problems[i].line_num] = problems[i]

\* Every line of a problem comes from the test case that the problem names,
\* also when clusters are merged, or cut by the beginning of a test case.
RightCase ==
  \A i \in DOMAIN problems : \A k \in Elements(problems[i].lines) :
     CaseAt(k) = problems[i].case

\* The matcher m of line i is still pending when line k is read.
Pending(m, i, k) ==
  \A j \in i + 1..k - 1 :
     \/ log[j].case # NoCase
     \/ IF matchers[m].terminated THEN m \notin log[j].stop ELSE m \in log[j].match

\* A line that matches is reported, unless a matcher is pending since an earlier
\* line that is: then it is cut for max-lines, or it ends that cluster, or a test
\* case has opened meanwhile.
MatchesFound ==
  pc = "parsed" => \A k \in DOMAIN log :
    log[k].case = NoCase /\ GetMatcher(log[k]) # None /\ k \notin Reported =>
      \E i \in DOMAIN problems : \E l \in Elements(problems[i].lines) :
        \/ l < k /\ Pending(problems[i].match, l, k)
        \/ /\ l > k /\ problems[i].line_num <= k
           /\ matchers[problems[i].match].max_lines > 0

\* A cluster that begins a test case is found: README.md says of the action that
\* it "greps" all the clusters of lines that match.  Not so: the matcher of the
\* cluster before the test case is still pending.
FirstClustersFound ==
  pc = "parsed" => \A k \in 2..Len(log) :
    /\ log[k - 1].case # NoCase /\ log[k].case = NoCase
    /\ \E m \in log[k].match \cap DOMAIN matchers : matchers[m].max_lines = 0
    => \E i \in DOMAIN problems : k \in Elements(problems[i].lines)
=============================================================================
