--------------------------- MODULE ActionLearning ---------------------------
(***************************************************************************)
(* A fleet learning which action resolves one situation.  Each run asks    *)
(* for guidance, takes the actions the guidance orders, closes the failed  *)
(* attempts and commits an outcome; the outcomes are the record the next   *)
(* guidance is computed from.  What resolves the situation may change      *)
(* under them, for all tasks or for those with one value of a covariate.   *)
(*                                                                         *)
(* Row i of the record is the i-th outcome committed.  All rows carry the  *)
(* situation's label, lie within a day and weigh the same.                 *)
(***************************************************************************)
EXTENDS Integers, Sequences, FiniteSets, SequencesExt

CONSTANTS
  Size,       \* the actions are 1 .. Size, in the order of their keys
  Agents,
  Hash,       \* Hash[a]: the digest of the name of a
  Sides,      \* values of the covariate
  Declared,   \* runs declare it
  Budget,     \* attempts a task allows
  PlanMax,    \* PLAN_MAX
  MaxRows,    \* bound: outcomes committed
  MaxTurns    \* bound: changes of what resolves the situation

Actions == 1 .. Size

ASSUME LearningAssumption ==
  /\ Size \in Nat \ {0} /\ Budget \in Nat \ {0} /\ PlanMax \in Nat \ {0}
  /\ Hash \in [Agents -> Nat] /\ Declared \in BOOLEAN

VARIABLES
  record,  \* the outcomes committed, oldest first
  fix,     \* fix[s]: what resolves a task on side s
  turns,   \* changes so far
  since,   \* outcomes committed when the last change happened
  run      \* run[a]: the run agent a is in

vars == <<record, fix, turns, since, run>>

None == 0

NoRun == [open |-> FALSE]

\* A run of a task on a side, begun when the record had at outcomes.
OpenRun(side, at, acts, advice) ==
  [open |-> TRUE, side |-> side, at |-> at, acts |-> acts, advice |-> advice]

\* The attempts that failed, and what resolved the task, if anything did.
Row == [failed : Seq(Actions), fixed : Actions \cup {None}, side : Sides]

-----------------------------------------------------------------------------
(* aggregate_priors: how each action has fared.                            *)

Wins(k) == {i \in DOMAIN record : record[i].fixed = k}

Losses(k) == {i \in DOMAIN record : k \in Range(record[i].failed)}

Tries(k) == Wins(k) \cup Losses(k)

Latest(S) == IF S = {} THEN 0 ELSE CHOOSE i \in S : \A j \in S : j <= i

Earliest(S) == CHOOSE i \in S : \A j \in S : i <= j

Won(k) == Cardinality(Wins(k))
N(k) == Cardinality(Tries(k))

\* The newest run of losses.
Streak(k) == {i \in Losses(k) : i > Latest(Wins(k))}

\* p, the Beta posterior (won + 1) / (n + 2), against a / 10.
AtLeast(k, a) == 10 * (Won(k) + 1) >= a * (N(k) + 2)

Better(j, k) ==
  LET pj == (Won(j) + 1) * (N(k) + 2)
      pk == (Won(k) + 1) * (N(j) + 2)
  IN  \/ pj > pk
      \/ pj = pk /\ (N(j) > N(k) \/ (N(j) = N(k) /\ j < k))

TriedSet == {k \in Actions : Tries(k) # {}}

\* Of some rows of "tried", the one it lists first.
Best(S) == CHOOSE j \in S : \A k \in S \ {j} : Better(j, k)

\* The outcomes in which an attempt failed and another action resolved the
\* task: contrasts, all of weight one.
Contrasts == {i \in DOMAIN record : record[i].fixed # None /\ record[i].failed # <<>>}

FailedIn(i) == Range(record[i].failed)

Unsolved == {i \in DOMAIN record : record[i].fixed = None}

-----------------------------------------------------------------------------
(* What an action's record says.                                           *)

RecentFailStreak == 3

RecentlyFailing(k) == Cardinality(Streak(k)) >= RecentFailStreak

Turned(k) == Won(k) >= 2 /\ Cardinality(Streak(k)) >= 2

\* Mutant of TurnedUnsolved: one loss is forgiven here too.
TurnedUnsolvedAtTwo(k) == Won(k) >= 2 /\ Cardinality(Streak(k)) >= 2

TurnedUnsolved(k) == Won(k) >= 1 /\ Streak(k) # {} /\ Latest(Tries(k)) \in Unsolved

StoppedWorking(k) == RecentlyFailing(k) \/ Turned(k) \/ TurnedUnsolved(k)

\* Mutant of ExactFirstWin: one win may be luck.
ExactSecondWin(k) == Won(k) >= 2 /\ Streak(k) = {}

ExactFirstWin(k) == Won(k) >= 1 /\ Streak(k) = {}

IsWinner(k) ==
  /\ ~StoppedWorking(k)
  /\ \/ ExactFirstWin(k) /\ Losses(k) = {}
     \/ AtLeast(k, 6) /\ (N(k) >= 2 \/ ExactFirstWin(k))

IsLoser(k) == (~AtLeast(k, 4) /\ N(k) >= 2) \/ StoppedWorking(k)

FailedNow(k) == IsLoser(k) \/ Won(k) = 0

\* Another action has won since k turned.
Superseded(k) ==
  /\ TurnedUnsolved(k)
  /\ \E j \in TriedSet \ {k} : ExactFirstWin(j) /\ Latest(Tries(j)) >= Latest(Tries(k))

\* When the fix stopped working: the start of the losing run of the action
\* with most wins among those that have stopped; 0 if none has.
RegimeTurnAt ==
  LET S    == {k \in TriedSet : Won(k) >= 1 /\ StoppedWorking(k) /\ Streak(k) # {}}
      Most == {k \in S : \A j \in S : Won(j) <= Won(k)}
  IN  IF S = {} THEN 0 ELSE Earliest({Earliest(Streak(k)) : k \in Most})

\* Mutant of IsStale: a failure is a failure.
IsStaleNever(k) == FALSE

\* Actions that only ever failed, and before that.
IsStale(k) == Won(k) = 0 /\ Latest(Tries(k)) < RegimeTurnAt

-----------------------------------------------------------------------------
(* The order of the untried, for agent a among the candidates C.           *)

InKeyOrder(S) == SetToSortSeq(S, <)

\* The candidates with no record here, or a void one.
Untried(C) == {k \in C : k \in TriedSet => IsStale(k)}

\* with_stale: those whose record is void come first.
WithStale(C) ==
  SetToSortSeq(Untried(C) \cap TriedSet, Better) \o InKeyOrder(Untried(C) \ TriedSet)

Bucket(a, n) == IF n = 0 THEN 0 ELSE (Hash[a] % n)

Rotated(a, s) == [n \in DOMAIN s |-> s[((Bucket(a, Len(s)) + n - 1) % Len(s)) + 1]]

\* sweep_order, when there is no record of other situations.
SweepOrder(a, s) ==
  SelectSeq(Rotated(a, s), LAMBDA k : k \in TriedSet /\ IsStale(k))
  \o SelectSeq(Rotated(a, s), LAMBDA k : ~(k \in TriedSet /\ IsStale(k)))

Sweep == Unsolved # {}

Exploring(a, s) == IF Sweep THEN SweepOrder(a, s) ELSE Rotated(a, s)

-----------------------------------------------------------------------------
(* contested_record: an action that has lost since some point, and still   *)
(* wins for part of the situation.                                         *)

OnSide(S, sides) == {i \in S : record[i].side \in sides}

From(S, i) == {j \in S : j >= i}

Upto(S, i) == {j \in S : j < i}

\* split_contested on the covariate, with the contest of k dated from row i:
\* the values it fails on, or none.
Split(k, i) ==
  LET tries  == From(Tries(k), i)
      values == {record[j].side : j \in Tries(k)}
      losses(S) == OnSide(From(Losses(k), i), S)
      wins(S)   == OnSide(From(Wins(k), i), S)
      fails  == {s \in values : Cardinality(losses({s})) > Cardinality(wins({s}))}
      works  == values \ fails
      seldom == {s \in values : Cardinality(OnSide(Tries(k), {s})) = 1}
      exceptions == wins(fails) \cup OnSide(Losses(k), works)
  IN  IF /\ Declared
         /\ Cardinality(values) >= 2 /\ fails # {} /\ works # {}
         /\ 4 * Cardinality(seldom) <= 3 * Cardinality(values)
         /\ Cardinality(losses(fails)) >= 2
         /\ Cardinality(OnSide(Wins(k), works)) >= 2 /\ wins(works) # {}
         /\ Cardinality(exceptions) <= 1
      THEN fails ELSE {}

\* Losses that some win of k preceded.
Starts(k) == {i \in Losses(k) : Upto(Wins(k), i) # {}}

SplitAt(k) == {i \in Starts(k) : Split(k, i) # {}}

OrElse(S, T) == IF S # {} THEN S ELSE T

ContestedSince(k) == Earliest(OrElse(SplitAt(k), Starts(k)))

\* It has a rule, or it still wins, or it has lost only once.
IsContested(k) ==
  /\ Won(k) >= 2 /\ Starts(k) # {}
  /\ \/ SplitAt(k) # {}
     \/ From(Wins(k), Earliest(Starts(k))) # {}
     \/ Cardinality(From(Losses(k), Earliest(Starts(k)))) = 1

MoreWins(j, k) == Won(j) > Won(k) \/ (Won(j) = Won(k) /\ j < k)

Leading(S) == IF S = {} THEN None ELSE CHOOSE j \in S : \A k \in S \ {j} : MoreWins(j, k)

\* The contested action, or None.
Contested == Leading({k \in TriedSet : IsContested(k)})

SplitFrom(k, split) == IF split = {} THEN {} ELSE Split(k, Earliest(split))

FailingSides(k) == SplitFrom(k, SplitAt(k))

\* side_record: what the others have done since, on the failing side if there
\* is one.  Most wins first, then the first to have been tried there.
SideRows(since_, rule) ==
  {i \in From(DOMAIN record, since_) : rule # {} => record[i].side \in rule}

SideRecord(k, rows) ==
  LET wins(j)  == Wins(j) \cap rows
      first(j) == Earliest(Tries(j) \cap rows)
      place(j) == IF first(j) \in Wins(j) THEN Size
                  ELSE CHOOSE n \in 1 .. Size : record[first(j)].failed[n] = j
      Before(i, j) ==
        \/ Cardinality(wins(i)) > Cardinality(wins(j))
        \/ /\ Cardinality(wins(i)) = Cardinality(wins(j))
           /\ \/ first(i) < first(j)
              \/ first(i) = first(j) /\ place(i) < place(j)
  IN  SetToSortSeq({j \in TriedSet \ {k} : Tries(j) \cap rows # {}}, Before)

-----------------------------------------------------------------------------
(* recommend: a mode, the action suggested, what a plan opens with, and    *)
(* whether it says what the record is contested by.                        *)

Advice(mode, action, opens) ==
  [mode |-> mode, action |-> action, opens |-> opens, contested |-> FALSE]

Silent == Advice("none", None, <<>>)

Act(k) == Advice("act", k, <<k>>)

Explore(k) == Advice("explore", k, IF k = None THEN <<>> ELSE <<k>>)

Say(mode) == Advice(mode, None, <<>>)

\* The untried of the failing side, as the assignment of agent a.
Opened(C, k, side) == InKeyOrder(C \ ({k} \cup Range(side)))

Assigned(a, s) == IF s = <<>> THEN None ELSE s[Bucket(a, Len(s)) + 1]

Conditional(a, k, there, open) ==
  Advice("conditional", None,
         IF there # <<>> THEN <<there[1], k>> \o open ELSE Append(Rotated(a, open), k))

\* What the record of the failing side says: there, the others that have won
\* on its rows; open, the untried.
OnFailingSide(a, k, rule, lost, seen, rows, there, open) ==
  LET best == IF there # <<>> THEN there[1] ELSE Assigned(a, open)
      sure == there # <<>> /\ (\/ Cardinality(Wins(best) \cap rows) >= 2
                              \/ Losses(best) \cap rows = {})
  IN  IF rule = {} THEN IF Cardinality(lost) < 2 THEN Silent ELSE Explore(best)
      ELSE IF seen = {} THEN Conditional(a, k, there, open)
      ELSE IF sure THEN Act(best) ELSE Explore(best)

\* _recommend_contested among C, when k is contested since then and fails for
\* the sides of the rule, for a task known to be on one of the sides seen:
\* none if the run has not declared it.
RecommendContested(a, C, seen, k, since_, rule) ==
  LET there(side, rows) == SelectSeq(side, LAMBDA j : j \in C /\ Wins(j) \cap rows # {})
      told(side, rows) == OnFailingSide(a, k, rule, From(Losses(k), since_), seen, rows,
                                        there(side, rows), Opened(C, k, side))
      of(rows) == told(SideRecord(k, rows), rows)
  IN  IF seen # {} /\ rule # {} /\ seen \cap rule = {}
      THEN IF k \in C THEN Act(k) ELSE Silent
      ELSE of(SideRows(since_, rule))

\* pooled_classes: two actions each of which has resolved what the other
\* failed, and that have taken turns at it more than once.
Pooled ==
  Cardinality(Contrasts) >= 3 /\ \E j, k \in Actions :
    LET over(x, y) == {i \in Contrasts : record[i].fixed = x /\ y \in FailedIn(i)}
        both == over(j, k) \cup over(k, j)
        next(i) == Earliest({h \in both : h > i})
        reversals == {i \in both : i # Latest(both) /\ record[i].fixed # record[next(i)].fixed}
    IN  /\ over(j, k) # {} /\ over(k, j) # {}
        /\ Cardinality(reversals) >= 2

\* The actions of C with a record, and those to act on: a contested one with
\* no rule is not.
Winners(C, k) ==
  {j \in TriedSet \cap C :
     /\ IsWinner(j)
     /\ j = k => Cardinality(From(Losses(k), ContestedSince(k))) < 2}

\* _act_from_contrast: what resolved the newest contrast whose fix still
\* stands, unless the contrast is not about the winner there is.
FromContrast(C, winners) ==
  LET standing == {i \in Contrasts : record[i].fixed \in C /\ Streak(record[i].fixed) = {}}
      newest   == Latest(standing)
      yields   == winners # {} /\ Best(winners) \notin FailedIn(newest)
  IN  IF standing = {} \/ yields THEN None ELSE record[newest].fixed

LoneWinner(C) ==
  LET standing == {k \in TriedSet \cap C : ~FailedNow(k)}
  IN  IF Cardinality(TriedSet \cap C) < 2 \/ Cardinality(standing) # 1 THEN None
      ELSE LET k == CHOOSE k \in standing : TRUE
           IN  IF ExactFirstWin(k) THEN k ELSE None

\* _recommend_mode, for a caller that names its candidates and asks to be told
\* when the record cannot say.
RecommendMode(a, C, winners, newest, lone) ==
  LET tried == TriedSet \cap C
      mixed == /\ Cardinality(tried) >= 2
               /\ \E k \in tried : Wins(k) # {}
               /\ \E k \in tried : Losses(k) # {}
  IN  IF Pooled THEN Say("abstain")
      ELSE IF newest # None THEN Act(newest)
      ELSE IF winners # {} THEN Act(Best(winners))
      ELSE IF lone # None THEN Act(lone)
      ELSE IF (\A k \in tried : FailedNow(k)) /\ Untried(C) # {}
           THEN Explore(Exploring(a, WithStale(C))[1])
      ELSE IF tried # {} /\ (\A k \in tried : IsLoser(k)) THEN Say("escalate")
      ELSE IF mixed THEN Say("abstain")
      ELSE Silent

FromRecord(a, C, winners) ==
  RecommendMode(a, C, winners, FromContrast(C, winners), LoneWinner(C))

\* A contested record decides, if it has anything to say.
IfSilent(advice, other) ==
  IF advice = Silent THEN other
  ELSE [mode |-> advice.mode, action |-> advice.action, opens |-> advice.opens,
        contested |-> TRUE]

\* There is nothing to say from an empty record.
Recommend(a, C, seen, k) ==
  IF record = <<>> THEN Silent
  ELSE IF k = None THEN FromRecord(a, C, Winners(C, k))
  ELSE IfSilent(RecommendContested(a, C, seen, k, ContestedSince(k), FailingSides(k)),
                FromRecord(a, C, Winners(C, k)))

-----------------------------------------------------------------------------
(* plan_actions.                                                           *)

\* The outcomes whose contrast k resolved.
Resolved(k) == {i \in Contrasts : record[i].fixed = k}

\* What the plan is filled from, in this order.
Sections(opens, untried) ==
  << Range(opens),
     {k \in TriedSet : IsWinner(k)},
     {k \in TriedSet : ~FailedNow(k) /\ ExactFirstWin(k)},
     {k \in TriedSet : /\ TurnedUnsolved(k) /\ ~Superseded(k)
                       /\ ~Turned(k) /\ ~RecentlyFailing(k)},
     {k \in TriedSet : Resolved(k) # {} /\ ~FailedNow(k)},
     Range(untried),
     {k \in TriedSet : FailedNow(k) /\ ~StoppedWorking(k)},
     {k \in TriedSet : StoppedWorking(k) /\ Won(k) > 0},
     TriedSet >>

\* An action counts where it first comes.
SectionOf(k, sections) == Earliest({n \in DOMAIN sections : k \in sections[n]})

PlaceIn(k, s) == Earliest({n \in DOMAIN s : s[n] = k})

\* The first n of S when Before orders it.
Ranked(S, Before(_, _), n) ==
  [i \in (1 .. n) \cap (1 .. Cardinality(S)) |->
     CHOOSE k \in S : Cardinality({j \in S : Before(j, k)}) = i - 1]

\* What the guidance opens with, as it says; what contrasts resolved with, the
\* newest first; the untried as explored; and the others best first.
Plan(a, C, advice) ==
  LET untried  == Exploring(a, WithStale(C))
      sections == Sections(advice.opens, untried)
      section  == [k \in UNION Range(sections) |-> SectionOf(k, sections)]
      Before(j, k) ==
        \/ section[j] < section[k]
        \/ /\ section[j] = section[k]
           /\ CASE section[k] = 1 -> PlaceIn(j, advice.opens) < PlaceIn(k, advice.opens)
                [] section[k] = 5 -> Latest(Resolved(j)) > Latest(Resolved(k))
                [] section[k] = 6 -> PlaceIn(j, untried) < PlaceIn(k, untried)
                [] OTHER          -> Better(j, k)
  IN  Ranked(C \cap DOMAIN section, Before, PlanMax)

Planned(a, C, advice) == IF advice = Silent THEN <<>> ELSE Plan(a, C, advice)

-----------------------------------------------------------------------------
(* The runs.                                                               *)

\* The plan an agent follows rather than weighs: an explore orders the untried
\* only once a task here has ended unsolved, and the plan of a conditional is
\* not shown.
Binding(advice) == advice.mode = "act" \/ (advice.mode = "explore" /\ Sweep)

\* retrieve for agent a choosing among C, with the covariates seen.
Guidance(a, C, advice) ==
  [mode |-> advice.mode, action |-> advice.action, contested |-> advice.contested,
   plan |-> Planned(a, C, advice), follow |-> Binding(advice)]

Guided(a, C, seen) == Guidance(a, C, Recommend(a, C, seen, Contested))

Open == {a \in Agents : run[a].open}

\* Run.begin, before or after the covariate of the task is known.
Begin(a) ==
  \E s \in Sides, seen \in SUBSET Sides :
    /\ a \notin Open /\ Len(record) + Cardinality(Open) < MaxRows
    /\ seen \subseteq {s} /\ (seen # {} => Declared)
    /\ run' = [run EXCEPT ![a] = OpenRun(s, Len(record), <<>>, Guided(a, Actions, seen))]
    /\ UNCHANGED <<record, fix, turns, since>>

\* The next action of the plan, or any the agent chooses.
NextOf(a) ==
  LET plan == run[a].advice.plan
      left == {n \in DOMAIN plan : plan[n] \in Actions \ Range(run[a].acts)}
  IN  IF run[a].advice.follow /\ left # {} THEN {plan[Earliest(left)]}
      ELSE Actions \ Range(run[a].acts)

\* Run.complete: actions_taken labels what ended each attempt.
Complete(a, failed, fixed) ==
  /\ record' = Append(record, [failed |-> failed, fixed |-> fixed, side |-> run[a].side])
  /\ run' = [run EXCEPT ![a] = NoRun]

Solve(a) ==
  /\ fix[run[a].side] \in NextOf(a)
  /\ Complete(a, run[a].acts, fix[run[a].side])
  /\ UNCHANGED <<fix, turns, since>>

\* Run.attempt_failed, and perhaps the guidance that follows a failure, over
\* what the caller has left or all it had; or the end of a task whose attempts
\* are spent.
Fail(a) ==
  \E k \in NextOf(a) \ {fix[run[a].side]} :
    LET acts == Append(run[a].acts, k)
        left == Actions \ Range(acts)
        seen == IF Declared THEN {run[a].side} ELSE {}
    IN  /\ IF Len(acts) = Budget \/ left = {} THEN Complete(a, acts, None)
           ELSE /\ \E advice \in {run[a].advice} \cup {Guided(a, C, seen) : C \in {left, Actions}} :
                     run' = [run EXCEPT ![a] = OpenRun(@.side, @.at, acts, advice)]
                /\ UNCHANGED record
        /\ UNCHANGED <<fix, turns, since>>

\* What resolves the situation changes, on some sides.
Turn ==
  \E S \in (SUBSET Sides) \ {{}}, k \in Actions :
    /\ turns < MaxTurns /\ record # <<>>
    /\ \A s \in S : fix[s] # k
    /\ fix' = [s \in Sides |-> IF s \in S THEN k ELSE fix[s]]
    /\ turns' = turns + 1
    /\ since' = Len(record) + Cardinality(Open)
    /\ UNCHANGED <<record, run>>

Init ==
  /\ record = <<>>
  /\ fix \in {[s \in Sides |-> k] : k \in Actions}
  /\ turns = 0 /\ since = 0
  /\ run = [a \in Agents |-> NoRun]

Next == Turn \/ (\E a \in Agents : Begin(a)) \/ (\E a \in Open : Solve(a) \/ Fail(a))

Spec == Init /\ [][Next]_vars

-----------------------------------------------------------------------------
(* Properties.                                                             *)

\* Agent a has asked for guidance and taken nothing yet, and the record has not
\* grown meanwhile.
JustBegun(a) == run[a].acts = <<>> /\ run[a].at = Len(record)

\* The covariate has taken a single value.
OneSided ==
  Cardinality({record[i].side : i \in DOMAIN record} \cup {run[a].side : a \in Open}) = 1

\* What resolves the situation has changed once at most.  After two changes
\* the record may look like two classes pooled, and the guidance abstains; and
\* with two values of the covariate one change may leave two fixes.
OneChange == turns = 0 \/ (turns = 1 /\ OneSided)

Since == {i \in DOMAIN record : i > since}

\* A fix had been found before the last change.
HadFix == \E i \in DOMAIN record \ Since : record[i].fixed # None

\* What resolves the situation now has been found.
Found == Since \ Unsolved

\* After the change, the tasks that end unsolved before the new fix is found are
\* few: one attempt of each goes to the old fix at most, and none to an action
\* that has failed since.
RelearnsQuickly ==
  OneChange /\ HadFix => Cardinality(Since \cap Unsolved) * (Budget - 1) <= Size - 2

\* Once it has been found, every task that begins is told it first, whatever
\* the record before the change says.
FixIsServed ==
  OneChange /\ Found # {} =>
    \A a \in Open : JustBegun(a) => NextOf(a) = {fix[run[a].side]}

\* No task is told that everything known has failed: one action always resolves
\* it, and one that failed before the change may now be it.
NeverHandsOffTheFix ==
  OneChange /\ (turns = 0 \/ HadFix) => \A a \in Open : run[a].advice.mode # "escalate"

\* A task is not told to act on the action that has just lost, on a task of
\* its side that nothing resolved.  Where a side of the covariate is what
\* tells the losses from the wins, the record of that side decides instead: a
\* miss is one of the exceptions it tolerates, or weighs against two wins.
NoRepeatOfMiss ==
  \A a \in Open :
    LET advice == run[a].advice
    IN  JustBegun(a) /\ advice.mode = "act" /\ ~advice.contested /\ Len(record) \in Unsolved
          /\ record[Len(record)].side = run[a].side
        => advice.action \notin FailedIn(Len(record))

=============================================================================
