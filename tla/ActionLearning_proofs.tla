------------------------ MODULE ActionLearning_proofs ------------------------
(***************************************************************************)
(* For any actions, any fleet, any covariate and budgets: no guidance is   *)
(* to act on what has just failed, unless the record of a side says so;    *)
(* and until something changes, what resolves the situation is served to   *)
(* every task from the first time it is found.                             *)
(***************************************************************************)
EXTENDS ActionLearning, FiniteSetTheorems, WellFoundedInduction, TLAPS

-----------------------------------------------------------------------------
(* First and last of a set of outcomes.                                    *)

LEMMA EarliestIs ==
  ASSUME NEW S \in SUBSET Nat, S # {}
  PROVE  Earliest(S) \in S /\ \A n \in S : Earliest(S) <= n
<1>1. PICK m \in S : \A n \in S : ~(<<n, m>> \in OpToRel(<, Nat))
  BY NatLessThanWellFounded, WFMin, Zenon
<1>2. \A n \in S : ~(n < m)
  BY <1>1 DEF OpToRel
<1>3. \A n \in S : m <= n
  BY <1>2
<1> QED
  BY <1>3 DEF Earliest

LEMMA LatestIs ==
  ASSUME NEW n \in Nat, NEW S \in SUBSET (1 .. n), S # {}
  PROVE  Latest(S) \in S /\ \A j \in S : j <= Latest(S)
<1> DEFINE Depths == {d \in Nat : n - d \in S}
<1>1. \A j \in S : n - j \in Depths
  OBVIOUS
<1>2. Earliest(Depths) \in Depths /\ \A d \in Depths : Earliest(Depths) <= d
  <2>1. Depths \in SUBSET Nat /\ Depths # {}
    BY <1>1
  <2> HIDE DEF Depths
  <2> QED
    BY <2>1, EarliestIs
<1> DEFINE i == n - Earliest(Depths)
<1>3. i \in S /\ Earliest(Depths) \in Nat
  BY <1>2
<1>4. \A j \in S : j <= i
  BY <1>1, <1>2, <1>3
<1> QED
  BY <1>3, <1>4 DEF Latest

-----------------------------------------------------------------------------
(* The order of "tried" has a first among any of its rows.                 *)

LEMMA TimesKeepsOrder ==
  ASSUME NEW x \in Int, NEW y \in Int, NEW z \in Int, z > 0
  PROVE  x <= y <=> x * z <= y * z
OBVIOUS

\* Of fractions, a/b at least c/d and that at least e/f.
LEMMA FractionsAreOrdered ==
  ASSUME NEW a \in Int, NEW b \in Int, NEW c \in Int, NEW d \in Int, NEW e \in Int, NEW f \in Int,
         b > 0, d > 0, f > 0, c * b <= a * d, e * d <= c * f
  PROVE  /\ e * b <= a * f
         /\ a * f <= e * b => a * d <= c * b /\ c * f <= e * d
<1> DEFINE x == (e * d) * b
           y == (c * b) * f
           z == (a * d) * f
<1>1. x \in Int /\ y \in Int /\ z \in Int
  OBVIOUS
<1>2. x <= y /\ (y <= x <=> c * f <= e * d)
  <2>1. y = (c * f) * b
    OBVIOUS
  <2> QED
    BY <2>1, TimesKeepsOrder
<1>3. y <= z /\ (z <= y <=> a * d <= c * b)
  BY TimesKeepsOrder
<1>4. (x <= z <=> e * b <= a * f) /\ (z <= x <=> a * f <= e * b)
  <2>1. x = (e * b) * d /\ z = (a * f) * d
    OBVIOUS
  <2> QED
    BY <2>1, TimesKeepsOrder
<1> HIDE DEF x, y, z
<1> QED
  BY <1>1, <1>2, <1>3, <1>4

\* The record is well formed.
Kept == record \in Seq(Row)

LEMMA RowsOfRecord ==
  ASSUME Kept
  PROVE  /\ Len(record) \in Nat /\ DOMAIN record = 1 .. Len(record)
         /\ IsFiniteSet(DOMAIN record) /\ DOMAIN record \in SUBSET Nat
         /\ \A i \in DOMAIN record : /\ record[i].failed \in Seq(Actions)
                                     /\ record[i].fixed \in Actions \cup {None}
                                     /\ FailedIn(i) \subseteq Actions
<1>1. Len(record) \in Nat /\ DOMAIN record = 1 .. Len(record)
  BY DEF Kept
<1>2. IsFiniteSet(1 .. Len(record)) /\ 1 .. Len(record) \in SUBSET Nat
  BY <1>1, FS_Interval
<1>3. ASSUME NEW i \in DOMAIN record
      PROVE  /\ record[i].failed \in Seq(Actions)
             /\ record[i].fixed \in Actions \cup {None}
             /\ FailedIn(i) \subseteq Actions
  <2>1. record[i] \in Row
    BY <1>3 DEF Kept
  <2>2. record[i].failed \in Seq(Actions) /\ record[i].fixed \in Actions \cup {None}
    BY <2>1 DEF Row
  <2>3. \A n \in DOMAIN record[i].failed : record[i].failed[n] \in Actions
    BY <2>2
  <2> QED
    BY <2>2, <2>3 DEF FailedIn, Range
<1> QED
  BY <1>1, <1>2, <1>3

LEMMA ActionsFinite == IsFiniteSet(Actions) /\ None \notin Actions /\ Actions \subseteq Int
<1>1. Size \in Nat
  BY LearningAssumption
<1> QED
  BY <1>1, FS_Interval DEF Actions, None

LEMMA CountsAreNatural ==
  ASSUME Kept, NEW k
  PROVE  Won(k) \in Nat /\ N(k) \in Nat
<1>1. Wins(k) \in SUBSET DOMAIN record /\ Tries(k) \in SUBSET DOMAIN record
  BY DEF Wins, Tries, Losses
<1>2. IsFiniteSet(Wins(k)) /\ IsFiniteSet(Tries(k))
  BY <1>1, RowsOfRecord, FS_Subset
<1> QED
  BY <1>2, FS_CardinalityType DEF Won, N

LEMMA BetterIsAnOrder ==
  ASSUME Kept
  PROVE  /\ \A i, j \in Actions : i # j => Better(i, j) \/ Better(j, i)
         /\ \A i \in Actions : ~Better(i, i)
         /\ \A i, j, k \in Actions : Better(i, j) /\ Better(j, k) => Better(i, k)
<1>1. \A k \in Actions : k \in Int /\ Won(k) + 1 \in Int /\ N(k) + 2 \in Int /\ N(k) + 2 > 0
                         /\ N(k) \in Int
  BY CountsAreNatural, ActionsFinite
<1> DEFINE p(j, k) == (Won(j) + 1) * (N(k) + 2)
<1>2. \A j, k \in Actions : p(j, k) \in Int
  BY <1>1
<1>3. \A j, k \in Actions :
        Better(j, k) <=> \/ p(j, k) > p(k, j)
                         \/ p(j, k) = p(k, j) /\ (N(j) > N(k) \/ (N(j) = N(k) /\ j < k))
  BY DEF Better
<1>4. ASSUME NEW i \in Actions, NEW j \in Actions, NEW k \in Actions,
             p(j, i) <= p(i, j), p(k, j) <= p(j, k)
      PROVE  p(k, i) <= p(i, k) /\ (p(i, k) <= p(k, i) => p(i, j) <= p(j, i) /\ p(j, k) <= p(k, j))
  BY <1>1, <1>4, FractionsAreOrdered
<1> HIDE DEF p
<1>5. ASSUME NEW i \in Actions, NEW j \in Actions, NEW k \in Actions, Better(i, j), Better(j, k)
      PROVE  Better(i, k)
  <2>1. p(j, i) <= p(i, j) /\ p(k, j) <= p(j, k)
    BY <1>2, <1>3, <1>5
  <2>2. p(k, i) <= p(i, k) /\ (p(i, k) <= p(k, i) => p(i, j) <= p(j, i) /\ p(j, k) <= p(k, j))
    BY <1>4, <2>1
  <2>3. CASE p(i, k) > p(k, i)
    BY <1>3, <2>3
  <2>4. CASE p(i, k) <= p(k, i)
    <3>1. p(i, j) = p(j, i) /\ p(j, k) = p(k, j) /\ p(i, k) = p(k, i)
      BY <1>2, <2>1, <2>2, <2>4
    <3>2. /\ N(i) > N(j) \/ (N(i) = N(j) /\ i < j)
          /\ N(j) > N(k) \/ (N(j) = N(k) /\ j < k)
      BY <1>2, <1>3, <1>5, <3>1
    <3>3. N(i) > N(k) \/ (N(i) = N(k) /\ i < k)
      BY <1>1, <3>2
    <3> QED
      BY <1>3, <3>1, <3>3
  <2> QED
    BY <1>2, <2>3, <2>4
<1>6. ASSUME NEW i \in Actions, NEW j \in Actions, i # j PROVE Better(i, j) \/ Better(j, i)
  BY <1>1, <1>2, <1>3, <1>6
<1>7. ASSUME NEW i \in Actions PROVE ~Better(i, i)
  BY <1>1, <1>2, <1>3
<1> QED
  BY <1>5, <1>6, <1>7

LEMMA BestIs ==
  ASSUME Kept, NEW S \in SUBSET Actions, S # {}
  PROVE  Best(S) \in S
<1> DEFINE Above(j) == {i \in S : Better(i, j)}
           Aboves == {Above(j) : j \in S}
<1>1. PICK U \in Aboves : \A V \in Aboves : <<V, U>> \notin StrictSubsetOrdering(S)
  <2>1. IsFiniteSet(S)
    BY ActionsFinite, FS_Subset
  <2>2. \A j \in S : Above(j) \in SUBSET S /\ IsFiniteSet(Above(j)) /\ Above(j) \in Aboves
    BY <2>1, FS_Subset
  <2>3. Aboves \subseteq FiniteSubsetsOf(S)
    <3> HIDE DEF Above
    <3> QED
      BY <2>2 DEF FiniteSubsetsOf
  <2>4. Aboves # {}
    <3> HIDE DEF Aboves
    <3> QED
      BY <2>2
  <2> HIDE DEF Aboves
  <2> QED
    BY <2>1, <2>3, <2>4, FS_StrictSubsetOrderingWellFounded, WFMin
<1>2. PICK j \in S : U = Above(j)
  BY <1>1
<1>3. ASSUME NEW i \in S, Better(i, j) PROVE FALSE
  <2>1. Above(i) \subseteq Above(j) /\ i \in Above(j) /\ i \notin Above(i)
    BY <1>3, BetterIsAnOrder
  <2>2. <<Above(i), Above(j)>> \in StrictSubsetOrdering(S)
    BY <2>1 DEF StrictSubsetOrdering
  <2> QED
    BY <1>1, <1>2, <2>2
<1>4. \A i \in S \ {j} : Better(j, i)
  BY <1>3, BetterIsAnOrder
<1> QED
  BY <1>4 DEF Best

-----------------------------------------------------------------------------
(* Guidance after a miss: the last outcome is unsolved.                    *)

\* What failed then has lost since it last won, and was last tried then.
LEMMA MissedLast ==
  ASSUME Kept, Len(record) \in Unsolved, NEW k \in FailedIn(Len(record))
  PROVE  Streak(k) # {} /\ Latest(Tries(k)) = Len(record)
<1> DEFINE L == Len(record)
<1>1. L \in DOMAIN record /\ record[L].fixed = None /\ k \in Actions /\ k # None
  BY RowsOfRecord, ActionsFinite DEF Unsolved
<1>2. L \in Nat /\ DOMAIN record = 1 .. L
  BY RowsOfRecord
<1>3. L \in Losses(k) /\ L \notin Wins(k)
  BY <1>1 DEF Losses, Wins, FailedIn
<1>4. Latest(Wins(k)) < L
  <2>1. Wins(k) \in SUBSET (1 .. L)
    BY <1>2 DEF Wins
  <2>2. CASE Wins(k) = {}
    BY <1>1, <1>2, <2>2 DEF Latest
  <2>3. CASE Wins(k) # {}
    <3>1. Latest(Wins(k)) \in Wins(k)
      BY <1>2, <2>1, <2>3, LatestIs
    <3> QED
      BY <1>2, <1>3, <2>1, <3>1
  <2> QED
    BY <2>2, <2>3
<1>5. Latest(Tries(k)) = L
  <2>1. Tries(k) \in SUBSET (1 .. L) /\ L \in Tries(k)
    BY <1>2, <1>3 DEF Tries, Wins, Losses
  <2>2. Latest(Tries(k)) \in Tries(k) /\ L <= Latest(Tries(k))
    BY <1>2, <2>1, LatestIs
  <2> QED
    BY <1>2, <2>1, <2>2
<1>6. L \in Streak(k)
  BY <1>3, <1>4 DEF Streak
<1> QED
  BY <1>5, <1>6

LEMMA WinnersDidNotMiss ==
  ASSUME Kept, Len(record) \in Unsolved, NEW k, IsWinner(k)
  PROVE  k \notin FailedIn(Len(record))
<1> SUFFICES ASSUME k \in FailedIn(Len(record)) PROVE FALSE
  OBVIOUS
<1>1. Streak(k) # {} /\ Latest(Tries(k)) = Len(record)
  BY MissedLast
<1>2. Won(k) \in Nat /\ N(k) \in Nat
  BY CountsAreNatural
<1>3. Won(k) = 0
  BY <1>1, <1>2 DEF IsWinner, StoppedWorking, TurnedUnsolved
<1>4. ~AtLeast(k, 6)
  BY <1>2, <1>3 DEF AtLeast
<1> QED
  BY <1>1, <1>4 DEF IsWinner, ExactFirstWin

LEMMA ContrastDidNotMiss ==
  ASSUME Kept, Len(record) \in Unsolved, NEW C, NEW winners,
         FromContrast(C, winners) # None
  PROVE  FromContrast(C, winners) \notin FailedIn(Len(record))
<1> DEFINE standing == {i \in Contrasts : record[i].fixed \in C /\ Streak(record[i].fixed) = {}}
           newest   == Latest(standing)
<1>1. standing # {} /\ FromContrast(C, winners) = record[newest].fixed
  BY DEF FromContrast
<1>2. newest \in standing
  <2>1. standing \in SUBSET (1 .. Len(record)) /\ Len(record) \in Nat
    BY RowsOfRecord DEF Contrasts
  <2> HIDE DEF standing
  <2> QED
    BY <1>1, <2>1, LatestIs
<1> QED
  BY <1>1, <1>2, MissedLast

LEMMA LoneDidNotMiss ==
  ASSUME Kept, Len(record) \in Unsolved, NEW C, LoneWinner(C) # None
  PROVE  LoneWinner(C) \notin FailedIn(Len(record))
<1>1. PICK k : LoneWinner(C) = k /\ ExactFirstWin(k)
  BY DEF LoneWinner
<1> QED
  BY <1>1, MissedLast DEF ExactFirstWin

LEMMA RecordDidNotMiss ==
  ASSUME Kept, Len(record) \in Unsolved, NEW a, NEW C \in SUBSET Actions,
         NEW winners \in SUBSET {k \in Actions : IsWinner(k)},
         FromRecord(a, C, winners).mode = "act"
  PROVE  FromRecord(a, C, winners).action \notin FailedIn(Len(record))
<1> DEFINE g == FromRecord(a, C, winners)
           newest == FromContrast(C, winners)
           lone == LoneWinner(C)
<1>1. \/ newest # None /\ g = Act(newest)
      \/ winners # {} /\ g = Act(Best(winners))
      \/ lone # None /\ g = Act(lone)
      \/ \E k : g = Explore(k)
      \/ g \in {Say("abstain"), Say("escalate"), Silent}
  BY Zenon DEF FromRecord, RecommendMode
<1>2. \A k : Explore(k).mode # "act"
  BY DEF Explore, Advice
<1>3. g \notin {Say("abstain"), Say("escalate"), Silent}
  BY DEF Say, Silent, Advice
<1>4. \A k : Act(k).action = k
  BY DEF Act, Advice
<1>5. winners # {} => IsWinner(Best(winners))
  BY BestIs
<1> HIDE DEF g, newest, lone
<1>6. \/ newest # None /\ g.action = newest
      \/ winners # {} /\ g.action = Best(winners)
      \/ lone # None /\ g.action = lone
  BY <1>1, <1>2, <1>3, <1>4 DEF g
<1> QED
  BY <1>5, <1>6, ContrastDidNotMiss, WinnersDidNotMiss, LoneDidNotMiss DEF g, newest, lone

\* A contested record says so itself.
LEMMA GuidanceDidNotMiss ==
  ASSUME Kept, Len(record) \in Unsolved, NEW a, NEW C \in SUBSET Actions, NEW seen,
         Guided(a, C, seen).mode = "act", ~Guided(a, C, seen).contested
  PROVE  Guided(a, C, seen).action \notin FailedIn(Len(record))
<1> DEFINE k == Contested
           advice == Recommend(a, C, seen, k)
           winners == Winners(C, k)
<1>1. /\ Guided(a, C, seen).mode = advice.mode /\ Guided(a, C, seen).action = advice.action
      /\ Guided(a, C, seen).contested = advice.contested
  BY DEF Guided, Guidance
<1>2. advice.mode = "act" /\ ~advice.contested
  BY <1>1
<1>3. advice # Silent
  <2> HIDE DEF advice
  <2> QED
    BY <1>2 DEF Silent, Advice
<1>4. \A x, y : IfSilent(x, y) = y \/ IfSilent(x, y).contested
  BY DEF IfSilent
<1>5. \E x : advice \in {Silent, FromRecord(a, C, winners), IfSilent(x, FromRecord(a, C, winners))}
  BY DEF Recommend
<1>6. advice = FromRecord(a, C, winners)
  <2> HIDE DEF advice
  <2> QED
    BY <1>2, <1>3, <1>4, <1>5
<1>7. winners \in SUBSET {j \in Actions : IsWinner(j)}
  BY DEF Winners, TriedSet
<1> HIDE DEF advice, winners
<1> QED
  BY <1>1, <1>2, <1>6, <1>7, RecordDidNotMiss

-----------------------------------------------------------------------------
(* What a step does to the runs.                                           *)

IsOpen(r) ==
  /\ r = OpenRun(r.side, r.at, r.acts, r.advice)
  /\ r.side \in Sides /\ r.acts \in Seq(Actions) /\ r.at \in 0 .. Len(record)
  /\ DOMAIN r.advice.plan \subseteq Nat \ {0}

Types ==
  /\ Kept /\ fix \in [Sides -> Actions] /\ turns \in Nat
  /\ run = [a \in Agents |-> run[a]]
  /\ \A a \in Agents : run[a] = NoRun \/ IsOpen(run[a])

LEMMA OpenRuns ==
  ASSUME Types, NEW a \in Agents
  PROVE  (a \in Open <=> IsOpen(run[a])) /\ (a \notin Open <=> run[a] = NoRun)
<1>1. \A r : IsOpen(r) => r.open
  BY DEF IsOpen, OpenRun
<1>2. ~NoRun.open
  BY DEF NoRun
<1> QED
  BY <1>1, <1>2 DEF Types, Open

\* a's run goes on as r: a new one, or the one it was with an attempt more.
Goes(a, r) ==
  /\ run' = [run EXCEPT ![a] = r] /\ record' = record
  /\ r = OpenRun(r.side, r.at, r.acts, r.advice)
  /\ \/ /\ r.side \in Sides /\ r.acts = <<>> /\ r.at = Len(record)
        /\ \E seen : r.advice = Guided(a, Actions, seen)
     \/ /\ a \in Open
        /\ \E k \in Actions \ {fix[run[a].side]} :
             /\ r.side = run[a].side /\ r.at = run[a].at
             /\ r.acts = Append(run[a].acts, k)
             /\ \/ r.advice = run[a].advice
                \/ \E C \in {Actions \ Range(r.acts), Actions} : \E seen : r.advice = Guided(a, C, seen)

\* a's run ends, with the attempts failed and what resolved the task.
Ends(a, failed, fixed) ==
  /\ a \in Open /\ Complete(a, failed, fixed)
  /\ \/ failed = run[a].acts /\ fixed = fix[run[a].side]
     \/ /\ fixed = None
        /\ \E k \in Actions \ {fix[run[a].side]} : failed = Append(run[a].acts, k)

LEMMA AppendedActs ==
  ASSUME NEW s \in Seq(Actions), NEW k \in Actions
  PROVE  /\ Append(s, k) \in Seq(Actions) /\ Append(s, k) # <<>>
         /\ Range(Append(s, k)) = Range(s) \cup {k}
<1>1. Append(s, k) \in Seq(Actions) /\ Append(s, k) # <<>>
  <2>1. Append(s, k) \in Seq(Actions) /\ Len(Append(s, k)) = Len(s) + 1 /\ Len(s) \in Nat
    OBVIOUS
  <2>2. Len(<<>>) = 0
    OBVIOUS
  <2> QED
    BY <2>1, <2>2
<1>2. Range(Append(s, k)) = Range(s) \cup {k}
  <2>1. /\ Len(s) \in Nat /\ DOMAIN s = 1 .. Len(s)
        /\ DOMAIN Append(s, k) = 1 .. (Len(s) + 1)
        /\ \A n \in 1 .. Len(s) : Append(s, k)[n] = s[n]
        /\ Append(s, k)[Len(s) + 1] = k
    OBVIOUS
  <2> DEFINE t == Append(s, k)
  <2> HIDE DEF t
  <2>2. \A n \in DOMAIN t : t[n] \in Range(s) \cup {k}
    BY <2>1 DEF Range, t
  <2>3. k \in Range(t) /\ \A n \in DOMAIN s : s[n] \in Range(t)
    BY <2>1 DEF Range, t
  <2> QED
    BY <2>2, <2>3 DEF Range, t
<1> QED
  BY <1>1, <1>2

LEMMA PlansAreListed ==
  ASSUME NEW a, NEW C, NEW seen
  PROVE  DOMAIN Guided(a, C, seen).plan \subseteq Nat \ {0}
<1>1. PICK advice : Guided(a, C, seen) = Guidance(a, C, advice)
  BY DEF Guided
<1>2. Guided(a, C, seen).plan = Planned(a, C, advice)
  BY <1>1 DEF Guidance
<1>3. DOMAIN Planned(a, C, advice) \subseteq Nat \ {0}
  BY DEF Planned, Plan, Ranked
<1> QED
  BY <1>2, <1>3

LEMMA NextOfIsUntaken ==
  ASSUME Types, NEW a \in Open
  PROVE  NextOf(a) \subseteq Actions \ Range(run[a].acts)
<1> DEFINE plan == run[a].advice.plan
           left == {n \in DOMAIN plan : plan[n] \in Actions \ Range(run[a].acts)}
<1>1. left \in SUBSET Nat
  BY OpenRuns DEF Open, IsOpen
<1>2. left # {} => Earliest(left) \in left
  <2> HIDE DEF left
  <2> QED
    BY <1>1, EarliestIs
<1>3. NextOf(a) \in {{plan[Earliest(left)]}, Actions \ Range(run[a].acts)}
      /\ (left = {} => NextOf(a) = Actions \ Range(run[a].acts))
  BY DEF NextOf
<1>4. left # {} => plan[Earliest(left)] \in Actions \ Range(run[a].acts)
  BY <1>2
<1> HIDE DEF plan, left
<1> QED
  BY <1>3, <1>4

LEMMA StepShapes ==
  ASSUME Types, Next
  PROVE  \/ Turn
         \/ /\ UNCHANGED <<fix, turns, since>>
            /\ \/ \E a \in Agents : \E r : Goes(a, r)
               \/ \E a \in Open : \E failed, fixed : Ends(a, failed, fixed)
<1>1. CASE Turn
  BY <1>1
<1>2. ASSUME NEW a \in Agents, Begin(a) PROVE UNCHANGED <<fix, turns, since>> /\ \E r : Goes(a, r)
  <2>1. PICK s \in Sides, seen \in SUBSET Sides :
          /\ run' = [run EXCEPT ![a] = OpenRun(s, Len(record), <<>>, Guided(a, Actions, seen))]
          /\ UNCHANGED <<record, fix, turns, since>>
    BY <1>2 DEF Begin
  <2> DEFINE g == Guided(a, Actions, seen)
             r == OpenRun(s, Len(record), <<>>, g)
  <2>2. run' = [run EXCEPT ![a] = r] /\ \E x : g = Guided(a, Actions, x)
    BY <2>1
  <2> HIDE DEF g
  <2>3. r.side = s /\ r.at = Len(record) /\ r.acts = <<>> /\ r.advice = g
    BY DEF OpenRun
  <2> HIDE DEF r
  <2>4. r = OpenRun(r.side, r.at, r.acts, r.advice)
    BY <2>3 DEF r
  <2>5. Goes(a, r)
    BY <2>1, <2>2, <2>3, <2>4 DEF Goes
  <2> QED
    BY <2>1, <2>5
<1>3. ASSUME NEW a \in Open, Solve(a)
      PROVE  UNCHANGED <<fix, turns, since>> /\ \E failed, fixed : Ends(a, failed, fixed)
  <2>1. Ends(a, run[a].acts, fix[run[a].side]) /\ UNCHANGED <<fix, turns, since>>
    BY <1>3 DEF Solve, Ends
  <2> QED
    BY <2>1
<1>4. ASSUME NEW a \in Open, Fail(a)
      PROVE  UNCHANGED <<fix, turns, since>> /\ \/ \E r : Goes(a, r)
                                                 \/ \E failed, fixed : Ends(a, failed, fixed)
  <2> DEFINE seen == IF Declared THEN {run[a].side} ELSE {}
             acts(k) == Append(run[a].acts, k)
             left(k) == Actions \ Range(acts(k))
  <2>1. PICK k \in NextOf(a) \ {fix[run[a].side]} :
          /\ UNCHANGED <<fix, turns, since>>
          /\ \/ Complete(a, acts(k), None)
             \/ /\ UNCHANGED record
                /\ \E g \in {run[a].advice} \cup {Guided(a, C, seen) : C \in {left(k), Actions}} :
                     run' = [run EXCEPT ![a] = OpenRun(@.side, @.at, acts(k), g)]
    BY <1>4 DEF Fail
  <2>2. k \in Actions \ {fix[run[a].side]} /\ a \in Agents
    BY <2>1, NextOfIsUntaken DEF Open
  <2>3. CASE Complete(a, acts(k), None)
    <3>1. Ends(a, acts(k), None)
      BY <2>2, <2>3 DEF Ends
    <3> QED
      BY <2>1, <3>1
  <2>4. ASSUME NEW g \in {run[a].advice} \cup {Guided(a, C, seen) : C \in {left(k), Actions}},
               UNCHANGED record, run' = [run EXCEPT ![a] = OpenRun(@.side, @.at, acts(k), g)]
        PROVE  UNCHANGED <<fix, turns, since>> /\ \E r : Goes(a, r)
    <3> DEFINE r == OpenRun(run[a].side, run[a].at, acts(k), g)
    <3>1. run' = [run EXCEPT ![a] = r]
      BY <2>4
    <3>2. r.side = run[a].side /\ r.at = run[a].at /\ r.acts = acts(k) /\ r.advice = g
      BY DEF OpenRun
    <3> HIDE DEF r
    <3>3. r = OpenRun(r.side, r.at, r.acts, r.advice)
      BY <3>2 DEF r
    <3>4. g = run[a].advice \/ \E C \in {left(k), Actions} : \E x : g = Guided(a, C, x)
      BY <2>4
    <3>5. Goes(a, r)
      BY <2>2, <2>4, <3>1, <3>2, <3>3, <3>4 DEF Goes
    <3> QED
      BY <2>1, <3>5
  <2> QED
    BY <2>1, <2>3, <2>4
<1>5. Open \subseteq Agents
  BY DEF Open
<1> QED
  BY <1>1, <1>2, <1>3, <1>4, <1>5 DEF Next

LEMMA AfterGoing ==
  ASSUME Types, NEW a \in Agents, NEW r, Goes(a, r)
  PROVE  /\ run'[a] = r /\ IsOpen(r) /\ Open' = Open \cup {a}
         /\ \A b \in Agents \ {a} : run'[b] = run[b]
         /\ run' = [b \in Agents |-> run'[b]]
<1>1. run'[a] = r /\ (\A b \in Agents \ {a} : run'[b] = run[b]) /\ run' = [b \in Agents |-> run'[b]]
  BY DEF Goes, Types
<1>2. IsOpen(r)
  <2>1. r = OpenRun(r.side, r.at, r.acts, r.advice) /\ Len(record) \in Nat
    BY RowsOfRecord DEF Goes, Types
  <2>2. CASE r.side \in Sides /\ r.acts = <<>> /\ r.at = Len(record)
             /\ \E seen : r.advice = Guided(a, Actions, seen)
    <3>1. <<>> \in Seq(Actions)
      OBVIOUS
    <3> QED
      BY <2>1, <2>2, <3>1, PlansAreListed DEF IsOpen
  <2>3. ASSUME a \in Open, NEW k \in Actions \ {fix[run[a].side]},
               r.side = run[a].side, r.at = run[a].at, r.acts = Append(run[a].acts, k),
               \/ r.advice = run[a].advice
               \/ \E C \in {Actions \ Range(r.acts), Actions} : \E seen : r.advice = Guided(a, C, seen)
        PROVE  IsOpen(r)
    <3>1. IsOpen(run[a])
      BY <2>3, OpenRuns
    <3>2. r.acts \in Seq(Actions) /\ r.side \in Sides /\ r.at \in 0 .. Len(record)
      BY <2>3, <3>1, AppendedActs DEF IsOpen
    <3>3. DOMAIN r.advice.plan \subseteq Nat \ {0}
      BY <2>3, <3>1, PlansAreListed DEF IsOpen
    <3> QED
      BY <2>1, <3>2, <3>3 DEF IsOpen
  <2> QED
    BY <2>2, <2>3 DEF Goes
<1>3. r.open /\ Open' = {b \in Agents : run'[b].open} /\ Open = {b \in Agents : run[b].open}
  BY <1>2 DEF IsOpen, OpenRun, Open
<1> QED
  BY <1>1, <1>2, <1>3

LEMMA AfterEnding ==
  ASSUME Types, NEW a \in Open, NEW failed, NEW fixed, Ends(a, failed, fixed)
  PROVE  LET row == [failed |-> failed, fixed |-> fixed, side |-> run[a].side]
         IN  /\ run'[a] = NoRun /\ Open' = Open \ {a}
             /\ \A b \in Agents \ {a} : run'[b] = run[b]
             /\ run' = [b \in Agents |-> run'[b]]
             /\ Kept' /\ Len(record') = Len(record) + 1 /\ record'[Len(record) + 1] = row
             /\ \A i \in DOMAIN record : record'[i] = record[i]
<1> DEFINE row == [failed |-> failed, fixed |-> fixed, side |-> run[a].side]
<1>1. a \in Agents /\ IsOpen(run[a])
  BY OpenRuns DEF Open
<1>2. record' = Append(record, row) /\ run' = [run EXCEPT ![a] = NoRun]
  BY DEF Ends, Complete
<1>3. run'[a] = NoRun /\ (\A b \in Agents \ {a} : run'[b] = run[b]) /\ run' = [b \in Agents |-> run'[b]]
  BY <1>1, <1>2 DEF Types
<1>4. Open' = Open \ {a}
  <2>1. Open' = {b \in Agents : run'[b].open} /\ Open = {b \in Agents : run[b].open} /\ ~NoRun.open
    BY DEF Open, NoRun
  <2> QED
    BY <1>1, <1>3, <2>1
<1>5. row \in Row
  <2>1. run[a].side \in Sides /\ run[a].acts \in Seq(Actions) /\ fix[run[a].side] \in Actions
    BY <1>1 DEF IsOpen, Types
  <2>2. failed \in Seq(Actions) /\ fixed \in Actions \cup {None}
    BY <2>1, AppendedActs DEF Ends
  <2> QED
    BY <2>1, <2>2 DEF Row
<1> HIDE DEF row
<1>6. /\ Kept' /\ Len(record') = Len(record) + 1 /\ record'[Len(record) + 1] = row
      /\ \A i \in DOMAIN record : record'[i] = record[i]
  BY <1>2, <1>5 DEF Types, Kept
<1> QED
  BY <1>3, <1>4, <1>6 DEF row

LEMMA TypesStep ==
  ASSUME Types, [Next]_vars
  PROVE  Types'
<1>1. CASE UNCHANGED vars
  BY <1>1 DEF Types, Kept, IsOpen, vars
<1>2. CASE Turn
  <2>1. fix' \in [Sides -> Actions] /\ turns' \in Nat /\ UNCHANGED <<record, run>>
    BY <1>2 DEF Turn, Types
  <2> QED
    BY <2>1 DEF Types, Kept, IsOpen
<1>3. ASSUME UNCHANGED <<fix, turns, since>>, NEW a \in Agents, NEW r, Goes(a, r) PROVE Types'
  <2>1. record' = record
    BY <1>3 DEF Goes
  <2>2. \A b \in Agents : run'[b] = NoRun \/ IsOpen(run'[b])
    BY <1>3, AfterGoing DEF Types
  <2>3. run' = [b \in Agents |-> run'[b]]
    BY <1>3, AfterGoing
  <2> QED
    BY <1>3, <2>1, <2>2, <2>3 DEF Types, Kept, IsOpen
<1>4. ASSUME UNCHANGED <<fix, turns, since>>, NEW a \in Open, NEW failed, NEW fixed,
             Ends(a, failed, fixed)
      PROVE  Types'
  <2>1. /\ Kept' /\ Len(record') = Len(record) + 1 /\ Len(record) \in Nat
        /\ run' = [b \in Agents |-> run'[b]]
        /\ \A b \in Agents : run'[b] = NoRun \/ run'[b] = run[b]
    BY <1>4, AfterEnding, RowsOfRecord DEF Types
  <2>2. ASSUME NEW b \in Agents PROVE run'[b] = NoRun \/ IsOpen(run[b])'
    BY <2>1, <2>2 DEF Types, IsOpen
  <2> QED
    BY <1>4, <2>1, <2>2 DEF Types
<1> QED
  BY <1>1, <1>2, <1>3, <1>4, StepShapes

LEMMA TypesInit == Init => Types
<1> SUFFICES ASSUME Init PROVE Types
  OBVIOUS
<1>1. <<>> \in Seq(Row) /\ 0 \in Nat
  OBVIOUS
<1>2. fix \in [Sides -> Actions]
  BY DEF Init
<1> QED
  BY <1>1, <1>2 DEF Init, Types, Kept

LEMMA TypesAlways == Spec => []Types
BY TypesInit, TypesStep, PTL DEF Spec

-----------------------------------------------------------------------------
(* A miss is not repeated.                                                 *)

\* A guidance computed as the run begins is of the record there is.
LEMMA MissStep ==
  ASSUME Types, Types', NoRepeatOfMiss, [Next]_vars
  PROVE  NoRepeatOfMiss'
<1>1. CASE UNCHANGED vars \/ Turn
  <2>1. UNCHANGED <<record, run>>
    BY <1>1 DEF vars, Turn
  <2> QED
    BY <2>1 DEF NoRepeatOfMiss, JustBegun, Open, Unsolved, FailedIn
<1>2. ASSUME NEW a \in Agents, NEW r, Goes(a, r) PROVE NoRepeatOfMiss'
  <2> SUFFICES ASSUME NEW b \in Open', JustBegun(b)', run'[b].advice.mode = "act",
                      ~run'[b].advice.contested, Len(record) \in Unsolved,
                      run'[b].side = record[Len(record)].side
               PROVE  run'[b].advice.action \notin FailedIn(Len(record))
    <3>1. record' = record
      BY <1>2 DEF Goes
    <3> QED
      BY <3>1 DEF NoRepeatOfMiss, Unsolved, FailedIn
  <2>1. run'[a] = r /\ Open' = Open \cup {a} /\ \A c \in Agents \ {a} : run'[c] = run[c]
    BY <1>2, AfterGoing
  <2>2. CASE b = a
    <3>1. r.acts = <<>>
      BY <2>1, <2>2 DEF JustBegun
    <3>2. \E seen : r.advice = Guided(a, Actions, seen)
      <4>1. \A k \in Actions : a \in Open => Append(run[a].acts, k) # <<>>
        BY OpenRuns, AppendedActs DEF IsOpen
      <4> QED
        BY <1>2, <3>1, <4>1 DEF Goes
    <3> QED
      BY <2>1, <2>2, <3>2, GuidanceDidNotMiss DEF Types
  <2>3. CASE b # a
    <3>1. b \in Open /\ run'[b] = run[b] /\ record' = record
      BY <1>2, <2>1, <2>3 DEF Open, Goes
    <3> QED
      BY <3>1 DEF NoRepeatOfMiss, JustBegun
  <2> QED
    BY <2>2, <2>3
<1>3. ASSUME NEW a \in Open, NEW failed, NEW fixed, Ends(a, failed, fixed) PROVE NoRepeatOfMiss'
  <2> SUFFICES ASSUME NEW b \in Open' PROVE ~JustBegun(b)'
    BY DEF NoRepeatOfMiss
  <2>1. /\ Open' = Open \ {a} /\ \A c \in Agents \ {a} : run'[c] = run[c]
        /\ Len(record') = Len(record) + 1 /\ Len(record) \in Nat
    BY <1>3, AfterEnding, RowsOfRecord DEF Types
  <2>2. b \in Agents /\ IsOpen(run[b]) /\ run'[b] = run[b]
    BY <2>1, OpenRuns DEF Open
  <2>3. run[b].at <= Len(record) /\ run[b].at \in Nat
    BY <2>1, <2>2 DEF IsOpen
  <2> QED
    BY <2>1, <2>2, <2>3 DEF JustBegun
<1> QED
  BY <1>1, <1>2, <1>3, StepShapes

\* No guidance orders again what the newest outcome has shown to fail, whatever
\* the record before it says, except where the record of a side of the covariate
\* outweighs it.
THEOREM MissIsNotRepeated == Spec => []NoRepeatOfMiss
<1>1. Init => NoRepeatOfMiss
  BY DEF Init, NoRepeatOfMiss, Open, NoRun
<1>2. Types /\ Types' /\ NoRepeatOfMiss /\ [Next]_vars => NoRepeatOfMiss'
  BY MissStep
<1> QED
  BY <1>1, <1>2, TypesAlways, PTL DEF Spec

-----------------------------------------------------------------------------
(* Until something changes, one action has resolved whatever was resolved. *)

Resolves(k) ==
  /\ \A s \in Sides : fix[s] = k
  /\ \A i \in DOMAIN record : record[i].fixed \in {None, k} /\ k \notin FailedIn(i)

LEMMA OthersNeverWon ==
  ASSUME Kept, NEW k \in Actions, Resolves(k), NEW j, j # k, j # None
  PROVE  Wins(j) = {} /\ Won(j) = 0 /\ ~IsWinner(j) /\ FailedNow(j)
<1>1. Wins(j) = {}
  BY DEF Resolves, Wins
<1>2. Won(j) = 0 /\ N(j) \in Nat
  BY <1>1, FS_EmptySet, CountsAreNatural DEF Won
<1>3. ~IsWinner(j)
  BY <1>2 DEF IsWinner, ExactFirstWin, AtLeast
<1> QED
  BY <1>1, <1>2, <1>3 DEF FailedNow

LEMMA FixNeverLost ==
  ASSUME Kept, NEW k \in Actions, Resolves(k)
  PROVE  /\ Losses(k) = {} /\ Streak(k) = {} /\ (Won(k) = 0 <=> Wins(k) = {})
         /\ (Wins(k) # {} => IsWinner(k) /\ k \in TriedSet)
<1>1. Losses(k) = {} /\ Streak(k) = {}
  BY DEF Resolves, Losses, FailedIn, Streak
<1>2. Won(k) \in Nat /\ (Won(k) = 0 <=> Wins(k) = {})
  <2>1. Wins(k) \in SUBSET DOMAIN record
    BY DEF Wins
  <2>2. IsFiniteSet(Wins(k))
    BY <2>1, RowsOfRecord, FS_Subset
  <2> QED
    BY <2>2, FS_EmptySet, FS_CardinalityType DEF Won
<1>3. ASSUME Wins(k) # {} PROVE IsWinner(k) /\ k \in TriedSet
  <2>1. Cardinality(Streak(k)) = 0
    BY <1>1, FS_EmptySet
  <2>2. ~StoppedWorking(k)
    BY <1>1, <2>1 DEF StoppedWorking, RecentlyFailing, RecentFailStreak, Turned, TurnedUnsolved
  <2>3. ExactFirstWin(k)
    BY <1>1, <1>2, <1>3 DEF ExactFirstWin
  <2> QED
    BY <1>1, <1>3, <2>2, <2>3 DEF IsWinner, TriedSet, Tries
<1> QED
  BY <1>1, <1>2, <1>3

LEMMA NothingContested ==
  ASSUME Kept, NEW k \in Actions, Resolves(k)
  PROVE  Contested = None
<1>1. ASSUME NEW j \in Actions PROVE ~IsContested(j)
  <2>1. j # None
    BY ActionsFinite
  <2>2. CASE j = k
    BY <2>2, FixNeverLost DEF IsContested, Starts
  <2>3. CASE j # k
    BY <2>1, <2>3, OthersNeverWon DEF IsContested
  <2> QED
    BY <2>2, <2>3
<1>2. {j \in TriedSet : IsContested(j)} = {}
  BY <1>1 DEF TriedSet
<1> QED
  BY <1>2 DEF Contested, Leading

LEMMA NothingPooled ==
  ASSUME Kept, NEW k \in Actions, Resolves(k)
  PROVE  ~Pooled
<1> SUFFICES ASSUME NEW j \in Actions, NEW l \in Actions,
                    NEW x \in Contrasts, record[x].fixed = j, l \in FailedIn(x),
                    NEW y \in Contrasts, record[y].fixed = l, j \in FailedIn(y)
             PROVE  FALSE
  BY DEF Pooled
<1>1. x \in DOMAIN record /\ y \in DOMAIN record /\ j # None /\ l # None
  BY ActionsFinite DEF Contrasts
<1> QED
  BY <1>1 DEF Resolves

\* With the fix among the candidates, no guidance says that all is lost, and
\* once it has won every guidance is to act on it.
LEMMA FixIsAdvised ==
  ASSUME Kept, NEW k \in Actions, Resolves(k), NEW a, NEW C \in SUBSET Actions, k \in C, NEW seen
  PROVE  LET advice == Recommend(a, C, seen, Contested)
         IN  advice.mode # "escalate" /\ (Wins(k) # {} => advice = Act(k))
<1> DEFINE winners == Winners(C, None)
           newest == FromContrast(C, winners)
           lone == LoneWinner(C)
           g == FromRecord(a, C, winners)
<1>1. /\ Recommend(a, C, seen, Contested) \in {Silent, g}
      /\ record # <<>> => Recommend(a, C, seen, Contested) = g
  BY NothingContested DEF Recommend
<1>2. \A j \in Actions : j # None
  BY ActionsFinite
<1>3. newest \in {None, k}
  <2> DEFINE standing == {i \in Contrasts : record[i].fixed \in C /\ Streak(record[i].fixed) = {}}
  <2>1. standing # {} => Latest(standing) \in standing
    <3>1. standing \in SUBSET (1 .. Len(record)) /\ Len(record) \in Nat
      BY RowsOfRecord DEF Contrasts
    <3> HIDE DEF standing
    <3> QED
      BY <3>1, LatestIs
  <2>2. newest = None \/ (standing # {} /\ newest = record[Latest(standing)].fixed)
    BY DEF FromContrast
  <2>3. \A i \in standing : record[i].fixed \in {None, k}
    BY DEF Contrasts, Resolves
  <2> HIDE DEF standing, newest
  <2> QED
    BY <2>1, <2>2, <2>3
<1>4. \/ newest # None /\ g = Act(newest)
      \/ newest = None /\ winners # {} /\ g = Act(Best(winners))
      \/ /\ newest = None /\ winners = {}
         /\ \/ \E x : g \in {Act(x), Explore(x), Say("abstain"), Silent}
            \/ ~((\A j \in TriedSet \cap C : FailedNow(j)) /\ Untried(C) # {})
  BY NothingPooled, Zenon DEF FromRecord, RecommendMode
<1>5. k \in TriedSet => Wins(k) # {}
  BY FixNeverLost DEF TriedSet, Tries
<1>6. Wins(k) # {} => winners = {k}
  <2>1. \A j \in winners : j = k
    BY <1>2, OthersNeverWon DEF Winners, TriedSet
  <2>2. Wins(k) # {} => k \in winners
    BY <1>2, FixNeverLost DEF Winners
  <2> QED
    BY <2>1, <2>2
<1>7. Best({k}) = k
  <2>1. Best({k}) \in {k}
    BY BestIs
  <2> QED
    BY <2>1
<1>8. Wins(k) # {} => record # <<>>
  BY DEF Wins
<1>9. \A x : /\ Act(x).mode # "escalate" /\ Explore(x).mode # "escalate"
             /\ Say("abstain").mode # "escalate" /\ Silent.mode # "escalate"
  BY DEF Act, Explore, Silent, Say, Advice
<1>10. k \notin TriedSet => (\A j \in TriedSet \cap C : FailedNow(j)) /\ Untried(C) # {}
  BY <1>2, OthersNeverWon DEF Untried, TriedSet
<1> HIDE DEF newest, winners, lone, g
<1>11. Wins(k) # {} => g = Act(k)
  BY <1>3, <1>4, <1>6, <1>7
<1>12. g.mode # "escalate"
  <2>1. CASE Wins(k) # {}
    BY <1>9, <1>11, <2>1
  <2>2. CASE Wins(k) = {}
    BY <1>4, <1>5, <1>9, <1>10, <2>2
  <2> QED
    BY <2>1, <2>2
<1> QED
  BY <1>1, <1>8, <1>9, <1>11, <1>12

\* A plan starts with what it is told to.
LEMMA PlanOpens ==
  ASSUME NEW a, NEW C \in SUBSET Actions, NEW k \in C
  PROVE  1 \in DOMAIN Plan(a, C, Act(k)) /\ Plan(a, C, Act(k))[1] = k
<1> DEFINE opens == <<k>>
           untried == Exploring(a, WithStale(C))
           sections == Sections(opens, untried)
           section == [x \in UNION Range(sections) |-> SectionOf(x, sections)]
           S == C \cap DOMAIN section
           Before(j, x) ==
             \/ section[j] < section[x]
             \/ /\ section[j] = section[x]
                /\ CASE section[x] = 1 -> PlaceIn(j, opens) < PlaceIn(x, opens)
                     [] section[x] = 5 -> Latest(Resolved(j)) > Latest(Resolved(x))
                     [] section[x] = 6 -> PlaceIn(j, untried) < PlaceIn(x, untried)
                     [] OTHER          -> Better(j, x)
           Ahead(x) == {j \in S : Before(j, x)}
           plan == [i \in (1 .. PlanMax) \cap (1 .. Cardinality(S)) |->
                      CHOOSE x \in S : Cardinality(Ahead(x)) = i - 1]
<1>1. Plan(a, C, Act(k)) = plan
  <2>1. Act(k).opens = opens
    BY DEF Act, Advice
  <2> QED
    BY <2>1 DEF Plan, Ranked
<1>2. DOMAIN sections = 1 .. 9 /\ sections[1] = {k}
  <2>1. Range(opens) = {k}
    BY DEF Range
  <2> QED
    BY <2>1 DEF Sections
<1> HIDE DEF sections
<1>3. /\ k \in DOMAIN section
      /\ \A x \in DOMAIN section : \E n \in DOMAIN sections : x \in sections[n]
      /\ \A x \in DOMAIN section : section[x] = SectionOf(x, sections)
  BY <1>2 DEF Range
<1>4. ASSUME NEW x \in DOMAIN section
      PROVE  /\ section[x] \in Nat /\ section[x] > 0
             /\ section[x] = 1 <=> x = k
  <2> DEFINE T == {n \in DOMAIN sections : x \in sections[n]}
  <2>1. T \in SUBSET Nat /\ T # {} /\ (1 \in T <=> x = k) /\ \A n \in T : n > 0
    BY <1>2, <1>3
  <2>2. section[x] = Earliest(T)
    BY <1>3 DEF SectionOf
  <2> HIDE DEF T, section
  <2>3. Earliest(T) \in T /\ \A n \in T : Earliest(T) <= n
    BY <2>1, EarliestIs
  <2>4. Earliest(T) \in Nat /\ Earliest(T) > 0
    BY <2>1, <2>3
  <2>5. Earliest(T) = 1 => x = k
    BY <2>1, <2>3
  <2>6. x = k => Earliest(T) = 1
    BY <2>1, <2>3, <2>4
  <2> QED
    BY <2>2, <2>4, <2>5, <2>6
<1> HIDE DEF section
<1>5. k \in S /\ IsFiniteSet(S)
  <2>1. S \in SUBSET Actions
    OBVIOUS
  <2>2. IsFiniteSet(S)
    BY <2>1, ActionsFinite, FS_Subset
  <2> QED
    BY <1>3, <2>2
<1>6. Ahead(k) = {}
  <2> SUFFICES ASSUME NEW j \in S, Before(j, k) PROVE FALSE
    OBVIOUS
  <2>1. section[k] = 1 /\ section[j] \in Nat /\ section[j] > 0
    BY <1>4, <1>5
  <2>2. section[j] = 1 /\ PlaceIn(j, opens) < PlaceIn(k, opens)
    BY <2>1
  <2>3. j = k
    BY <1>4, <2>2
  <2>4. PlaceIn(k, opens) \in Nat
    <3> DEFINE T == {n \in DOMAIN opens : opens[n] = k}
    <3>1. T \in SUBSET Nat /\ T # {}
      OBVIOUS
    <3> HIDE DEF T
    <3>2. Earliest(T) \in T
      BY <3>1, EarliestIs
    <3> QED
      BY <3>1, <3>2 DEF PlaceIn, T
  <2> HIDE DEF opens
  <2> QED
    BY <2>2, <2>3, <2>4
<1>7. \A x \in S : x # k => k \in Ahead(x)
  BY <1>4, <1>5
<1>8. \A x \in S : IsFiniteSet(Ahead(x))
  <2>1. \A x \in S : Ahead(x) \in SUBSET S
    OBVIOUS
  <2> HIDE DEF Ahead, S
  <2> QED
    BY <1>5, <2>1, FS_Subset
<1>9. 1 \in DOMAIN plan
  <2>1. Cardinality(S) \in Nat /\ Cardinality(S) # 0
    <3> HIDE DEF S
    <3> QED
      BY <1>5, FS_EmptySet, FS_CardinalityType
  <2>2. PlanMax \in Nat /\ PlanMax # 0
    BY LearningAssumption
  <2> QED
    BY <2>1, <2>2
<1> HIDE DEF Ahead, S
<1>10. \A x \in S : Cardinality(Ahead(x)) = 0 <=> x = k
  BY <1>5, <1>6, <1>7, <1>8, FS_EmptySet
<1>11. plan[1] = k
  <2>1. plan[1] = CHOOSE x \in S : Cardinality(Ahead(x)) = 1 - 1
    BY <1>9
  <2> HIDE DEF plan
  <2> QED
    BY <1>5, <1>10, <2>1
<1> QED
  BY <1>1, <1>9, <1>11

\* What a run that has taken nothing does next, told to act.
LEMMA FixIsOrdered ==
  ASSUME Kept, NEW k \in Actions, Resolves(k), Wins(k) # {}, NEW a, NEW seen
  PROVE  LET g == Guided(a, Actions, seen)
         IN  /\ g.follow /\ DOMAIN g.plan \subseteq Nat \ {0}
             /\ 1 \in DOMAIN g.plan /\ g.plan[1] = k
<1> DEFINE g == Guided(a, Actions, seen)
           advice == Recommend(a, Actions, seen, Contested)
<1>1. advice = Act(k)
  BY FixIsAdvised
<1>2. g.plan = Planned(a, Actions, advice) /\ g.follow = Binding(advice)
  BY DEF Guided, Guidance
<1>3. Act(k).mode = "act" /\ Act(k) # Silent
  BY DEF Act, Silent, Advice
<1> HIDE DEF advice
<1>4. g.plan = Plan(a, Actions, Act(k)) /\ g.follow
  BY <1>1, <1>2, <1>3 DEF Planned, Binding
<1> QED
  BY <1>4, PlanOpens, PlansAreListed

LEMMA FirstOfPlan ==
  ASSUME NEW plan, DOMAIN plan \subseteq Nat \ {0},
         1 \in DOMAIN plan, plan[1] \in Actions
  PROVE  LET left == {n \in DOMAIN plan : plan[n] \in Actions \ Range(<<>>)}
         IN  left # {} /\ Earliest(left) = 1
<1> DEFINE left == {n \in DOMAIN plan : plan[n] \in Actions \ Range(<<>>)}
<1>1. 1 \in left /\ left \in SUBSET Nat /\ \A n \in left : n # 0
  BY DEF Range
<1> HIDE DEF left
<1>2. Earliest(left) \in left /\ Earliest(left) <= 1
  BY <1>1, EarliestIs
<1>3. Earliest(left) \in Nat /\ Earliest(left) # 0
  BY <1>1, <1>2
<1>4. Earliest(left) = 1
  BY <1>2, <1>3
<1> QED
  BY <1>1, <1>4 DEF left

Untouched(k) == Resolves(k) /\ \A a \in Open : k \notin Range(run[a].acts)

Steady == turns = 0 => since = 0 /\ \E k \in Actions : Untouched(k)

Served == turns = 0 => FixIsServed /\ NeverHandsOffTheFix

LEMMA FoundIsAWin ==
  ASSUME Kept, NEW k \in Actions, Resolves(k), since = 0, Found # {}
  PROVE  Wins(k) # {}
<1>1. PICK i \in DOMAIN record : record[i].fixed # None
  BY DEF Found, Since, Unsolved
<1> QED
  BY <1>1 DEF Resolves, Wins

\* A task goes on: what resolves it is not among its attempts, and is what a
\* guidance has said to act on if it has ever been found.
LEMMA SteadyGoing ==
  ASSUME Types, Steady, Served, turns = 0, UNCHANGED <<fix, turns, since>>,
         NEW a \in Agents, NEW r, Goes(a, r)
  PROVE  Steady' /\ Served'
<1>1. /\ run'[a] = r /\ IsOpen(r) /\ Open' = Open \cup {a}
      /\ \A b \in Agents \ {a} : run'[b] = run[b]
  BY AfterGoing
<1>2. record' = record /\ fix' = fix /\ turns' = 0 /\ since' = 0 /\ since = 0
  BY DEF Goes, Steady
<1>3. PICK k \in Actions : Untouched(k)
  BY DEF Steady
<1>4. k \notin Range(r.acts)
  <2>1. CASE r.acts = <<>>
    BY <2>1 DEF Range
  <2>2. ASSUME a \in Open, NEW j \in Actions \ {fix[run[a].side]}, r.acts = Append(run[a].acts, j)
        PROVE  k \notin Range(r.acts)
    <3>1. run[a].acts \in Seq(Actions) /\ run[a].side \in Sides
      BY <2>2, OpenRuns DEF IsOpen
    <3>2. fix[run[a].side] = k /\ k \notin Range(run[a].acts)
      BY <1>3, <2>2, <3>1 DEF Untouched, Resolves
    <3> QED
      BY <2>2, <3>1, <3>2, AppendedActs
  <2> QED
    BY <2>1, <2>2 DEF Goes
<1>5. Steady'
  <2>1. Resolves(k)'
    BY <1>2, <1>3 DEF Untouched, Resolves, FailedIn
  <2>2. \A b \in Open' : k \notin Range(run'[b].acts)
    BY <1>1, <1>3, <1>4 DEF Untouched, Open
  <2> QED
    BY <1>2, <2>1, <2>2 DEF Steady, Untouched
<1>6. r.advice.mode # "escalate"
  <2>1. \A C \in {Actions \ Range(r.acts), Actions} : \A seen :
          Guided(a, C, seen).mode # "escalate"
    <3> SUFFICES ASSUME NEW C \in {Actions \ Range(r.acts), Actions}, NEW seen
                 PROVE  Guided(a, C, seen).mode # "escalate"
      OBVIOUS
    <3>1. C \in SUBSET Actions /\ k \in C
      BY <1>4
    <3>2. Recommend(a, C, seen, Contested).mode # "escalate"
      BY <1>3, <3>1, FixIsAdvised DEF Types, Untouched
    <3> QED
      BY <3>2 DEF Guided, Guidance
  <2>2. a \in Open => run[a].advice.mode # "escalate"
    BY DEF Served, NeverHandsOffTheFix, OneChange
  <2> QED
    BY <2>1, <2>2 DEF Goes
<1>7. NeverHandsOffTheFix'
  <2>1. \A b \in Open : run[b].advice.mode # "escalate"
    BY DEF Served, NeverHandsOffTheFix, OneChange
  <2>2. \A b \in Open' : run'[b].advice.mode # "escalate"
    BY <1>1, <1>6, <2>1 DEF Open
  <2> QED
    BY <2>2 DEF NeverHandsOffTheFix
<1>8. FixIsServed'
  <2> SUFFICES ASSUME Found' # {}, NEW b \in Open', JustBegun(b)'
               PROVE  NextOf(b)' = {fix'[run'[b].side]}
    BY DEF FixIsServed
  <2>1. Found' = Found
    BY <1>2 DEF Found, Since, Unsolved
  <2>2. CASE b # a
    <3>1. b \in Open /\ run'[b] = run[b] /\ JustBegun(b)
      BY <1>1, <1>2, <2>2 DEF Open, JustBegun
    <3>2. NextOf(b) = {fix[run[b].side]}
      BY <2>1, <3>1 DEF Served, FixIsServed, OneChange
    <3> QED
      BY <1>2, <3>1, <3>2 DEF NextOf
  <2>3. CASE b = a
    <3>1. r.acts = <<>> /\ \E seen : r.advice = Guided(a, Actions, seen)
      <4>1. r.acts = <<>>
        BY <1>1, <2>3 DEF JustBegun
      <4>2. \A j \in Actions : a \in Open => Append(run[a].acts, j) # <<>>
        BY OpenRuns, AppendedActs DEF IsOpen
      <4> QED
        BY <4>1, <4>2 DEF Goes
    <3>2. PICK seen : r.advice = Guided(a, Actions, seen)
      BY <3>1
    <3>3. Wins(k) # {}
      BY <1>2, <1>3, <2>1, FoundIsAWin DEF Types, Untouched
    <3> DEFINE plan == r.advice.plan
    <3>4. r.advice.follow /\ DOMAIN plan \subseteq Nat \ {0} /\ 1 \in DOMAIN plan /\ plan[1] = k
      BY <1>3, <3>2, <3>3, FixIsOrdered DEF Types, Untouched
    <3>5. LET left == {n \in DOMAIN plan : plan[n] \in Actions \ Range(<<>>)}
          IN  left # {} /\ Earliest(left) = 1
      <4> HIDE DEF plan
      <4> QED
        BY <3>4, FirstOfPlan
    <3>6. NextOf(a)' = {k}
      BY <1>1, <3>1, <3>4, <3>5 DEF NextOf, Actions
    <3>7. fix'[r.side] = k
      BY <1>1, <1>2, <1>3 DEF IsOpen, Untouched, Resolves
    <3> QED
      BY <1>1, <2>3, <3>6, <3>7
  <2> QED
    BY <2>2, <2>3
<1> QED
  BY <1>5, <1>7, <1>8 DEF Served

LEMMA SteadyEnding ==
  ASSUME Types, Types', Steady, Served, turns = 0, UNCHANGED <<fix, turns, since>>,
         NEW a \in Open, NEW failed, NEW fixed, Ends(a, failed, fixed)
  PROVE  Steady' /\ Served'
<1> DEFINE row == [failed |-> failed, fixed |-> fixed, side |-> run[a].side]
           last == Len(record) + 1
<1>1. /\ Open' = Open \ {a} /\ \A b \in Agents \ {a} : run'[b] = run[b]
      /\ Len(record') = last /\ record'[last] = row
      /\ \A i \in DOMAIN record : record'[i] = record[i]
  BY AfterEnding
<1>2. DOMAIN record' = DOMAIN record \cup {last} /\ Len(record) \in Nat
  <2>1. Len(record) \in Nat /\ DOMAIN record = 1 .. Len(record)
    BY RowsOfRecord DEF Types
  <2>2. DOMAIN record' = 1 .. Len(record')
    BY DEF Types, Kept
  <2> QED
    BY <1>1, <2>1, <2>2
<1>3. fix' = fix /\ turns' = 0 /\ since' = 0 /\ since = 0
  BY DEF Steady
<1>4. PICK k \in Actions : Untouched(k)
  BY DEF Steady
<1>5. row.fixed \in {None, k} /\ k \notin Range(row.failed)
  <2>1. IsOpen(run[a])
    BY OpenRuns DEF Open
  <2>2. fix[run[a].side] = k /\ k \notin Range(run[a].acts) /\ run[a].acts \in Seq(Actions)
    BY <1>4, <2>1 DEF IsOpen, Untouched, Resolves
  <2>3. fixed \in {None, k} /\ k \notin Range(failed)
    BY <2>2, AppendedActs DEF Ends
  <2> QED
    BY <2>3
<1>6. Steady'
  <2>1. Resolves(k)'
    <3>1. \A i \in DOMAIN record' : record'[i].fixed \in {None, k} /\ k \notin Range(record'[i].failed)
      <4> HIDE DEF row, last
      <4> QED
        BY <1>1, <1>2, <1>4, <1>5 DEF Untouched, Resolves, FailedIn
    <3>2. \A s \in Sides : fix'[s] = k
      BY <1>3, <1>4 DEF Untouched, Resolves
    <3> QED
      BY <3>1, <3>2 DEF Resolves, FailedIn
  <2>2. \A b \in Open' : k \notin Range(run'[b].acts)
    BY <1>1, <1>4 DEF Untouched, Open
  <2> QED
    BY <1>3, <2>1, <2>2 DEF Steady, Untouched
<1>7. NeverHandsOffTheFix'
  <2>1. \A b \in Open : run[b].advice.mode # "escalate"
    BY DEF Served, NeverHandsOffTheFix, OneChange
  <2>2. \A b \in Open' : run'[b].advice.mode # "escalate"
    BY <1>1, <2>1 DEF Open
  <2> QED
    BY <2>2 DEF NeverHandsOffTheFix
<1>8. ASSUME NEW b \in Open' PROVE ~JustBegun(b)'
  <2>1. b \in Agents /\ IsOpen(run[b]) /\ run'[b] = run[b]
    BY <1>1, OpenRuns DEF Open
  <2>2. run[b].at <= Len(record) /\ run[b].at \in Nat
    BY <1>2, <2>1 DEF IsOpen
  <2> QED
    BY <1>1, <1>2, <2>1, <2>2 DEF JustBegun
<1> QED
  BY <1>6, <1>7, <1>8 DEF Served, FixIsServed

LEMMA SteadyStep ==
  ASSUME Types, Types', Steady, Served, [Next]_vars
  PROVE  Steady' /\ Served'
<1>1. CASE UNCHANGED vars
  <2>1. UNCHANGED <<record, fix, turns, since, run>>
    BY <1>1 DEF vars
  <2>2. Open' = Open /\ Found' = Found /\ \A k \in Actions : Untouched(k)' <=> Untouched(k)
    BY <2>1 DEF Open, Found, Since, Unsolved, Untouched, Resolves, FailedIn
  <2>3. Steady'
    BY <2>1, <2>2 DEF Steady
  <2>4. \A a \in Open : (JustBegun(a)' <=> JustBegun(a)) /\ NextOf(a)' = NextOf(a)
    BY <2>1 DEF JustBegun, NextOf
  <2>5. turns = 0 => FixIsServed' /\ NeverHandsOffTheFix'
    BY <2>1, <2>2, <2>4 DEF Served, FixIsServed, NeverHandsOffTheFix, OneChange
  <2> QED
    BY <2>1, <2>3, <2>5 DEF Served
<1>2. CASE Turn
  <2>1. turns \in Nat /\ turns' = turns + 1
    BY <1>2 DEF Types, Turn
  <2>2. turns' # 0
    BY <2>1
  <2> QED
    BY <2>2 DEF Steady, Served
<1>3. CASE turns' # 0
  BY <1>3 DEF Steady, Served
<1>4. ASSUME turns = 0, UNCHANGED <<fix, turns, since>>,
             \/ \E a \in Agents : \E r : Goes(a, r)
             \/ \E a \in Open : \E failed, fixed : Ends(a, failed, fixed)
      PROVE  Steady' /\ Served'
  BY <1>4, SteadyGoing, SteadyEnding
<1> QED
  BY <1>1, <1>2, <1>3, <1>4, StepShapes

LEMMA SteadyInit == Init => Steady /\ Served
<1> SUFFICES ASSUME Init PROVE Steady /\ Served
  OBVIOUS
<1>1. Open = {} /\ record = <<>> /\ since = 0
  BY DEF Init, Open, NoRun
<1>2. PICK k \in Actions : fix = [s \in Sides |-> k]
  BY DEF Init
<1>3. Untouched(k)
  BY <1>1, <1>2 DEF Untouched, Resolves
<1>4. FixIsServed /\ NeverHandsOffTheFix
  BY <1>1 DEF FixIsServed, NeverHandsOffTheFix
<1> QED
  BY <1>1, <1>3, <1>4 DEF Steady, Served

\* As long as what resolves the situation stays what it is: once it has been
\* found, by any of the fleet, every task that begins is told it first; and no
\* task ever is told that everything known has failed, whatever its attempts,
\* its candidates and its covariates.
THEOREM SteadyFixIsServed == Spec => [](turns = 0 => FixIsServed /\ NeverHandsOffTheFix)
<1>1. Types /\ Types' /\ Steady /\ Served /\ [Next]_vars => Steady' /\ Served'
  BY SteadyStep
<1>2. Spec => []Served
  BY <1>1, SteadyInit, TypesAlways, PTL DEF Spec
<1> QED
  BY <1>2, PTL DEF Served

=============================================================================
