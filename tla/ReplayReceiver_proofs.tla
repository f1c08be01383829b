------------------------- MODULE ReplayReceiver_proofs -------------------------
(***************************************************************************)
(* The hand-off between a worker and its runner, and the in-flight count,  *)
(* for any deliveries, handler threads, workers and runs, whatever the     *)
(* customer's code does and whenever the receiver is shut down.  What one  *)
(* thread may assume of the other at each of its points is RunOK.          *)
(***************************************************************************)
EXTENDS ReplayReceiver, FiniteSetTheorems, FunctionTheorems, SequenceTheorems, TLAPS

Types ==
  /\ accepted \in [Deliveries -> Nat]
  /\ hpc \in [Handlers -> {"idle", "count", "submit"}]
  /\ hrun \in [Handlers -> Runs \cup {NoRun}]
  /\ stage \in [Runs -> Stages] /\ runner \in [Runs -> RunnerPoints]
  /\ done \in [Runs -> BOOLEAN] /\ late \in [Runs -> BOOLEAN] /\ box \in [Runs -> BOOLEAN]
  /\ mem \in [Runs -> {"none", "open", "closed"}] /\ own \in [Runs -> {"none", "open", "closed"}]
  /\ closes \in [Runs -> Nat] /\ committed \in [Runs -> Outcomes]

Before == {"none", "accepted", "queued", "dropped"}

After == {"remember", "uncount", "finished"}

\* Where the worker and the runner of a run are, what the flags between them
\* say, and how often the runner's memory was closed.
RunOK(r) ==
  /\ stage[r] \in Before => runner[r] = "none"
  /\ stage[r] \notin Before \cup After => runner[r] # "none"
  /\ done[r] <=> runner[r] \in {"close", "end"}
  /\ stage[r] \in {"opened", "handoff", "join"} => ~late[r]
  /\ stage[r] = "giveup" => late[r]
  /\ stage[r] = "join" => done[r]
  /\ runner[r] = "none" => ~late[r] /\ mem[r] = "none" /\ closes[r] = 0
  /\ late[r] => /\ closes[r] = (IF runner[r] = "end" THEN 1 ELSE 0)
                /\ runner[r] = "end" <=> mem[r] = "closed"
  /\ ~late[r] =>
       /\ runner[r] # "close"
       /\ stage[r] \notin {"opened", "handoff"} => runner[r] \in {"none", "end"}
       /\ stage[r] \notin After => closes[r] = 0 /\ mem[r] # "closed"
       /\ closes[r] <= 1
       /\ mem[r] = "closed" => runner[r] = "end"
  /\ own[r] = "open" => late[r] /\ stage[r] \in {"commit", "close"}
  /\ committed[r] # "none" => stage[r] \in After \cup {"close"} /\ runner[r] # "none"
  /\ committed[r] = "timeout" => late[r]
  /\ committed[r] = "answer" => ~late[r]

Holding(h) == hpc[h] \in {"count", "submit"}

\* A handler thread between its two critical sections has a run of its own.
HandlersOK ==
  /\ \A h \in Handlers : Holding(h) => hrun[h] \in Runs /\ stage[hrun[h]] = "accepted"
  /\ \A g, h \in Handlers : Holding(g) /\ Holding(h) /\ hrun[g] = hrun[h] => g = h

\* The next run of a delivery has not begun.
Fresh == \A r \in Runs : stage[r] # "none" => r[2] <= accepted[r[1]]

HandOffInv == Types /\ HandlersOK /\ Fresh /\ \A r \in Runs : RunOK(r)

-----------------------------------------------------------------------------
(* Steps of one run.                                                       *)

Same(q) ==
  /\ stage'[q] = stage[q] /\ runner'[q] = runner[q] /\ done'[q] = done[q]
  /\ late'[q] = late[q] /\ mem'[q] = mem[q] /\ own'[q] = own[q]
  /\ closes'[q] = closes[q] /\ committed'[q] = committed[q]

Alone(r) == \A q \in Runs \ {r} : Same(q)

\* A step of the worker or of the runner of r.
OfRun(r) ==
  /\ Types' /\ Alone(r) /\ RunOK(r)'
  /\ UNCHANGED handling
  /\ stage'[r] = stage[r] \/ (stage[r] \notin {"none", "accepted"} /\ stage'[r] # "none")

LEMMA SameRun ==
  ASSUME NEW q, Same(q), RunOK(q)
  PROVE  RunOK(q)'
BY DEF Same, RunOK

LEMMA OneRun ==
  ASSUME HandOffInv, NEW r \in Runs, OfRun(r)
  PROVE  HandOffInv'
<1>1. \A q \in Runs : RunOK(q)'
  BY SameRun DEF HandOffInv, OfRun, Alone
<1>2. \A q \in Runs : stage'[q] = stage[q] \/ (q = r /\ stage[q] \notin {"none", "accepted"} /\ stage'[q] # "none")
  BY DEF OfRun, Alone, Same
<1>3. hpc' = hpc /\ hrun' = hrun /\ accepted' = accepted
  BY DEF OfRun, handling
<1>4. HandlersOK'
  BY <1>2, <1>3 DEF HandOffInv, HandlersOK, Holding
<1>5. Fresh'
  BY <1>2, <1>3 DEF HandOffInv, Fresh
<1> QED
  BY <1>1, <1>4, <1>5 DEF HandOffInv, OfRun

LEMMA TakeStep ==
  ASSUME HandOffInv, NEW r \in Runs, Take(r)
  PROVE  OfRun(r)
<1>1. /\ Types /\ RunOK(r) /\ stage[r] = "queued"
      /\ UNCHANGED handling /\ done' = done /\ late' = late /\ box' = box /\ own' = own
      /\ closes' = closes /\ committed' = committed
  BY DEF HandOffInv, Take, WorkerStep
<1>2. CASE /\ stage' = [stage EXCEPT ![r] = "opened"] /\ mem' = [mem EXCEPT ![r] = "open"]
           /\ runner' = [runner EXCEPT ![r] = "run"]
  BY <1>1, <1>2 DEF OfRun, Types, Alone, Same, RunOK, Stages, RunnerPoints, Before, After, handling
<1>3. CASE stage' = [stage EXCEPT ![r] = "remember"] /\ UNCHANGED <<mem, runner>>
  BY <1>1, <1>3 DEF OfRun, Types, Alone, Same, RunOK, Stages, RunnerPoints, Before, After, handling
<1> QED
  BY <1>2, <1>3 DEF Take, WorkerStep

LEMMA StopWaitingStep ==
  ASSUME HandOffInv, NEW r \in Runs, StopWaiting(r)
  PROVE  OfRun(r)
BY DEF HandOffInv, StopWaiting, WorkerStep, running, handling, OfRun, Types, Alone, Same, RunOK,
       Stages, Before, After

LEMMA DecideLateStep ==
  ASSUME HandOffInv, NEW r \in Runs, DecideLate(r)
  PROVE  OfRun(r)
<1>1. /\ Types /\ RunOK(r) /\ stage[r] = "handoff"
      /\ UNCHANGED handling /\ runner' = runner /\ done' = done /\ box' = box /\ mem' = mem
      /\ own' = own /\ closes' = closes /\ committed' = committed
  BY DEF HandOffInv, DecideLate, WorkerStep
<1>2. CASE ~done[r] /\ stage' = [stage EXCEPT ![r] = "giveup"] /\ late' = [late EXCEPT ![r] = TRUE]
  <2>1. Types' /\ Alone(r)
    BY <1>1, <1>2 DEF Types, Alone, Same, Stages, handling
  <2>2. stage'[r] = "giveup" /\ late'[r] = TRUE
    BY <1>1, <1>2 DEF Types
  <2>3. RunOK(r)'
    BY <1>1, <1>2, <2>2 DEF RunOK, Types, RunnerPoints, Before, After
  <2> QED
    BY <1>1, <2>1, <2>2, <2>3 DEF OfRun
<1>3. CASE done[r] /\ stage' = [stage EXCEPT ![r] = "join"] /\ late' = late
  <2>1. Types' /\ Alone(r)
    BY <1>1, <1>3 DEF Types, Alone, Same, Stages, handling
  <2>2. stage'[r] = "join"
    BY <1>1, <1>3 DEF Types
  <2>3. RunOK(r)'
    BY <1>1, <1>3, <2>2 DEF RunOK, Before, After
  <2> QED
    BY <1>1, <2>1, <2>2, <2>3 DEF OfRun
<1> QED
  BY <1>2, <1>3 DEF DecideLate, WorkerStep

LEMMA JoinStep ==
  ASSUME HandOffInv, NEW r \in Runs, Join(r)
  PROVE  OfRun(r)
BY DEF HandOffInv, Join, WorkerStep, running, handling, OfRun, Types, Alone, Same, RunOK, Stages,
       Before, After

LEMMA OpenOwnStep ==
  ASSUME HandOffInv, NEW r \in Runs, OpenOwn(r)
  PROVE  OfRun(r)
BY DEF HandOffInv, OpenOwn, WorkerStep, handling, OfRun, Types, Alone, Same, RunOK, Stages,
       Before, After

LEMMA CommitStep ==
  ASSUME HandOffInv, NEW r \in Runs, Commit(r)
  PROVE  OfRun(r)
BY DEF HandOffInv, Commit, WorkerStep, running, handling, OfRun, Types, Alone, Same, RunOK,
       Stages, Outcomes, Before, After

LEMMA CloseMemoryStep ==
  ASSUME HandOffInv, NEW r \in Runs, CloseMemory(r)
  PROVE  OfRun(r)
<1>1. /\ Types /\ RunOK(r) /\ stage[r] = "close" /\ stage' = [stage EXCEPT ![r] = "remember"]
      /\ UNCHANGED handling /\ runner' = runner /\ done' = done /\ late' = late /\ box' = box
      /\ committed' = committed
  BY DEF HandOffInv, CloseMemory, WorkerStep
<1>2. stage'[r] = "remember" /\ \A q \in Runs \ {r} : stage'[q] = stage[q]
  BY <1>1 DEF Types
<1>3. CASE late[r] /\ own' = [own EXCEPT ![r] = "closed"] /\ UNCHANGED <<mem, closes>>
  <2>1. Types' /\ Alone(r)
    BY <1>1, <1>3 DEF Types, Alone, Same, Stages, handling
  <2>2. own'[r] = "closed"
    BY <1>1, <1>3 DEF Types
  <2>3. RunOK(r)'
    BY <1>1, <1>2, <1>3, <2>2 DEF RunOK, Before, After
  <2> QED
    BY <1>1, <1>2, <2>1, <2>3 DEF OfRun
<1>4. CASE /\ ~late[r] /\ mem' = [mem EXCEPT ![r] = "closed"]
           /\ closes' = [closes EXCEPT ![r] = closes[r] + 1] /\ own' = own
  <2>1. Types' /\ Alone(r)
    BY <1>1, <1>4 DEF Types, Alone, Same, Stages, handling
  <2>2. mem'[r] = "closed" /\ closes'[r] = closes[r] + 1
    BY <1>1, <1>4 DEF Types
  <2>3. /\ runner[r] = "end" /\ closes[r] = 0 /\ done[r]
        /\ committed[r] # "timeout"
    BY <1>1, <1>4 DEF RunOK, Before, After
  <2>4. RunOK(r)'
    BY <1>1, <1>2, <1>4, <2>2, <2>3 DEF RunOK, Before, After
  <2> QED
    BY <1>1, <1>2, <2>1, <2>4 DEF OfRun
<1> QED
  BY <1>3, <1>4 DEF CloseMemory

LEMMA RememberOutcomeStep ==
  ASSUME HandOffInv, NEW r \in Runs, RememberOutcome(r)
  PROVE  OfRun(r)
BY DEF HandOffInv, RememberOutcome, WorkerStep, running, handling, OfRun, Types, Alone, Same,
       RunOK, Stages, Before, After

LEMMA UncountStep ==
  ASSUME HandOffInv, NEW r \in Runs, Uncount(r)
  PROVE  OfRun(r)
BY DEF HandOffInv, Uncount, WorkerStep, running, handling, OfRun, Types, Alone, Same, RunOK,
       Stages, Before, After

LEMMA RunnerAnswersStep ==
  ASSUME HandOffInv, NEW r \in Runs, RunnerAnswers(r)
  PROVE  OfRun(r)
BY DEF HandOffInv, RunnerAnswers, RunnerStep, handling, OfRun, Types, Alone, Same, RunOK,
       RunnerPoints, Before, After

LEMMA RunnerDoneStep ==
  ASSUME HandOffInv, NEW r \in Runs, RunnerDone(r)
  PROVE  OfRun(r)
BY DEF HandOffInv, RunnerDone, RunnerStep, handling, OfRun, Types, Alone, Same, RunOK,
       RunnerPoints, Before, After

LEMMA RunnerClosesStep ==
  ASSUME HandOffInv, NEW r \in Runs, RunnerCloses(r)
  PROVE  OfRun(r)
BY DEF HandOffInv, RunnerCloses, RunnerStep, handling, OfRun, Types, Alone, Same, RunOK,
       RunnerPoints, Before, After

-----------------------------------------------------------------------------
(* Steps of a handler thread.                                              *)

\* The run a handler accepts is a new one.
LEMMA AcceptKeeps ==
  ASSUME HandOffInv, NEW h \in Handlers, NEW d \in Deliveries, Accept(h, d)
  PROVE  HandOffInv'
<1> DEFINE r == <<d, accepted[d] + 1>>
<1>1. /\ Types /\ HandlersOK /\ Fresh /\ \A q \in Runs : RunOK(q)
      /\ hpc[h] = "idle" /\ accepted[d] < MaxRuns
      /\ hrun' = [hrun EXCEPT ![h] = r] /\ stage' = [stage EXCEPT ![r] = "accepted"]
      /\ accepted' = [accepted EXCEPT ![d] = accepted[d] + 1]
      /\ hpc' = [hpc EXCEPT ![h] = "count"]
      /\ UNCHANGED running /\ committed' = committed
  BY DEF HandOffInv, Accept
<1>2. accepted[d] \in Nat /\ MaxRuns \in Nat
  BY <1>1, ReceiverAssumption DEF Types
<1>3. r \in Runs /\ r[1] = d /\ r[2] = accepted[d] + 1
  BY <1>1, <1>2 DEF Runs
<1>4. \A q \in Runs : q = <<q[1], q[2]>> /\ q[1] \in Deliveries /\ q[2] \in Nat
  BY ReceiverAssumption DEF Runs
<1>5. stage[r] = "none"
  BY <1>1, <1>2, <1>3 DEF Fresh
<1> HIDE DEF r
<1>6. /\ runner' = runner /\ done' = done /\ late' = late /\ box' = box /\ mem' = mem
      /\ own' = own /\ closes' = closes
  BY <1>1 DEF running
<1>7. Types'
  BY <1>1, <1>2, <1>3, <1>6 DEF Types, Stages
<1>8. stage'[r] = "accepted" /\ \A q \in Runs \ {r} : stage'[q] = stage[q]
  BY <1>1, <1>3 DEF Types
<1>9. \A q \in Runs : RunOK(q)'
  <2> SUFFICES ASSUME NEW q \in Runs PROVE RunOK(q)'
    OBVIOUS
  <2>1. CASE q = r
    <3>1. RunOK(q) /\ stage[q] = "none" /\ stage'[q] = "accepted"
      BY <1>1, <1>5, <1>8, <2>1
    <3> QED
      BY <1>1, <1>6, <3>1 DEF RunOK, Before, After
  <2>2. CASE q # r
    BY <1>1, <1>6, <1>8, <2>2, SameRun DEF Same
  <2> QED
    BY <2>1, <2>2
<1>10. HandlersOK'
  <2>1. hpc'[h] = "count" /\ hrun'[h] = r
    BY <1>1 DEF Types
  <2>2. \A g \in Handlers \ {h} : hpc'[g] = hpc[g] /\ hrun'[g] = hrun[g]
    BY <1>1 DEF Types
  <2>3. \A g \in Handlers \ {h} : Holding(g) => hrun[g] # r
    BY <1>1, <1>5 DEF HandlersOK
  <2> QED
    BY <1>1, <1>3, <1>8, <2>1, <2>2, <2>3 DEF HandlersOK, Holding
<1>11. Fresh'
  <2> SUFFICES ASSUME NEW q \in Runs, stage'[q] # "none" PROVE q[2] <= accepted'[q[1]]
    BY DEF Fresh
  <2>1. CASE q = r
    BY <1>1, <1>2, <1>3, <2>1 DEF Types
  <2>2. CASE q # r
    <3>1. q[2] <= accepted[q[1]] /\ q[1] \in Deliveries /\ q[2] \in Nat
      BY <1>1, <1>4, <1>8, <2>2 DEF Fresh
    <3>2. accepted[q[1]] \in Nat /\ (accepted'[q[1]] = accepted[q[1]] \/ accepted'[q[1]] = accepted[q[1]] + 1)
      BY <1>1, <3>1 DEF Types
    <3> QED
      BY <3>1, <3>2
  <2> QED
    BY <2>1, <2>2
<1> QED
  BY <1>7, <1>9, <1>10, <1>11 DEF HandOffInv

LEMMA CountKeeps ==
  ASSUME HandOffInv, NEW h \in Handlers, Count(h)
  PROVE  HandOffInv'
<1>1. /\ Types /\ HandlersOK /\ Fresh /\ \A q \in Runs : RunOK(q)
      /\ hpc[h] = "count" /\ hpc' = [hpc EXCEPT ![h] = "submit"]
      /\ hrun' = hrun /\ stage' = stage /\ accepted' = accepted /\ committed' = committed
      /\ UNCHANGED running
  BY DEF HandOffInv, Count
<1>2. Types'
  BY <1>1 DEF Types, running
<1>3. \A q \in Runs : RunOK(q)'
  BY <1>1, SameRun DEF Same, running
<1>4. \A g \in Handlers : Holding(g)' = Holding(g)
  BY <1>1 DEF Types, Holding
<1> QED
  BY <1>1, <1>2, <1>3, <1>4 DEF HandOffInv, HandlersOK, Fresh

LEMMA SubmitKeeps ==
  ASSUME HandOffInv, NEW h \in Handlers, Submit(h)
  PROVE  HandOffInv'
<1> DEFINE r == hrun[h]
<1>1. /\ Types /\ HandlersOK /\ Fresh /\ \A q \in Runs : RunOK(q)
      /\ hpc[h] = "submit" /\ hpc' = [hpc EXCEPT ![h] = "idle"]
      /\ hrun' = [hrun EXCEPT ![h] = NoRun] /\ accepted' = accepted /\ committed' = committed
      /\ UNCHANGED running
  BY DEF HandOffInv, Submit
<1>2. PICK to \in {"queued", "dropped"} : stage' = [stage EXCEPT ![r] = to]
  BY DEF Submit
<1>3. r \in Runs /\ stage[r] = "accepted"
  BY <1>1 DEF HandlersOK, Holding
<1>4. /\ runner' = runner /\ done' = done /\ late' = late /\ box' = box /\ mem' = mem
      /\ own' = own /\ closes' = closes
  BY <1>1 DEF running
<1>5. Types'
  BY <1>1, <1>2, <1>3, <1>4 DEF Types, Stages
<1>6. stage'[r] = to /\ \A q \in Runs \ {r} : stage'[q] = stage[q]
  BY <1>1, <1>2, <1>3 DEF Types
<1>7. \A q \in Runs : RunOK(q)'
  <2> SUFFICES ASSUME NEW q \in Runs PROVE RunOK(q)'
    OBVIOUS
  <2>1. CASE q = r
    <3>1. RunOK(q) /\ stage[q] = "accepted" /\ stage'[q] \in {"queued", "dropped"}
      BY <1>1, <1>3, <1>6, <2>1
    <3> QED
      BY <1>1, <1>4, <3>1 DEF RunOK, Before, After
  <2>2. CASE q # r
    BY <1>1, <1>4, <1>6, <2>2, SameRun DEF Same
  <2> QED
    BY <2>1, <2>2
<1>8. HandlersOK'
  <2>1. hpc'[h] = "idle" /\ \A g \in Handlers \ {h} : hpc'[g] = hpc[g] /\ hrun'[g] = hrun[g]
    BY <1>1 DEF Types
  <2>2. \A g \in Handlers \ {h} : Holding(g) => hrun[g] # r
    BY <1>1 DEF HandlersOK, Holding
  <2> QED
    BY <1>1, <1>6, <2>1, <2>2 DEF HandlersOK, Holding
<1>9. Fresh'
  BY <1>1, <1>3, <1>6 DEF Fresh
<1> QED
  BY <1>5, <1>7, <1>8, <1>9 DEF HandOffInv

-----------------------------------------------------------------------------
(* The hand-off.                                                           *)

LEMMA HandOffInit ==
  ASSUME Init
  PROVE  HandOffInv
<1>1. Types
  BY DEF Init, Types, Stages, RunnerPoints, Outcomes
<1>2. HandlersOK /\ Fresh
  BY DEF Init, HandlersOK, Holding, Fresh
<1>3. \A r \in Runs : RunOK(r)
  BY DEF Init, RunOK, Before, After
<1> QED
  BY <1>1, <1>2, <1>3 DEF HandOffInv

LEMMA HandOffElsewhere ==
  ASSUME HandOffInv, UNCHANGED <<handling, stage, running, committed>>
  PROVE  HandOffInv'
<1>1. Types'
  BY DEF HandOffInv, Types, handling, running
<1>2. \A r \in Runs : RunOK(r)'
  BY SameRun DEF HandOffInv, Same, running
<1>3. HandlersOK' /\ Fresh'
  BY DEF HandOffInv, HandlersOK, Holding, Fresh, handling
<1> QED
  BY <1>1, <1>2, <1>3 DEF HandOffInv

LEMMA RunSteps ==
  ASSUME HandOffInv, NEW r \in Runs, Work(r) \/ RunnerAnswers(r) \/ Finish(r)
  PROVE  OfRun(r)
BY TakeStep, StopWaitingStep, DecideLateStep, JoinStep, OpenOwnStep, CommitStep, CloseMemoryStep,
   RememberOutcomeStep, UncountStep, RunnerAnswersStep, RunnerDoneStep, RunnerClosesStep
   DEF Work, Finish

LEMMA HandOffNext ==
  ASSUME HandOffInv, [Next]_vars
  PROVE  HandOffInv'
<1>1. ASSUME NEW h \in Handlers, Handle(h) PROVE HandOffInv'
  BY <1>1, AcceptKeeps, CountKeeps, SubmitKeeps DEF Handle
<1>2. ASSUME NEW r \in Runs, Work(r) \/ RunnerAnswers(r) \/ Finish(r) PROVE HandOffInv'
  BY <1>2, RunSteps, OneRun
<1>3. ASSUME NEW d \in Deliveries, DeadlinePasses(d) PROVE HandOffInv'
  BY <1>3, HandOffElsewhere DEF DeadlinePasses
<1>4. CASE Drain \/ Shutdown \/ UNCHANGED vars
  BY <1>4, HandOffElsewhere DEF Drain, Shutdown, vars
<1> QED
  BY <1>1, <1>2, <1>3, <1>4 DEF Next

\* What a handler, a worker and a runner each know at every point of the hand-off:
\* who has still to answer, to close, and which of them the flags have decided for.
THEOREM HandOffInvariant == Spec => []HandOffInv
<1>1. Init => HandOffInv
  BY HandOffInit
<1>2. HandOffInv /\ [Next]_vars => HandOffInv'
  BY HandOffNext
<1> QED
  BY <1>1, <1>2, PTL DEF Spec

\* The runner's memory is closed at most once and never under a runner that is
\* still using it, at whatever moment its worker stops waiting for it.
THEOREM MemoryIsClosedOnce == Spec => []MemoryClosedOnce
<1>1. HandOffInv => MemoryClosedOnce
  <2> SUFFICES ASSUME HandOffInv, NEW r \in Runs
               PROVE  /\ closes[r] <= 1
                      /\ mem[r] = "closed" => runner[r] = "end"
                      /\ own[r] = "open" => stage[r] \in {"commit", "close"}
    BY DEF MemoryClosedOnce
  <2>1. RunOK(r) /\ late[r] \in BOOLEAN
    BY DEF HandOffInv, Types
  <2> QED
    BY <2>1 DEF RunOK
<1> QED
  BY <1>1, HandOffInvariant, PTL

\* What is committed is what the two threads agreed on under the hand-off lock.
THEOREM CommitsFollowTheHandOff == Spec => []CommitFollowsHandOff
<1>1. HandOffInv => CommitFollowsHandOff
  <2> SUFFICES ASSUME HandOffInv, NEW r \in Runs
               PROVE  /\ committed[r] = "timeout" => late[r]
                      /\ committed[r] = "answer" => ~late[r] /\ done[r] /\ runner[r] = "end"
                      /\ stage[r] \in {"join", "giveup"} => (late[r] <=> stage[r] = "giveup")
                      /\ late[r] /\ done[r] => runner[r] = "close" \/ mem[r] = "closed"
    BY DEF CommitFollowsHandOff
  <2>1. RunOK(r) /\ late[r] \in BOOLEAN /\ done[r] \in BOOLEAN
    BY DEF HandOffInv, Types
  <2> QED
    BY <2>1 DEF RunOK, After
<1> QED
  BY <1>1, HandOffInvariant, PTL

-----------------------------------------------------------------------------
(* The in-flight count.                                                    *)

CountedStages == {"queued", "dropped", "opened", "handoff", "join", "giveup", "commit", "close",
                  "remember", "uncount"}

Submitting == {hrun[h] : h \in {i \in Handlers : hpc[i] = "submit"}}

Counted == {r \in Runs : stage[r] \in CountedStages \/ r \in Submitting}

CountInv == IsFiniteSet(Counted) /\ inflight = Cardinality(Counted)

\* The runs the property counts are these.
LEMMA CountedRuns ==
  ASSUME HandOffInv
  PROVE  {r \in Runs : stage[r] = "queued"} \cup Busy
           \cup {hrun[h] : h \in {i \in Handlers : hpc[i] = "submit"}}
           \cup {r \in Runs : stage[r] = "dropped"} = Counted
<1>1. Submitting \subseteq Runs
  BY DEF HandOffInv, HandlersOK, Holding, Submitting
<1> QED
  BY <1>1 DEF Counted, CountedStages, Submitting, Busy

\* A run about to be submitted is at none of the counted stages.
LEMMA SubmittingAccepted ==
  ASSUME HandOffInv
  PROVE  \A r \in Submitting : r \in Runs /\ stage[r] = "accepted"
BY DEF HandOffInv, HandlersOK, Holding, Submitting

\* A step that leaves the count alone and every run on its side of it.
LEMMA CountStays ==
  ASSUME CountInv, inflight' = inflight, Submitting' = Submitting,
         \A r \in Runs : stage'[r] \in CountedStages <=> stage[r] \in CountedStages
  PROVE  CountInv'
<1>1. Counted' = Counted
  BY DEF Counted
<1> QED
  BY <1>1 DEF CountInv

LEMMA WorkCounts ==
  ASSUME HandOffInv, CountInv, NEW r \in Runs, Work(r) \/ RunnerAnswers(r) \/ Finish(r)
  PROVE  CountInv'
<1>1. /\ stage \in [Runs -> Stages] /\ hpc' = hpc /\ hrun' = hrun
      /\ \A q \in Runs \ {r} : stage'[q] = stage[q]
  BY RunSteps DEF HandOffInv, Types, OfRun, handling, Alone, Same
<1>2. Submitting' = Submitting
  BY <1>1 DEF Submitting
<1>3. CASE Uncount(r)
  <2>1. stage[r] = "uncount" /\ stage'[r] = "finished" /\ inflight' = inflight - 1
    BY <1>1, <1>3 DEF Uncount, WorkerStep
  <2>2. r \in Counted /\ r \notin Submitting
    BY <2>1, SubmittingAccepted DEF Counted, CountedStages
  <2>3. Counted' = Counted \ {r}
    BY <1>1, <1>2, <2>1, <2>2 DEF Counted, CountedStages
  <2>4. /\ IsFiniteSet(Counted \ {r})
        /\ Cardinality(Counted \ {r}) = Cardinality(Counted) - 1
    BY <2>2, FS_RemoveElement DEF CountInv
  <2> QED
    BY <2>1, <2>3, <2>4 DEF CountInv
<1>4. CASE ~Uncount(r)
  <2>1. inflight' = inflight
    BY <1>4 DEF Work, Finish, Take, StopWaiting, DecideLate, Join, OpenOwn, Commit, CloseMemory,
                RememberOutcome, RunnerAnswers, RunnerDone, RunnerCloses, executor
  <2>2. stage'[r] = stage[r] \/ (stage[r] \in CountedStages /\ stage'[r] \in CountedStages)
    BY <1>1, <1>4 DEF Work, Finish, Take, StopWaiting, DecideLate, Join, OpenOwn, Commit,
       CloseMemory, RememberOutcome, RunnerAnswers, RunnerDone, RunnerCloses, WorkerStep,
       CountedStages
  <2> QED
    BY <1>1, <1>2, <2>1, <2>2, CountStays
<1> QED
  BY <1>3, <1>4

LEMMA HandlingCounts ==
  ASSUME HandOffInv, CountInv, NEW h \in Handlers, Handle(h)
  PROVE  CountInv'
<1>1. /\ hpc \in [Handlers -> {"idle", "count", "submit"}]
      /\ hrun \in [Handlers -> Runs \cup {NoRun}] /\ stage \in [Runs -> Stages] /\ HandlersOK
  BY DEF HandOffInv, Types
<1>2. ASSUME NEW d \in Deliveries, Accept(h, d) PROVE CountInv'
  <2> DEFINE r == <<d, accepted[d] + 1>>
  <2>1. /\ hpc[h] = "idle" /\ hpc' = [hpc EXCEPT ![h] = "count"]
        /\ hrun' = [hrun EXCEPT ![h] = r] /\ stage' = [stage EXCEPT ![r] = "accepted"]
        /\ inflight' = inflight /\ accepted[d] < MaxRuns
    BY <1>2 DEF Accept, executor
  <2>2. r \in Runs /\ stage[r] = "none"
    <3>1. accepted[d] \in Nat /\ MaxRuns \in Nat /\ Fresh
      BY ReceiverAssumption DEF HandOffInv, Types
    <3>2. r \in Runs /\ r[1] = d /\ r[2] = accepted[d] + 1
      BY <2>1, <3>1 DEF Runs
    <3> QED
      BY <3>1, <3>2 DEF Fresh
  <2> HIDE DEF r
  <2>3. Submitting' = Submitting
    <3>1. \A i \in Handlers : hpc'[i] = "submit" <=> hpc[i] = "submit"
      BY <1>1, <2>1
    <3>2. \A i \in Handlers : hpc[i] = "submit" => hrun'[i] = hrun[i]
      BY <1>1, <2>1
    <3>3. \A i \in Handlers : hpc[i] = "submit" => hrun'[i] \in Submitting
      BY <3>2 DEF Submitting
    <3>4. \A i \in Handlers : hpc[i] = "submit" => hrun[i] \in Submitting'
      BY <3>1, <3>2 DEF Submitting
    <3>5. Submitting' \subseteq Submitting
      BY <3>1, <3>3 DEF Submitting
    <3>6. Submitting \subseteq Submitting'
      BY <3>4 DEF Submitting
    <3> QED
      BY <3>5, <3>6
  <2>4. \A q \in Runs : stage'[q] \in CountedStages <=> stage[q] \in CountedStages
    BY <1>1, <2>1, <2>2 DEF CountedStages
  <2> QED
    BY <2>1, <2>3, <2>4, CountStays
<1>3. CASE Count(h)
  <2> DEFINE r == hrun[h]
  <2>1. /\ hpc[h] = "count" /\ hpc' = [hpc EXCEPT ![h] = "submit"]
        /\ hrun' = hrun /\ stage' = stage /\ inflight' = inflight + 1
    BY <1>3 DEF Count
  <2>2. r \in Runs /\ stage[r] = "accepted" /\ \A g \in Handlers : hpc[g] = "submit" => hrun[g] # r
    BY <1>1, <2>1 DEF HandlersOK, Holding
  <2>3. Submitting' = Submitting \cup {r}
    <3>1. \A i \in Handlers : hpc'[i] = "submit" <=> hpc[i] = "submit" \/ i = h
      BY <1>1, <2>1
    <3> QED
      BY <2>1, <3>1 DEF Submitting
  <2>4. r \notin Counted
    BY <2>2 DEF Counted, CountedStages, Submitting
  <2>5. Counted' = Counted \cup {r}
    BY <2>1, <2>2, <2>3 DEF Counted
  <2>6. /\ IsFiniteSet(Counted \cup {r})
        /\ Cardinality(Counted \cup {r}) = Cardinality(Counted) + 1
    BY <2>4, FS_AddElement DEF CountInv
  <2> QED
    BY <2>1, <2>5, <2>6 DEF CountInv
<1>4. CASE Submit(h)
  <2> DEFINE r == hrun[h]
  <2>1. /\ hpc[h] = "submit" /\ hpc' = [hpc EXCEPT ![h] = "idle"]
        /\ hrun' = [hrun EXCEPT ![h] = NoRun] /\ inflight' = inflight
    BY <1>4 DEF Submit
  <2>2. PICK to \in {"queued", "dropped"} : stage' = [stage EXCEPT ![r] = to]
    BY <1>4 DEF Submit
  <2>3. r \in Runs /\ \A g \in Handlers \ {h} : hpc[g] = "submit" => hrun[g] # r
    BY <1>1, <2>1 DEF HandlersOK, Holding
  <2>4. Submitting' = Submitting \ {r} /\ r \in Submitting
    <3>1. \A i \in Handlers \ {h} : hpc'[i] = hpc[i] /\ hrun'[i] = hrun[i]
      BY <1>1, <2>1
    <3>2. hpc'[h] # "submit"
      BY <1>1, <2>1
    <3> QED
      BY <2>1, <2>3, <3>1, <3>2 DEF Submitting
  <2>5. stage'[r] \in CountedStages /\ \A q \in Runs \ {r} : stage'[q] = stage[q]
    BY <1>1, <2>2, <2>3 DEF CountedStages
  <2>6. Counted' = Counted
    BY <2>3, <2>4, <2>5 DEF Counted
  <2> QED
    BY <2>1, <2>6 DEF CountInv
<1> QED
  BY <1>2, <1>3, <1>4 DEF Handle

\* The in-flight count is the number of runs submitted or about to be and not
\* finished, whatever raises and whenever the executor is shut down.
THEOREM InflightIsCounted == Spec => []InflightCounts
<1>1. Init => CountInv
  <2> SUFFICES ASSUME Init PROVE CountInv
    OBVIOUS
  <2>1. Counted = {}
    BY DEF Init, Counted, CountedStages, Submitting
  <2> QED
    BY <2>1, FS_EmptySet DEF Init, CountInv
<1>2. HandOffInv /\ CountInv /\ [Next]_vars => CountInv'
  <2> SUFFICES ASSUME HandOffInv, CountInv, [Next]_vars PROVE CountInv'
    OBVIOUS
  <2>1. CASE UNCHANGED <<hpc, hrun, stage, inflight>>
    <3>1. Submitting' = Submitting
      BY <2>1 DEF Submitting
    <3> QED
      BY <2>1, <3>1, CountStays
  <2> QED
    BY <2>1, WorkCounts, HandlingCounts
       DEF Next, DeadlinePasses, Drain, Shutdown, vars, handling, executor
<1>3. HandOffInv /\ CountInv => InflightCounts
  BY CountedRuns DEF CountInv, InflightCounts
<1> QED
  BY <1>1, <1>2, <1>3, HandOffInvariant, PTL DEF Spec

-----------------------------------------------------------------------------
(* The memory of deliveries.  While there are no more of them than it      *)
(* holds nothing is evicted, so whatever has run is still in it.           *)

Distinct(s) == \A i, j \in DOMAIN s : s[i] = s[j] => i = j

\* Taking an element out of a sequence that has it once.
LEMMA TakenOut ==
  ASSUME NEW S, NEW s \in Seq(S), NEW n \in 1 .. Len(s)
  PROVE  /\ RemoveAt(s, n) \in Seq(S) /\ Len(RemoveAt(s, n)) = Len(s) - 1
         /\ \A i \in 1 .. Len(s) - 1 : RemoveAt(s, n)[i] = s[IF i < n THEN i ELSE i + 1]
<1>1. Len(s) \in Nat /\ n - 1 \in Nat
  OBVIOUS
<1> DEFINE p == SubSeq(s, 1, n - 1)
           q == SubSeq(s, n + 1, Len(s))
<1>2. /\ p \in Seq(S) /\ Len(p) = n - 1
      /\ \A i \in 1 .. n - 1 : p[i] = s[i]
  BY <1>1
<1>3. /\ q \in Seq(S) /\ Len(q) = Len(s) - n
      /\ \A i \in 1 .. Len(s) - n : q[i] = s[n + i]
  BY <1>1
<1> HIDE DEF p, q
<1>4. p \o q \in Seq(S) /\ Len(p \o q) = Len(p) + Len(q)
  BY <1>2, <1>3, ConcatProperties
<1>5. \A i \in 1 .. Len(p) + Len(q) : (p \o q)[i] = IF i <= Len(p) THEN p[i] ELSE q[i - Len(p)]
  BY <1>2, <1>3, ConcatProperties
<1>6. \A i \in 1 .. Len(s) - 1 : (p \o q)[i] = s[IF i < n THEN i ELSE i + 1]
  <2> SUFFICES ASSUME NEW i \in 1 .. Len(s) - 1
               PROVE  (p \o q)[i] = s[IF i < n THEN i ELSE i + 1]
    OBVIOUS
  <2>1. i \in 1 .. Len(p) + Len(q)
    BY <1>1, <1>2, <1>3
  <2>2. CASE i < n
    <3>1. i \in 1 .. n - 1 /\ i <= Len(p)
      BY <1>1, <1>2, <2>2
    <3> QED
      BY <1>2, <1>5, <2>1, <2>2, <3>1
  <2>3. CASE ~(i < n)
    <3>1. i - Len(p) \in 1 .. Len(s) - n /\ n + (i - Len(p)) = i + 1 /\ ~(i <= Len(p))
      BY <1>1, <1>2, <2>3
    <3>2. (p \o q)[i] = q[i - Len(p)]
      BY <1>5, <2>1, <3>1
    <3>3. q[i - Len(p)] = s[n + (i - Len(p))]
      BY <1>3, <3>1
    <3> QED
      BY <2>3, <3>1, <3>2, <3>3
  <2> QED
    BY <2>2, <2>3
<1>7. RemoveAt(s, n) = p \o q
  BY DEF RemoveAt, p, q
<1> QED
  BY <1>1, <1>2, <1>3, <1>4, <1>6, <1>7

LEMMA RemoveFirstKeeps ==
  ASSUME NEW S, NEW s \in Seq(S), Distinct(s), NEW d \in S
  PROVE  /\ RemoveFirst(s, d) \in Seq(S) /\ Distinct(RemoveFirst(s, d))
         /\ ToSet(RemoveFirst(s, d)) = ToSet(s) \ {d}
<1>1. CASE ~ \E i \in 1 .. Len(s) : s[i] = d
  <2>1. RemoveFirst(s, d) = s
    BY <1>1 DEF RemoveFirst
  <2>2. d \notin ToSet(s)
    BY <1>1 DEF ToSet
  <2> QED
    BY <2>1, <2>2
<1>2. ASSUME NEW n \in 1 .. Len(s), s[n] = d
      PROVE  /\ RemoveFirst(s, d) \in Seq(S) /\ Distinct(RemoveFirst(s, d))
             /\ ToSet(RemoveFirst(s, d)) = ToSet(s) \ {d}
  <2> DEFINE m == RemoveAt(s, n)
  <2>1. {i \in 1 .. Len(s) : s[i] = d} = {n}
    BY <1>2 DEF Distinct
  <2>2. RemoveFirst(s, d) = m
    <3>1. Min({n}) = n
      BY DEF Min
    <3> QED
      BY <1>2, <2>1, <3>1 DEF RemoveFirst, SelectInSeq
  <2>3. /\ m \in Seq(S) /\ Len(m) = Len(s) - 1 /\ DOMAIN m = 1 .. Len(s) - 1
        /\ \A i \in 1 .. Len(s) - 1 : m[i] = s[IF i < n THEN i ELSE i + 1]
    BY TakenOut
  <2>4. Len(s) \in Nat /\ DOMAIN s = 1 .. Len(s)
    OBVIOUS
  <2> HIDE DEF m
  <2>5. \A i \in 1 .. Len(s) - 1 : (IF i < n THEN i ELSE i + 1) \in 1 .. Len(s)
    BY <2>4
  <2>6. Distinct(m)
    <3> SUFFICES ASSUME NEW i \in 1 .. Len(s) - 1, NEW j \in 1 .. Len(s) - 1, m[i] = m[j]
                 PROVE  i = j
      BY <2>3 DEF Distinct
    <3>1. (IF i < n THEN i ELSE i + 1) = (IF j < n THEN j ELSE j + 1)
      BY <2>3, <2>4, <2>5 DEF Distinct
    <3> QED
      BY <2>4, <3>1
  <2>7. ToSet(m) \subseteq ToSet(s) \ {d}
    <3> SUFFICES ASSUME NEW i \in 1 .. Len(s) - 1 PROVE m[i] \in ToSet(s) \ {d}
      BY <2>3 DEF ToSet
    <3>1. PICK j \in 1 .. Len(s) : j # n /\ m[i] = s[j]
      <4>1. (IF i < n THEN i ELSE i + 1) # n
        BY <2>4
      <4> QED
        BY <2>3, <2>5, <4>1
    <3>2. s[j] # d
      BY <2>1, <3>1
    <3> QED
      BY <2>4, <3>1, <3>2 DEF ToSet
  <2>8. ToSet(s) \ {d} \subseteq ToSet(m)
    <3> SUFFICES ASSUME NEW j \in 1 .. Len(s), s[j] # d PROVE s[j] \in ToSet(m)
      BY <2>4 DEF ToSet
    <3>1. CASE j < n
      <4>1. j \in 1 .. Len(s) - 1
        BY <2>4, <3>1
      <4> QED
        BY <2>3, <3>1, <4>1 DEF ToSet
    <3>2. CASE j > n
      <4>1. j - 1 \in 1 .. Len(s) - 1 /\ ~(j - 1 < n) /\ j - 1 + 1 = j
        BY <2>4, <3>2
      <4>2. m[j - 1] = s[j - 1 + 1]
        BY <2>3, <4>1
      <4> QED
        BY <2>3, <4>1, <4>2 DEF ToSet
    <3>3. j # n
      BY <1>2
    <3> QED
      BY <2>4, <3>1, <3>2, <3>3
  <2> QED
    BY <2>2, <2>3, <2>6, <2>7, <2>8
<1> QED
  BY <1>1, <1>2

\* A memory as large as the set of deliveries forgets none.
LEMMA RemembersAll ==
  ASSUME IsFiniteSet(Deliveries), Cardinality(Deliveries) <= SeenBound,
         NEW s \in Seq(Deliveries), Distinct(s), NEW d \in Deliveries
  PROVE  /\ Remembered(s, d) \in Seq(Deliveries) /\ Distinct(Remembered(s, d))
         /\ ToSet(Remembered(s, d)) = ToSet(s) \cup {d}
<1> DEFINE t == RemoveFirst(s, d)
           moved == Append(t, d)
<1>1. t \in Seq(Deliveries) /\ Distinct(t) /\ ToSet(t) = ToSet(s) \ {d}
  BY RemoveFirstKeeps
<1> HIDE DEF t
<1>2. /\ moved \in Seq(Deliveries) /\ Len(moved) = Len(t) + 1 /\ Len(t) \in Nat
      /\ DOMAIN t = 1 .. Len(t) /\ DOMAIN moved = 1 .. Len(moved)
      /\ \A i \in 1 .. Len(t) : moved[i] = t[i]
      /\ moved[Len(t) + 1] = d
  BY <1>1
<1>3. \A i \in 1 .. Len(t) : t[i] # d
  BY <1>1, <1>2 DEF ToSet
<1> HIDE DEF moved
<1>4. \A i \in DOMAIN moved : i \in 1 .. Len(t) \/ i = Len(t) + 1
  BY <1>2
<1>5. Distinct(moved)
  BY <1>1, <1>2, <1>3, <1>4 DEF Distinct
<1>6. ToSet(moved) = ToSet(s) \cup {d}
  <2>1. ToSet(moved) = ToSet(t) \cup {d}
    <3>1. ToSet(moved) \subseteq ToSet(t) \cup {d}
      BY <1>2, <1>4 DEF ToSet
    <3>2. Len(t) + 1 \in DOMAIN moved /\ \A i \in 1 .. Len(t) : i \in DOMAIN moved
      BY <1>2
    <3>3. ToSet(t) \cup {d} \subseteq ToSet(moved)
      BY <1>2, <3>2 DEF ToSet
    <3> QED
      BY <3>1, <3>3
  <2> QED
    BY <1>1, <2>1
<1>7. Len(moved) <= SeenBound
  <2>1. moved \in [1 .. Len(moved) -> Deliveries]
    BY <1>2
  <2>2. moved \in Injection(1 .. Len(moved), Deliveries)
    BY <1>2, <1>5, <2>1, Fun_IsInj DEF Distinct
  <2>3. Cardinality(1 .. Len(moved)) <= Cardinality(Deliveries)
    BY <2>2, FS_Injection
  <2>4. Cardinality(1 .. Len(moved)) = Len(moved)
    <3>1. Len(moved) \in Nat /\ 1 \in Int /\ Len(moved) \in Int
      BY <1>2
    <3>2. Cardinality(1 .. Len(moved)) = IF 1 > Len(moved) THEN 0 ELSE Len(moved) - 1 + 1
      BY <3>1, FS_Interval
    <3> QED
      BY <3>1, <3>2
  <2>5. Cardinality(Deliveries) \in Nat
    BY FS_CardinalityType
  <2> QED
    BY <1>2, <2>3, <2>4, <2>5, ReceiverAssumption
<1>8. Remembered(s, d) = moved
  <2>1. ~(Len(moved) > SeenBound)
    BY <1>2, <1>7, ReceiverAssumption
  <2> QED
    BY <2>1 DEF Remembered, moved, t
<1> QED
  BY <1>2, <1>5, <1>6, <1>8

\* What has run is remembered, and each delivery has run once.
MemoryInv ==
  /\ seen \in Seq(Deliveries) /\ Distinct(seen)
  /\ \A r \in Runs : stage[r] # "none" => r[1] \in ToSet(seen)
  /\ \A q, r \in Runs : stage[q] # "none" /\ stage[r] # "none" /\ q[1] = r[1] => q = r

LEMMA MemoryElsewhere ==
  ASSUME MemoryInv, seen' \in Seq(Deliveries), Distinct(seen)', ToSet(seen) \subseteq ToSet(seen'),
         \A r \in Runs : stage'[r] # "none" => stage[r] # "none"
  PROVE  MemoryInv'
BY DEF MemoryInv

LEMMA MemoryAccept ==
  ASSUME IsFiniteSet(Deliveries), Cardinality(Deliveries) <= SeenBound,
         HandOffInv, MemoryInv, NEW h \in Handlers, NEW d \in Deliveries, Accept(h, d)
  PROVE  MemoryInv'
<1> DEFINE r == <<d, accepted[d] + 1>>
<1>1. /\ d \notin ToSet(seen) /\ seen' = Remembered(seen, d)
      /\ stage' = [stage EXCEPT ![r] = "accepted"] /\ accepted[d] < MaxRuns
  BY DEF Accept
<1>2. r \in Runs /\ r[1] = d
  <2>1. accepted[d] \in Nat /\ MaxRuns \in Nat
    BY ReceiverAssumption DEF HandOffInv, Types
  <2> QED
    BY <1>1, <2>1 DEF Runs
<1> HIDE DEF r
<1>3. seen' \in Seq(Deliveries) /\ Distinct(seen)' /\ ToSet(seen') = ToSet(seen) \cup {d}
  <2>1. seen \in Seq(Deliveries) /\ Distinct(seen)
    BY DEF MemoryInv
  <2>2. /\ Remembered(seen, d) \in Seq(Deliveries) /\ Distinct(Remembered(seen, d))
        /\ ToSet(Remembered(seen, d)) = ToSet(seen) \cup {d}
    BY <2>1, RemembersAll
  <2> QED
    BY <1>1, <2>2 DEF Distinct
<1>4. \A q \in Runs : stage'[q] # "none" => stage[q] # "none" \/ q = r
  BY <1>1, <1>2 DEF HandOffInv, Types
<1>5. \A q \in Runs : stage[q] # "none" => q[1] # d
  BY <1>1 DEF MemoryInv
<1>6. \A q \in Runs : stage'[q] # "none" => q[1] \in ToSet(seen')
  BY <1>2, <1>3, <1>4 DEF MemoryInv
<1>7. \A p, q \in Runs : stage'[p] # "none" /\ stage'[q] # "none" /\ p[1] = q[1] => p = q
  BY <1>2, <1>4, <1>5 DEF MemoryInv
<1> QED
  BY <1>3, <1>6, <1>7 DEF MemoryInv

LEMMA MemoryStep ==
  ASSUME IsFiniteSet(Deliveries), Cardinality(Deliveries) <= SeenBound,
         HandOffInv, MemoryInv, [Next]_vars
  PROVE  MemoryInv'
<1>1. ASSUME NEW h \in Handlers, Handle(h) PROVE MemoryInv'
  <2>1. CASE Count(h) \/ Submit(h)
    <3>1. seen' = seen
      BY <2>1 DEF Count, Submit
    <3>2. \A r \in Runs : stage'[r] # "none" => stage[r] # "none"
      <4>1. CASE Count(h)
        BY <4>1 DEF Count
      <4>2. CASE Submit(h)
        <5>1. stage[hrun[h]] = "accepted"
          BY <4>2 DEF HandOffInv, HandlersOK, Holding, Submit
        <5> QED
          BY <4>2, <5>1 DEF Submit, HandOffInv, Types
      <4> QED
        BY <2>1, <4>1, <4>2
    <3> QED
      BY <3>1, <3>2, MemoryElsewhere DEF MemoryInv, Distinct
  <2> QED
    BY <1>1, <2>1, MemoryAccept DEF Handle
<1>2. ASSUME NEW r \in Runs, Work(r) \/ RunnerAnswers(r) \/ Finish(r) PROVE MemoryInv'
  <2>1. \A q \in Runs : stage'[q] # "none" => stage[q] # "none"
    BY <1>2, RunSteps DEF OfRun, Alone, Same
  <2>2. seen' = seen \/ seen' = Remembered(seen, r[1])
    BY <1>2 DEF Work, Finish, Take, StopWaiting, DecideLate, Join, OpenOwn, Commit, CloseMemory,
                RememberOutcome, Uncount, RunnerAnswers, RunnerDone, RunnerCloses
  <2>3. seen \in Seq(Deliveries) /\ Distinct(seen) /\ r[1] \in Deliveries
    BY DEF MemoryInv, Runs
  <2>4. /\ Remembered(seen, r[1]) \in Seq(Deliveries) /\ Distinct(Remembered(seen, r[1]))
        /\ ToSet(Remembered(seen, r[1])) = ToSet(seen) \cup {r[1]}
    BY <2>3, RemembersAll
  <2>5. seen' \in Seq(Deliveries) /\ Distinct(seen)' /\ ToSet(seen) \subseteq ToSet(seen')
    BY <2>2, <2>3, <2>4 DEF Distinct
  <2> QED
    BY <2>1, <2>5, MemoryElsewhere
<1>3. CASE (\E d \in Deliveries : DeadlinePasses(d)) \/ Drain \/ Shutdown \/ UNCHANGED vars
  <2>1. seen' = seen /\ stage' = stage
    BY <1>3 DEF DeadlinePasses, Drain, Shutdown, vars
  <2> QED
    BY <2>1, MemoryElsewhere DEF MemoryInv, Distinct
<1> QED
  BY <1>1, <1>2, <1>3 DEF Next

\* A delivery the receiver still remembers is answered from its memory: as
\* long as the memory holds all deliveries each runs once, however many
\* threads receive it at once and however late it comes again.
THEOREM OneRunOfADelivery ==
  ASSUME IsFiniteSet(Deliveries)
  PROVE  Spec => []OneRunWhileRemembered
<1>1. CASE ~(Cardinality(Deliveries) <= SeenBound)
  <2>1. OneRunWhileRemembered
    BY <1>1 DEF OneRunWhileRemembered
  <2> QED
    BY <2>1, PTL
<1>2. CASE Cardinality(Deliveries) <= SeenBound
  <2>1. Init => MemoryInv
    BY DEF Init, MemoryInv, Distinct
  <2>2. HandOffInv /\ MemoryInv /\ [Next]_vars => MemoryInv'
    BY <1>2, MemoryStep
  <2>3. MemoryInv => OneRunWhileRemembered
    <3> SUFFICES ASSUME MemoryInv, NEW d \in Deliveries
                 PROVE  Cardinality({r \in Runs : r[1] = d /\ stage[r] # "none"}) <= 1
      BY DEF OneRunWhileRemembered
    <3> DEFINE Of == {r \in Runs : r[1] = d /\ stage[r] # "none"}
    <3>1. CASE Of = {}
      BY <3>1, FS_EmptySet
    <3>2. ASSUME NEW q \in Of PROVE Cardinality(Of) <= 1
      <4>1. Of = {q}
        BY <3>2 DEF MemoryInv
      <4> QED
        BY <4>1, FS_Singleton
    <3> QED
      BY <3>1, <3>2
  <2> QED
    BY <2>1, <2>2, <2>3, HandOffInvariant, PTL DEF Spec
<1> QED
  BY <1>1, <1>2

=============================================================================
