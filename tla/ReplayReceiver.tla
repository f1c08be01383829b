---------------------------- MODULE ReplayReceiver ----------------------------
(***************************************************************************)
(* The receiving end of the replay webhook, in its background mode.  The   *)
(* sender delivers each request at least once; the receiver remembers the  *)
(* last SeenBound delivery ids, acknowledges a new one, runs it on one of  *)
(* MaxWorkers threads and commits exactly one outcome for it.  The runner  *)
(* is the customer's code on a thread of its own: it cannot be             *)
(* interrupted, so the worker stops waiting for it after a timeout and     *)
(* commits a failure instead.                                              *)
(*                                                                         *)
(* A run is one acceptance of a delivery: <<d, 2>> is a second run of d,   *)
(* possible once d has been forgotten.                                     *)
(***************************************************************************)
EXTENDS Integers, Sequences, FiniteSets, SequencesExt

CONSTANTS
  Deliveries,   \* delivery ids
  Handlers,     \* threads of the HTTP server
  MaxWorkers,   \* threads of the executor
  SeenBound,    \* SEEN_DELIVERIES
  MaxRuns,      \* bound: acceptances of one delivery
  RunnersExit,  \* the customer's code may call sys.exit
  NoRun         \* a handler between requests

Runs == Deliveries \X (1 .. MaxRuns)

ASSUME ReceiverAssumption ==
  /\ MaxWorkers \in Nat \ {0} /\ SeenBound \in Nat \ {0} /\ MaxRuns \in Nat \ {0}
  /\ NoRun \notin Runs
  /\ RunnersExit \in BOOLEAN

VARIABLES
  seen,       \* _seen: remembered ids, least recently touched first
  expired,    \* deliveries whose deadline_at has passed
  accepted,   \* accepted[d]: acceptances of d so far
  hpc, hrun,  \* each handler thread: program point and run accepted
  queue,      \* runs submitted to the executor
  open,       \* the executor takes submissions
  inflight,   \* _inflight
  drained,    \* drain() has not returned, or returned True, or False
  stage,      \* stage[r]: where the worker of run r is
  runner,     \* runner[r]: where the runner's own thread is
  done, late, \* the hand-off flags of run r
  box,        \* box[r]: the runner left a result
  mem,        \* mem[r]: the memory opened for the runner
  own,        \* own[r]: the memory opened for a failure of its own
  closes,     \* closes[r]: times the runner's memory was closed
  committed   \* committed[r]: outcome committed for run r

handling == <<accepted, hpc, hrun>>
executor == <<queue, open, inflight, drained>>
running == <<runner, done, late, box, mem, own, closes>>
vars == <<seen, expired, handling, executor, stage, running, committed>>

Stages == {"none", "accepted", "queued", "opened", "handoff", "join", "giveup",
           "commit", "close", "remember", "uncount", "finished", "dropped"}
RunnerPoints == {"none", "run", "handoff", "close", "end"}
Outcomes == {"none", "answer", "timeout"}

-----------------------------------------------------------------------------
(* The bounded memory of deliveries.                                       *)

\* Mutant of Remembered: one id too few is kept.
RememberedShort(s, d) ==
  LET moved == Append(RemoveFirst(s, d), d)
  IN  IF Len(moved) >= SeenBound THEN Tail(moved) ELSE moved

\* _remember: an id is there once; it moves to the end, and the front is
\* evicted.
Remembered(s, d) ==
  LET moved == Append(RemoveFirst(s, d), d)
  IN  IF Len(moved) > SeenBound THEN Tail(moved) ELSE moved

-----------------------------------------------------------------------------
(* A handler thread answers one request.  Pings, bad signatures and bad    *)
(* bodies are answered without touching the state.                         *)

\* The first critical section of handle: duplicates are answered from
\* memory, late requests are refused, and anything else is remembered.
Accept(h, d) ==
  /\ hpc[h] = "idle"
  /\ d \notin ToSet(seen) /\ d \notin expired /\ accepted[d] < MaxRuns
  /\ LET r == <<d, accepted[d] + 1>>
     IN  /\ hrun' = [hrun EXCEPT ![h] = r]
         /\ stage' = [stage EXCEPT ![r] = "accepted"]
  /\ accepted' = [accepted EXCEPT ![d] = accepted[d] + 1]
  /\ seen' = Remembered(seen, d)
  /\ hpc' = [hpc EXCEPT ![h] = "count"]
  /\ UNCHANGED <<expired, executor, running, committed>>

\* The second: one more run in flight.
Count(h) ==
  /\ hpc[h] = "count"
  /\ inflight' = inflight + 1
  /\ hpc' = [hpc EXCEPT ![h] = "submit"]
  /\ UNCHANGED <<seen, expired, accepted, hrun, queue, open, drained,
                 stage, running, committed>>

\* Outside both: executor.submit, which raises after shutdown.
Submit(h) ==
  /\ hpc[h] = "submit"
  /\ IF open
     THEN /\ queue' = Append(queue, hrun[h])
          /\ stage' = [stage EXCEPT ![hrun[h]] = "queued"]
     ELSE /\ stage' = [stage EXCEPT ![hrun[h]] = "dropped"]
          /\ UNCHANGED queue
  /\ hpc' = [hpc EXCEPT ![h] = "idle"]
  /\ hrun' = [hrun EXCEPT ![h] = NoRun]
  /\ UNCHANGED <<seen, expired, accepted, open, inflight, drained,
                 running, committed>>

DeadlinePasses(d) ==
  /\ d \notin expired
  /\ expired' = expired \cup {d}
  /\ UNCHANGED <<seen, handling, executor, stage, running, committed>>

-----------------------------------------------------------------------------
(* A worker runs one request: _run_in_background, replay and _answer.      *)

Busy == {r \in Runs : stage[r] \in {"opened", "handoff", "join", "giveup", "commit",
                                    "close", "remember", "uncount"}}

WorkerStep(r, from, to) ==
  /\ stage[r] = from
  /\ stage' = [stage EXCEPT ![r] = to]

\* The executor hands the run to a free thread, which opens a memory on the
\* request's branch and starts the runner, or fails to.
Take(r) ==
  /\ Cardinality(Busy) < MaxWorkers
  /\ queue # <<>> /\ Head(queue) = r
  /\ queue' = Tail(queue)
  /\ \/ /\ WorkerStep(r, "queued", "opened")
        /\ mem' = [mem EXCEPT ![r] = "open"]
        /\ runner' = [runner EXCEPT ![r] = "run"]
     \/ WorkerStep(r, "queued", "remember") /\ UNCHANGED <<mem, runner>>
  /\ UNCHANGED <<seen, expired, handling, open, inflight, drained,
                 done, late, box, own, closes, committed>>

\* Mutant of StopWaiting: join without a timeout.
StopWaitingNever(r) ==
  /\ runner[r] = "end"
  /\ WorkerStep(r, "opened", "handoff")
  /\ UNCHANGED <<seen, expired, handling, executor, running, committed>>

\* worker.join(timeout) returns: the runner's thread ended, or time is up.
StopWaiting(r) ==
  /\ WorkerStep(r, "opened", "handoff")
  /\ UNCHANGED <<seen, expired, handling, executor, running, committed>>

\* Mutant of DecideLate: late is decided without looking at done.
DecideLateAnyway(r) ==
  /\ WorkerStep(r, "handoff", "giveup")
  /\ late' = [late EXCEPT ![r] = TRUE]
  /\ UNCHANGED <<seen, expired, handling, executor, runner, done, box, mem, own,
                 closes, committed>>

\* Under the hand-off lock: a runner not done by now is late.
DecideLate(r) ==
  /\ \/ ~done[r] /\ WorkerStep(r, "handoff", "giveup") /\ late' = [late EXCEPT ![r] = TRUE]
     \/ done[r] /\ WorkerStep(r, "handoff", "join") /\ UNCHANGED late
  /\ UNCHANGED <<seen, expired, handling, executor, runner, done, box, mem, own,
                 closes, committed>>

\* The second join: the thread has to end before its result is read.  A
\* runner that left none is a KeyError here, past every close.
Join(r) ==
  /\ runner[r] = "end"
  /\ WorkerStep(r, "join", IF box[r] THEN "commit" ELSE "remember")
  /\ UNCHANGED <<seen, expired, handling, executor, running, committed>>

\* A late run opens a second memory for its failure, or fails to.
OpenOwn(r) ==
  /\ \/ WorkerStep(r, "giveup", "commit") /\ own' = [own EXCEPT ![r] = "open"]
     \/ WorkerStep(r, "giveup", "remember") /\ UNCHANGED own
  /\ UNCHANGED <<seen, expired, handling, executor, runner, done, late, box, mem,
                 closes, committed>>

\* commit_outcome: the answer on the runner's memory, a failure on the other
\* one; it may raise.  The finally clause closes the memory either way.
Commit(r) ==
  /\ WorkerStep(r, "commit", "close")
  /\ \/ committed' = [committed EXCEPT ![r] = IF late[r] THEN "timeout" ELSE "answer"]
     \/ UNCHANGED committed
  /\ UNCHANGED <<seen, expired, handling, executor, running>>

\* Mutant of CloseMemory: the finally clause closes the runner's memory.
CloseRunnersMemory(r) ==
  /\ WorkerStep(r, "close", "remember")
  /\ mem' = [mem EXCEPT ![r] = "closed"]
  /\ own' = [own EXCEPT ![r] = IF late[r] THEN "closed" ELSE own[r]]
  /\ closes' = [closes EXCEPT ![r] = closes[r] + 1]
  /\ UNCHANGED <<seen, expired, handling, executor, runner, done, late, box, committed>>

CloseMemory(r) ==
  /\ WorkerStep(r, "close", "remember")
  /\ IF late[r]
     THEN /\ own' = [own EXCEPT ![r] = "closed"]
          /\ UNCHANGED <<mem, closes>>
     ELSE /\ mem' = [mem EXCEPT ![r] = "closed"]
          /\ closes' = [closes EXCEPT ![r] = closes[r] + 1]
          /\ UNCHANGED own
  /\ UNCHANGED <<seen, expired, handling, executor, runner, done, late, box, committed>>

\* The outcome, or the error, replaces the remembered answer.
RememberOutcome(r) ==
  /\ WorkerStep(r, "remember", "uncount")
  /\ seen' = Remembered(seen, r[1])
  /\ UNCHANGED <<expired, handling, executor, running, committed>>

\* Mutant of Uncount: the count is given back by successful runs only.
UncountCommitted(r) ==
  /\ WorkerStep(r, "uncount", "finished")
  /\ inflight' = IF committed[r] = "none" THEN inflight ELSE inflight - 1
  /\ UNCHANGED <<seen, expired, handling, queue, open, drained, running, committed>>

Uncount(r) ==
  /\ WorkerStep(r, "uncount", "finished")
  /\ inflight' = inflight - 1
  /\ UNCHANGED <<seen, expired, handling, queue, open, drained, running, committed>>

-----------------------------------------------------------------------------
(* The runner's own thread.                                                *)

RunnerStep(r, from, to) ==
  /\ runner[r] = from
  /\ runner' = [runner EXCEPT ![r] = to]

\* The customer's code answers, or raises an Exception, which is an answer
\* too; SystemExit is neither.  It may also never come back.
RunnerAnswers(r) ==
  /\ RunnerStep(r, "run", "handoff")
  /\ \/ box' = [box EXCEPT ![r] = TRUE]
     \/ RunnersExit /\ UNCHANGED box
  /\ UNCHANGED <<seen, expired, handling, executor, stage, done, late, mem, own,
                 closes, committed>>

\* Mutant of RunnerDone: a late runner just ends.
RunnerDoneQuietly(r) ==
  /\ RunnerStep(r, "handoff", "end")
  /\ done' = [done EXCEPT ![r] = TRUE]
  /\ UNCHANGED <<seen, expired, handling, executor, stage, late, box, mem, own,
                 closes, committed>>

\* Under the hand-off lock: done, and is anyone still waiting?
RunnerDone(r) ==
  /\ RunnerStep(r, "handoff", IF late[r] THEN "close" ELSE "end")
  /\ done' = [done EXCEPT ![r] = TRUE]
  /\ UNCHANGED <<seen, expired, handling, executor, stage, late, box, mem, own,
                 closes, committed>>

RunnerCloses(r) ==
  /\ RunnerStep(r, "close", "end")
  /\ mem' = [mem EXCEPT ![r] = "closed"]
  /\ closes' = [closes EXCEPT ![r] = closes[r] + 1]
  /\ UNCHANGED <<seen, expired, handling, executor, stage, done, late, box, own, committed>>

-----------------------------------------------------------------------------
(* serve() on its way out: the listening socket is closed, drain waits for *)
(* at most the run timeout, and the executor is shut down either way, all  *)
(* while handler threads (daemons) may still be answering.                 *)

Drain ==
  /\ drained = "no"
  /\ drained' = IF inflight = 0 THEN "empty" ELSE "gave up"
  /\ UNCHANGED <<seen, expired, handling, queue, open, inflight, stage, running, committed>>

Shutdown ==
  /\ drained # "no" /\ open
  /\ open' = FALSE
  /\ UNCHANGED <<seen, expired, handling, queue, inflight, drained, stage, running, committed>>

Init ==
  /\ seen = <<>> /\ expired = {}
  /\ accepted = [d \in Deliveries |-> 0]
  /\ hpc = [h \in Handlers |-> "idle"] /\ hrun = [h \in Handlers |-> NoRun]
  /\ queue = <<>> /\ open = TRUE /\ inflight = 0 /\ drained = "no"
  /\ stage = [r \in Runs |-> "none"] /\ runner = [r \in Runs |-> "none"]
  /\ done = [r \in Runs |-> FALSE] /\ late = [r \in Runs |-> FALSE]
  /\ box = [r \in Runs |-> FALSE]
  /\ mem = [r \in Runs |-> "none"] /\ own = [r \in Runs |-> "none"]
  /\ closes = [r \in Runs |-> 0] /\ committed = [r \in Runs |-> "none"]

Handle(h) == (\E d \in Deliveries : Accept(h, d)) \/ Count(h) \/ Submit(h)

Work(r) ==
  \/ Take(r) \/ StopWaiting(r) \/ DecideLate(r) \/ Join(r) \/ OpenOwn(r)
  \/ Commit(r) \/ CloseMemory(r) \/ RememberOutcome(r) \/ Uncount(r)

Finish(r) == RunnerDone(r) \/ RunnerCloses(r)

Next ==
  \/ \E h \in Handlers : Handle(h)
  \/ \E r \in Runs : Work(r) \/ RunnerAnswers(r) \/ Finish(r)
  \/ \E d \in Deliveries : DeadlinePasses(d)
  \/ Drain \/ Shutdown

Spec == Init /\ [][Next]_vars

(* Threads of this process are scheduled and a timeout fires; the          *)
(* customer's code may hang for good.                                      *)
Fairness ==
  /\ \A h \in Handlers : WF_vars(Count(h) \/ Submit(h))
  /\ \A r \in Runs : WF_vars(Work(r)) /\ WF_vars(Finish(r))

FairSpec == Spec /\ Fairness

-----------------------------------------------------------------------------
(* Properties.                                                             *)

\* Exactly one side closes the runner's memory, and never under a runner that
\* is still using it, however close to the timeout the answer comes.
MemoryClosedOnce ==
  \A r \in Runs :
    /\ closes[r] <= 1
    /\ mem[r] = "closed" => runner[r] = "end"
    /\ own[r] = "open" => stage[r] \in {"commit", "close"}

\* What is committed is what the hand-off decided: a late answer is never
\* committed over the failure, an answer at the buzzer never becomes a
\* timeout, and the runner's memory is committed on only after its thread
\* has ended.
CommitFollowsHandOff ==
  \A r \in Runs :
    /\ committed[r] = "timeout" => late[r]
    /\ committed[r] = "answer" => ~late[r] /\ done[r] /\ runner[r] = "end"
    /\ stage[r] \in {"join", "giveup"} => (late[r] <=> stage[r] = "giveup")
    /\ late[r] /\ done[r] => runner[r] = "close" \/ mem[r] = "closed"

\* A delivery runs once while the receiver remembers it: redeliveries,
\* concurrent ones included, get the first answer.
OneRunWhileRemembered ==
  Cardinality(Deliveries) <= SeenBound =>
    \A d \in Deliveries : Cardinality({r \in Runs : r[1] = d /\ stage[r] # "none"}) <= 1

\* The in-flight count is the number of runs submitted or about to be and not
\* finished, so a run that fails to open or commit still gives it back.
InflightCounts ==
  inflight = Cardinality({r \in Runs : stage[r] = "queued"} \cup Busy
                         \cup {hrun[h] : h \in {i \in Handlers : hpc[i] = "submit"}}
                         \cup {r \in Runs : stage[r] = "dropped"})

\* Every run handed to the executor finishes, with an outcome or an error,
\* even when runners never come back: their workers do not wait for them.
SubmittedFinishes == \A r \in Runs : stage[r] = "queued" ~> stage[r] = "finished"

\* A memory opened for a runner that comes back with an answer, or too late,
\* is closed in the end, by whichever side the hand-off left it to.
MemoryIsClosed ==
  \A r \in Runs : runner[r] = "handoff" /\ (box[r] \/ late[r]) ~> mem[r] = "closed"

-----------------------------------------------------------------------------
(* Claims of the documentation that the code does not keep.                *)

\* _answer: "exactly one side closes the memory".  A runner that calls
\* sys.exit in time leaves its worker a KeyError in place of a result, and
\* neither side closes.
OneSideCloses == \A r \in Runs : runner[r] = "handoff" ~> mem[r] = "closed"

\* drain(): "Wait for background runs to finish. True when none are left."
DrainedMeansNoneLeft ==
  drained = "empty" => \A r \in Runs : stage[r] # "dropped"

=============================================================================
