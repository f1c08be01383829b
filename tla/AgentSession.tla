---------------------------- MODULE AgentSession ----------------------------
(***************************************************************************)
(* Agents at work over a shared store, each through an AgentMemory whose   *)
(* ReadTracker decides what an outcome is charged to: what the agent read  *)
(* since the last attempt it gave up, at the version it read.  Agents      *)
(* rewrite keys meanwhile, calls to the store fail half way and are tried  *)
(* again, and runs begin on a session that an earlier one has left.        *)
(*                                                                         *)
(* The store is a history per key.  A write is a single step of it; an     *)
(* outcome looks at a key and later adds a copy of what it saw, with its   *)
(* charges.  The table refuses a copy that does not follow what was looked *)
(* at; the files take it, and while a version is put in place they show no *)
(* entry at all (PgStore and FileStore take the writes apart).             *)
(***************************************************************************)
EXTENDS Integers, Sequences, FiniteSets, SequencesExt

CONSTANTS
  Keys, Claims, Agents,
  Actors,       \* bound: the agents that read, and retry; the others write, and
                \* report once, naming every key
  Policy,       \* ConflictPolicy: "raise" or "last_write_wins"
  Checked,      \* the store is the table of a tenant, and not the files
  Undated,      \* digests were compiled before they carried versions
  MaxVersion,   \* bound: versions of a key when a write begins
  MaxReads,     \* bound: reads of the first session; one less in each later one
  MaxAttempts,  \* bound: attempts of a session
  MaxTasks,     \* bound: sessions of an agent that reads; the others have one
  MaxTurns      \* bound: runs begun over another, and outcomes of a session
                \* that fail half way, together

ASSUME SessionAssumption ==
  /\ Actors \subseteq Agents
  /\ Policy \in {"raise", "last_write_wins"} /\ {Checked, Undated} \subseteq BOOLEAN
  /\ {MaxVersion, MaxReads, MaxAttempts, MaxTasks, MaxTurns} \subseteq Nat

VARIABLES
  history,  \* history[k]: the versions of key k, each a claim, its author and
            \* the outcome steps that have reached it, a bag of charges
  tracker,  \* tracker[a]: the ReadTracker of agent a
  cov,      \* cov[a]: the run whose covariates are declared, or 0
  pc,       \* program point of each agent
  op,       \* the write or the outcome each agent is in
  look,     \* look[a]: the key and version the outcome of agent a has in hand
  run,      \* run[a]: the run agent a is in
  task,     \* task[a]: the session agent a is in
  reads,    \* reads[a]: what agent a has read in the session, in order
  raised    \* raised[a]: how many outcomes of the session failed half way

session == <<tracker, cov, run, task, reads, raised>>
vars == <<history, pc, op, look, session>>

NoOp == [kind |-> "none"]

NoLook == [version |-> 0]

Fresh == [seq |-> [k \in Keys |-> 0], version |-> [k \in Keys |-> 0],
          counter |-> 0, boundary |-> 0, attempts |-> <<>>]

Goto(a, point) == pc' = [pc EXCEPT ![a] = point]

Return(a) == Goto(a, "idle") /\ op' = [op EXCEPT ![a] = NoOp]

Active(a) == pc[a] = "idle" /\ task[a] <= (IF a \in Actors THEN MaxTasks ELSE 1)

Turns(a) == run[a] - 1 + raised[a]

-----------------------------------------------------------------------------
(* ReadTracker.                                                            *)

\* The attempt in progress.
Window(a) == Len(tracker[a].attempts) + 1

\* record: key k was read at version v, now.
Recorded(t, k, v) ==
  [t EXCEPT !.seq[k] = t.counter + 1, !.version[k] = v, !.counter = t.counter + 1]

KeysSince(t, n) == {k \in Keys : t.seq[k] > n}

\* versions_for: 0 where the session has none.
VersionsFor(t, S) == [k \in S |-> t.version[k]]

\* The keys of a step: those the caller names, or those of the window.
Cited(t, S, named) ==
  [keys |-> S, versions |-> VersionsFor(t, S), named |-> named]

\* Mutant of Closed: what was read before is part of the next attempt too.
ClosedWithoutBoundary(t, cited) == [t EXCEPT !.attempts = Append(t.attempts, cited)]

\* record_attempt: the next attempt starts here.
Closed(t, cited) ==
  [t EXCEPT !.attempts = Append(t.attempts, cited), !.boundary = t.counter]

\* terminal_causal_keys, or causal_keys.
TerminalKeys(t) == KeysSince(t, IF t.attempts = <<>> THEN 0 ELSE t.boundary)

\* clear.
Cleared(t) == Fresh

-----------------------------------------------------------------------------
(* read, write and the runs.                                               *)

\* read, retrieve and briefing: the entry, or what a digest says of an older
\* version of it.
Read(a) ==
  \E k \in Keys : \E v \in DOMAIN history[k] :
    /\ Active(a) /\ tracker[a].counter + task[a] <= MaxReads
    /\ \E dated \in {v} \cup (IF Undated /\ v # Len(history[k]) THEN {1} ELSE {}) :
         tracker' = [tracker EXCEPT ![a] = Recorded(tracker[a], k, dated)]
    /\ reads' = [reads EXCEPT ![a] = Append(@, [key |-> k, version |-> v, window |-> Window(a),
                                               run |-> run[a]])]
    /\ UNCHANGED <<history, pc, op, look, cov, run, task, raised>>

\* Another agent has written the key since this one read it.
Stale(a, k) ==
  /\ tracker[a].version[k] # 0
  /\ Len(history[k]) > tracker[a].version[k]
  /\ Last(history[k]).by # a

\* write, up to its check of the conflict policy: a StaleWriteError, or the
\* call of the engine.
BeginWrite(a) ==
  \E k \in Keys, c \in Claims :
    /\ pc[a] = "idle" /\ Len(history[k]) < MaxVersion
    /\ ~(Policy = "raise" /\ Stale(a, k))
    /\ Goto(a, "store")
    /\ op' = [op EXCEPT ![a] = [kind |-> "write", key |-> k, claim |-> c]]
    /\ UNCHANGED <<history, look, session>>

\* Agent a may find no entry at key k: there is none, or another agent is
\* putting a version in place, in files.
Absent(a, k) ==
  \/ history[k] = <<>>
  \/ /\ ~Checked
     /\ \E b \in Agents \ {a} :
          \/ pc[b] = "store" /\ op[b].key = k
          \/ look[b] # NoLook /\ look[b].key = k

\* Key k claims c already.
Claimed(k, c) == history[k] # <<>> /\ Last(history[k]).claim = c

\* CoWEngine.write: an unchanged claim keeps its record, if the write found it.
\* The session has not read what it writes.
Store(a) ==
  LET k == op[a].key
      bare == [claim |-> op[a].claim, by |-> a, charges |-> EmptyBag]
      kept == [bare EXCEPT !.charges = Last(history[k]).charges]
  IN  /\ pc[a] = "store"
      /\ \/ /\ Absent(a, k) \/ ~Claimed(k, op[a].claim)
            /\ history' = [history EXCEPT ![k] = Append(@, bare)]
         \/ /\ Claimed(k, op[a].claim)
            /\ history' = [history EXCEPT ![k] = Append(@, kept)]
      /\ Return(a)
      /\ UNCHANGED <<look, session>>

\* Mutant of BeginRun: the covariates of the run before are kept.
BeginRunAsIs(a) ==
  /\ Active(a) /\ Turns(a) < MaxTurns
  /\ run' = [run EXCEPT ![a] = run[a] + 1]
  /\ UNCHANGED <<history, pc, op, look, tracker, cov, task, reads, raised>>

\* Run.begin: nothing else of the session is reset.
BeginRun(a) ==
  /\ Active(a) /\ Turns(a) < MaxTurns
  /\ run' = [run EXCEPT ![a] = run[a] + 1]
  /\ cov' = [cov EXCEPT ![a] = 0]
  /\ UNCHANGED <<history, pc, op, look, tracker, task, reads, raised>>

\* Run.observe.
Observe(a) ==
  /\ Active(a) /\ cov[a] # run[a]
  /\ cov' = [cov EXCEPT ![a] = run[a]]
  /\ UNCHANGED <<history, pc, op, look, tracker, run, task, reads, raised>>

\* attempt_failed.
AttemptFailed(a) ==
  \E S \in SUBSET Keys, named \in BOOLEAN :
    /\ Active(a) /\ Len(tracker[a].attempts) < MaxAttempts
    /\ named \/ S = KeysSince(tracker[a], tracker[a].boundary)
    /\ tracker' = [tracker EXCEPT ![a] = Closed(@, Cited(@, S, named))]
    /\ UNCHANGED <<history, pc, op, look, cov, run, task, reads, raised>>

-----------------------------------------------------------------------------
(* commit_outcome.                                                         *)

\* The record: the attempts, then the outcome, each with its keys.
BeginOutcome(a) ==
  \E S \in SUBSET Keys, named \in BOOLEAN :
    LET t     == tracker[a]
        steps == Append(t.attempts, Cited(t, S, named))
    IN  /\ Active(a)
        /\ named \/ S = TerminalKeys(t)
        /\ a \in Actors \/ S = Keys
        /\ Goto(a, "apply")
        /\ op' = [op EXCEPT ![a] = [kind |-> "outcome", steps |-> steps, cov |-> cov[a],
                                    todo |-> UNION {steps[n].keys : n \in DOMAIN steps}]]
        /\ UNCHANGED <<history, look, session>>

\* Mutant of StillHeld: an outcome is about whatever the key says.
StillHeldAlways(k, v, w) == TRUE

\* claim_still_held: version w of key k says what version v said.
StillHeld(k, v, w) == v = 0 \/ history[k][w].claim = history[k][v].claim

\* The steps of the outcome that reach version w of key k.
Reached(a, k, w) ==
  {n \in DOMAIN op[a].steps :
     /\ k \in op[a].steps[n].keys
     /\ StillHeld(k, op[a].steps[n].versions[k], w)}

\* Step n of the outcome, as an entry that it reaches counts it.
Charge(a, n) == [agent |-> a, task |-> task[a], step |-> n]

Charges(a, k, w) == SetToBag({Charge(a, n) : n \in Reached(a, k, w)})

\* apply_record_to_entry: a copy of version w, with every step that reaches it.
Charged(a, k, w) == [history[k][w] EXCEPT !.charges = @ (+) Charges(a, k, w)]

\* Key k has had its turn.
Done(a, k) == op' = [op EXCEPT ![a].todo = @ \ {k}]

\* The current version of a key of the outcome, which is passed over if there
\* is none, or if it says something else by now.
Look(a) ==
  /\ pc[a] = "apply" /\ look[a] = NoLook
  /\ \E k \in op[a].todo :
       \/ /\ Absent(a, k) \/ Reached(a, k, Len(history[k])) = {}
          /\ Done(a, k)
          /\ UNCHANGED look
       \/ /\ history[k] # <<>> /\ Reached(a, k, Len(history[k])) # {}
          /\ look' = [look EXCEPT ![a] = [key |-> k, version |-> Len(history[k])]]
          /\ UNCHANGED op
  /\ UNCHANGED <<history, pc, session>>

\* Mutant of Land: the table takes the copy whatever has come in between.
LandAnyway(a) ==
  LET k == look[a].key
      w == look[a].version
  IN  /\ pc[a] = "apply" /\ look[a] # NoLook
      /\ history' = [history EXCEPT ![k] = Append(@, Charged(a, k, w))]
      /\ Done(a, k)
      /\ look' = [look EXCEPT ![a] = NoLook]
      /\ UNCHANGED <<pc, session>>

\* The copy of what was looked at is written.  The table refuses it if the key
\* has grown: Raise is left.
Land(a) ==
  LET k == look[a].key
      w == look[a].version
  IN  /\ pc[a] = "apply" /\ look[a] # NoLook
      /\ Checked => Len(history[k]) = w
      /\ history' = [history EXCEPT ![k] = Append(@, Charged(a, k, w))]
      /\ Done(a, k)
      /\ look' = [look EXCEPT ![a] = NoLook]
      /\ UNCHANGED <<pc, session>>

\* The store raises, or its answer is lost: the session is as it was, and the
\* caller may commit again.
Raise(a) ==
  /\ pc[a] = "apply" /\ Turns(a) < MaxTurns
  /\ raised' = [raised EXCEPT ![a] = raised[a] + 1]
  /\ look' = [look EXCEPT ![a] = NoLook]
  /\ Return(a)
  /\ UNCHANGED <<history, tracker, cov, run, task, reads>>

\* The next session starts.
Clear(a) ==
  /\ tracker' = [tracker EXCEPT ![a] = Cleared(@)]
  /\ task' = [task EXCEPT ![a] = task[a] + 1]
  /\ reads' = [reads EXCEPT ![a] = <<>>]
  /\ raised' = [raised EXCEPT ![a] = 0]
  /\ UNCHANGED run

FinishOutcome(a) ==
  /\ pc[a] = "apply" /\ op[a].todo = {}
  /\ Return(a)
  /\ Clear(a)
  /\ cov' = [cov EXCEPT ![a] = 0]
  /\ UNCHANGED <<history, look>>

ClearReadLog(a) ==
  /\ Active(a) /\ tracker[a] # Fresh
  /\ Clear(a)
  /\ UNCHANGED <<history, pc, op, look, cov>>

-----------------------------------------------------------------------------

Init ==
  /\ history = [k \in Keys |-> <<>>]
  /\ tracker = [a \in Agents |-> Fresh]
  /\ cov = [a \in Agents |-> 0]
  /\ pc = [a \in Agents |-> "idle"]
  /\ op = [a \in Agents |-> NoOp]
  /\ look = [a \in Agents |-> NoLook]
  /\ run = [a \in Agents |-> 1]
  /\ task = [a \in Agents |-> 1]
  /\ reads = [a \in Agents |-> <<>>]
  /\ raised = [a \in Agents |-> 0]

Outcome(a) == BeginOutcome(a) \/ Look(a) \/ Land(a) \/ FinishOutcome(a)

Next ==
  \/ \E a \in Agents : BeginWrite(a) \/ Store(a) \/ Outcome(a)
  \/ \E a \in Actors : \/ Read(a) \/ BeginRun(a) \/ Observe(a) \/ AttemptFailed(a)
                       \/ Raise(a) \/ ClearReadLog(a)

Spec == Init /\ [][Next]_vars

-----------------------------------------------------------------------------
(* Properties.                                                             *)

\* The reads of key k by agent a in the session, up to attempt n.
ReadsOf(a, k, n) == {i \in DOMAIN reads[a] : reads[a][i].key = k /\ reads[a][i].window <= n}

LastOf(S) == CHOOSE i \in S : \A j \in S : j <= i

\* A version is charged only if it claims what the agent had last read of its
\* key when it gave the attempt up, if it had read it at all: with whatever
\* written meanwhile, and whatever the copy comes to lie on.
ChargesWhatWasRead ==
  \A a \in Agents : look[a] # NoLook =>
    LET k == look[a].key
        w == look[a].version
    IN  \A n \in Reached(a, k, w) : ReadsOf(a, k, n) # {} =>
          LET read == reads[a][LastOf(ReadsOf(a, k, n))]
          IN  history[k][read.version].claim = history[k][w].claim

\* Unless the agent says otherwise an attempt is charged to what was read
\* during that attempt: what misled an earlier one does not share in the
\* success of a later one.
AttemptsAreApart ==
  \A a \in Agents : pc[a] = "apply" =>
    \A n \in DOMAIN op[a].steps : ~op[a].steps[n].named =>
      op[a].steps[n].keys =
        {k \in Keys : \E i \in DOMAIN reads[a] : reads[a][i].key = k /\ reads[a][i].window = n}

\* The key still claims what version v claimed, and has all along.
Unchanged(k, v) == \A w \in v .. Len(history[k]) : history[k][w].claim = history[k][v].claim

Count(x, B) == IF BagIn(x, B) THEN B[x] ELSE 0

\* When an outcome has been committed without a failure, every read of the
\* session has its charge, once, on the version that is current, unless the
\* key was rewritten: whatever others restate and report of the key meanwhile.
\* So it is in the table; in the files an outcome passes a key over while
\* another agent writes it, and the copy of one outcome hides the charges of
\* another.
EveryReadIsCharged ==
  \A a \in Agents : pc[a] = "apply" /\ op[a].todo = {} /\ raised[a] = 0 =>
    \A n \in DOMAIN op[a].steps, k \in Keys :
      LET in == {i \in ReadsOf(a, k, n) : reads[a][i].window = n}
      IN  /\ ~op[a].steps[n].named /\ in # {}
          /\ Unchanged(k, reads[a][LastOf(in)].version)
          => Count(Charge(a, n), Last(history[k]).charges) = 1

\* An outcome carries the covariates of the run that ends with it, or none.
CovariatesAreOfTheRun ==
  \A a \in Agents : pc[a] = "apply" => op[a].cov \in {0, run[a]}

-----------------------------------------------------------------------------
(* Broken by the code: see the README.                                     *)

\* An outcome is counted once on an entry, however often it is tried again.
OutcomeCountsOnce ==
  \A k \in Keys : \A v \in DOMAIN history[k] :
    \A x \in BagToSet(history[k][v].charges) : Count(x, history[k][v].charges) = 1

\* An outcome is charged to what was read by the run that ends with it.
RunsAreApart ==
  \A a \in Agents : pc[a] = "apply" =>
    \A n \in DOMAIN op[a].steps, i \in DOMAIN reads[a] :
      ~op[a].steps[n].named /\ reads[a][i].key \in op[a].steps[n].keys =>
        reads[a][i].run = run[a]

\* With the policy "raise", nobody overwrites what another agent has written
\* since they read the key.
StaleWritesAreRefused ==
  [][\A a \in Agents :
       pc[a] = "store" /\ pc'[a] = "idle" /\ Policy = "raise" => ~Stale(a, op[a].key)]_vars

=============================================================================
