------------------------------ MODULE FileStore ------------------------------
(***************************************************************************)
(* The filesystem adapter: every memory is a directory of JSON files, one  *)
(* file per version, v<n>_current.json for the live one and                *)
(* v<n>_superseded.json for the others.  A write renames the live file to  *)
(* its superseded name and then renames a finished temporary file to the   *)
(* new live name; both happen under a flock of the key.  Reads take no     *)
(* lock.  Three callers write: CoWEngine.write (an agent states a claim),  *)
(* commit_outcome (an outcome is credited to the entries it cites) and     *)
(* LifecycleManager.sweep (entries past their TTL are archived).           *)
(*                                                                         *)
(* One action is one program point between two system calls another        *)
(* process can come between.  What an entry says is a member of Claims;    *)
(* its integrity chain is the sequence of claims the hashes cover.         *)
(***************************************************************************)
EXTENDS Integers, Sequences, FiniteSets

CONSTANTS
  Keys,         \* the (entity_path, key) pairs in use
  Agents,       \* processes that share the store
  Writers,      \* agents that call CoWEngine.write
  Reporters,    \* agents that call commit_outcome
  Sweepers,     \* agents that run a LifecycleManager
  Claims,       \* what a memory can say
  MaxVersion,   \* bound: versions of one key
  MaxCrashes,   \* bound: processes killed in the middle of an operation
  NoFile,       \* no such file, no such entry
  NoAgent       \* the lock of a key nobody holds

Versions == 1 .. MaxVersion

Producers == {"write", "outcome", "archive"}

\* `by' and `base' are history: which operation made this version, and the
\* number of the version its content was computed from (0 for none).
Entry == [claim : Claims, chain : Seq(Claims), outcomes : Nat,
          ttl : BOOLEAN, by : Producers, base : 0 .. MaxVersion]

Citation == [key : Keys, ver : 0 .. MaxVersion, entry : Entry \cup {NoFile}]

Job == [op : Producers, key : Keys \cup {NoFile}, cite : 0 .. MaxVersion,
        claim : Claims \cup {NoFile}, ttl : BOOLEAN, at : 0 .. MaxVersion,
        draft : Entry \cup {NoFile}, expect : 0 .. MaxVersion + 1,
        todo : SUBSET Citation]

Points == {"idle", "next", "locate", "load", "lock",
           "decide", "supersede", "publish"}

\* File names carry the version padded to three digits and are compared as
\* text, which is the order of the numbers up to 999.
ASSUME FileStoreAssumption ==
  /\ MaxVersion \in 1 .. 999
  /\ MaxCrashes \in Nat
  /\ Writers \subseteq Agents /\ Reporters \subseteq Agents
  /\ Sweepers \subseteq Agents
  /\ NoAgent \notin Agents
  /\ NoFile \notin Entry /\ NoFile \notin Keys /\ NoFile \notin Claims

VARIABLES
  cur,       \* cur[k][v]: content of v<v>_current.json, or NoFile
  sup,       \* sup[k][v]: content of v<v>_superseded.json, or NoFile
  lock,      \* lock[k]: the agent whose descriptor holds the flock
  late,      \* the deadline every ttl_at stands for has passed
  crashes,   \* processes killed so far
  pc,        \* program point of each agent
  job        \* the operation each agent is in

files == <<cur, sup>>
vars == <<cur, sup, lock, late, crashes, pc, job>>

NoJob == [op |-> "write", key |-> NoFile, cite |-> 0, claim |-> NoFile,
          ttl |-> FALSE, at |-> 0, draft |-> NoFile, expect |-> 0, todo |-> {}]

-----------------------------------------------------------------------------
(* The directory of a key, as PathLayout reads it.                         *)

CurrentVersions(k) == {v \in Versions : cur[k][v] # NoFile}

\* The last *_current.json by name, 0 if there is none.
CurrentVersionNumber(k) ==
  IF CurrentVersions(k) = {} THEN 0
  ELSE CHOOSE v \in CurrentVersions(k) : \A w \in CurrentVersions(k) : w <= v

\* read_at_version: the first file of that version in name order.
Stored(k, v) == IF cur[k][v] # NoFile THEN cur[k][v] ELSE sup[k][v]

Published(k, v) == v \in Versions /\ Stored(k, v) # NoFile

-----------------------------------------------------------------------------
(* The entries the three producers compute.                                *)

IsExpired(e) == e.ttl /\ late

\* Mutant of Restated: the record is inherited whatever the new claim says.
RestatedWithRecord(base, v, claim, ttl) ==
  [claim |-> claim, ttl |-> ttl, by |-> "write", base |-> v,
   chain |-> IF v = 0 THEN <<claim>> ELSE Append(base.chain, claim),
   outcomes |-> IF v # 0 THEN base.outcomes ELSE 0]

\* CoWEngine.write on top of base, with inherit_evidence: an unchanged claim
\* keeps its outcome record, a changed one starts untested.
Restated(base, v, claim, ttl) ==
  [claim |-> claim, ttl |-> ttl, by |-> "write", base |-> v,
   chain |-> IF v = 0 THEN <<claim>> ELSE Append(base.chain, claim),
   outcomes |-> IF v # 0 /\ base.claim = claim THEN base.outcomes ELSE 0]

\* apply_record_to_entry: a copy of the live entry with one more outcome.
\* The copy keeps content_hash and integrity_chain.
Credited(e, v) == [e EXCEPT !.outcomes = e.outcomes + 1, !.by = "outcome", !.base = v]

\* LifecycleManager.sweep: a copy with confidence 0 and no deadline.
Archived(e, v) == [e EXCEPT !.ttl = FALSE, !.by = "archive", !.base = v]

\* claim_still_held: an outcome about a claim since rewritten does not count.
ClaimStillHeld(k, e, v, cite) ==
  \/ cite \in {0, v}
  \/ Stored(k, cite) = NoFile
  \/ Stored(k, cite).claim = e.claim

-----------------------------------------------------------------------------
(* Control.                                                                *)

Goto(a, point, j) == /\ pc' = [pc EXCEPT ![a] = point]
                     /\ job' = [job EXCEPT ![a] = j]

\* The operation returns or raises: a raise leaves the rest of the loop of
\* commit_outcome or sweep undone.
Return(a) == Goto(a, "idle", NoJob)

\* One turn of the loop of commit_outcome or sweep is over.
Continue(a) ==
  IF job[a].todo = {} THEN Return(a)
  ELSE Goto(a, "next", [NoJob EXCEPT !.op = job[a].op, !.todo = job[a].todo])

Release(a) == lock' = [lock EXCEPT ![job[a].key] = NoAgent]

StartWrite(a) ==
  /\ pc[a] = "idle" /\ a \in Writers
  /\ \E k \in Keys, c \in Claims, t \in BOOLEAN :
       Goto(a, "locate", [NoJob EXCEPT !.key = k, !.claim = c, !.ttl = t])
  /\ UNCHANGED <<files, lock, late, crashes>>

\* An outcome cites at most one version of each key: the one the agent last
\* read, or 0 when its tracker holds no version for the key.
StartOutcome(a) ==
  /\ pc[a] = "idle" /\ a \in Reporters
  /\ \E cited \in SUBSET Keys :
       /\ cited # {}
       /\ \E read \in [cited -> 0 .. MaxVersion] :
            /\ \A k \in cited : read[k] # 0 => Published(k, read[k])
            /\ Goto(a, "next",
                 [NoJob EXCEPT !.op = "outcome",
                    !.todo = {[key |-> k, ver |-> read[k], entry |-> NoFile] : k \in cited}])
  /\ UNCHANGED <<files, lock, late, crashes>>

Overdue(k) ==
  {[key |-> k, ver |-> v, entry |-> cur[k][v]] :
     v \in {w \in CurrentVersions(k) : IsExpired(cur[k][w])}}

\* The sweep lists the whole store before it writes anything.
StartSweep(a) ==
  /\ pc[a] = "idle" /\ a \in Sweepers
  /\ LET overdue == UNION {Overdue(k) : k \in Keys}
     IN  /\ overdue # {}
         /\ Goto(a, "next", [NoJob EXCEPT !.op = "archive", !.todo = overdue])
  /\ UNCHANGED <<files, lock, late, crashes>>

\* The next cited key, in citation order, or the next overdue entry, in the
\* order of the listing: either may be any of those left.
Pick(a) ==
  /\ pc[a] = "next"
  /\ \E c \in job[a].todo :
       LET j == [job[a] EXCEPT !.key = c.key, !.cite = c.ver,
                               !.todo = job[a].todo \ {c}]
       IN  IF j.op = "archive"
           THEN Goto(a, "lock", [j EXCEPT !.draft = Archived(c.entry, c.ver),
                                          !.expect = c.ver])
           ELSE Goto(a, "locate", j)
  /\ UNCHANGED <<files, lock, late, crashes>>

\* Adapter read, first half: find the live file's name.
Locate(a) ==
  /\ pc[a] = "locate"
  /\ LET j == job[a]
         v == CurrentVersionNumber(j.key)
     IN  CASE v # 0 -> Goto(a, "load", [j EXCEPT !.at = v])
           [] v = 0 /\ j.op = "write" ->
                Goto(a, "lock", [j EXCEPT !.draft = Restated(NoFile, 0, j.claim, j.ttl),
                                          !.expect = 1])
           [] OTHER -> Continue(a)      \* "Causal entry not found"
  /\ UNCHANGED <<files, lock, late, crashes>>

\* Second half: open the file by that name.  A writer may have renamed it
\* since (AdapterError).  An expired entry reads as absent.
Load(a) ==
  /\ pc[a] = "load"
  /\ LET j == job[a]
         e == cur[j.key][j.at]
     IN  CASE e = NoFile -> Return(a)
           [] e # NoFile /\ j.op = "write" ->
                LET v == IF IsExpired(e) THEN 0 ELSE j.at
                IN  Goto(a, "lock",
                      [j EXCEPT !.draft = Restated(e, v, j.claim, j.ttl),
                                !.expect = v + 1, !.at = 0])
           [] e # NoFile /\ j.op # "write" ->
                IF ~IsExpired(e) /\ ClaimStillHeld(j.key, e, j.at, j.cite)
                THEN Goto(a, "lock", [j EXCEPT !.draft = Credited(e, j.at),
                                               !.expect = 1, !.at = 0])
                ELSE Continue(a)
  /\ UNCHANGED <<files, lock, late, crashes>>

\* Mutant of Acquire: a failed LOCK_NB is taken for a success.
AcquireBarging(a) ==
  /\ pc[a] = "lock"
  /\ lock' = [lock EXCEPT ![job[a].key] = a]
  /\ Goto(a, "decide", job[a])
  /\ UNCHANGED <<files, late, crashes>>

Acquire(a) ==
  /\ pc[a] = "lock"
  /\ lock[job[a].key] = NoAgent
  /\ lock' = [lock EXCEPT ![job[a].key] = a]
  /\ Goto(a, "decide", job[a])
  /\ UNCHANGED <<files, late, crashes>>

\* Mutant of LockTimeout: flock without LOCK_NB waits for ever.
LockTimeoutNever(a) == FALSE /\ UNCHANGED vars

\* Five seconds of polling with the lock held elsewhere.
LockTimeout(a) ==
  /\ pc[a] = "lock"
  /\ lock[job[a].key] # NoAgent
  /\ Return(a)
  /\ UNCHANGED <<files, lock, late, crashes>>

\* Mutant of Conflict: the comparison is skipped for the second version too.
ConflictAboveTwo(a, new) == job[a].expect > 2 /\ job[a].expect # new

\* adapter.write numbers the version and compares it with the one the caller
\* computed, unless the caller says 1 or nothing.
Conflict(a, new) == job[a].expect > 1 /\ job[a].expect # new

\* Mutant of Decide: the version number is the one the caller expected.
DecideAsExpected(a) ==
  /\ pc[a] = "decide"
  /\ LET new == CurrentVersionNumber(job[a].key) + 1
     IN  IF Conflict(a, new) \/ new > MaxVersion
         THEN Return(a) /\ Release(a)
         ELSE Goto(a, "supersede", [job[a] EXCEPT !.at = job[a].expect]) /\ UNCHANGED lock
  /\ UNCHANGED <<files, late, crashes>>

Decide(a) ==
  /\ pc[a] = "decide"
  /\ LET new == CurrentVersionNumber(job[a].key) + 1
     IN  IF Conflict(a, new) \/ new > MaxVersion
         THEN Return(a) /\ Release(a)
         ELSE Goto(a, "supersede", [job[a] EXCEPT !.at = new]) /\ UNCHANGED lock
  /\ UNCHANGED <<files, late, crashes>>

\* Mutant of Supersede: the live file is copied, not renamed.
SupersedeByCopy(a) ==
  /\ pc[a] = "supersede"
  /\ LET k == job[a].key
         v == CurrentVersionNumber(k)
     IN  IF v = 0 THEN UNCHANGED files
         ELSE sup' = [sup EXCEPT ![k][v] = cur[k][v]] /\ UNCHANGED cur
  /\ Goto(a, "publish", job[a])
  /\ UNCHANGED <<lock, late, crashes>>

Supersede(a) ==
  /\ pc[a] = "supersede"
  /\ LET k == job[a].key
         v == CurrentVersionNumber(k)
     IN  IF v = 0 THEN UNCHANGED files
         ELSE /\ sup' = [sup EXCEPT ![k][v] = cur[k][v]]
              /\ cur' = [cur EXCEPT ![k][v] = NoFile]
  /\ Goto(a, "publish", job[a])
  /\ UNCHANGED <<lock, late, crashes>>

\* Mutant of Publish: the temporary file gets the superseded name.
PublishSuperseded(a) ==
  /\ pc[a] = "publish"
  /\ sup' = [sup EXCEPT ![job[a].key][job[a].at] = job[a].draft]
  /\ Release(a)
  /\ Continue(a)
  /\ UNCHANGED <<cur, late, crashes>>

\* Mutant of Publish: the lock is held until the loop over the keys is over.
PublishHolding(a) ==
  /\ pc[a] = "publish"
  /\ cur' = [cur EXCEPT ![job[a].key][job[a].at] = job[a].draft]
  /\ IF job[a].todo = {} THEN Release(a) ELSE UNCHANGED lock
  /\ Continue(a)
  /\ UNCHANGED <<sup, late, crashes>>

\* The finished temporary file takes the live name; the lock is released.
Publish(a) ==
  /\ pc[a] = "publish"
  /\ cur' = [cur EXCEPT ![job[a].key][job[a].at] = job[a].draft]
  /\ Release(a)
  /\ Continue(a)
  /\ UNCHANGED <<sup, late, crashes>>

\* The process dies: the kernel drops its lock, its operation is gone.
Crash(a) ==
  /\ pc[a] # "idle" /\ crashes < MaxCrashes
  /\ crashes' = crashes + 1
  /\ lock' = [k \in Keys |-> IF lock[k] = a THEN NoAgent ELSE lock[k]]
  /\ Return(a)
  /\ UNCHANGED <<files, late>>

DeadlinePasses ==
  /\ ~late /\ late' = TRUE
  /\ UNCHANGED <<files, lock, crashes, pc, job>>

Init ==
  /\ cur = [k \in Keys |-> [v \in Versions |-> NoFile]]
  /\ sup = [k \in Keys |-> [v \in Versions |-> NoFile]]
  /\ lock = [k \in Keys |-> NoAgent]
  /\ late = FALSE
  /\ crashes = 0
  /\ pc = [a \in Agents |-> "idle"]
  /\ job = [a \in Agents |-> NoJob]

Start(a) == StartWrite(a) \/ StartOutcome(a) \/ StartSweep(a)

Step(a) ==
  \/ Pick(a) \/ Locate(a) \/ Load(a) \/ Acquire(a) \/ LockTimeout(a)
  \/ Decide(a) \/ Supersede(a) \/ Publish(a)

Next ==
  \/ \E a \in Agents : Start(a) \/ Step(a) \/ Crash(a)
  \/ DeadlinePasses

Spec == Init /\ [][Next]_vars

-----------------------------------------------------------------------------
(* Fairness: an operation in flight is a thread that is scheduled, and the *)
(* lifecycle thread wakes up every interval.  Nobody has to start a write  *)
(* or an outcome, and nothing obliges a process to crash.                  *)

Fairness == \A a \in Agents : WF_vars(Step(a)) /\ WF_vars(StartSweep(a))

FairSpec == Spec /\ Fairness

-----------------------------------------------------------------------------
(* Properties.                                                             *)

TypeOK ==
  /\ cur \in [Keys -> [Versions -> Entry \cup {NoFile}]]
  /\ sup \in [Keys -> [Versions -> Entry \cup {NoFile}]]
  /\ lock \in [Keys -> Agents \cup {NoAgent}]
  /\ late \in BOOLEAN
  /\ crashes \in 0 .. MaxCrashes
  /\ pc \in [Agents -> Points]
  /\ job \in [Agents -> Job]

InSection(a) == pc[a] \in {"decide", "supersede", "publish"}

\* Two processes never number, supersede or publish versions of one key at
\* the same time, and a lock held is held by a process inside its section:
\* no timeout, conflict, error or crash leaves one behind.
LockDiscipline ==
  /\ \A a, b \in Agents :
       InSection(a) /\ InSection(b) /\ a # b => job[a].key # job[b].key
  /\ \A k \in Keys : lock[k] # NoAgent =>
       InSection(lock[k]) /\ job[lock[k]].key = k

\* A key never has two live versions, whatever crashes in between: the
\* directory listing has one answer.
OneCurrent ==
  \A k \in Keys : \A v, w \in CurrentVersions(k) : v = w

Superseded(k) == {v \in Versions : sup[k][v] # NoFile}

\* While no process has died, a key's files are its versions 1..n with none
\* missing, only the newest live; in the middle of a write, and only then,
\* all n are superseded.
HistoryDense ==
  crashes = 0 =>
    \A k \in Keys : \E n \in 0 .. MaxVersion :
      \/ CurrentVersions(k) = {n} \ {0} /\ Superseded(k) = 1 .. n - 1
      \/ /\ CurrentVersions(k) = {} /\ Superseded(k) = 1 .. n
         /\ \E a \in Agents : pc[a] = "publish" /\ job[a].key = k

\* While no process has died, a published version stays what it was: a write
\* adds a version and overwrites none.
HistoryImmutable ==
  [][crashes' = 0 =>
       \A k \in Keys, v \in Versions :
         Published(k, v) => (Stored(k, v))' = Stored(k, v)]_vars

\* A write computed from a version it read lands right after that version,
\* or not at all, and its integrity chain extends that version's: a version
\* published between its unlocked read and its lock raises a conflict.
ReadWritesExtend ==
  crashes = 0 =>
    \A k \in Keys, v \in Versions :
      Published(k, v) /\ Stored(k, v).by = "write" /\ Stored(k, v).base # 0 =>
        /\ Stored(k, v).base = v - 1
        /\ Stored(k, v).chain = Append(Stored(k, v - 1).chain, Stored(k, v).claim)

\* No claim carries more outcomes than were committed about it: neither a
\* restatement nor a rewrite nor an archive counts an outcome again, and a
\* changed claim inherits none.
CreditIsEarned ==
  crashes = 0 =>
    \A k \in Keys, v \in Versions :
      Published(k, v) =>
        Stored(k, v).outcomes <=
          Cardinality({w \in 1 .. v : /\ Published(k, w)
                                      /\ Stored(k, w).by = "outcome"
                                      /\ Stored(k, w).claim = Stored(k, v).claim})

\* Every write, outcome and sweep returns or raises, however the others
\* contend for the lock.
EveryOperationReturns == \A a \in Agents : pc[a] # "idle" ~> pc[a] = "idle"

\* A key that has lost sight of its live version in the middle of a write
\* gets one again, as long as no process dies.
KeyComesBack ==
  \A k \in Keys :
    (crashes = 0 /\ CurrentVersions(k) = {} /\ Superseded(k) # {})
      ~> (crashes # 0 \/ CurrentVersions(k) # {})

-----------------------------------------------------------------------------
(* Claims of the documentation that the code does not keep.                *)

\* layout.py: current_version_file is None "if no versions exist".
AbsentMeansNoVersions ==
  \A a \in Agents :
    pc[a] = "locate" /\ CurrentVersionNumber(job[a].key) = 0 =>
      \A v \in Versions : ~Published(job[a].key, v)

\* "Nothing is ever lost", and writes are safe "even during crashes".
NothingIsLost ==
  [][\A k \in Keys, v \in Versions :
       Published(k, v) => (Stored(k, v))' = Stored(k, v)]_vars

\* "Each version links to its predecessor": what verify_entries recomputes.
ChainUnbroken ==
  \A k \in Keys, v \in Versions \ {1} :
    Published(k, v) /\ Published(k, v - 1) =>
      Stored(k, v).chain = Append(Stored(k, v - 1).chain, Stored(k, v).claim)

\* An outcome about a claim since rewritten "must not land on the new one",
\* nor take its place.
OutcomeStaysOnItsClaim ==
  \A k \in Keys, v \in Versions \ {1} :
    Published(k, v) /\ Published(k, v - 1) /\ Stored(k, v).by = "outcome" =>
      Stored(k, v).claim = Stored(k, v - 1).claim

\* The sweep archives expired entries, and no other.
OnlyExpiredIsArchived ==
  \A k \in Keys, v \in Versions \ {1} :
    Published(k, v) /\ Published(k, v - 1) /\ Stored(k, v).by = "archive" =>
      Stored(k, v - 1).ttl

HasOverdue(k) == \E v \in 1 .. MaxVersion - 1 : cur[k][v] # NoFile /\ IsExpired(cur[k][v])

\* "Archives expired entries in a background thread": once the writers have
\* stopped, an entry past its TTL is archived in the end.
ExpiredIsArchived ==
  (\A a \in Writers : <>[](pc[a] = "idle")) =>
    \A k \in Keys : HasOverdue(k) ~> ~HasOverdue(k)

=============================================================================
