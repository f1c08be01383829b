--------------------------- MODULE FileStore_proofs ---------------------------
(***************************************************************************)
(* FileStore, proved for any sets of keys and agents and any bounds: types *)
(* and locks, the history of a key while no process has died, the record   *)
(* its versions carry, and the versioned store all of it implements.       *)
(***************************************************************************)
EXTENDS FileStoreRefinement, FiniteSetTheorems, SequenceTheorems, TLAPS

\* What an agent knows of its own operation at each program point.
JobOK(a) ==
  /\ job[a].op = "write" => pc[a] # "next" /\ job[a].todo = {}
  /\ pc[a] \notin {"idle", "next"} => job[a].key \in Keys
  /\ pc[a] \in {"locate", "load"} /\ job[a].op = "write" => job[a].claim \in Claims
  /\ pc[a] = "load" => job[a].at \in Versions
  /\ pc[a] \in {"lock", "decide", "supersede", "publish"} => job[a].draft \in Entry
  /\ job[a].op = "archive" => \A c \in job[a].todo : c.entry \in Entry

\* A process inside its section holds the lock of its key.
HoldsLock(a) == InSection(a) => lock[job[a].key] = a

\* The lock of a key is nobody's or that of a process inside its section.
LockOK(k) == lock[k] # NoAgent => InSection(lock[k]) /\ job[lock[k]].key = k

\* The version a writer is about to make is the one after the live one, and
\* once it has superseded that one the key has no live version.
SectionOK(a) ==
  /\ pc[a] = "supersede" =>
       /\ job[a].at \in Versions
       /\ \A v \in Versions : cur[job[a].key][v] # NoFile <=> v = job[a].at - 1
  /\ pc[a] = "publish" =>
       /\ job[a].at \in Versions
       /\ \A v \in Versions : cur[job[a].key][v] = NoFile

\* The inductive invariant behind the types, the locks and OneCurrent.
Inv ==
  /\ TypeOK
  /\ \A a \in Agents : JobOK(a)
  /\ \A a \in Agents : HoldsLock(a)
  /\ \A k \in Keys : LockOK(k)
  /\ \A a \in Agents : SectionOK(a)
  /\ OneCurrent

-----------------------------------------------------------------------------
(* What the helpers return.                                                *)

LEMMA CurrentNumber ==
  ASSUME OneCurrent, NEW k \in Keys
  PROVE  \/ CurrentVersionNumber(k) = 0 /\ CurrentVersions(k) = {}
         \/ /\ CurrentVersionNumber(k) \in Versions
            /\ CurrentVersions(k) = {CurrentVersionNumber(k)}
            /\ cur[k][CurrentVersionNumber(k)] # NoFile
<1>1. CASE CurrentVersions(k) = {}
  BY <1>1 DEF CurrentVersionNumber
<1>2. CASE CurrentVersions(k) # {}
  <2>1. PICK v \in CurrentVersions(k) : TRUE
    BY <1>2
  <2>2. /\ CurrentVersions(k) = {v}
        /\ v \in Versions
        /\ cur[k][v] # NoFile
    BY <2>1 DEF OneCurrent, CurrentVersions
  <2>3. CurrentVersionNumber(k) = v
    BY <1>2, <2>2, FileStoreAssumption DEF CurrentVersionNumber, Versions
  <2> QED
    BY <2>2, <2>3
<1> QED
  BY <1>1, <1>2

LEMMA RestatedType ==
  ASSUME NEW base, NEW v \in 0 .. MaxVersion, v # 0 => base \in Entry,
         NEW claim \in Claims, NEW ttl \in BOOLEAN
  PROVE  Restated(base, v, claim, ttl) \in Entry
<1>1. CASE v = 0
  BY <1>1, FileStoreAssumption DEF Restated, Entry, Producers
<1>2. CASE v # 0
  BY <1>2, FileStoreAssumption DEF Restated, Entry, Producers
<1> QED
  BY <1>1, <1>2

LEMMA CreditedType ==
  ASSUME NEW e \in Entry, NEW v \in 0 .. MaxVersion
  PROVE  Credited(e, v) \in Entry
<1> DEFINE n == e.outcomes + 1
<1>1. n \in Nat
  BY DEF Entry
<1>2. Credited(e, v) = [e EXCEPT !.outcomes = n, !.by = "outcome", !.base = v]
  BY DEF Credited
<1> HIDE DEF n
<1> QED
  BY <1>1, <1>2 DEF Entry, Producers

LEMMA ArchivedType ==
  ASSUME NEW e \in Entry, NEW v \in 0 .. MaxVersion
  PROVE  Archived(e, v) \in Entry
BY DEF Archived, Entry, Producers

LEMMA NoJobType == NoJob \in Job
BY FileStoreAssumption DEF NoJob, Job, Producers, Citation

\* A transfer of control moves one agent and no other.
LEMMA GotoFrame ==
  ASSUME TypeOK, NEW a \in Agents, NEW point \in Points, NEW j \in Job,
         Goto(a, point, j)
  PROVE  /\ pc' \in [Agents -> Points]
         /\ job' \in [Agents -> Job]
         /\ pc'[a] = point /\ job'[a] = j
         /\ \A b \in Agents : b # a => pc'[b] = pc[b] /\ job'[b] = job[b]
BY DEF TypeOK, Goto

\* Most steps happen outside the section and touch neither files nor locks:
\* for these only the agent's own record has to be looked at.
LEMMA OutsideStep ==
  ASSUME Inv, NEW a \in Agents, ~InSection(a),
         NEW point \in {"idle", "next", "locate", "load", "lock"},
         NEW j \in Job, Goto(a, point, j),
         UNCHANGED <<files, lock, late, crashes>>,
         j.op = "write" => point # "next" /\ j.todo = {},
         point \notin {"idle", "next"} => j.key \in Keys,
         point \in {"locate", "load"} /\ j.op = "write" => j.claim \in Claims,
         point = "load" => j.at \in Versions,
         point = "lock" => j.draft \in Entry,
         j.op = "archive" => \A c \in j.todo : c.entry \in Entry
  PROVE  Inv'
<1>1. /\ pc' \in [Agents -> Points]
      /\ job' \in [Agents -> Job]
      /\ pc'[a] = point /\ job'[a] = j
      /\ \A b \in Agents : b # a => pc'[b] = pc[b] /\ job'[b] = job[b]
  BY GotoFrame DEF Inv, Points
<1>2. TypeOK'
  BY <1>1 DEF Inv, TypeOK, files
<1>3. ASSUME NEW b \in Agents PROVE JobOK(b)'
  BY <1>1 DEF Inv, JobOK
<1>4. ASSUME NEW b \in Agents PROVE HoldsLock(b)'
  BY <1>1 DEF Inv, HoldsLock, InSection
<1>5. ASSUME NEW k \in Keys PROVE LockOK(k)'
  <2>1. lock'[k] = lock[k] /\ lock[k] \in Agents \cup {NoAgent}
    BY DEF Inv, TypeOK
  <2> QED
    BY <1>1, <2>1 DEF Inv, LockOK, InSection
<1>6. ASSUME NEW b \in Agents PROVE SectionOK(b)'
  <2>1. CASE b = a
    BY <1>1, <2>1 DEF SectionOK
  <2>2. CASE b # a
    <3>1. SectionOK(b) /\ pc'[b] = pc[b] /\ job'[b] = job[b] /\ cur' = cur
      BY <1>1, <2>2 DEF Inv, files
    <3> QED
      BY <3>1 DEF SectionOK
  <2> QED
    BY <2>1, <2>2
<1>7. OneCurrent'
  BY DEF Inv, OneCurrent, CurrentVersions, files
<1> QED
  BY <1>2, <1>3, <1>4, <1>5, <1>6, <1>7 DEF Inv

\* An operation that returns, and one that goes on to its next item.
LEMMA ReturnStep ==
  ASSUME Inv, NEW a \in Agents, ~InSection(a), Return(a),
         UNCHANGED <<files, lock, late, crashes>>
  PROVE  Inv'
<1>1. NoJob.op = "write" /\ NoJob.todo = {}
  BY DEF NoJob
<1> QED
  BY <1>1, NoJobType, OutsideStep DEF Return

LEMMA ContinueType ==
  ASSUME TypeOK, NEW a \in Agents, JobOK(a), job[a].op # "write",
         NEW j, j = [NoJob EXCEPT !.op = job[a].op, !.todo = job[a].todo]
  PROVE  /\ j \in Job /\ j.op = job[a].op
         /\ j.op = "archive" => \A c \in j.todo : c.entry \in Entry
<1>1. job[a] \in Job
  BY DEF TypeOK
<1> QED
  BY <1>1, NoJobType DEF JobOK, NoJob, Job

LEMMA ContinueStep ==
  ASSUME Inv, NEW a \in Agents, ~InSection(a), job[a].op # "write", Continue(a),
         UNCHANGED <<files, lock, late, crashes>>
  PROVE  Inv'
<1> DEFINE j == [NoJob EXCEPT !.op = job[a].op, !.todo = job[a].todo]
<1>1. j \in Job /\ j.op = job[a].op /\ (j.op = "archive" => \A c \in j.todo : c.entry \in Entry)
  BY ContinueType DEF Inv
<1>2. Return(a) \/ Goto(a, "next", j)
  BY DEF Continue
<1> HIDE DEF j
<1> QED
  BY <1>1, <1>2, ReturnStep, OutsideStep

\* The steps that begin an operation.
LEMMA StartStep ==
  ASSUME Inv, NEW a \in Agents, Start(a)
  PROVE  Inv'
<1>1. CASE StartWrite(a)
  <2>1. PICK k \in Keys, c \in Claims, t \in BOOLEAN :
          Goto(a, "locate", [NoJob EXCEPT !.key = k, !.claim = c, !.ttl = t])
    BY <1>1 DEF StartWrite
  <2> DEFINE j == [NoJob EXCEPT !.key = k, !.claim = c, !.ttl = t]
  <2>2. j \in Job /\ j.key = k /\ j.claim = c /\ j.op = "write" /\ j.todo = {}
    BY NoJobType DEF NoJob, Job
  <2>3. ~InSection(a) /\ UNCHANGED <<files, lock, late, crashes>>
    BY <1>1 DEF StartWrite, InSection
  <2> HIDE DEF j
  <2> QED
    BY <2>1, <2>2, <2>3, OutsideStep DEF j
<1>2. CASE StartOutcome(a)
  <2>0. PICK cited \in SUBSET Keys : \E read \in [cited -> 0 .. MaxVersion] :
          Goto(a, "next", [NoJob EXCEPT !.op = "outcome",
            !.todo = {[key |-> k, ver |-> read[k], entry |-> NoFile] : k \in cited}])
    BY <1>2 DEF StartOutcome
  <2>1. PICK read \in [cited -> 0 .. MaxVersion] :
          Goto(a, "next", [NoJob EXCEPT !.op = "outcome",
            !.todo = {[key |-> k, ver |-> read[k], entry |-> NoFile] : k \in cited}])
    BY <2>0
  <2> DEFINE todo == {[key |-> k, ver |-> read[k], entry |-> NoFile] : k \in cited}
             j == [NoJob EXCEPT !.op = "outcome", !.todo = todo]
  <2>2. todo \in SUBSET Citation
    BY <2>1 DEF Citation
  <2> HIDE DEF todo
  <2>3. j \in Job /\ j.op = "outcome"
    BY <2>2, NoJobType DEF NoJob, Job, Producers
  <2>4. Goto(a, "next", j)
    BY <2>1 DEF todo
  <2>5. ~InSection(a) /\ UNCHANGED <<files, lock, late, crashes>>
    BY <1>2 DEF StartOutcome, InSection
  <2> HIDE DEF j
  <2> QED
    BY <2>3, <2>4, <2>5, OutsideStep
<1>3. CASE StartSweep(a)
  <2> DEFINE overdue == UNION {Overdue(k) : k \in Keys}
             j == [NoJob EXCEPT !.op = "archive", !.todo = overdue]
  <2>1. overdue \in SUBSET Citation /\ \A c \in overdue : c.entry \in Entry
    BY FileStoreAssumption
    DEF Inv, TypeOK, Overdue, CurrentVersions, Citation, Versions
  <2> HIDE DEF overdue
  <2>2. j \in Job /\ j.op = "archive" /\ j.todo = overdue
    BY <2>1, NoJobType DEF NoJob, Job, Producers
  <2>3. Goto(a, "next", j)
    BY <1>3 DEF StartSweep, overdue
  <2>4. ~InSection(a) /\ UNCHANGED <<files, lock, late, crashes>>
    BY <1>3 DEF StartSweep, InSection
  <2> HIDE DEF j
  <2> QED
    BY <2>1, <2>2, <2>3, <2>4, OutsideStep
<1> QED
  BY <1>1, <1>2, <1>3 DEF Start

\* The steps of a loop and of an unlocked read.
LEMMA ReadStep ==
  ASSUME Inv, NEW a \in Agents, Pick(a) \/ Locate(a) \/ Load(a) \/ LockTimeout(a)
  PROVE  Inv'
<1>0. /\ TypeOK /\ OneCurrent /\ JobOK(a) /\ job[a] \in Job
      /\ NoJob.op = "write" /\ NoJob.todo = {} /\ NoJob \in Job
  BY NoJobType DEF Inv, TypeOK, NoJob
<1>1. CASE Pick(a)
  <2>1. PICK c \in job[a].todo :
          LET j == [job[a] EXCEPT !.key = c.key, !.cite = c.ver,
                                  !.todo = job[a].todo \ {c}]
          IN  IF j.op = "archive"
              THEN Goto(a, "lock", [j EXCEPT !.draft = Archived(c.entry, c.ver),
                                             !.expect = c.ver])
              ELSE Goto(a, "locate", j)
    BY <1>1 DEF Pick
  <2> DEFINE j == [job[a] EXCEPT !.key = c.key, !.cite = c.ver,
                                 !.todo = job[a].todo \ {c}]
             draft == Archived(c.entry, c.ver)
             i == [j EXCEPT !.draft = draft, !.expect = c.ver]
  <2>2. c \in Citation
    BY <1>0, <2>1 DEF Job
  <2>3. /\ j \in Job /\ j.key \in Keys /\ j.op = job[a].op
        /\ j.todo \subseteq job[a].todo
    BY <1>0, <2>2 DEF Job, Citation
  <2>4. ~InSection(a) /\ UNCHANGED <<files, lock, late, crashes>>
    BY <1>1 DEF Pick, InSection
  <2>5. CASE job[a].op = "archive"
    <3>1. draft \in Entry /\ c.ver \in 0 .. MaxVersion + 1
      BY <1>0, <2>1, <2>2, <2>5, ArchivedType, FileStoreAssumption DEF JobOK, Citation
    <3>3. Goto(a, "lock", i)
      BY <2>1, <2>3, <2>5
    <3> HIDE DEF draft, j
    <3>2. /\ i \in Job /\ i.key \in Keys /\ i.op = "archive"
          /\ i.draft \in Entry /\ i.todo \subseteq job[a].todo
      BY <2>3, <2>5, <3>1 DEF Job
    <3> HIDE DEF i
    <3> QED
      BY <1>0, <2>4, <2>5, <3>2, <3>3, OutsideStep DEF JobOK
  <2>6. CASE job[a].op # "archive"
    <3>1. Goto(a, "locate", j)
      BY <2>1, <2>3, <2>6
    <3>2. j.op \notin {"write", "archive"}
      BY <1>0, <1>1, <2>3, <2>6 DEF JobOK, Pick
    <3> HIDE DEF j
    <3> QED
      BY <2>3, <2>4, <3>1, <3>2, OutsideStep
  <2> QED
    BY <2>5, <2>6
<1>2. CASE Locate(a)
  <2> DEFINE j == job[a]
             v == CurrentVersionNumber(j.key)
  <2>1. j.key \in Keys /\ (j.op = "write" => j.claim \in Claims)
    BY <1>0, <1>2 DEF JobOK, Locate
  <2>2. ~InSection(a) /\ UNCHANGED <<files, lock, late, crashes>>
    BY <1>2 DEF Locate, InSection
  <2>3. v = 0 \/ v \in Versions
    BY <1>0, <2>1, CurrentNumber
  <2>4. CASE v # 0
    <3> DEFINE i == [j EXCEPT !.at = v]
    <3>1. Goto(a, "load", i)
      BY <1>2, <2>4 DEF Locate
    <3>2. v \in Versions /\ v \in 0 .. MaxVersion
      BY <2>3, <2>4 DEF Versions
    <3> HIDE DEF v
    <3>3. /\ i \in Job /\ i.key = j.key /\ i.op = j.op /\ i.claim = j.claim
          /\ i.at \in Versions /\ i.todo = j.todo
      BY <1>0, <3>2 DEF Job
    <3> HIDE DEF i
    <3> QED
      BY <1>0, <2>1, <2>2, <3>1, <3>3, OutsideStep DEF JobOK
  <2>5. CASE v = 0 /\ j.op = "write"
    <3> DEFINE draft == Restated(NoFile, 0, j.claim, j.ttl)
               i == [j EXCEPT !.draft = draft, !.expect = 1]
    <3>1. Goto(a, "lock", i)
      BY <1>2, <2>5 DEF Locate
    <3>2. 1 \in 0 .. MaxVersion + 1 /\ 0 \in 0 .. MaxVersion /\ j.ttl \in BOOLEAN
      BY <1>0, FileStoreAssumption DEF Job
    <3>4. draft \in Entry
      BY <2>1, <2>5, <3>2, RestatedType
    <3> HIDE DEF draft
    <3>3. /\ i \in Job /\ i.key = j.key /\ i.op = "write" /\ i.draft = draft
          /\ i.todo = {}
      BY <1>0, <2>5, <3>2, <3>4 DEF Job, JobOK
    <3> HIDE DEF i
    <3> QED
      BY <2>1, <2>2, <3>1, <3>4, <3>3, OutsideStep
  <2>6. CASE v = 0 /\ j.op # "write"
    <3>1. Continue(a)
      BY <1>2, <2>6 DEF Locate
    <3> QED
      BY <2>2, <2>6, <3>1, ContinueStep
  <2> QED
    BY <2>4, <2>5, <2>6
<1>3. CASE Load(a)
  <2> DEFINE j == job[a]
             e == cur[j.key][j.at]
  <2>1. /\ j.key \in Keys /\ j.at \in Versions /\ j.at \in 0 .. MaxVersion
        /\ j.op = "write" => j.claim \in Claims
    BY <1>0, <1>3 DEF JobOK, Load, Versions
  <2>2. ~InSection(a) /\ UNCHANGED <<files, lock, late, crashes>>
    BY <1>3 DEF Load, InSection
  <2>3. e = NoFile \/ e \in Entry
    BY <1>0, <2>1 DEF TypeOK
  <2>4. CASE e = NoFile
    <3>1. Return(a)
      BY <1>3, <2>4 DEF Load
    <3> QED
      BY <2>2, <3>1, ReturnStep
  <2>5. CASE e # NoFile /\ j.op = "write"
    <3> DEFINE v == IF IsExpired(e) THEN 0 ELSE j.at
               draft == Restated(e, v, j.claim, j.ttl)
               i == [j EXCEPT !.draft = draft, !.expect = v + 1, !.at = 0]
    <3>1. Goto(a, "lock", i)
      BY <1>3, <2>5 DEF Load
    <3>2. v \in 0 .. MaxVersion
      BY <2>1, FileStoreAssumption
    <3>3. e \in Entry
      BY <2>3, <2>5
    <3> HIDE DEF v, e
    <3>4. draft \in Entry
      BY <1>0, <2>1, <2>5, <3>2, <3>3, RestatedType DEF Job
    <3>5. v + 1 \in 0 .. MaxVersion + 1 /\ 0 \in 0 .. MaxVersion
      BY <3>2, FileStoreAssumption
    <3> HIDE DEF draft
    <3>6. /\ i \in Job /\ i.key = j.key /\ i.op = "write" /\ i.draft = draft
          /\ i.todo = {}
      BY <1>0, <2>5, <3>4, <3>5 DEF Job, JobOK
    <3> HIDE DEF i
    <3> QED
      BY <2>1, <2>2, <3>1, <3>4, <3>6, OutsideStep
  <2>6. CASE e # NoFile /\ j.op # "write"
    <3>1. CASE ~IsExpired(e) /\ ClaimStillHeld(j.key, e, j.at, j.cite)
      <4> DEFINE draft == Credited(e, j.at)
                 i == [j EXCEPT !.draft = draft, !.expect = 1, !.at = 0]
      <4>1. Goto(a, "lock", i)
        BY <1>3, <2>6, <3>1 DEF Load
      <4>2. draft \in Entry
        BY <2>1, <2>3, <2>6, CreditedType
      <4>3. 1 \in 0 .. MaxVersion + 1 /\ 0 \in 0 .. MaxVersion
        BY FileStoreAssumption
      <4> HIDE DEF draft
      <4>4. /\ i \in Job /\ i.key = j.key /\ i.op = j.op /\ i.draft = draft
            /\ i.todo = j.todo
        BY <1>0, <4>2, <4>3 DEF Job
      <4> HIDE DEF i
      <4> QED
        BY <1>0, <2>1, <2>2, <4>1, <4>2, <4>4, OutsideStep DEF JobOK
    <3>2. CASE ~(~IsExpired(e) /\ ClaimStillHeld(j.key, e, j.at, j.cite))
      <4>1. Continue(a)
        BY <1>3, <2>6, <3>2 DEF Load
      <4> QED
        BY <2>2, <2>6, <4>1, ContinueStep
    <3> QED
      BY <3>1, <3>2
  <2> QED
    BY <2>4, <2>5, <2>6
<1>4. CASE LockTimeout(a)
  BY <1>4, ReturnStep DEF LockTimeout, InSection
<1> QED
  BY <1>1, <1>2, <1>3, <1>4

-----------------------------------------------------------------------------
(* The steps at the edges of the section and inside it.                    *)

\* Entering: the lock was nobody's, so no other process is in the section of
\* the key.
LEMMA AcquireStep ==
  ASSUME Inv, NEW a \in Agents, Acquire(a)
  PROVE  Inv'
<1> DEFINE k == job[a].key
<1>1. /\ k \in Keys /\ lock[k] = NoAgent /\ lock' = [lock EXCEPT ![k] = a]
      /\ job[a] \in Job /\ Goto(a, "decide", job[a]) /\ pc[a] = "lock"
      /\ UNCHANGED <<cur, sup, late, crashes>>
  BY DEF Inv, TypeOK, JobOK, Acquire, files
<1>2. /\ pc' \in [Agents -> Points] /\ pc'[a] = "decide"
      /\ job' = job
      /\ \A b \in Agents : b # a => pc'[b] = pc[b]
  BY <1>1 DEF Inv, TypeOK, Goto, Points
<1>3. /\ lock' \in [Keys -> Agents \cup {NoAgent}] /\ lock'[k] = a
      /\ \A l \in Keys : l # k => lock'[l] = lock[l]
  BY <1>1 DEF Inv, TypeOK
<1> HIDE DEF k
<1>4. TypeOK'
  BY <1>1, <1>2, <1>3 DEF Inv, TypeOK
<1>5. ASSUME NEW b \in Agents PROVE JobOK(b)'
  BY <1>1, <1>2 DEF Inv, JobOK
<1>6. ASSUME NEW b \in Agents PROVE HoldsLock(b)'
  <2>1. CASE b = a
    BY <1>2, <1>3, <2>1 DEF HoldsLock, k
  <2>2. CASE b # a
    <3>1. InSection(b)' => InSection(b) /\ lock[job[b].key] = b
      BY <1>2, <2>2 DEF Inv, HoldsLock, InSection
    <3>2. InSection(b) => job[b].key \in Keys
      BY DEF Inv, JobOK, InSection
    <3>3. b # NoAgent
      BY FileStoreAssumption
    <3> QED
      BY <1>1, <1>2, <1>3, <3>1, <3>2, <3>3 DEF HoldsLock
  <2> QED
    BY <2>1, <2>2
<1>7. ASSUME NEW l \in Keys PROVE LockOK(l)'
  <2>1. CASE l = k
    BY <1>2, <1>3, <2>1 DEF LockOK, InSection, k
  <2>2. CASE l # k
    <3>1. lock'[l] = lock[l] /\ lock[l] \in Agents \cup {NoAgent}
      BY <1>3, <2>2 DEF Inv, TypeOK
    <3>2. lock[l] # NoAgent => lock[l] # a
      BY <1>1, <2>2 DEF Inv, LockOK, InSection
    <3> QED
      BY <1>2, <3>1, <3>2 DEF Inv, LockOK, InSection
  <2> QED
    BY <2>1, <2>2
<1>8. ASSUME NEW b \in Agents PROVE SectionOK(b)'
  <2>1. CASE b = a
    BY <1>2, <2>1 DEF SectionOK
  <2>2. CASE b # a
    <3>1. SectionOK(b) /\ pc'[b] = pc[b] /\ job'[b] = job[b] /\ cur' = cur
      BY <1>1, <1>2, <2>2 DEF Inv
    <3> QED
      BY <3>1 DEF SectionOK
  <2> QED
    BY <2>1, <2>2
<1>9. OneCurrent'
  BY <1>1 DEF Inv, OneCurrent, CurrentVersions
<1> QED
  BY <1>4, <1>5, <1>6, <1>7, <1>8, <1>9 DEF Inv

\* Leaving, with the files of the key in any state SectionOK and OneCurrent
\* allow: the lock is released and nobody else was in the section.
LEMMA LeaveStep ==
  ASSUME Inv, NEW a \in Agents, InSection(a), Release(a),
         NEW point \in {"idle", "next"}, NEW j \in Job, Goto(a, point, j),
         j.op = "write" => point # "next" /\ j.todo = {},
         j.op = "archive" => \A c \in j.todo : c.entry \in Entry,
         UNCHANGED <<sup, late, crashes>>,
         cur' \in [Keys -> [Versions -> Entry \cup {NoFile}]],
         \A l \in Keys : l # job[a].key => cur'[l] = cur[l],
         OneCurrent'
  PROVE  Inv'
<1> DEFINE k == job[a].key
<1>1. k \in Keys /\ lock[k] = a /\ a # NoAgent
  BY FileStoreAssumption DEF Inv, JobOK, HoldsLock, InSection
<1>2. /\ pc' \in [Agents -> Points] /\ job' \in [Agents -> Job]
      /\ pc'[a] = point /\ job'[a] = j
      /\ \A b \in Agents : b # a => pc'[b] = pc[b] /\ job'[b] = job[b]
  BY GotoFrame DEF Inv, Points
<1>3. /\ lock' \in [Keys -> Agents \cup {NoAgent}] /\ lock'[k] = NoAgent
      /\ \A l \in Keys : l # k => lock'[l] = lock[l]
  BY <1>1 DEF Inv, TypeOK, Release
<1>4. ASSUME NEW b \in Agents, b # a, InSection(b)
      PROVE  job[b].key \in Keys /\ job[b].key # k
  BY <1>1, <1>4 DEF Inv, JobOK, HoldsLock, InSection
<1> HIDE DEF k
<1>5. TypeOK'
  BY <1>2, <1>3 DEF Inv, TypeOK
<1>6. ASSUME NEW b \in Agents PROVE JobOK(b)'
  BY <1>2 DEF Inv, JobOK
<1>7. ASSUME NEW b \in Agents PROVE HoldsLock(b)'
  BY <1>2, <1>3, <1>4 DEF Inv, HoldsLock, InSection
<1>8. ASSUME NEW l \in Keys PROVE LockOK(l)'
  <2>1. CASE l = k
    BY <1>3, <2>1 DEF LockOK
  <2>2. CASE l # k
    <3>1. lock'[l] = lock[l] /\ lock[l] \in Agents \cup {NoAgent}
      BY <1>3, <2>2 DEF Inv, TypeOK
    <3>2. lock[l] # NoAgent => lock[l] # a
      BY <2>2 DEF Inv, LockOK, k
    <3> QED
      BY <1>2, <3>1, <3>2 DEF Inv, LockOK, InSection
  <2> QED
    BY <2>1, <2>2
<1>9. ASSUME NEW b \in Agents PROVE SectionOK(b)'
  <2>1. CASE b = a
    BY <1>2, <2>1 DEF SectionOK
  <2>2. CASE b # a
    <3>1. SectionOK(b) /\ pc'[b] = pc[b] /\ job'[b] = job[b]
      BY <1>2, <2>2 DEF Inv
    <3>2. InSection(b) => cur'[job[b].key] = cur[job[b].key]
      BY <1>4, <2>2 DEF k
    <3> QED
      BY <3>1, <3>2 DEF SectionOK, InSection
  <2> QED
    BY <2>1, <2>2
<1> QED
  BY <1>5, <1>6, <1>7, <1>8, <1>9 DEF Inv

\* Advancing inside the section with the live version of the key as SectionOK
\* wants it: the other processes are in the sections of other keys.
LEMMA AdvanceStep ==
  ASSUME Inv, NEW a \in Agents, InSection(a),
         NEW point \in {"supersede", "publish"}, NEW j \in Job,
         Goto(a, point, j), j = [job[a] EXCEPT !.at = j.at],
         UNCHANGED <<lock, late, crashes>>,
         cur' \in [Keys -> [Versions -> Entry \cup {NoFile}]],
         sup' \in [Keys -> [Versions -> Entry \cup {NoFile}]],
         \A l \in Keys : l # job[a].key => cur'[l] = cur[l],
         j.at \in Versions,
         point = "supersede" => cur' = cur,
         \A v \in Versions :
           cur'[job[a].key][v] # NoFile <=> point = "supersede" /\ v = j.at - 1
  PROVE  Inv'
<1> DEFINE k == job[a].key
<1>1. k \in Keys /\ lock[k] = a /\ job[a] \in Job
  BY DEF Inv, TypeOK, JobOK, HoldsLock, InSection
<1>2. /\ pc' \in [Agents -> Points] /\ job' \in [Agents -> Job]
      /\ pc'[a] = point /\ job'[a] = j
      /\ \A b \in Agents : b # a => pc'[b] = pc[b] /\ job'[b] = job[b]
  BY GotoFrame DEF Inv, Points
<1>3. j.key = k /\ j.op = job[a].op /\ j.draft = job[a].draft /\ j.todo = job[a].todo
  BY <1>1 DEF Job
<1>4. ASSUME NEW b \in Agents, b # a, InSection(b)
      PROVE  job[b].key \in Keys /\ job[b].key # k
  BY <1>1, <1>4 DEF Inv, JobOK, HoldsLock, InSection
<1> HIDE DEF k
<1>5. TypeOK'
  BY <1>2 DEF Inv, TypeOK
<1>6. ASSUME NEW b \in Agents PROVE JobOK(b)'
  <2>1. CASE b = a
    BY <1>1, <1>2, <1>3, <2>1 DEF Inv, JobOK, InSection
  <2>2. CASE b # a
    BY <1>2, <2>2 DEF Inv, JobOK
  <2> QED
    BY <2>1, <2>2
<1>7. ASSUME NEW b \in Agents PROVE HoldsLock(b)'
  BY <1>1, <1>2, <1>3 DEF Inv, HoldsLock, InSection
<1>8. ASSUME NEW l \in Keys PROVE LockOK(l)'
  <2>1. lock'[l] = lock[l] /\ lock[l] \in Agents \cup {NoAgent}
    BY DEF Inv, TypeOK
  <2>2. CASE lock[l] = a
    BY <1>2, <1>3, <2>1, <2>2 DEF Inv, LockOK, InSection, k
  <2>3. CASE lock[l] # a
    BY <1>2, <2>1, <2>3 DEF Inv, LockOK, InSection
  <2> QED
    BY <2>2, <2>3
<1>9. ASSUME NEW b \in Agents PROVE SectionOK(b)'
  <2>1. CASE b = a
    BY <1>2, <1>3, <2>1 DEF SectionOK, k
  <2>2. CASE b # a
    <3>1. SectionOK(b) /\ pc'[b] = pc[b] /\ job'[b] = job[b]
      BY <1>2, <2>2 DEF Inv
    <3>2. InSection(b) => cur'[job[b].key] = cur[job[b].key]
      BY <1>4, <2>2 DEF k
    <3> QED
      BY <3>1, <3>2 DEF SectionOK, InSection
  <2> QED
    BY <2>1, <2>2
<1>10. OneCurrent'
  <2>1. ASSUME NEW l \in Keys, NEW v \in Versions, NEW w \in Versions,
               cur'[l][v] # NoFile, cur'[l][w] # NoFile
        PROVE  v = w
    <3>1. CASE l = k
      BY <2>1, <3>1 DEF k, Versions
    <3>2. CASE l # k
      BY <2>1, <3>2 DEF Inv, OneCurrent, CurrentVersions, k
    <3> QED
      BY <3>1, <3>2
  <2> QED
    BY <2>1 DEF OneCurrent, CurrentVersions
<1> QED
  BY <1>5, <1>6, <1>7, <1>8, <1>9, <1>10 DEF Inv

LEMMA DecideStep ==
  ASSUME Inv, NEW a \in Agents, Decide(a)
  PROVE  Inv'
<1> DEFINE k == job[a].key
           new == CurrentVersionNumber(k) + 1
<1>1. /\ pc[a] = "decide" /\ InSection(a) /\ k \in Keys /\ job[a] \in Job
      /\ UNCHANGED <<cur, sup, late, crashes>>
  BY DEF Inv, TypeOK, JobOK, Decide, InSection, files
<1>2. OneCurrent'
  BY <1>1 DEF Inv, OneCurrent, CurrentVersions
<1>3. CASE Conflict(a, new) \/ new > MaxVersion
  <2>1. Goto(a, "idle", NoJob) /\ Release(a)
    BY <1>3 DEF Decide, Return
  <2>2. NoJob.op = "write" /\ NoJob.todo = {}
    BY DEF NoJob
  <2>3. /\ cur' \in [Keys -> [Versions -> Entry \cup {NoFile}]]
        /\ \A l \in Keys : cur'[l] = cur[l]
    BY <1>1 DEF Inv, TypeOK
  <2> QED
    BY <1>1, <1>2, <2>1, <2>2, <2>3, NoJobType, LeaveStep
<1>4. CASE ~(Conflict(a, new) \/ new > MaxVersion)
  <2> DEFINE j == [job[a] EXCEPT !.at = new]
  <2>1. Goto(a, "supersede", j) /\ lock' = lock
    BY <1>4 DEF Decide
  <2>2. new \in Versions
    <3>1. CurrentVersionNumber(k) = 0 \/ CurrentVersionNumber(k) \in Versions
      BY <1>1, CurrentNumber DEF Inv
    <3> QED
      BY <1>4, <3>1, FileStoreAssumption DEF Versions
  <2>3. new \in 0 .. MaxVersion
    BY <2>2 DEF Versions
  <2>4. \A v \in Versions : cur[k][v] # NoFile <=> v = new - 1
    <3>1. CASE CurrentVersionNumber(k) = 0 /\ CurrentVersions(k) = {}
      BY <3>1 DEF CurrentVersions, Versions
    <3>2. CASE CurrentVersionNumber(k) \in Versions /\ CurrentVersions(k) = {CurrentVersionNumber(k)}
      BY <3>2 DEF CurrentVersions, Versions
    <3> QED
      BY <1>1, <3>1, <3>2, CurrentNumber DEF Inv
  <2> HIDE DEF new
  <2>5. j \in Job /\ j = [job[a] EXCEPT !.at = j.at] /\ j.at = new
    BY <1>1, <2>3 DEF Job
  <2>6. /\ cur' \in [Keys -> [Versions -> Entry \cup {NoFile}]]
        /\ sup' \in [Keys -> [Versions -> Entry \cup {NoFile}]]
        /\ \A l \in Keys : cur'[l] = cur[l]
        /\ \A v \in Versions : cur'[k][v] # NoFile <=> v = j.at - 1
    BY <1>1, <2>4, <2>5 DEF Inv, TypeOK
  <2> HIDE DEF j
  <2> QED
    BY <1>1, <2>1, <2>2, <2>5, <2>6, AdvanceStep
<1> QED
  BY <1>3, <1>4

LEMMA SupersedeStep ==
  ASSUME Inv, NEW a \in Agents, Supersede(a)
  PROVE  Inv'
<1> DEFINE k == job[a].key
           n == CurrentVersionNumber(k)
<1>1. /\ pc[a] = "supersede" /\ InSection(a) /\ k \in Keys /\ job[a] \in Job
      /\ Goto(a, "publish", job[a]) /\ job[a].at \in Versions
      /\ UNCHANGED <<lock, late, crashes>>
  BY DEF Inv, TypeOK, JobOK, SectionOK, Supersede, InSection
<1>2. /\ job[a] = [job[a] EXCEPT !.at = job[a].at]
  BY <1>1 DEF Job
<1>3. CASE n = 0 /\ CurrentVersions(k) = {}
  <2>1. cur' = cur /\ sup' = sup
    BY <1>3 DEF Supersede, files
  <2>2. \A v \in Versions : cur[k][v] = NoFile
    BY <1>3 DEF CurrentVersions
  <2> QED
    BY <1>1, <1>2, <2>1, <2>2, AdvanceStep DEF Inv, TypeOK
<1>4. CASE n \in Versions /\ CurrentVersions(k) = {n}
  <2>1. /\ sup' = [sup EXCEPT ![k][n] = cur[k][n]]
        /\ cur' = [cur EXCEPT ![k][n] = NoFile]
    BY <1>4 DEF Supersede, Versions
  <2> HIDE DEF n
  <2>2. cur[k][n] \in Entry \cup {NoFile}
    BY <1>1, <1>4 DEF Inv, TypeOK
  <2>3. /\ cur' \in [Keys -> [Versions -> Entry \cup {NoFile}]]
        /\ sup' \in [Keys -> [Versions -> Entry \cup {NoFile}]]
        /\ \A l \in Keys : l # k => cur'[l] = cur[l]
    BY <1>1, <1>4, <2>1, <2>2 DEF Inv, TypeOK
  <2>4. \A v \in Versions : cur'[k][v] = NoFile
    BY <1>1, <1>4, <2>1 DEF Inv, TypeOK, CurrentVersions
  <2> QED
    BY <1>1, <1>2, <2>3, <2>4, AdvanceStep
<1> QED
  BY <1>1, <1>3, <1>4, CurrentNumber DEF Inv

LEMMA PublishStep ==
  ASSUME Inv, NEW a \in Agents, Publish(a)
  PROVE  Inv'
<1> DEFINE k == job[a].key
           n == job[a].at
<1>1. /\ pc[a] = "publish" /\ InSection(a) /\ k \in Keys /\ n \in Versions
      /\ job[a].draft \in Entry /\ Release(a) /\ Continue(a)
      /\ cur' = [cur EXCEPT ![k][n] = job[a].draft]
      /\ UNCHANGED <<sup, late, crashes>>
  BY DEF Inv, JobOK, SectionOK, Publish, InSection
<1>2. \A v \in Versions : cur[k][v] = NoFile
  BY <1>1 DEF Inv, SectionOK
<1>3. /\ cur' \in [Keys -> [Versions -> Entry \cup {NoFile}]]
      /\ \A l \in Keys : l # k => cur'[l] = cur[l]
      /\ \A v \in Versions : v # n => cur'[k][v] = NoFile
  BY <1>1, <1>2 DEF Inv, TypeOK
<1>4. OneCurrent'
  <2>1. ASSUME NEW l \in Keys, NEW v \in Versions, NEW w \in Versions,
               cur'[l][v] # NoFile, cur'[l][w] # NoFile
        PROVE  v = w
    BY <1>3, <2>1 DEF Inv, OneCurrent, CurrentVersions
  <2> QED
    BY <2>1 DEF OneCurrent, CurrentVersions
<1>5. CASE Return(a)
  <2>1. NoJob.op = "write" /\ NoJob.todo = {} /\ Goto(a, "idle", NoJob)
    BY <1>5 DEF NoJob, Return
  <2> QED
    BY <1>1, <1>3, <1>4, <2>1, NoJobType, LeaveStep
<1>6. CASE ~Return(a)
  <2> DEFINE j == [NoJob EXCEPT !.op = job[a].op, !.todo = job[a].todo]
  <2>1. Goto(a, "next", j) /\ job[a].todo # {}
    BY <1>1, <1>6 DEF Continue
  <2>2. JobOK(a) /\ job[a].op # "write" /\ TypeOK
    BY <2>1 DEF Inv, JobOK
  <2>3. j \in Job /\ j.op = job[a].op /\ (j.op = "archive" => \A c \in j.todo : c.entry \in Entry)
    BY <2>2, ContinueType
  <2> HIDE DEF j
  <2> QED
    BY <1>1, <1>3, <1>4, <2>1, <2>2, <2>3, LeaveStep
<1> QED
  BY <1>5, <1>6

\* A process killed at any point: its lock goes with it, its key is left as
\* its last rename left it.
LEMMA CrashStep ==
  ASSUME Inv, NEW a \in Agents, Crash(a)
  PROVE  Inv'
<1>1. /\ lock' = [k \in Keys |-> IF lock[k] = a THEN NoAgent ELSE lock[k]]
      /\ Goto(a, "idle", NoJob) /\ cur' = cur /\ sup' = sup /\ late' = late
      /\ crashes' \in 0 .. MaxCrashes
  BY FileStoreAssumption DEF Inv, TypeOK, Crash, Return, files
<1>2. /\ pc' \in [Agents -> Points] /\ job' \in [Agents -> Job]
      /\ pc'[a] = "idle" /\ job'[a] = NoJob
      /\ \A b \in Agents : b # a => pc'[b] = pc[b] /\ job'[b] = job[b]
  BY <1>1, NoJobType, GotoFrame DEF Inv, Points
<1>3. TypeOK'
  BY <1>1, <1>2 DEF Inv, TypeOK
<1>4. ASSUME NEW b \in Agents PROVE JobOK(b)'
  BY <1>2 DEF Inv, JobOK, NoJob
<1>5. ASSUME NEW b \in Agents PROVE HoldsLock(b)'
  <2>1. InSection(b) => job[b].key \in Keys
    BY DEF Inv, JobOK, InSection
  <2> QED
    BY <1>1, <1>2, <2>1 DEF Inv, HoldsLock, InSection
<1>6. ASSUME NEW l \in Keys PROVE LockOK(l)'
  <2>1. lock[l] \in Agents \cup {NoAgent}
    BY DEF Inv, TypeOK
  <2> QED
    BY <1>1, <1>2, <2>1 DEF Inv, LockOK, InSection
<1>7. ASSUME NEW b \in Agents PROVE SectionOK(b)'
  BY <1>1, <1>2 DEF Inv, SectionOK
<1>8. OneCurrent'
  BY <1>1 DEF Inv, OneCurrent, CurrentVersions
<1> QED
  BY <1>3, <1>4, <1>5, <1>6, <1>7, <1>8 DEF Inv

\* Time passing, and no step at all.
LEMMA IdleStep ==
  ASSUME Inv, DeadlinePasses \/ UNCHANGED vars
  PROVE  Inv'
<1>1. UNCHANGED <<cur, sup, lock, crashes, pc, job>> /\ late' \in BOOLEAN
  BY DEF Inv, TypeOK, DeadlinePasses, vars, files
<1> QED
  BY <1>1 DEF Inv, TypeOK, JobOK, HoldsLock, LockOK, SectionOK, InSection,
              OneCurrent, CurrentVersions

-----------------------------------------------------------------------------
(* The theorems.                                                           *)

LEMMA InitInv == Init => Inv
<1> SUFFICES ASSUME Init PROVE Inv
  OBVIOUS
<1>1. TypeOK
  <2>1. /\ cur \in [Keys -> [Versions -> Entry \cup {NoFile}]]
        /\ sup \in [Keys -> [Versions -> Entry \cup {NoFile}]]
    BY DEF Init
  <2>2. crashes \in 0 .. MaxCrashes
    BY FileStoreAssumption DEF Init
  <2>5. late \in BOOLEAN
    BY DEF Init
  <2>3. lock \in [Keys -> Agents \cup {NoAgent}]
    BY DEF Init
  <2>4. pc \in [Agents -> Points] /\ job \in [Agents -> Job]
    BY NoJobType DEF Init, Points
  <2> QED
    BY <2>1, <2>2, <2>3, <2>4, <2>5 DEF TypeOK
<1>2. \A a \in Agents : pc[a] = "idle" /\ job[a].op = "write" /\ job[a].todo = {}
  BY DEF Init, NoJob
<1>3. \A k \in Keys : lock[k] = NoAgent
  BY DEF Init
<1>4. OneCurrent
  BY DEF Init, OneCurrent, CurrentVersions
<1> QED
  BY <1>1, <1>2, <1>3, <1>4
  DEF Inv, JobOK, HoldsLock, LockOK, SectionOK, InSection

LEMMA NextInv == Inv /\ [Next]_vars => Inv'
<1> SUFFICES ASSUME Inv, [Next]_vars PROVE Inv'
  OBVIOUS
<1>1. ASSUME NEW a \in Agents, Start(a) PROVE Inv'
  BY <1>1, StartStep
<1>2. ASSUME NEW a \in Agents, Step(a) PROVE Inv'
  BY <1>2, ReadStep, AcquireStep, DecideStep, SupersedeStep, PublishStep DEF Step
<1>3. ASSUME NEW a \in Agents, Crash(a) PROVE Inv'
  BY <1>3, CrashStep
<1>4. CASE DeadlinePasses \/ UNCHANGED vars
  BY <1>4, IdleStep
<1> QED
  BY <1>1, <1>2, <1>3, <1>4 DEF Next

LEMMA Invariance == Spec => []Inv
BY InitInv, NextInv, PTL DEF Spec

\* Every variable keeps its type: an operation in flight always has the key,
\* version and entry its next program point needs.
THEOREM TypeCorrect == Spec => []TypeOK
<1>1. Inv => TypeOK
  BY DEF Inv
<1> QED
  BY <1>1, Invariance, PTL

\* No two processes number, supersede or publish versions of one key at once,
\* and no lock outlives the section it guards, timeouts and crashes included.
THEOREM LocksAreExclusive == Spec => []LockDiscipline
<1>1. Inv => LockDiscipline
  <2> SUFFICES ASSUME Inv PROVE LockDiscipline
    OBVIOUS
  <2>1. ASSUME NEW a \in Agents, NEW b \in Agents, InSection(a), InSection(b), a # b
        PROVE  job[a].key # job[b].key
    BY <2>1 DEF Inv, HoldsLock
  <2>2. ASSUME NEW k \in Keys, lock[k] # NoAgent
        PROVE  InSection(lock[k]) /\ job[lock[k]].key = k
    BY <2>2 DEF Inv, LockOK
  <2> QED
    BY <2>1, <2>2 DEF LockDiscipline
<1> QED
  BY <1>1, Invariance, PTL

\* No key ever has two live versions, whichever processes die and when.
THEOREM AtMostOneCurrent == Spec => []OneCurrent
<1>1. Inv => OneCurrent
  BY DEF Inv
<1> QED
  BY <1>1, Invariance, PTL

-----------------------------------------------------------------------------
(* While no process has died, the files of a key are its whole history:    *)
(* dense, immutable and extended only by writes that saw its end.          *)


Live(k, v) == cur[k][v] # NoFile
Old(k, v) == sup[k][v] # NoFile
Publishing(a, k) == pc[a] = "publish" /\ job[a].key = k

\* The superseded versions of a key are those before the live one; in the
\* middle of a write those before the one being made; otherwise none.
DenseAt(k) ==
  /\ \A v, w \in Versions : Live(k, v) => (Old(k, w) <=> w < v)
  /\ \A a \in Agents : Publishing(a, k) =>
       \A w \in Versions : Old(k, w) <=> w < job[a].at
  /\ (\A v \in Versions : ~Live(k, v)) /\ (\A a \in Agents : ~Publishing(a, k)) =>
       \A w \in Versions : ~Old(k, w)

DenseInv == crashes = 0 => \A k \in Keys : DenseAt(k)

\* Steps that leave the files alone and publish nothing keep the history.
LEMMA DenseFrame ==
  ASSUME DenseInv, UNCHANGED <<cur, sup, crashes>>,
         \A b \in Agents, k \in Keys :
           /\ Publishing(b, k)' <=> Publishing(b, k)
           /\ Publishing(b, k) => job'[b].at = job[b].at
  PROVE  DenseInv'
BY DEF DenseInv, DenseAt, Live, Old

\* Every step but Supersede, Publish and Crash is of that kind.
LEMMA QuietStep ==
  ASSUME Inv, DenseInv, NEW a \in Agents,
         \/ Start(a) \/ Pick(a) \/ Locate(a) \/ Load(a)
         \/ Acquire(a) \/ LockTimeout(a) \/ Decide(a)
  PROVE  DenseInv'
<1>1. UNCHANGED <<cur, sup, crashes>>
  BY DEF Start, StartWrite, StartOutcome, StartSweep, Pick, Locate, Load,
         Acquire, LockTimeout, Decide, files
<1>2. pc[a] # "publish"
  BY DEF Start, StartWrite, StartOutcome, StartSweep, Pick, Locate, Load,
         Acquire, LockTimeout, Decide
<1>3. \E point \in {"idle", "next", "locate", "load", "lock", "decide", "supersede"} :
        \E j : Goto(a, point, j)
  BY DEF Start, StartWrite, StartOutcome, StartSweep, Pick, Locate, Load,
         Acquire, LockTimeout, Decide, Return, Continue
<1>4. \A b \in Agents : b # a => pc'[b] = pc[b] /\ job'[b] = job[b]
  BY <1>3 DEF Goto, Inv, TypeOK
<1>5. pc'[a] # "publish"
  BY <1>3 DEF Goto, Inv, TypeOK
<1>6. ASSUME NEW b \in Agents, NEW k \in Keys
      PROVE  /\ Publishing(b, k)' <=> Publishing(b, k)
             /\ Publishing(b, k) => job'[b].at = job[b].at
  BY <1>2, <1>4, <1>5 DEF Publishing
<1> QED
  BY <1>1, <1>6, DenseFrame

\* What a writer knows in the section of its key: nobody else is in it.
LEMMA Alone ==
  ASSUME Inv, NEW a \in Agents, InSection(a)
  PROVE  /\ job[a].key \in Keys
         /\ \A b \in Agents : b # a /\ InSection(b) => job[b].key # job[a].key
BY DEF Inv, JobOK, HoldsLock, InSection

\* Superseding the live version n turns 1..n-1 and n into 1..n.
LEMMA SupersedeDense ==
  ASSUME Inv, DenseInv, NEW a \in Agents, Supersede(a)
  PROVE  DenseInv'
<1>0. pc[a] = "supersede" /\ InSection(a) /\ job[a].key \in Keys /\ job[a].at \in Versions
  BY DEF Inv, JobOK, SectionOK, Supersede, InSection
<1> PICK k \in Keys, at \in Versions : k = job[a].key /\ at = job[a].at
  BY <1>0
<1>1. /\ pc[a] = "supersede" /\ InSection(a)
      /\ Goto(a, "publish", job[a]) /\ crashes' = crashes
      /\ \A v \in Versions : Live(k, v) <=> v = at - 1
  BY <1>0 DEF Inv, SectionOK, Supersede, Live
<1>2. /\ pc'[a] = "publish" /\ job'[a] = job[a]
      /\ \A b \in Agents : b # a => pc'[b] = pc[b] /\ job'[b] = job[b]
  BY <1>1 DEF Goto, Inv, TypeOK
<1>3. \A b \in Agents : ~Publishing(b, k)
  BY <1>1, Alone DEF Publishing, InSection
<1>4. \A b \in Agents, l \in Keys : l # k =>
        /\ Publishing(b, l)' <=> Publishing(b, l)
        /\ Publishing(b, l) => job'[b].at = job[b].at
  BY <1>1, <1>2 DEF Publishing
<1>5. ASSUME crashes' = 0 PROVE \A l \in Keys : DenseAt(l)
  BY <1>1, <1>5 DEF DenseInv
<1>6. /\ \A l \in Keys : l # k => cur'[l] = cur[l] /\ sup'[l] = sup[l]
      /\ \A v \in Versions : ~Live(k, v)'
      /\ \A v \in Versions : Old(k, v)' <=> Old(k, v) \/ Live(k, v)
  <2>1. CASE CurrentVersionNumber(k) = 0 /\ CurrentVersions(k) = {}
    BY <1>1, <2>1 DEF Supersede, files, Live, Old, CurrentVersions
  <2>2. CASE CurrentVersionNumber(k) \in Versions /\ CurrentVersions(k) = {CurrentVersionNumber(k)}
    <3> DEFINE n == CurrentVersionNumber(k)
    <3>1. n # 0 /\ n \in Versions /\ \A v \in Versions : Live(k, v) <=> v = n
      BY <2>2 DEF Versions, CurrentVersions, Live
    <3>2. /\ sup' = [sup EXCEPT ![k][n] = cur[k][n]]
          /\ cur' = [cur EXCEPT ![k][n] = NoFile]
      BY <3>1 DEF Supersede
    <3> HIDE DEF n
    <3> QED
      BY <1>1, <3>1, <3>2 DEF Live, Old, Inv, TypeOK
  <2> QED
    BY <1>1, <2>1, <2>2, CurrentNumber DEF Inv
<1>7. ASSUME crashes' = 0 PROVE \A w \in Versions : Old(k, w)' <=> w < at
  <2>1. CASE at = 1
    BY <1>1, <1>3, <1>5, <1>6, <1>7, <2>1 DEF DenseAt, Versions
  <2>2. CASE at # 1
    <3>2. at - 1 \in Versions
      BY <2>2, FileStoreAssumption DEF Versions
    <3>1. at - 1 \in Versions /\ Live(k, at - 1)
      BY <1>1, <3>2
    <3> QED
      BY <1>1, <1>5, <1>6, <1>7, <3>1 DEF DenseAt, Versions
  <2> QED
    BY <2>1, <2>2
<1>8. ASSUME crashes' = 0, NEW l \in Keys PROVE DenseAt(l)'
  <2>1. CASE l = k
    <3>1. \A b \in Agents : Publishing(b, k)' => b = a
      BY <1>2, <1>3 DEF Publishing
    <3>2. Publishing(a, k)'
      BY <1>2 DEF Publishing
    <3> QED
      BY <1>2, <1>6, <1>7, <1>8, <2>1, <3>1, <3>2 DEF DenseAt
  <2>2. CASE l # k
    BY <1>4, <1>5, <1>6, <1>8, <2>2 DEF DenseAt, Live, Old
  <2> QED
    BY <2>1, <2>2
<1> QED
  BY <1>8 DEF DenseInv

\* Publishing version n on top of 1..n-1 superseded ones.
LEMMA PublishDense ==
  ASSUME Inv, DenseInv, NEW a \in Agents, Publish(a)
  PROVE  DenseInv'
<1>0. pc[a] = "publish" /\ InSection(a) /\ job[a].key \in Keys /\ job[a].at \in Versions
  BY DEF Inv, JobOK, SectionOK, Publish, InSection
<1> PICK k \in Keys, at \in Versions : k = job[a].key /\ at = job[a].at
  BY <1>0
<1>1. /\ pc[a] = "publish" /\ InSection(a)
      /\ \A v \in Versions : ~Live(k, v)
      /\ cur' = [cur EXCEPT ![k][at] = job[a].draft] /\ sup' = sup
      /\ job[a].draft # NoFile /\ crashes' = crashes /\ Publishing(a, k)
  BY <1>0, FileStoreAssumption
  DEF Inv, JobOK, SectionOK, Publish, Live, Publishing
<1>2. /\ pc'[a] # "publish"
      /\ \A b \in Agents : b # a => pc'[b] = pc[b] /\ job'[b] = job[b]
  <2>1. PICK point \in {"idle", "next"} : \E j : Goto(a, point, j)
    BY DEF Publish, Continue, Return
  <2> QED
    BY <2>1 DEF Goto, Inv, TypeOK
<1>3. \A b \in Agents : Publishing(b, k) => b = a
  BY <1>1, Alone DEF Publishing, InSection
<1>4. \A b \in Agents, l \in Keys : l # k =>
        /\ Publishing(b, l)' <=> Publishing(b, l)
        /\ Publishing(b, l) => job'[b].at = job[b].at
  BY <1>1, <1>2 DEF Publishing
<1>5. /\ \A l \in Keys : l # k => cur'[l] = cur[l]
      /\ \A v \in Versions : Live(k, v)' <=> v = at
  BY <1>1 DEF Live, Inv, TypeOK
<1>6. ASSUME crashes' = 0 PROVE \A l \in Keys : DenseAt(l)
  BY <1>1, <1>6 DEF DenseInv
<1>7. ASSUME crashes' = 0, NEW l \in Keys PROVE DenseAt(l)'
  <2>1. CASE l = k
    <3>1. \A w \in Versions : Old(k, w)' <=> w < at
      BY <1>1, <1>6, <1>7 DEF DenseAt, Old
    <3>2. \A b \in Agents : ~Publishing(b, k)'
      BY <1>2, <1>3 DEF Publishing
    <3> QED
      BY <1>1, <1>5, <2>1, <3>1, <3>2 DEF DenseAt
  <2>2. CASE l # k
    BY <1>1, <1>4, <1>5, <1>6, <1>7, <2>2 DEF DenseAt, Live, Old
  <2> QED
    BY <2>1, <2>2
<1> QED
  BY <1>7 DEF DenseInv

LEMMA DenseInit == Init => DenseInv
<1> SUFFICES ASSUME Init, NEW k \in Keys PROVE DenseAt(k)
  BY DEF DenseInv
<1>1. \A v \in Versions : ~Live(k, v) /\ ~Old(k, v)
  BY DEF Init, Live, Old
<1>2. \A a \in Agents : ~Publishing(a, k)
  BY DEF Init, Publishing
<1> QED
  BY <1>1, <1>2 DEF DenseAt

LEMMA DenseNext == Inv /\ DenseInv /\ [Next]_vars => DenseInv'
<1> SUFFICES ASSUME Inv, DenseInv, [Next]_vars PROVE DenseInv'
  OBVIOUS
<1>1. ASSUME NEW a \in Agents, Start(a) PROVE DenseInv'
  BY <1>1, QuietStep
<1>2. ASSUME NEW a \in Agents, Step(a) PROVE DenseInv'
  BY <1>2, QuietStep, SupersedeDense, PublishDense DEF Step
<1>3. ASSUME NEW a \in Agents, Crash(a) PROVE DenseInv'
  BY <1>3 DEF Crash, DenseInv, Inv, TypeOK
<1>4. CASE DeadlinePasses \/ UNCHANGED vars
  BY <1>4, DenseFrame DEF DeadlinePasses, vars, files, Publishing
<1> QED
  BY <1>1, <1>2, <1>3, <1>4 DEF Next

LEMMA DenseInvariance == Spec => [](Inv /\ DenseInv)
BY InitInv, NextInv, DenseInit, DenseNext, PTL DEF Spec

\* The versions below v are 1..v - 1.
LEMMA Below ==
  ASSUME NEW v \in Versions
  PROVE  {w \in Versions : w < v} = 1 .. v - 1
BY FileStoreAssumption DEF Versions

\* As long as no process dies, the versions of a key are 1..n with none
\* missing and only the newest live.
THEOREM HistoryIsDense == Spec => []HistoryDense
<1>1. Inv /\ DenseInv => HistoryDense
  <2> SUFFICES ASSUME Inv, DenseInv, crashes = 0, NEW k \in Keys
               PROVE  \E n \in 0 .. MaxVersion :
                        \/ CurrentVersions(k) = {n} \ {0} /\ Superseded(k) = 1 .. n - 1
                        \/ /\ CurrentVersions(k) = {} /\ Superseded(k) = 1 .. n
                           /\ \E a \in Agents : pc[a] = "publish" /\ job[a].key = k
    BY DEF HistoryDense
  <2>1. DenseAt(k)
    BY DEF DenseInv
  <2>2. CASE \E v \in Versions : Live(k, v)
    <3>1. PICK v \in Versions : Live(k, v)
      BY <2>2
    <3>2. CurrentVersions(k) = {v} \ {0}
      BY <3>1 DEF Inv, OneCurrent, CurrentVersions, Live, Versions
    <3>3. Superseded(k) = 1 .. v - 1
      <4>1. \A w \in Versions : Old(k, w) <=> w < v
        BY <2>1, <3>1 DEF DenseAt
      <4> QED
        BY <4>1, Below DEF Superseded, Old
    <3>4. v \in 0 .. MaxVersion
      BY <3>1 DEF Versions
    <3> QED
      BY <3>2, <3>3, <3>4
  <2>3. CASE (\A v \in Versions : ~Live(k, v)) /\ \E a \in Agents : Publishing(a, k)
    <3>1. PICK a \in Agents : Publishing(a, k)
      BY <2>3
    <3>2. job[a].at \in Versions
      BY <3>1 DEF Inv, SectionOK, Publishing
    <3>3. CurrentVersions(k) = {}
      BY <2>3 DEF CurrentVersions, Live
    <3>4. Superseded(k) = 1 .. job[a].at - 1
      <4>1. \A w \in Versions : Old(k, w) <=> w < job[a].at
        BY <2>1, <3>1 DEF DenseAt
      <4> QED
        BY <3>2, <4>1, Below DEF Superseded, Old
    <3>5. job[a].at - 1 \in 0 .. MaxVersion
      BY <3>2, FileStoreAssumption DEF Versions
    <3> QED
      BY <3>1, <3>3, <3>4, <3>5 DEF Publishing
  <2>4. CASE (\A v \in Versions : ~Live(k, v)) /\ \A a \in Agents : ~Publishing(a, k)
    <3>1. CurrentVersions(k) = {0} \ {0} /\ Superseded(k) = 1 .. 0 - 1
      BY <2>1, <2>4, FileStoreAssumption
      DEF DenseAt, Superseded, Old, CurrentVersions, Live
    <3>2. 0 \in 0 .. MaxVersion
      BY FileStoreAssumption
    <3> QED
      BY <3>1, <3>2
  <2> QED
    BY <2>2, <2>3, <2>4
<1> QED
  BY <1>1, DenseInvariance, PTL

Kept == \A k \in Keys, v \in Versions :
          Published(k, v) => (Stored(k, v))' = Stored(k, v)

\* The rename to the superseded name overwrites nothing and moves the entry.
LEMMA SupersedeKeeps ==
  ASSUME Inv, DenseInv, crashes = 0, NEW a \in Agents, Supersede(a)
  PROVE  Kept
<1>0. pc[a] = "supersede" /\ InSection(a) /\ job[a].key \in Keys
  BY DEF Inv, JobOK, Supersede, InSection
<1> PICK k \in Keys : k = job[a].key
  BY <1>0
<1>1. CASE CurrentVersionNumber(k) = 0
  BY <1>1 DEF Supersede, files, Kept, Stored
<1>2. CASE CurrentVersionNumber(k) # 0
  <2>1. PICK n \in Versions : n = CurrentVersionNumber(k) /\ cur[k][n] # NoFile
    BY <1>2, CurrentNumber DEF Inv
  <2>2. /\ sup' = [sup EXCEPT ![k][n] = cur[k][n]]
        /\ cur' = [cur EXCEPT ![k][n] = NoFile]
    BY <1>2, <2>1 DEF Supersede
  <2>3. ASSUME NEW l \in Keys, NEW v \in Versions PROVE (Stored(l, v))' = Stored(l, v)
    BY <2>1, <2>2 DEF Inv, TypeOK, Stored
  <2> QED
    BY <2>3 DEF Kept
<1> QED
  BY <1>1, <1>2

\* The rename to the live name overwrites nothing: no version at of the key
\* exists.
LEMMA PublishKeeps ==
  ASSUME Inv, DenseInv, crashes = 0, NEW a \in Agents, Publish(a)
  PROVE  Kept
<1>0. /\ pc[a] = "publish" /\ job[a].key \in Keys /\ job[a].at \in Versions
      /\ cur' = [cur EXCEPT ![job[a].key][job[a].at] = job[a].draft] /\ sup' = sup
  BY DEF Inv, JobOK, SectionOK, Publish
<1> PICK k \in Keys, at \in Versions : k = job[a].key /\ at = job[a].at
  BY <1>0
<1>1. cur[k][at] = NoFile /\ sup[k][at] = NoFile
  <2>1. Publishing(a, k) /\ DenseAt(k) /\ ~(at < at)
    BY <1>0 DEF Publishing, DenseInv, Versions
  <2> QED
    BY <1>0, <2>1 DEF DenseAt, Old, Inv, SectionOK
<1>2. ASSUME NEW l \in Keys, NEW v \in Versions, Published(l, v)
      PROVE  (Stored(l, v))' = Stored(l, v)
  <2>1. ~(l = k /\ v = at)
    BY <1>1, <1>2 DEF Published, Stored
  <2>2. cur'[l][v] = cur[l][v] /\ sup'[l][v] = sup[l][v]
    BY <1>0, <2>1 DEF Inv, TypeOK
  <2> QED
    BY <2>2 DEF Stored
<1> QED
  BY <1>2 DEF Kept

LEMMA StepKeeps ==
  ASSUME Inv, DenseInv, [Next]_vars, crashes' = 0
  PROVE  Kept
<1>1. ASSUME NEW a \in Agents, Start(a) PROVE Kept
  BY <1>1 DEF Start, StartWrite, StartOutcome, StartSweep, files, Kept, Stored
<1>2. ASSUME NEW a \in Agents, Step(a) PROVE Kept
  <2>1. CASE Supersede(a) \/ Publish(a)
    <3>1. crashes = 0
      BY <2>1 DEF Supersede, Publish
    <3> QED
      BY <2>1, <3>1, SupersedeKeeps, PublishKeeps
  <2>2. CASE ~(Supersede(a) \/ Publish(a))
    <3>1. UNCHANGED files
      BY <1>2, <2>2 DEF Step, Pick, Locate, Load, Acquire, LockTimeout, Decide
    <3> QED
      BY <3>1 DEF files, Kept, Stored
  <2> QED
    BY <2>1, <2>2
<1>3. ASSUME NEW a \in Agents, Crash(a) PROVE Kept
  BY <1>3 DEF Crash, files, Kept, Stored
<1>4. CASE DeadlinePasses \/ UNCHANGED vars
  BY <1>4 DEF DeadlinePasses, vars, files, Kept, Stored
<1> QED
  BY <1>1, <1>2, <1>3, <1>4 DEF Next

\* As long as no process dies, a published version stays what it was.
THEOREM HistoryIsImmutable == Spec => HistoryImmutable
<1>1. Inv /\ DenseInv /\ [Next]_vars =>
        [crashes' = 0 =>
           \A k \in Keys, v \in Versions :
             Published(k, v) => (Stored(k, v))' = Stored(k, v)]_vars
  BY StepKeeps DEF Kept
<1> QED
  BY <1>1, DenseInvariance, PTL DEF Spec, HistoryImmutable

-----------------------------------------------------------------------------
(* What a writer read is what its version follows.  The version check of   *)
(* adapter.write compares two numbers; that it is enough rests on the      *)
(* history: a version, once published, stays, so the number stands for     *)
(* the entry that was read.                                                *)

\* Entry e, as version v of key k, was written on top of version v - 1.
Follows(e, k, v) ==
  e.by = "write" /\ e.base # 0 =>
    /\ e.base = v - 1
    /\ Published(k, v - 1)
    /\ e.chain = Append(Stored(k, v - 1).chain, e.claim)

\* A draft waiting for its lock or inside the section expects the number
\* after its base; past the version check it has got it.
DraftOK(a) ==
  pc[a] \in {"lock", "decide", "supersede", "publish"} =>
    /\ Follows(job[a].draft, job[a].key, job[a].draft.base + 1)
    /\ job[a].draft.by = "write" /\ job[a].draft.base # 0 =>
         /\ job[a].expect = job[a].draft.base + 1
         /\ pc[a] \in {"supersede", "publish"} => job[a].at = job[a].draft.base + 1

VersionOK(k, v) == Published(k, v) => Follows(Stored(k, v), k, v)

FollowInv ==
  crashes = 0 => /\ \A a \in Agents : DraftOK(a)
                 /\ \A k \in Keys, v \in Versions : VersionOK(k, v)

\* Outcomes and archives follow anything; so does a first version.
LEMMA OthersFollow ==
  ASSUME NEW e, NEW k, NEW v, e.by # "write" \/ e.base = 0
  PROVE  Follows(e, k, v)
BY DEF Follows

LEMMA FollowsKept ==
  ASSUME Kept, NEW k \in Keys, NEW e, NEW v, Follows(e, k, v)
  PROVE  Follows(e, k, v)'
<1>1. CASE e.by = "write" /\ e.base # 0
  <2>1. v - 1 \in Versions /\ Published(k, v - 1)
    BY <1>1 DEF Follows, Published
  <2>2. (Stored(k, v - 1))' = Stored(k, v - 1)
    BY <2>1 DEF Kept
  <2>3. Published(k, v - 1)'
    BY <2>1, <2>2 DEF Published
  <2> QED
    BY <1>1, <2>2, <2>3 DEF Follows
<1>2. CASE ~(e.by = "write" /\ e.base # 0)
  BY <1>2 DEF Follows
<1> QED
  BY <1>1, <1>2

\* Agents that do not move keep their drafts.
LEMMA DraftKept ==
  ASSUME Kept, Inv, NEW b \in Agents, pc'[b] = pc[b], job'[b] = job[b], DraftOK(b)
  PROVE  DraftOK(b)'
<1>1. CASE pc[b] \in {"lock", "decide", "supersede", "publish"}
  <2>1. job[b].key \in Keys
    BY <1>1 DEF Inv, JobOK
  <2>2. Follows(job[b].draft, job[b].key, job[b].draft.base + 1)
    BY <1>1 DEF DraftOK
  <2>3. Follows(job[b].draft, job[b].key, job[b].draft.base + 1)'
    BY <2>1, <2>2, FollowsKept DEF Follows, Kept, Published
  <2> QED
    BY <2>3 DEF DraftOK
<1>2. CASE pc[b] \notin {"lock", "decide", "supersede", "publish"}
  BY <1>2 DEF DraftOK
<1> QED
  BY <1>1, <1>2

-----------------------------------------------------------------------------
(* What each step adds.                                                    *)

\* No step but Publish makes a version appear or changes one, crashes
\* included.
LEMMA StoredKept ==
  ASSUME Inv, NEW a \in Agents, Start(a) \/ Step(a) \/ Crash(a), ~Publish(a),
         NEW k \in Keys, NEW v \in Versions
  PROVE  (Stored(k, v))' = Stored(k, v)
<1>1. CASE Supersede(a)
  <2>0. pc[a] = "supersede" /\ job[a].key \in Keys
    BY <1>1 DEF Inv, JobOK, Supersede
  <2>1. CASE CurrentVersionNumber(job[a].key) = 0
    BY <1>1, <2>1 DEF Supersede, files, Stored
  <2>2. CASE CurrentVersionNumber(job[a].key) # 0
    <3>1. PICK l \in Keys, n \in Versions :
            l = job[a].key /\ n = CurrentVersionNumber(l) /\ cur[l][n] # NoFile
      BY <2>0, <2>2, CurrentNumber DEF Inv
    <3>2. /\ sup' = [sup EXCEPT ![l][n] = cur[l][n]]
          /\ cur' = [cur EXCEPT ![l][n] = NoFile]
      BY <1>1, <2>2, <3>1 DEF Supersede
    <3> QED
      BY <3>1, <3>2 DEF Inv, TypeOK, Stored
  <2> QED
    BY <2>1, <2>2
<1>2. CASE ~Supersede(a)
  <2>1. UNCHANGED files
    BY <1>2 DEF Start, StartWrite, StartOutcome, StartSweep, Step, Pick, Locate, Load,
                Acquire, LockTimeout, Decide, Crash
  <2> QED
    BY <2>1 DEF files, Stored
<1> QED
  BY <1>1, <1>2

\* Only Publish adds a version, and what it adds follows its base.
LEMMA VersionStep ==
  ASSUME Inv, Kept, FollowInv, crashes = 0, NEW a \in Agents,
         Start(a) \/ Step(a) \/ Crash(a),
         NEW k \in Keys, NEW v \in Versions
  PROVE  VersionOK(k, v)'
<1>1. VersionOK(k, v) /\ DraftOK(a)
  BY DEF FollowInv
<1>2. CASE Published(k, v)
  <2>1. Follows(Stored(k, v), k, v) /\ (Stored(k, v))' = Stored(k, v)
    BY <1>1, <1>2 DEF VersionOK, Kept
  <2>2. PICK e : e = Stored(k, v)
    OBVIOUS
  <2>3. Follows(e, k, v)'
    BY <2>1, <2>2, FollowsKept
  <2> QED
    BY <2>1, <2>2, <2>3 DEF VersionOK
<1>3. CASE ~Published(k, v) /\ Publish(a)
  <2>1. /\ pc[a] = "publish" /\ job[a].key \in Keys /\ job[a].at \in Versions
        /\ cur' = [cur EXCEPT ![job[a].key][job[a].at] = job[a].draft] /\ sup' = sup
        /\ job[a].draft \in Entry
    BY <1>3 DEF Inv, JobOK, SectionOK, Publish
  <2>2. CASE k = job[a].key /\ v = job[a].at
    <3>1. (Stored(k, v))' = job[a].draft
      BY <2>1, <2>2, FileStoreAssumption DEF Inv, TypeOK, Stored
    <3>2. PICK e : e = job[a].draft
      OBVIOUS
    <3>3. Follows(e, k, v)
      BY <1>1, <2>1, <2>2, <3>2, OthersFollow DEF DraftOK
    <3>4. Follows(e, k, v)'
      BY <3>3, FollowsKept
    <3> QED
      BY <3>1, <3>2, <3>4 DEF VersionOK
  <2>3. CASE ~(k = job[a].key /\ v = job[a].at)
    <3>1. (Stored(k, v))' = Stored(k, v)
      BY <2>1, <2>3 DEF Inv, TypeOK, Stored
    <3> QED
      BY <1>3, <3>1 DEF VersionOK, Published
  <2> QED
    BY <2>2, <2>3
<1>4. CASE ~Published(k, v) /\ ~Publish(a)
  BY <1>4, StoredKept DEF VersionOK, Published
<1> QED
  BY <1>2, <1>3, <1>4


\* The moves of the agent that begins an operation, gives it up or goes on
\* to the next item: no draft is on its way.
LEMMA NoDraft ==
  ASSUME Inv, NEW a \in Agents,
         NEW point \in {"idle", "next", "locate", "load"}, NEW j, Goto(a, point, j)
  PROVE  DraftOK(a)'
<1>1. pc'[a] = point
  BY DEF Inv, TypeOK, Goto
<1> QED
  BY <1>1 DEF DraftOK

\* A draft that was computed from no version follows anything.
LEMMA FreeDraft ==
  ASSUME Inv, NEW a \in Agents, NEW j, Goto(a, "lock", j),
         j.draft.by # "write" \/ j.draft.base = 0
  PROVE  DraftOK(a)'
<1>1. pc'[a] = "lock" /\ job'[a] = j
  BY DEF Inv, TypeOK, Goto
<1> QED
  BY <1>1 DEF DraftOK, Follows

\* What an unlocked read hands on: a draft on top of the version it read.
LEMMA LoadDraft ==
  ASSUME Inv, Kept, NEW a \in Agents, Load(a)
  PROVE  DraftOK(a)'
<1> DEFINE j == job[a]
           e == cur[j.key][j.at]
<1>1. /\ pc[a] = "load" /\ j.key \in Keys /\ j.at \in Versions /\ j \in Job
      /\ UNCHANGED files
  BY DEF Inv, TypeOK, JobOK, Load
<1>2. CASE e = NoFile
  BY <1>2, NoDraft DEF Load, Return
<1>3. CASE e # NoFile /\ j.op # "write"
  <2>1. CASE ~IsExpired(e) /\ ClaimStillHeld(j.key, e, j.at, j.cite)
    <3> DEFINE i == [j EXCEPT !.draft = Credited(e, j.at), !.expect = 1, !.at = 0]
    <3>1. Goto(a, "lock", i)
      BY <1>3, <2>1 DEF Load
    <3>2. e \in Entry
      BY <1>1, <1>3 DEF Inv, TypeOK
    <3>3. Credited(e, j.at).by = "outcome"
      BY <3>2 DEF Credited, Entry
    <3>4. i.draft.by # "write"
      BY <1>1, <3>3 DEF Job
    <3> QED
      BY <3>1, <3>4, FreeDraft
  <2>2. CASE ~(~IsExpired(e) /\ ClaimStillHeld(j.key, e, j.at, j.cite))
    BY <1>3, <2>2, NoDraft DEF Load, Continue, Return
  <2> QED
    BY <2>1, <2>2
<1>4. CASE e # NoFile /\ j.op = "write"
  <2> DEFINE v == IF IsExpired(e) THEN 0 ELSE j.at
             draft == Restated(e, v, j.claim, j.ttl)
             i == [j EXCEPT !.draft = draft, !.expect = v + 1, !.at = 0]
  <2>1. Goto(a, "lock", i)
    BY <1>4 DEF Load
  <2>2. pc'[a] = "lock" /\ job'[a] = i
    BY <2>1 DEF Inv, TypeOK, Goto
  <2>3. draft.base = v /\ draft.by = "write" /\ draft.claim = j.claim
    BY DEF Restated
  <2>4. i.draft = draft /\ i.key = j.key /\ i.expect = v + 1
    BY <1>1 DEF Job
  <2>5. CASE v = 0
    BY <2>1, <2>3, <2>4, <2>5, FreeDraft
  <2>6. CASE v # 0
    <3>1. PICK k \in Keys, n \in Versions : k = j.key /\ n = v
      BY <1>1, <2>6
    <3>2. PICK d : d = draft
      OBVIOUS
    <3>3. Published(k, n) /\ Stored(k, n) = e
      BY <1>4, <2>6, <3>1 DEF Published, Stored
    <3>4. d.chain = Append(Stored(k, n).chain, d.claim) /\ d.base = n
      BY <2>3, <2>6, <3>1, <3>2, <3>3 DEF Restated
    <3>5. Follows(d, k, n + 1)
      <4>1. (n + 1) - 1 = n
        BY DEF Versions
      <4> QED
        BY <3>3, <3>4, <4>1 DEF Follows
    <3>6. Follows(d, k, n + 1)'
      BY <3>5, FollowsKept
    <3>7. /\ pc'[a] = "lock" /\ job'[a].draft = d /\ job'[a].key = k
          /\ job'[a].expect = n + 1
      BY <2>2, <2>4, <3>1, <3>2
    <3> QED
      BY <3>4, <3>6, <3>7 DEF DraftOK
  <2> QED
    BY <2>5, <2>6
<1> QED
  BY <1>2, <1>3, <1>4


\* The version check: past it, the number given is the one expected.
LEMMA DecideDraft ==
  ASSUME Inv, Kept, NEW a \in Agents, DraftOK(a), Decide(a)
  PROVE  DraftOK(a)'
<1> DEFINE new == CurrentVersionNumber(job[a].key) + 1
<1>0. /\ pc[a] = "decide" /\ job[a].key \in Keys /\ job[a].draft \in Entry
      /\ job[a] \in Job
  BY DEF Inv, TypeOK, JobOK, Decide
<1>1. new \in Nat
  <2>1. CurrentVersionNumber(job[a].key) \in Nat
    BY <1>0, CurrentNumber DEF Inv, Versions
  <2> QED
    BY <2>1
<1>2. CASE Conflict(a, new) \/ new > MaxVersion
  BY <1>2, NoDraft DEF Decide, Return
<1>3. CASE ~(Conflict(a, new) \/ new > MaxVersion)
  <2>1. Goto(a, "supersede", [job[a] EXCEPT !.at = new])
    BY <1>3 DEF Decide
  <2> PICK k \in Keys, d \in Entry, n \in Nat :
        k = job[a].key /\ d = job[a].draft /\ n = new
    BY <1>0, <1>1
  <2>2. /\ pc'[a] = "supersede" /\ job'[a].at = n
        /\ job'[a].draft = d /\ job'[a].key = k /\ job'[a].expect = job[a].expect
    BY <1>0, <2>1 DEF Inv, TypeOK, Goto, Job
  <2>3. Follows(d, k, d.base + 1)'
    BY <1>0, FollowsKept DEF DraftOK
  <2>4. CASE d.by = "write" /\ d.base # 0
    <3>1. job[a].expect = d.base + 1 /\ d.base \in Versions
      BY <1>0, <2>4, FileStoreAssumption DEF DraftOK, Entry, Versions
    <3>2. n = d.base + 1
      BY <1>3, <3>1, FileStoreAssumption DEF Conflict, Versions
    <3> QED
      BY <2>2, <2>3, <3>1, <3>2 DEF DraftOK
  <2>5. CASE ~(d.by = "write" /\ d.base # 0)
    BY <2>2, <2>3, <2>5 DEF DraftOK
  <2> QED
    BY <2>4, <2>5
<1> QED
  BY <1>2, <1>3

\* Taking the lock and superseding hand the draft on.
LEMMA HandOn ==
  ASSUME Inv, Kept, NEW a \in Agents, DraftOK(a), Acquire(a) \/ Supersede(a)
  PROVE  DraftOK(a)'
<1>1. /\ job'[a] = job[a] /\ pc[a] \in {"lock", "supersede"}
      /\ pc'[a] = IF pc[a] = "lock" THEN "decide" ELSE "publish"
      /\ job[a].key \in Keys
  BY DEF Acquire, Supersede, Goto, Inv, TypeOK, JobOK
<1> PICK k \in Keys : k = job[a].key
  BY <1>1
<1> PICK d : d = job[a].draft
  OBVIOUS
<1>2. Follows(d, k, d.base + 1)'
  BY <1>1, FollowsKept DEF DraftOK
<1> QED
  BY <1>1, <1>2 DEF DraftOK

LEMMA PickDraft ==
  ASSUME Inv, NEW a \in Agents, Pick(a)
  PROVE  DraftOK(a)'
<1>1. PICK c \in job[a].todo :
        LET j == [job[a] EXCEPT !.key = c.key, !.cite = c.ver,
                                !.todo = job[a].todo \ {c}]
        IN  IF j.op = "archive"
            THEN Goto(a, "lock", [j EXCEPT !.draft = Archived(c.entry, c.ver),
                                           !.expect = c.ver])
            ELSE Goto(a, "locate", j)
  BY DEF Pick
<1> DEFINE j == [job[a] EXCEPT !.key = c.key, !.cite = c.ver,
                               !.todo = job[a].todo \ {c}]
           draft == Archived(c.entry, c.ver)
           i == [j EXCEPT !.draft = draft, !.expect = c.ver]
<1>2. CASE j.op = "archive"
  <2>1. Goto(a, "lock", i)
    BY <1>1, <1>2
  <2>2. job[a] \in Job /\ c.entry \in Entry
    BY <1>1, <1>2 DEF Inv, TypeOK, JobOK, Job
  <2>3. draft.by = "archive"
    BY <2>2 DEF Archived, Entry
  <2>4. i.draft.by # "write"
    BY <2>2, <2>3 DEF Job
  <2> QED
    BY <2>1, <2>4, FreeDraft
<1>3. CASE j.op # "archive"
  BY <1>1, <1>3, NoDraft
<1> QED
  BY <1>2, <1>3

LEMMA LocateDraft ==
  ASSUME Inv, NEW a \in Agents, Locate(a)
  PROVE  DraftOK(a)'
<1> DEFINE j == job[a]
           v == CurrentVersionNumber(j.key)
           i == [j EXCEPT !.draft = Restated(NoFile, 0, j.claim, j.ttl), !.expect = 1]
<1>1. CASE v = 0 /\ j.op = "write"
  <2>1. Goto(a, "lock", i)
    BY <1>1 DEF Locate
  <2>2. i.draft.base = 0
    BY DEF Inv, TypeOK, Job, Restated
  <2> QED
    BY <2>1, <2>2, FreeDraft
<1>2. CASE ~(v = 0 /\ j.op = "write")
  BY <1>2, NoDraft DEF Locate, Continue, Return
<1> QED
  BY <1>1, <1>2


\* The agent that moves has a draft that follows its base, or none.
LEMMA DraftStep ==
  ASSUME Inv, Kept, NEW a \in Agents, DraftOK(a), Start(a) \/ Step(a) \/ Crash(a)
  PROVE  DraftOK(a)'
<1>1. CASE Start(a) \/ LockTimeout(a) \/ Publish(a) \/ Crash(a)
  <2>1. \E point \in {"idle", "next", "locate", "load"} : \E j : Goto(a, point, j)
    BY <1>1 DEF Start, StartWrite, StartOutcome, StartSweep, LockTimeout, Publish,
                Crash, Return, Continue
  <2> QED
    BY <2>1, NoDraft
<1>2. CASE Pick(a) \/ Locate(a) \/ Load(a) \/ Acquire(a) \/ Decide(a) \/ Supersede(a)
  BY <1>2, PickDraft, LocateDraft, LoadDraft, DecideDraft, HandOn
<1> QED
  BY <1>1, <1>2 DEF Step

LEMMA FollowInit == Init => FollowInv
<1> SUFFICES ASSUME Init PROVE FollowInv
  OBVIOUS
<1>1. \A a \in Agents : DraftOK(a)
  BY DEF Init, DraftOK
<1>2. \A k \in Keys, v \in Versions : ~Published(k, v)
  BY DEF Init, Published, Stored
<1> QED
  BY <1>1, <1>2 DEF FollowInv, VersionOK

\* A step that leaves a history without crashes behind had none to begin with.
LEMMA NoCrashBefore ==
  ASSUME Inv, NEW a \in Agents, Start(a) \/ Step(a) \/ Crash(a), crashes' = 0
  PROVE  crashes = 0
<1>1. CASE Start(a)
  BY <1>1 DEF Start, StartWrite, StartOutcome, StartSweep
<1>2. CASE Step(a)
  BY <1>2 DEF Step, Pick, Locate, Load, Acquire, LockTimeout, Decide, Supersede, Publish
<1>3. CASE Crash(a)
  BY <1>3 DEF Crash, Inv, TypeOK
<1> QED
  BY <1>1, <1>2, <1>3

\* One agent's step moves no other.
LEMMA OneMoves ==
  ASSUME Inv, NEW a \in Agents, Start(a) \/ Step(a) \/ Crash(a),
         NEW b \in Agents, b # a
  PROVE  pc'[b] = pc[b] /\ job'[b] = job[b]
<1>1. PICK point : \E j : Goto(a, point, j)
  BY DEF Start, StartWrite, StartOutcome, StartSweep, Step, Pick, Locate, Load,
         Acquire, LockTimeout, Decide, Supersede, Publish, Crash, Return, Continue
<1> QED
  BY <1>1 DEF Goto, Inv, TypeOK

LEMMA FollowNext == Inv /\ DenseInv /\ FollowInv /\ [Next]_vars => FollowInv'
<1> SUFFICES ASSUME Inv, DenseInv, FollowInv, [Next]_vars, crashes' = 0
             PROVE  /\ \A b \in Agents : DraftOK(b)'
                    /\ \A k \in Keys, v \in Versions : VersionOK(k, v)'
  BY DEF FollowInv
<1>1. Kept
  BY StepKeeps
<1>2. ASSUME NEW a \in Agents, Start(a) \/ Step(a) \/ Crash(a)
      PROVE  /\ \A b \in Agents : DraftOK(b)'
             /\ \A k \in Keys, v \in Versions : VersionOK(k, v)'
  <2>0. crashes = 0
    BY <1>2, NoCrashBefore
  <2>1. ASSUME NEW b \in Agents PROVE DraftOK(b)'
    <3>1. DraftOK(b)
      BY <2>0 DEF FollowInv
    <3>2. CASE b = a
      BY <1>1, <1>2, <3>1, <3>2, DraftStep
    <3>3. CASE b # a
      BY <1>1, <1>2, <3>1, <3>3, OneMoves, DraftKept
    <3> QED
      BY <3>2, <3>3
  <2>2. ASSUME NEW k \in Keys, NEW v \in Versions PROVE VersionOK(k, v)'
    BY <1>1, <1>2, <2>0, VersionStep
  <2> QED
    BY <2>1, <2>2
<1>3. CASE DeadlinePasses \/ UNCHANGED vars
  <2>1. UNCHANGED <<files, pc, job>> /\ crashes = 0
    BY <1>3 DEF DeadlinePasses, vars, files
  <2>2. ASSUME NEW b \in Agents PROVE DraftOK(b)'
    BY <1>1, <2>1, DraftKept DEF FollowInv
  <2>3. ASSUME NEW k \in Keys, NEW v \in Versions PROVE VersionOK(k, v)'
    <3>1. VersionOK(k, v) /\ (Stored(k, v))' = Stored(k, v)
      BY <2>1 DEF FollowInv, files, Stored
    <3>2. PICK e : e = Stored(k, v)
      OBVIOUS
    <3>3. Published(k, v) => Follows(e, k, v)'
      BY <1>1, <3>1, <3>2, FollowsKept DEF VersionOK
    <3> QED
      BY <3>1, <3>2, <3>3 DEF VersionOK, Published
  <2> QED
    BY <2>2, <2>3
<1> QED
  BY <1>2, <1>3 DEF Next

LEMMA FollowInvariance == Spec => []FollowInv
BY DenseInvariance, FollowInit, FollowNext, PTL DEF Spec

\* As long as no process dies, a claim stated on top of a version lands right
\* after that version and its chain extends that version's: whatever was
\* published between the unlocked read and the lock raises a conflict.
THEOREM WritesExtendWhatTheyRead == Spec => []ReadWritesExtend
<1>1. Inv /\ DenseInv /\ FollowInv => ReadWritesExtend
  BY DEF FollowInv, VersionOK, Follows, ReadWritesExtend
<1> QED
  BY <1>1, DenseInvariance, FollowInvariance, PTL

-----------------------------------------------------------------------------
(* What a version takes over from the one it was computed from: nothing, or *)
(* its claim and its outcome record, with one more outcome when it is one.  *)

Inherits(e, k) ==
  \/ e.by = "write" /\ e.outcomes = 0
  \/ /\ Published(k, e.base)
     /\ e.claim = Stored(k, e.base).claim
     /\ e.outcomes = Stored(k, e.base).outcomes + (IF e.by = "outcome" THEN 1 ELSE 0)

\* The listing of a sweep holds published versions.
ListingOK(j) ==
  j.op = "archive" =>
    \A c \in j.todo : Published(c.key, c.ver) /\ c.entry = Stored(c.key, c.ver)

RecordOK(a) ==
  /\ pc[a] \in {"lock", "decide", "supersede", "publish"} =>
       Inherits(job[a].draft, job[a].key)
  /\ ListingOK(job[a])

\* The outcomes about claim c among the first v versions of a key.
Earned(k, v, c) ==
  {w \in 1 .. v : Published(k, w) /\ Stored(k, w).by = "outcome" /\ Stored(k, w).claim = c}

CreditOK(k, v) ==
  Published(k, v) =>
    Stored(k, v).outcomes <= Cardinality(Earned(k, v, Stored(k, v).claim))

RecordInv ==
  crashes = 0 => /\ \A a \in Agents : RecordOK(a)
                 /\ \A k \in Keys, v \in Versions : CreditOK(k, v)

LEMMA InheritsKept ==
  ASSUME Kept, NEW k \in Keys, NEW e, Inherits(e, k)
  PROVE  Inherits(e, k)'
<1>1. CASE e.by = "write" /\ e.outcomes = 0
  BY <1>1 DEF Inherits
<1>2. CASE Published(k, e.base)
  <2>1. e.base \in Versions /\ (Stored(k, e.base))' = Stored(k, e.base)
    BY <1>2 DEF Published, Kept
  <2>2. Published(k, e.base)'
    BY <1>2, <2>1 DEF Published
  <2> QED
    BY <2>1, <2>2 DEF Inherits
<1> QED
  BY <1>1, <1>2 DEF Inherits

LEMMA ListingKept ==
  ASSUME Kept, NEW j \in Job, ListingOK(j)
  PROVE  ListingOK(j)'
<1> SUFFICES ASSUME j.op = "archive", NEW c \in j.todo
             PROVE  Published(c.key, c.ver)' /\ c.entry = (Stored(c.key, c.ver))'
  BY DEF ListingOK
<1>1. Published(c.key, c.ver) /\ c.entry = Stored(c.key, c.ver)
  BY DEF ListingOK
<1>2. c.key \in Keys /\ c.ver \in Versions
  BY <1>1 DEF Job, Citation, Published
<1>3. (Stored(c.key, c.ver))' = Stored(c.key, c.ver)
  BY <1>1, <1>2 DEF Kept
<1> QED
  BY <1>1, <1>3 DEF Published

\* Agents that do not move keep their drafts and listings.
LEMMA RecordKept ==
  ASSUME Kept, Inv, NEW b \in Agents, pc'[b] = pc[b], job'[b] = job[b], RecordOK(b)
  PROVE  RecordOK(b)'
<1> PICK j \in Job : j = job[b]
  BY DEF Inv, TypeOK
<1>1. ListingOK(j)'
  BY ListingKept DEF RecordOK
<1>2. CASE pc[b] \in {"lock", "decide", "supersede", "publish"}
  <2> PICK k \in Keys : k = j.key
    BY <1>2 DEF Inv, JobOK
  <2> PICK d : d = j.draft
    OBVIOUS
  <2>1. Inherits(d, k)'
    BY <1>2, InheritsKept DEF RecordOK
  <2> QED
    BY <1>1, <2>1 DEF RecordOK
<1>3. CASE pc[b] \notin {"lock", "decide", "supersede", "publish"}
  BY <1>1, <1>3 DEF RecordOK
<1> QED
  BY <1>2, <1>3

\* The moves of an agent without a draft, and those that make one.
LEMMA Undrafted ==
  ASSUME Inv, Kept, NEW a \in Agents,
         NEW point \in {"idle", "next", "locate", "load"}, NEW j \in Job, Goto(a, point, j),
         ListingOK(j)
  PROVE  RecordOK(a)'
<1>1. pc'[a] = point /\ job'[a] = j
  BY DEF Inv, TypeOK, Goto
<1>2. ListingOK(j)'
  BY ListingKept
<1> QED
  BY <1>1, <1>2 DEF RecordOK

LEMMA Drafted ==
  ASSUME Inv, Kept, NEW a \in Agents,
         NEW point \in {"lock", "decide", "supersede", "publish"}, NEW j \in Job,
         Goto(a, point, j), ListingOK(j), j.key \in Keys, Inherits(j.draft, j.key)
  PROVE  RecordOK(a)'
<1>1. pc'[a] = point /\ job'[a] = j
  BY DEF Inv, TypeOK, Goto
<1>2. ListingOK(j)'
  BY ListingKept
<1>3. Inherits(j.draft, j.key)'
  BY InheritsKept
<1> QED
  BY <1>1, <1>2, <1>3 DEF RecordOK

\* An operation that goes on to its next item keeps the rest of its listing.
LEMMA ListingShrinks ==
  ASSUME NEW i, NEW j, ListingOK(i), j.op = i.op, j.todo \subseteq i.todo
  PROVE  ListingOK(j)
BY DEF ListingOK

LEMMA ReturnRecord ==
  ASSUME Inv, Kept, NEW a \in Agents, Return(a)
  PROVE  RecordOK(a)'
<1>1. ListingOK(NoJob)
  BY DEF ListingOK, NoJob
<1> QED
  BY <1>1, NoJobType, Undrafted DEF Return

LEMMA ContinueRecord ==
  ASSUME Inv, Kept, NEW a \in Agents, RecordOK(a), Continue(a)
  PROVE  RecordOK(a)'
<1> DEFINE j == [NoJob EXCEPT !.op = job[a].op, !.todo = job[a].todo]
<1>1. CASE job[a].todo = {}
  BY <1>1, ReturnRecord DEF Continue
<1>2. CASE job[a].todo # {}
  <2>1. Goto(a, "next", j) /\ job[a].op # "write"
    BY <1>2 DEF Continue, Inv, JobOK
  <2>2. j \in Job
    BY <2>1, ContinueType DEF Inv
  <2>3. j.op = job[a].op /\ j.todo = job[a].todo
    BY DEF NoJob
  <2> HIDE DEF j
  <2>4. ListingOK(j)
    BY <2>3 DEF RecordOK, ListingOK
  <2> QED
    BY <2>1, <2>2, <2>4, Undrafted
<1> QED
  BY <1>1, <1>2

LEMMA StartRecord ==
  ASSUME Inv, Kept, NEW a \in Agents, Start(a)
  PROVE  RecordOK(a)'
<1>1. CASE StartWrite(a)
  <2>1. PICK k \in Keys, c \in Claims, t \in BOOLEAN :
          Goto(a, "locate", [NoJob EXCEPT !.key = k, !.claim = c, !.ttl = t])
    BY <1>1 DEF StartWrite
  <2> DEFINE j == [NoJob EXCEPT !.key = k, !.claim = c, !.ttl = t]
  <2>2. j \in Job /\ j.op = "write"
    BY NoJobType DEF NoJob, Job
  <2> HIDE DEF j
  <2> QED
    BY <2>1, <2>2, Undrafted DEF j, ListingOK
<1>2. CASE StartOutcome(a)
  <2>0. PICK cited \in SUBSET Keys : \E read \in [cited -> 0 .. MaxVersion] :
          Goto(a, "next", [NoJob EXCEPT !.op = "outcome",
            !.todo = {[key |-> k, ver |-> read[k], entry |-> NoFile] : k \in cited}])
    BY <1>2 DEF StartOutcome
  <2>1. PICK read \in [cited -> 0 .. MaxVersion] :
          Goto(a, "next", [NoJob EXCEPT !.op = "outcome",
            !.todo = {[key |-> k, ver |-> read[k], entry |-> NoFile] : k \in cited}])
    BY <2>0
  <2> DEFINE todo == {[key |-> k, ver |-> read[k], entry |-> NoFile] : k \in cited}
             j == [NoJob EXCEPT !.op = "outcome", !.todo = todo]
  <2>2. todo \in SUBSET Citation
    BY <2>1 DEF Citation
  <2> HIDE DEF todo
  <2>3. j \in Job /\ j.op = "outcome"
    BY <2>2, NoJobType DEF NoJob, Job, Producers
  <2>4. Goto(a, "next", j)
    BY <2>1 DEF todo
  <2> HIDE DEF j
  <2> QED
    BY <2>3, <2>4, Undrafted DEF ListingOK
<1>3. CASE StartSweep(a)
  <2> DEFINE overdue == UNION {Overdue(k) : k \in Keys}
             j == [NoJob EXCEPT !.op = "archive", !.todo = overdue]
  <2>1. /\ overdue \in SUBSET Citation
        /\ \A c \in overdue : Published(c.key, c.ver) /\ c.entry = Stored(c.key, c.ver)
    BY FileStoreAssumption
    DEF Inv, TypeOK, Overdue, CurrentVersions, Citation, Versions, Published, Stored
  <2> HIDE DEF overdue
  <2>2. j \in Job /\ j.op = "archive" /\ j.todo = overdue
    BY <2>1, NoJobType DEF NoJob, Job, Producers
  <2>3. Goto(a, "next", j)
    BY <1>3 DEF StartSweep, overdue
  <2> HIDE DEF j
  <2>4. ListingOK(j)
    BY <2>1, <2>2 DEF ListingOK
  <2> QED
    BY <2>2, <2>3, <2>4, Undrafted
<1> QED
  BY <1>1, <1>2, <1>3 DEF Start

\* Picking an entry of the listing: its copy carries the version's record.
LEMMA PickRecord ==
  ASSUME Inv, Kept, NEW a \in Agents, RecordOK(a), Pick(a)
  PROVE  RecordOK(a)'
<1>1. PICK c \in job[a].todo :
        LET j == [job[a] EXCEPT !.key = c.key, !.cite = c.ver,
                                !.todo = job[a].todo \ {c}]
        IN  IF j.op = "archive"
            THEN Goto(a, "lock", [j EXCEPT !.draft = Archived(c.entry, c.ver),
                                           !.expect = c.ver])
            ELSE Goto(a, "locate", j)
  BY DEF Pick
<1> DEFINE j == [job[a] EXCEPT !.key = c.key, !.cite = c.ver,
                               !.todo = job[a].todo \ {c}]
           draft == Archived(c.entry, c.ver)
           i == [j EXCEPT !.draft = draft, !.expect = c.ver]
<1>2. job[a] \in Job /\ c \in Citation
  BY <1>1 DEF Inv, TypeOK, Job
<1>3. /\ j \in Job /\ j.key = c.key /\ c.key \in Keys /\ j.op = job[a].op
      /\ j.todo \subseteq job[a].todo
  BY <1>2 DEF Job, Citation
<1>4. ListingOK(j)
  BY <1>3 DEF RecordOK, ListingOK
<1>5. CASE job[a].op = "archive"
  <2>1. Goto(a, "lock", i)
    BY <1>1, <1>3, <1>5
  <2>2. /\ c.entry \in Entry /\ c.ver \in 0 .. MaxVersion
        /\ Published(c.key, c.ver) /\ c.entry = Stored(c.key, c.ver)
    BY <1>1, <1>2, <1>5 DEF Inv, JobOK, RecordOK, ListingOK, Citation
  <2>3. draft \in Entry /\ c.ver \in 0 .. MaxVersion + 1
    BY <2>2, ArchivedType, FileStoreAssumption
  <2>4. /\ draft.claim = c.entry.claim /\ draft.outcomes = c.entry.outcomes
        /\ draft.by = "archive" /\ draft.base = c.ver
    BY <2>2 DEF Archived, Entry
  <2>5. c.entry.outcomes \in Nat
    BY <2>2 DEF Entry
  <2>6. Inherits(draft, c.key)
    <3> HIDE DEF draft
    <3> QED
      BY <2>2, <2>4, <2>5 DEF Inherits
  <2> HIDE DEF draft, j
  <2>7. i \in Job /\ i.key = j.key /\ i.op = j.op /\ i.draft = draft /\ i.todo = j.todo
    BY <1>3, <2>3 DEF Job
  <2> HIDE DEF i
  <2>8. ListingOK(i)
    BY <1>4, <2>7 DEF ListingOK
  <2> QED
    BY <1>3, <2>1, <2>6, <2>7, <2>8, Drafted
<1>6. CASE job[a].op # "archive"
  <2>1. Goto(a, "locate", j)
    BY <1>1, <1>3, <1>6
  <2> HIDE DEF j
  <2> QED
    BY <1>3, <1>4, <2>1, Undrafted
<1> QED
  BY <1>5, <1>6

LEMMA LocateRecord ==
  ASSUME Inv, Kept, NEW a \in Agents, RecordOK(a), Locate(a)
  PROVE  RecordOK(a)'
<1> DEFINE j == job[a]
           v == CurrentVersionNumber(j.key)
<1>1. /\ j \in Job /\ j.key \in Keys /\ (j.op = "write" => j.claim \in Claims)
      /\ (v = 0 \/ v \in Versions)
  BY CurrentNumber DEF Inv, TypeOK, JobOK, Locate
<1>2. CASE v # 0
  <2> DEFINE i == [j EXCEPT !.at = v]
  <2>1. Goto(a, "load", i)
    BY <1>2 DEF Locate
  <2>2. v \in 0 .. MaxVersion
    BY <1>1, <1>2 DEF Versions
  <2> HIDE DEF v
  <2>3. i \in Job /\ i.op = j.op /\ i.todo = j.todo
    BY <1>1, <2>2 DEF Job
  <2> HIDE DEF i
  <2>4. ListingOK(i)
    BY <2>3 DEF RecordOK, ListingOK
  <2> QED
    BY <2>1, <2>3, <2>4, Undrafted
<1>3. CASE v = 0 /\ j.op = "write"
  <2> DEFINE draft == Restated(NoFile, 0, j.claim, j.ttl)
             i == [j EXCEPT !.draft = draft, !.expect = 1]
  <2>1. Goto(a, "lock", i)
    BY <1>3 DEF Locate
  <2>2. 1 \in 0 .. MaxVersion + 1 /\ 0 \in 0 .. MaxVersion /\ j.ttl \in BOOLEAN
    BY <1>1, FileStoreAssumption DEF Job
  <2>3. draft \in Entry
    BY <1>1, <1>3, <2>2, RestatedType
  <2>4. Inherits(draft, j.key)
    BY DEF Restated, Inherits
  <2> HIDE DEF draft
  <2>5. i \in Job /\ i.key = j.key /\ i.op = "write" /\ i.draft = draft
    BY <1>1, <1>3, <2>2, <2>3 DEF Job
  <2> HIDE DEF i
  <2>6. ListingOK(i)
    BY <2>5 DEF ListingOK
  <2> QED
    BY <1>1, <2>1, <2>4, <2>5, <2>6, Drafted
<1>4. CASE v = 0 /\ j.op # "write"
  BY <1>4, ContinueRecord DEF Locate
<1> QED
  BY <1>2, <1>3, <1>4

\* Reading the live entry: a restated claim keeps its record, a credited one
\* gets one more outcome, a changed one none.
LEMMA LoadRecord ==
  ASSUME Inv, Kept, NEW a \in Agents, RecordOK(a), Load(a)
  PROVE  RecordOK(a)'
<1> DEFINE j == job[a]
           e == cur[j.key][j.at]
<1>1. /\ j \in Job /\ j.key \in Keys /\ j.at \in Versions /\ j.at \in 0 .. MaxVersion
      /\ (j.op = "write" => j.claim \in Claims) /\ (e = NoFile \/ e \in Entry)
  <2>1. pc[a] = "load" /\ TypeOK /\ JobOK(a)
    BY DEF Inv, Load
  <2>2. /\ j \in Job /\ j.key \in Keys /\ j.at \in Versions
        /\ (j.op = "write" => j.claim \in Claims)
    BY <2>1 DEF TypeOK, JobOK
  <2>3. e = NoFile \/ e \in Entry
    BY <2>1, <2>2 DEF TypeOK
  <2>4. j.at \in 0 .. MaxVersion
    BY <2>2 DEF Versions
  <2> QED
    BY <2>2, <2>3, <2>4
<1>2. e # NoFile => Published(j.key, j.at) /\ Stored(j.key, j.at) = e
  BY <1>1 DEF Published, Stored
<1>3. CASE e = NoFile
  BY <1>3, ReturnRecord DEF Load
<1>4. CASE e # NoFile /\ j.op = "write"
  <2> DEFINE v == IF IsExpired(e) THEN 0 ELSE j.at
             draft == Restated(e, v, j.claim, j.ttl)
             i == [j EXCEPT !.draft = draft, !.expect = v + 1, !.at = 0]
  <2>1. Goto(a, "lock", i)
    BY <1>4 DEF Load
  <2>2. v \in 0 .. MaxVersion /\ (v # 0 => v = j.at) /\ e \in Entry
    BY <1>1, <1>4, FileStoreAssumption
  <2> HIDE DEF v, e
  <2>3. draft \in Entry
    BY <1>1, <1>4, <2>2, RestatedType DEF Job
  <2>4. e.outcomes \in Nat
    BY <2>2 DEF Entry
  <2>5. Inherits(draft, j.key)
    BY <1>2, <1>4, <2>2, <2>4 DEF Restated, Inherits
  <2>6. v + 1 \in 0 .. MaxVersion + 1 /\ 0 \in 0 .. MaxVersion
    BY <2>2, FileStoreAssumption
  <2> HIDE DEF draft
  <2>7. i \in Job /\ i.key = j.key /\ i.op = "write" /\ i.draft = draft
    BY <1>1, <1>4, <2>3, <2>6 DEF Job
  <2> HIDE DEF i
  <2>8. ListingOK(i)
    BY <2>7 DEF ListingOK
  <2> QED
    BY <1>1, <2>1, <2>5, <2>7, <2>8, Drafted
<1>5. CASE e # NoFile /\ j.op # "write"
  <2>1. CASE ~IsExpired(e) /\ ClaimStillHeld(j.key, e, j.at, j.cite)
    <3> DEFINE draft == Credited(e, j.at)
               i == [j EXCEPT !.draft = draft, !.expect = 1, !.at = 0]
    <3>1. Goto(a, "lock", i)
      BY <1>5, <2>1 DEF Load
    <3>2. e \in Entry /\ e.outcomes \in Nat
      BY <1>1, <1>5 DEF Entry
    <3> HIDE DEF e
    <3>3. draft \in Entry
      BY <1>1, <3>2, CreditedType
    <3>4. /\ draft.claim = e.claim /\ draft.outcomes = e.outcomes + 1
          /\ draft.by = "outcome" /\ draft.base = j.at
      BY <3>2 DEF Credited, Entry
    <3> HIDE DEF draft
    <3>5. Inherits(draft, j.key)
      BY <1>2, <1>5, <3>4 DEF Inherits
    <3>6. 1 \in 0 .. MaxVersion + 1 /\ 0 \in 0 .. MaxVersion
      BY FileStoreAssumption
    <3>7. i \in Job /\ i.key = j.key /\ i.op = j.op /\ i.draft = draft /\ i.todo = j.todo
      BY <1>1, <3>3, <3>6 DEF Job
    <3> HIDE DEF i
    <3>8. ListingOK(i)
      BY <3>7 DEF RecordOK, ListingOK
    <3> QED
      BY <1>1, <3>1, <3>5, <3>7, <3>8, Drafted
  <2>2. CASE ~(~IsExpired(e) /\ ClaimStillHeld(j.key, e, j.at, j.cite))
    <3>1. Continue(a)
      BY <1>5, <2>2 DEF Load
    <3> QED
      BY <3>1, ContinueRecord
  <2> QED
    BY <2>1, <2>2
<1> QED
  BY <1>3, <1>4, <1>5

\* Inside the section the draft is handed on as it is.
LEMMA SectionRecord ==
  ASSUME Inv, Kept, NEW a \in Agents, RecordOK(a),
         Acquire(a) \/ Decide(a) \/ Supersede(a)
  PROVE  RecordOK(a)'
<1>1. /\ pc[a] \in {"lock", "decide", "supersede"} /\ job[a] \in Job
      /\ job[a].key \in Keys /\ Inherits(job[a].draft, job[a].key)
  BY DEF Inv, TypeOK, JobOK, RecordOK, Acquire, Decide, Supersede
<1>2. CASE Return(a)
  BY <1>2, ReturnRecord
<1>3. CASE ~Return(a)
  <2>1. PICK point \in {"decide", "supersede", "publish"} :
          \E n \in 0 .. MaxVersion : Goto(a, point, [job[a] EXCEPT !.at = n])
    <3>1. CASE Acquire(a) \/ Supersede(a)
      <4>1. job[a] = [job[a] EXCEPT !.at = job[a].at] /\ job[a].at \in 0 .. MaxVersion
        BY <1>1 DEF Job
      <4>2. Goto(a, "decide", job[a]) \/ Goto(a, "publish", job[a])
        BY <3>1 DEF Acquire, Supersede
      <4> QED
        BY <4>1, <4>2
    <3>2. CASE Decide(a)
      <4> DEFINE n == CurrentVersionNumber(job[a].key) + 1
      <4>1. Goto(a, "supersede", [job[a] EXCEPT !.at = n]) /\ ~(n > MaxVersion)
        BY <1>3, <3>2 DEF Decide
      <4>2. CurrentVersionNumber(job[a].key) = 0 \/ CurrentVersionNumber(job[a].key) \in Versions
        BY <1>1, CurrentNumber DEF Inv
      <4>3. n \in 0 .. MaxVersion
        BY <4>1, <4>2, FileStoreAssumption DEF Versions
      <4> QED
        BY <4>1, <4>3
    <3> QED
      BY <3>1, <3>2
  <2>2. PICK n \in 0 .. MaxVersion : Goto(a, point, [job[a] EXCEPT !.at = n])
    BY <2>1
  <2> DEFINE j == [job[a] EXCEPT !.at = n]
  <2>3. /\ j \in Job /\ j.key = job[a].key /\ j.draft = job[a].draft
        /\ j.op = job[a].op /\ j.todo = job[a].todo
    BY <1>1 DEF Job
  <2> HIDE DEF j
  <2>4. ListingOK(j)
    BY <2>3 DEF RecordOK, ListingOK
  <2> QED
    BY <1>1, <2>2, <2>3, <2>4, Drafted DEF j
<1> QED
  BY <1>2, <1>3

\* The agent that moves has a draft that inherits from its base, or none.
LEMMA RecordStep ==
  ASSUME Inv, Kept, NEW a \in Agents, RecordOK(a), Start(a) \/ Step(a) \/ Crash(a)
  PROVE  RecordOK(a)'
<1>1. CASE Start(a)
  BY <1>1, StartRecord
<1>2. CASE LockTimeout(a) \/ Crash(a)
  BY <1>2, ReturnRecord DEF LockTimeout, Crash
<1>3. CASE Publish(a)
  BY <1>3, ContinueRecord DEF Publish
<1>4. CASE Pick(a) \/ Locate(a) \/ Load(a) \/ Acquire(a) \/ Decide(a) \/ Supersede(a)
  BY <1>4, PickRecord, LocateRecord, LoadRecord, SectionRecord
<1> QED
  BY <1>1, <1>2, <1>3, <1>4 DEF Step

-----------------------------------------------------------------------------
(* Counting the outcomes behind a version.                                 *)

LEMMA Counting ==
  ASSUME NEW n \in Nat, NEW T \in SUBSET (1 .. n), NEW S \in SUBSET T
  PROVE  /\ Cardinality(S) \in Nat /\ Cardinality(T) \in Nat
         /\ Cardinality(S) <= Cardinality(T)
         /\ \A w \in T \ S : Cardinality(S) + 1 <= Cardinality(T)
<1>1. IsFiniteSet(T)
  <2>1. IsFiniteSet(1 .. n)
    BY FS_Interval
  <2> QED
    BY <2>1, FS_Subset
<1>2. IsFiniteSet(S) /\ Cardinality(S) <= Cardinality(T)
  BY <1>1, FS_Subset
<1>3. Cardinality(S) \in Nat /\ Cardinality(T) \in Nat
  BY <1>1, <1>2, FS_CardinalityType
<1>4. ASSUME NEW w \in T \ S PROVE Cardinality(S) + 1 <= Cardinality(T)
  <2>1. Cardinality(S \cup {w}) = Cardinality(S) + 1
    BY <1>2, FS_AddElement
  <2>2. S \cup {w} \in SUBSET T
    OBVIOUS
  <2>3. Cardinality(S \cup {w}) <= Cardinality(T)
    BY <1>1, <2>2, FS_Subset
  <2> QED
    BY <2>1, <2>3
<1> QED
  BY <1>2, <1>3, <1>4

\* What is behind a published version stays there.
LEMMA EarnedKept ==
  ASSUME Kept, NEW k \in Keys, NEW v \in Versions, NEW c,
         (\A w \in 1 .. v : Published(k, w))
  PROVE  Earned(k, v, c)' = Earned(k, v, c)
<1>1. 1 .. v \subseteq Versions
  BY FileStoreAssumption DEF Versions
<1>2. ASSUME NEW w \in 1 .. v
      PROVE  (Published(k, w)' <=> Published(k, w)) /\ (Stored(k, w))' = Stored(k, w)
  BY <1>1 DEF Kept, Published
<1> QED
  BY <1>2 DEF Earned

\* The versions of a key are 1..n; in the middle of a write n is the version
\* before the one being made.
LEMMA Numbered ==
  ASSUME Inv, DenseInv, crashes = 0, NEW k \in Keys
  PROVE  \E n \in 0 .. MaxVersion :
           /\ \A v \in Versions : Published(k, v) <=> v <= n
           /\ \A a \in Agents : Publishing(a, k) => n = job[a].at - 1
<1>1. DenseAt(k)
  BY DEF DenseInv
<1>2. CASE \E v \in Versions : Live(k, v)
  <2>1. PICK n \in Versions : Live(k, n)
    BY <1>2
  <2>2. \A v \in Versions : Live(k, v) => v = n
    BY <2>1 DEF Inv, OneCurrent, CurrentVersions, Live
  <2>3. \A v \in Versions : Published(k, v) <=> v <= n
    BY <1>1, <2>1, <2>2 DEF DenseAt, Live, Old, Published, Stored, Versions
  <2>4. \A a \in Agents : ~Publishing(a, k)
    BY <2>1 DEF Inv, SectionOK, Publishing, Live
  <2> QED
    BY <2>3, <2>4 DEF Versions
<1>3. CASE (\A v \in Versions : ~Live(k, v)) /\ \E a \in Agents : Publishing(a, k)
  <2>1. PICK a \in Agents : Publishing(a, k)
    BY <1>3
  <2>2. \A b \in Agents : Publishing(b, k) => b = a
    BY <2>1, Alone DEF Publishing, InSection
  <2>3. job[a].at \in Versions
    BY <2>1 DEF Inv, SectionOK, Publishing
  <2>4. \A v \in Versions : Published(k, v) <=> v <= job[a].at - 1
    BY <1>1, <1>3, <2>1, <2>3 DEF DenseAt, Live, Old, Published, Stored, Versions
  <2>5. job[a].at - 1 \in 0 .. MaxVersion
    BY <2>3, FileStoreAssumption DEF Versions
  <2> QED
    BY <2>2, <2>4, <2>5
<1>4. CASE (\A v \in Versions : ~Live(k, v)) /\ \A a \in Agents : ~Publishing(a, k)
  <2>1. \A v \in Versions : Published(k, v) <=> v <= 0
    BY <1>1, <1>4 DEF DenseAt, Live, Old, Published, Stored, Versions
  <2>2. 0 \in 0 .. MaxVersion
    BY FileStoreAssumption
  <2> QED
    BY <1>4, <2>1, <2>2
<1> QED
  BY <1>2, <1>3, <1>4

\* The version a write adds comes after its base, and its record is covered
\* by the outcomes before it and, if it is one, by itself.
LEMMA CreditPublished ==
  ASSUME Inv, DenseInv, RecordInv, Kept, crashes = 0,
         NEW a \in Agents, Publish(a),
         NEW k \in Keys, NEW at \in Versions, k = job[a].key, at = job[a].at
  PROVE  CreditOK(k, at)'
<1>0. /\ pc[a] = "publish" /\ job[a].key \in Keys /\ job[a].at \in Versions
      /\ cur' = [cur EXCEPT ![job[a].key][job[a].at] = job[a].draft] /\ sup' = sup
      /\ job[a].draft \in Entry
  BY DEF Inv, JobOK, SectionOK, Publish
<1> PICK d \in Entry : d = job[a].draft
  BY <1>0
<1>1. (Stored(k, at))' = d /\ Published(k, at)'
  BY <1>0, FileStoreAssumption DEF Inv, TypeOK, Stored, Published
<1>2. Inherits(d, k)
  BY <1>0 DEF RecordInv, RecordOK
<1>3. at \in Nat /\ d.outcomes \in Nat
  BY DEF Versions, Entry
<1> DEFINE T == Earned(k, at, d.claim)'
<1>4. T \in SUBSET (1 .. at) /\ (d.by = "outcome" => at \in T)
  <2>1. T = {w \in 1 .. at : /\ Published(k, w)' /\ (Stored(k, w))'.by = "outcome"
                             /\ (Stored(k, w))'.claim = d.claim}
    BY DEF Earned
  <2>2. at \in 1 .. at
    BY DEF Versions
  <2> HIDE DEF T
  <2> QED
    BY <1>1, <2>1, <2>2
<1> HIDE DEF T
<1>5. d.outcomes <= Cardinality(T)
  <2>1. CASE d.outcomes = 0
    <3>1. Cardinality(T) \in Nat
      BY <1>3, <1>4, Counting
    <3> QED
      BY <2>1, <3>1
  <2>2. CASE d.outcomes # 0
    <3>1. PICK n \in 0 .. MaxVersion :
            /\ \A v \in Versions : Published(k, v) <=> v <= n
            /\ n = at - 1
      BY <1>0, Numbered DEF Publishing
    <3>2. PICK b \in Versions : b = d.base
      BY <1>2, <2>2 DEF Inherits, Published
    <3>3. /\ Published(k, b) /\ d.claim = Stored(k, b).claim
          /\ d.outcomes = Stored(k, b).outcomes + (IF d.by = "outcome" THEN 1 ELSE 0)
      BY <1>2, <2>2, <3>2 DEF Inherits
    <3>4. b < at /\ b \in Nat
      BY <3>1, <3>3, <1>3 DEF Versions
    <3> DEFINE S == Earned(k, b, d.claim)
    <3>5. \A w \in 1 .. b : Published(k, w)
      BY <3>1, <3>3, <3>4, FileStoreAssumption DEF Versions
    <3>6. S \in SUBSET T /\ at \notin S
      <4>1. S = Earned(k, b, d.claim)'
        BY <3>5, EarnedKept
      <4> QED
        BY <1>3, <3>4, <4>1 DEF Earned, T
    <3>7. Stored(k, b).outcomes <= Cardinality(S)
      BY <3>3 DEF RecordInv, CreditOK
    <3> HIDE DEF S
    <3>8. /\ Cardinality(S) \in Nat /\ Cardinality(T) \in Nat
          /\ Cardinality(S) <= Cardinality(T)
          /\ d.by = "outcome" => Cardinality(S) + 1 <= Cardinality(T)
      BY <1>3, <1>4, <3>6, Counting
    <3>9. Stored(k, b).outcomes \in Nat
      <4>1. Stored(k, b) \in Entry
        BY <3>3 DEF Inv, TypeOK, Published, Stored
      <4> QED
        BY <4>1 DEF Entry
    <3> QED
      BY <1>3, <3>3, <3>7, <3>8, <3>9
  <2> QED
    BY <2>1, <2>2
<1> QED
  BY <1>1, <1>5 DEF CreditOK, T

LEMMA CreditStep ==
  ASSUME Inv, DenseInv, RecordInv, Kept, crashes = 0, NEW a \in Agents,
         Start(a) \/ Step(a) \/ Crash(a),
         NEW k \in Keys, NEW v \in Versions
  PROVE  CreditOK(k, v)'
<1>1. CASE Published(k, v)
  <2>1. PICK n \in 0 .. MaxVersion : \A w \in Versions : Published(k, w) <=> w <= n
    BY Numbered
  <2>2. \A w \in 1 .. v : Published(k, w)
    BY <1>1, <2>1, FileStoreAssumption DEF Versions
  <2>3. PICK e : e = Stored(k, v) /\ e = (Stored(k, v))'
    BY <1>1 DEF Kept
  <2>4. Earned(k, v, e.claim)' = Earned(k, v, e.claim)
    BY <2>2, EarnedKept
  <2> QED
    BY <1>1, <2>3, <2>4 DEF RecordInv, CreditOK
<1>2. CASE ~Published(k, v) /\ Publish(a)
  <2>1. CASE k = job[a].key /\ v = job[a].at
    BY <1>2, <2>1, CreditPublished
  <2>2. CASE ~(k = job[a].key /\ v = job[a].at)
    <3>1. /\ cur' = [cur EXCEPT ![job[a].key][job[a].at] = job[a].draft] /\ sup' = sup
      BY <1>2 DEF Publish
    <3>2. (Stored(k, v))' = Stored(k, v)
      BY <2>2, <3>1 DEF Inv, TypeOK, Stored
    <3> QED
      BY <1>2, <3>2 DEF CreditOK, Published
  <2> QED
    BY <2>1, <2>2
<1>3. CASE ~Published(k, v) /\ ~Publish(a)
  BY <1>3, StoredKept DEF CreditOK, Published
<1> QED
  BY <1>1, <1>2, <1>3

LEMMA RecordInit == Init => RecordInv
<1> SUFFICES ASSUME Init PROVE RecordInv
  OBVIOUS
<1>1. \A a \in Agents : RecordOK(a)
  BY DEF Init, NoJob, RecordOK, ListingOK
<1>2. \A k \in Keys, v \in Versions : ~Published(k, v)
  BY DEF Init, Published, Stored
<1> QED
  BY <1>1, <1>2 DEF RecordInv, CreditOK

LEMMA RecordNext == Inv /\ DenseInv /\ RecordInv /\ [Next]_vars => RecordInv'
<1> SUFFICES ASSUME Inv, DenseInv, RecordInv, [Next]_vars, crashes' = 0
             PROVE  /\ \A b \in Agents : RecordOK(b)'
                    /\ \A k \in Keys, v \in Versions : CreditOK(k, v)'
  BY DEF RecordInv
<1>1. Kept
  BY StepKeeps
<1>2. ASSUME NEW a \in Agents, Start(a) \/ Step(a) \/ Crash(a)
      PROVE  /\ \A b \in Agents : RecordOK(b)'
             /\ \A k \in Keys, v \in Versions : CreditOK(k, v)'
  <2>0. crashes = 0
    BY <1>2, NoCrashBefore
  <2>1. ASSUME NEW b \in Agents PROVE RecordOK(b)'
    <3>1. RecordOK(b)
      BY <2>0 DEF RecordInv
    <3>2. CASE b = a
      BY <1>1, <1>2, <3>1, <3>2, RecordStep
    <3>3. CASE b # a
      BY <1>1, <1>2, <3>1, <3>3, OneMoves, RecordKept
    <3> QED
      BY <3>2, <3>3
  <2>2. ASSUME NEW k \in Keys, NEW v \in Versions PROVE CreditOK(k, v)'
    BY <1>1, <1>2, <2>0, CreditStep
  <2> QED
    BY <2>1, <2>2
<1>3. CASE DeadlinePasses \/ UNCHANGED vars
  <2>1. UNCHANGED <<cur, sup, pc, job>> /\ crashes = 0
    BY <1>3 DEF DeadlinePasses, vars, files
  <2>2. ASSUME NEW b \in Agents PROVE RecordOK(b)'
    BY <1>1, <2>1, RecordKept DEF RecordInv
  <2>3. ASSUME NEW k \in Keys, NEW v \in Versions PROVE CreditOK(k, v)'
    BY <2>1 DEF RecordInv, CreditOK, Earned, Published, Stored
  <2> QED
    BY <2>2, <2>3
<1> QED
  BY <1>2, <1>3 DEF Next

LEMMA RecordInvariance == Spec => []RecordInv
BY DenseInvariance, RecordInit, RecordNext, PTL DEF Spec

\* As long as no process dies, no version carries more outcomes than were
\* committed about its claim: none is counted twice on the way through
\* restatements, rewrites and archives, and a changed claim inherits none.
THEOREM NoCreditUnearned == Spec => []CreditIsEarned
<1>1. RecordInv => CreditIsEarned
  BY DEF RecordInv, CreditOK, Earned, CreditIsEarned
<1> QED
  BY <1>1, RecordInvariance, PTL

-----------------------------------------------------------------------------
(* The abstract store.  Each version the abstract history gains is a rename *)
(* into place; everything else leaves the history as it is.                 *)

\* A sequence one longer that begins alike is the shorter one with one
\* element appended.
LEMMA Appended ==
  ASSUME NEW S, NEW n \in Nat, NEW r \in S,
         NEW f \in [1 .. n -> S], NEW g \in [1 .. n + 1 -> S],
         \A i \in 1 .. n : g[i] = f[i], g[n + 1] = r
  PROVE  g = Append(f, r) /\ Len(f) = n
<1>1. f \in Seq(S) /\ g \in Seq(S)
  BY SeqDef
<1>2. Len(f) = n /\ Len(g) = n + 1
  <2>1. Len(f) \in Nat /\ 1 .. Len(f) = 1 .. n /\ Len(g) \in Nat /\ 1 .. Len(g) = 1 .. n + 1
    BY <1>1, LenProperties
  <2> QED
    BY <2>1
<1>3. /\ Append(f, r) \in Seq(S) /\ Len(Append(f, r)) = n + 1
      /\ \A i \in 1 .. n : Append(f, r)[i] = f[i]
      /\ Append(f, r)[n + 1] = r
  BY <1>1, <1>2, AppendProperties
<1>4. ASSUME NEW i \in 1 .. n + 1 PROVE g[i] = Append(f, r)[i]
  BY <1>3
<1> QED
  BY <1>1, <1>2, <1>3, <1>4, SeqEqual

LEMMA UpTo ==
  ASSUME NEW n \in 0 .. MaxVersion, NEW v \in 1 .. n
  PROVE  v \in Versions
BY FileStoreAssumption DEF Versions

\* The history of a key whose versions are 1..n.
LEMMA HistoryOf ==
  ASSUME NEW S \in SUBSET Versions, NEW n \in 0 .. MaxVersion,
         \A v \in Versions : v \in S <=> v <= n
  PROVE  S = 1 .. n /\ Cardinality(S) = n
<1>1. S = 1 .. n
  <2>1. S \subseteq 1 .. n
    BY DEF Versions
  <2>2. 1 .. n \subseteq S
    BY FileStoreAssumption DEF Versions
  <2> QED
    BY <2>1, <2>2
<1>2. Cardinality(1 .. n) = n
  BY FS_Interval
<1> QED
  BY <1>1, <1>2

LEMMA SameHistory ==
  ASSUME Inv, DenseInv, crashes = 0,
         \A k \in Keys, v \in Versions : (Stored(k, v))' = Stored(k, v)
  PROVE  History' = History
<1> SUFFICES ASSUME NEW k \in Keys
             PROVE  [v \in 1 .. Cardinality(PublishedVersions(k)) |-> Abstracted(k, v)]' =
                      [v \in 1 .. Cardinality(PublishedVersions(k)) |-> Abstracted(k, v)]
  BY DEF History
<1>1. PublishedVersions(k)' = PublishedVersions(k)
  BY DEF PublishedVersions, Published
<1>2. PICK n \in 0 .. MaxVersion : \A v \in Versions : Published(k, v) <=> v <= n
  BY Numbered
<1>3. Cardinality(PublishedVersions(k)) = n
  BY <1>2, HistoryOf DEF PublishedVersions
<1>4. ASSUME NEW v \in 1 .. n PROVE Abstracted(k, v)' = Abstracted(k, v)
  <2>1. v \in Versions
    BY UpTo
  <2> QED
    BY <2>1 DEF Abstracted
<1> QED
  BY <1>1, <1>3, <1>4

\* What a writer in its section publishes is one the abstract store allows.
LEMMA PublishAdds ==
  ASSUME Inv, DenseInv, FollowInv, RecordInv, crashes = 0, Kept, NEW a \in Agents, Publish(a)
  PROVE  Store!Next
<1>0. /\ pc[a] = "publish" /\ job[a].key \in Keys /\ job[a].at \in Versions
      /\ cur' = [cur EXCEPT ![job[a].key][job[a].at] = job[a].draft] /\ sup' = sup
      /\ job[a].draft \in Entry
  BY DEF Inv, JobOK, SectionOK, Publish
<1> PICK k \in Keys, at \in Versions, d \in Entry :
      k = job[a].key /\ at = job[a].at /\ d = job[a].draft
  BY <1>0
<1> PICK n \in 0 .. MaxVersion :
      (\A v \in Versions : Published(k, v) <=> v <= n) /\ n = at - 1
  BY <1>0, Numbered DEF Publishing
<1> DEFINE r == [claim |-> d.claim, by |-> d.by, base |-> d.base]
<1>1. /\ (Stored(k, at))' = d
      /\ \A l \in Keys, v \in Versions : ~(l = k /\ v = at) => (Stored(l, v))' = Stored(l, v)
  BY <1>0, FileStoreAssumption DEF Inv, TypeOK, Stored
<1>2. /\ History[k] = [v \in 1 .. n |-> Abstracted(k, v)]
      /\ History'[k] = [v \in 1 .. n + 1 |-> (Abstracted(k, v))']
  <2>1. Cardinality(PublishedVersions(k)) = n
    BY HistoryOf DEF PublishedVersions
  <2>2. \A v \in Versions : Published(k, v)' <=> v <= n + 1
    BY <1>1, FileStoreAssumption DEF Published, Versions
  <2>3. Cardinality(PublishedVersions(k)') = n + 1
    <3> DEFINE S == PublishedVersions(k)'
    <3>1. S \in SUBSET Versions /\ \A v \in Versions : v \in S <=> v <= n + 1
      BY <2>2 DEF PublishedVersions
    <3>2. n + 1 \in 0 .. MaxVersion
      BY DEF Versions
    <3> HIDE DEF S
    <3> QED
      BY <3>1, <3>2, HistoryOf DEF S
  <2> QED
    BY <2>1, <2>3 DEF History
<1>3. /\ \A v \in 1 .. n : (Abstracted(k, v))' = Abstracted(k, v)
      /\ (Abstracted(k, n + 1))' = r
  BY <1>1, FileStoreAssumption DEF Abstracted, Versions
<1>4. History'[k] = Append(History[k], r) /\ Len(History[k]) = n
  <2> DEFINE f == History[k]
             g == History'[k]
             S == [claim : Claims, by : Producers, base : 0 .. MaxVersion]
  <2>1. \A v \in 1 .. n : Abstracted(k, v) \in S
    <3> SUFFICES ASSUME NEW v \in 1 .. n PROVE Abstracted(k, v) \in S
      OBVIOUS
    <3>1. v \in Versions
      BY UpTo
    <3>2. Stored(k, v) # NoFile
      BY <3>1 DEF Published
    <3>3. cur[k][v] \in Entry \cup {NoFile} /\ sup[k][v] \in Entry \cup {NoFile}
      BY <3>1 DEF Inv, TypeOK
    <3>4. Stored(k, v) \in Entry
      BY <3>2, <3>3 DEF Stored
    <3> QED
      BY <3>4 DEF Abstracted, Entry
  <2>2. r \in S
    BY DEF Entry
  <2>3. n \in Nat
    OBVIOUS
  <2> HIDE DEF S, r
  <2>4. f \in [1 .. n -> S] /\ g \in [1 .. n + 1 -> S]
    BY <1>2, <1>3, <2>1, <2>2
  <2>5. (\A i \in 1 .. n : g[i] = f[i]) /\ g[n + 1] = r
    BY <1>2, <1>3
  <2> HIDE DEF f, g
  <2>6. g = Append(f, r) /\ Len(f) = n
    BY <2>2, <2>3, <2>4, <2>5, Appended
  <2> QED
    BY <2>6 DEF f, g
<1>5. \A l \in Keys : l # k => History'[l] = History[l]
  <2> SUFFICES ASSUME NEW l \in Keys, l # k PROVE History'[l] = History[l]
    OBVIOUS
  <2>1. PublishedVersions(l)' = PublishedVersions(l)
    BY <1>1 DEF PublishedVersions, Published
  <2>2. PICK m \in 0 .. MaxVersion : \A v \in Versions : Published(l, v) <=> v <= m
    BY Numbered
  <2>3. Cardinality(PublishedVersions(l)) = m
    BY <2>2, HistoryOf DEF PublishedVersions
  <2>4. \A v \in 1 .. m : (Abstracted(l, v))' = Abstracted(l, v)
    BY <1>1, FileStoreAssumption DEF Abstracted, Versions
  <2> QED
    BY <2>1, <2>3, <2>4 DEF History
<1>6. History' = [History EXCEPT ![k] = Append(History[k], r)]
  BY <1>4, <1>5 DEF History
<1>7. Store!Add(k, d.claim, d.by, d.base)
  BY <1>6 DEF Store!Add
<1>8. d.claim \in Claims /\ d.by \in Producers /\ d.base \in 0 .. MaxVersion
  BY DEF Entry
<1>9. CASE d.by = "write"
  <2>1. d.base \in {0, Len(History[k])}
    BY <1>0, <1>4, <1>8, <1>9 DEF FollowInv, DraftOK, Versions
  <2>2. Store!State(k, d.claim)
    BY <1>7, <1>9, <2>1 DEF Store!State
  <2> QED
    BY <1>8, <2>2 DEF Store!Next
<1>10. CASE d.by # "write"
  <2>1. Published(k, d.base) /\ d.claim = Stored(k, d.base).claim
    BY <1>0, <1>10 DEF RecordInv, RecordOK, Inherits
  <2>2. d.base \in 1 .. n
    BY <2>1 DEF Published, Versions
  <2>3. History[k][d.base].claim = d.claim
    BY <1>2, <2>1, <2>2 DEF Abstracted
  <2>4. Store!Recompute(k, d.by)
    BY <1>4, <1>7, <2>2, <2>3 DEF Store!Recompute
  <2> QED
    BY <1>8, <1>10, <2>4 DEF Store!Next, Producers
<1> QED
  BY <1>9, <1>10

LEMMA StoreInit == Init => Store!Init
<1> SUFFICES ASSUME Init, NEW k \in Keys
             PROVE  [v \in 1 .. Cardinality(PublishedVersions(k)) |-> Abstracted(k, v)] = <<>>
  BY DEF Store!Init, History
<1>1. PublishedVersions(k) = {}
  BY DEF Init, PublishedVersions, Published, Stored
<1>2. Cardinality(PublishedVersions(k)) = 0
  BY <1>1, FS_EmptySet
<1> QED
  BY <1>2

LEMMA StoreNext ==
  ASSUME Inv, DenseInv, FollowInv, RecordInv, [Next]_vars, crashes' = 0
  PROVE  [Store!Next]_History
<1>1. ASSUME NEW a \in Agents, Start(a) \/ Step(a) \/ Crash(a) PROVE [Store!Next]_History
  <2>1. crashes = 0 /\ Kept
    BY <1>1, NoCrashBefore, StepKeeps
  <2>2. CASE Publish(a)
    BY <2>1, <2>2, PublishAdds
  <2>3. CASE ~Publish(a)
    <3>1. \A k \in Keys, v \in Versions : (Stored(k, v))' = Stored(k, v)
      BY <1>1, <2>3, StoredKept
    <3> QED
      BY <2>1, <3>1, SameHistory
  <2> QED
    BY <2>2, <2>3
<1>2. CASE DeadlinePasses \/ UNCHANGED vars
  <2>1. crashes = 0 /\ UNCHANGED <<cur, sup>>
    BY <1>2 DEF DeadlinePasses, vars, files
  <2>2. \A k \in Keys, v \in Versions : (Stored(k, v))' = Stored(k, v)
    BY <2>1 DEF Stored
  <2> QED
    BY <2>1, <2>2, SameHistory
<1> QED
  BY <1>1, <1>2 DEF Next

\* Where no process dies in the middle of an operation, the directory of
\* files with its renames, locks and unlocked reads is a versioned store.
THEOREM FilesAreAVersionedStore ==
  ASSUME MaxCrashes = 0
  PROVE  Spec => ImplementsVersionedStore
<1>1. Inv => crashes = 0
  BY DEF Inv, TypeOK
<1>2. Inv' => crashes' = 0
  BY DEF Inv, TypeOK
<1>3. Inv /\ Inv' /\ DenseInv /\ FollowInv /\ RecordInv /\ [Next]_vars => [Store!Next]_History
  BY <1>2, StoreNext
<1> QED
  BY <1>3, StoreInit, DenseInvariance, FollowInvariance, RecordInvariance, PTL
  DEF Spec, ImplementsVersionedStore, Store!Spec

=============================================================================
