-------------------------- MODULE CortexWorker_proofs --------------------------
(***************************************************************************)
(* CortexWorker's types, its pairing of scopes and tenants, and, where the *)
(* code keeps it, that no write is forgotten; for any number of tenants,   *)
(* scopes, workers, threads and writes.                                    *)
(***************************************************************************)
EXTENDS CortexWorker, TLAPS

(***************************************************************************)
(* The inductive invariant.  The types alone are not inductive: a worker   *)
(* that lost its connection has a thread left to start, and a thread off   *)
(* its idle point has a scope in hand.                                     *)
(***************************************************************************)

LinkOK == \A w \in Workers : ~listening[w] => started[w] < MaxThreads

TaskOK == \A th \in Threads : pc[th] # "idle" => task[th] \in Updates

CortexInv == TypeOK /\ LinkOK /\ TaskOK /\ QueuedForItsTenant

LEMMA ProvidedIsAccount == Provided \subseteq Accounts
BY DEF Provided, Accounts

LEMMA InitCortex == Init => CortexInv
BY CortexAssumption
   DEF Init, CortexInv, TypeOK, LinkOK, TaskOK, QueuedForItsTenant, Threads, Accounts,
       Fingerprints

\* Queuing some scopes for an account.
LEMMA EnqueueOK ==
  ASSUME CortexInv, NEW w \in Workers, NEW ss \in SUBSET Scopes, NEW t \in Accounts,
         Enqueue(w, ss, t)
  PROVE  /\ pending' \in [Workers -> SUBSET Scopes]
         /\ owner' \in [Workers -> [Scopes -> Accounts]]
         /\ heard' \in [Workers -> [Scopes -> SUBSET Accounts]]
         /\ QueuedForItsTenant'
<1> USE DEF CortexInv
<1>1. /\ pending' \in [Workers -> SUBSET Scopes]
      /\ owner' \in [Workers -> [Scopes -> Accounts]]
      /\ heard' \in [Workers -> [Scopes -> SUBSET Accounts]]
  BY DEF TypeOK, Enqueue
<1>2. \A v \in Workers \ {w} :
        pending'[v] = pending[v] /\ owner'[v] = owner[v] /\ heard'[v] = heard[v]
  BY DEF TypeOK, Enqueue
<1>3. \A s \in Scopes \ ss :
        /\ s \in pending'[w] <=> s \in pending[w]
        /\ owner'[w][s] = owner[w][s] /\ heard'[w][s] = heard[w][s]
  BY DEF TypeOK, Enqueue
<1>4. \A s \in ss :
        /\ s \in pending'[w]
        /\ owner'[w][s] = IF t # NoTenant THEN t ELSE owner[w][s]
        /\ heard'[w][s] = heard[w][s] \cup {t}
  BY DEF TypeOK, Enqueue
<1>5. ASSUME NEW v \in Workers, NEW s \in Scopes
      PROVE  /\ s \in pending'[v] <=> heard'[v][s] # {}
             /\ owner'[v][s] # NoTenant => owner'[v][s] \in heard'[v][s]
             /\ owner'[v][s] = NoTenant => heard'[v][s] \subseteq {NoTenant}
  <2>1. CASE v # w
    BY <1>2, <2>1 DEF QueuedForItsTenant
  <2>2. CASE v = w /\ s \notin ss
    BY <1>3, <2>2 DEF QueuedForItsTenant
  <2>3. CASE v = w /\ s \in ss
    BY <1>4, <2>3 DEF QueuedForItsTenant
  <2> QED
    BY <2>1, <2>2, <2>3
<1> QED
  BY <1>1, <1>5 DEF QueuedForItsTenant

LEMMA AnnounceOK ==
  ASSUME TypeOK, NEW s \in Scopes, NEW t \in Accounts, Announce(s, t)
  PROVE  wire' \in [Workers -> Seq(Updates)]
BY DEF TypeOK, Announce, Updates

LEMMA WriteOK ==
  ASSUME CortexInv, NEW s \in Scopes, NEW t \in Accounts, Write(s, t) \/ WriteFile(s, t)
  PROVE  CortexInv'
<1>1. store' \in [Accounts -> [Scopes -> Nat]] /\ files' \in [Accounts -> [Scopes -> BOOLEAN]]
  <2>1. CASE Write(s, t)
    BY <2>1 DEF CortexInv, TypeOK, Write
  <2>2. CASE WriteFile(s, t)
    BY <2>2 DEF CortexInv, TypeOK, WriteFile
  <2> QED
    BY <2>1, <2>2
<1>2. Announce(s, t)
  BY DEF Write, WriteFile
<1>3. TypeOK'
  BY <1>1, <1>2, AnnounceOK DEF CortexInv, TypeOK, Announce, queue, thread
<1> QED
  BY <1>2, <1>3 DEF CortexInv, LinkOK, TaskOK, QueuedForItsTenant, Announce, queue, thread

\* The message at the head of a worker's connection.
LEMMA HeadType ==
  ASSUME TypeOK, NEW w \in Workers, wire[w] # <<>>
  PROVE  /\ Head(wire[w]) \in Updates
         /\ Head(wire[w])[1] \in Scopes /\ Head(wire[w])[2] \in Accounts
         /\ Tail(wire[w]) \in Seq(Updates)
<1>1. wire[w] \in Seq(Updates)
  BY DEF TypeOK
<1>2. Head(wire[w]) \in Updates /\ Tail(wire[w]) \in Seq(Updates)
  BY <1>1
<1> QED
  BY <1>2 DEF Updates

LEMMA WorkerOK ==
  ASSUME CortexInv, NEW w \in Workers,
         Listen(w) \/ ConnectionLost(w) \/ \E t \in Provided : CatchUp(w, t)
  PROVE  CortexInv'
<1> USE DEF CortexInv
<1>1. CASE HandleNotify(w)
  <2>1. wire[w] # <<>> /\ Enqueue(w, {Head(wire[w])[1]}, Head(wire[w])[2])
    BY <1>1 DEF HandleNotify
  <2>2. /\ pending' \in [Workers -> SUBSET Scopes]
        /\ owner' \in [Workers -> [Scopes -> Accounts]]
        /\ heard' \in [Workers -> [Scopes -> SUBSET Accounts]]
        /\ QueuedForItsTenant'
    BY <2>1, HeadType, EnqueueOK
  <2>3. wire' \in [Workers -> Seq(Updates)]
    BY <1>1, <2>1, HeadType DEF TypeOK, HandleNotify
  <2> QED
    BY <1>1, <2>2, <2>3 DEF TypeOK, LinkOK, TaskOK, HandleNotify, data, thread
<1>2. CASE Reconnect(w)
  <2>1. started' \in [Workers -> 1 .. MaxThreads]
    BY <1>2, CortexAssumption DEF TypeOK, LinkOK, Reconnect
  <2>2. listening' \in [Workers -> BOOLEAN]
    BY <1>2 DEF TypeOK, Reconnect
  <2>3. LinkOK'
    BY <1>2 DEF TypeOK, LinkOK, Reconnect
  <2> QED
    BY <1>2, <2>1, <2>2, <2>3 DEF TypeOK, TaskOK, QueuedForItsTenant, Reconnect, data, queue, thread
<1>3. CASE ConnectionLost(w)
  <2>1. wire' \in [Workers -> Seq(Updates)] /\ listening' \in [Workers -> BOOLEAN]
    BY <1>3 DEF TypeOK, ConnectionLost
  <2>2. LinkOK'
    BY <1>3 DEF TypeOK, LinkOK, ConnectionLost
  <2> QED
    BY <1>3, <2>1, <2>2
       DEF TypeOK, TaskOK, QueuedForItsTenant, ConnectionLost, data, queue, thread
<1>4. ASSUME NEW t \in Provided, CatchUp(w, t) PROVE CortexInv'
  <2>1. Enqueue(w, Missing(t), t) /\ Missing(t) \in SUBSET Scopes
    BY <1>4, CortexAssumption DEF CatchUp, Missing
  <2>2. /\ pending' \in [Workers -> SUBSET Scopes]
        /\ owner' \in [Workers -> [Scopes -> Accounts]]
        /\ heard' \in [Workers -> [Scopes -> SUBSET Accounts]]
        /\ QueuedForItsTenant'
    BY <2>1, EnqueueOK, ProvidedIsAccount
  <2> QED
    BY <1>4, <2>2 DEF TypeOK, LinkOK, TaskOK, CatchUp, data, link, thread
<1> QED
  BY <1>1, <1>2, <1>3, <1>4 DEF Listen

LEMMA PopOK ==
  ASSUME CortexInv, NEW th \in Threads, Pop(th)
  PROVE  CortexInv'
<1> DEFINE w == th[1]
<1>1. w \in Workers
  BY DEF Threads
<1>2. PICK ripe \in SUBSET pending[w] :
        /\ todo' = [todo EXCEPT ![th] = {<<s, owner[w][s]>> : s \in ripe}]
        /\ pending' = [pending EXCEPT ![w] = pending[w] \ ripe]
        /\ owner' = [owner EXCEPT ![w] =
                       [s \in Scopes |-> IF s \in ripe THEN NoTenant ELSE owner[w][s]]]
        /\ heard' = [heard EXCEPT ![w] =
                       [s \in Scopes |-> IF s \in ripe THEN {} ELSE heard[w][s]]]
  BY DEF Pop
<1>3. ripe \subseteq Scopes /\ \A s \in ripe : owner[w][s] \in Accounts
  BY <1>1, <1>2 DEF CortexInv, TypeOK
<1>4. todo' \in [Threads -> SUBSET Updates]
  <2>1. {<<s, owner[w][s]>> : s \in ripe} \in SUBSET Updates
    BY <1>3 DEF Updates
  <2> QED
    BY <1>2, <2>1 DEF CortexInv, TypeOK
<1>5. /\ pending' \in [Workers -> SUBSET Scopes]
      /\ owner' \in [Workers -> [Scopes -> Accounts]]
      /\ heard' \in [Workers -> [Scopes -> SUBSET Accounts]]
  BY <1>1, <1>2 DEF CortexInv, TypeOK, Accounts
<1>6. QueuedForItsTenant'
  BY <1>1, <1>2 DEF CortexInv, TypeOK, QueuedForItsTenant
<1> HIDE DEF w
<1> QED
  BY <1>4, <1>5, <1>6 DEF CortexInv, TypeOK, LinkOK, TaskOK, Pop, data, link

\* The program point and the scope in hand after a thread has moved.
LEMMA GotoOK ==
  ASSUME CortexInv, NEW th \in Threads,
         NEW point \in {"idle", "read", "upsert", "anchor"}, NEW u \in Updates \cup {NoTask},
         point # "idle" => u \in Updates, Goto(th, point, u)
  PROVE  /\ pc' \in [Threads -> {"idle", "read", "upsert", "anchor"}]
         /\ task' \in [Threads -> Updates \cup {NoTask}]
         /\ TaskOK'
BY DEF CortexInv, TypeOK, TaskOK, Goto

LEMMA RecompileOK ==
  ASSUME CortexInv, NEW th \in Threads, Recompile(th) \/ Fail(th)
  PROVE  CortexInv'
<1> USE DEF CortexInv
<1>w. th[1] \in Workers
  BY DEF Threads
<1>1. CASE Pop(th)
  BY <1>1, PopOK
<1>2. CASE Begin(th)
  <2>1. PICK u \in todo[th] :
          /\ todo' = [todo EXCEPT ![th] = todo[th] \ {u}]
          /\ \/ UNCHANGED <<pc, task, failures>>
             \/ Goto(th, "read", u) /\ UNCHANGED failures
             \/ failures < MaxFailures /\ failures' = failures + 1 /\ Goto(th, "read", u)
    BY <1>2 DEF Begin
  <2>2. u \in Updates
    BY <2>1 DEF TypeOK
  <2>3. todo' \in [Threads -> SUBSET Updates]
    BY <2>1 DEF TypeOK
  <2>4. failures' \in 0 .. MaxFailures
    BY <2>1, CortexAssumption DEF TypeOK
  <2>5. /\ pc' \in [Threads -> {"idle", "read", "upsert", "anchor"}]
        /\ task' \in [Threads -> Updates \cup {NoTask}]
        /\ TaskOK'
    <3>1. CASE UNCHANGED <<pc, task>>
      BY <3>1 DEF TypeOK, TaskOK
    <3>2. CASE Goto(th, "read", u)
      BY <2>2, <3>2, GotoOK
    <3> QED
      BY <2>1, <3>1, <3>2
  <2> QED
    BY <1>2, <2>3, <2>4, <2>5 DEF TypeOK, LinkOK, QueuedForItsTenant, Begin, data, link, queue
<1>3. CASE Read(th)
  <2>1. task[th] \in Updates
    BY <1>3 DEF Read, TaskOK
  <2>2. snap' \in [Threads -> Nat]
    <3>1. Entries(task[th][1], task[th][2]) \in Nat
      BY <2>1 DEF TypeOK, Updates, Entries
    <3> QED
      BY <1>3, <3>1 DEF Read, TypeOK
  <2>3. /\ pc' \in [Threads -> {"idle", "read", "upsert", "anchor"}]
        /\ task' \in [Threads -> Updates \cup {NoTask}]
        /\ TaskOK'
    BY <1>3, <2>1, GotoOK DEF Read
  <2> QED
    BY <1>3, <2>2, <2>3 DEF TypeOK, LinkOK, QueuedForItsTenant, Read, data, link, queue
<1>4. CASE Upsert(th)
  <2>1. task[th] \in Updates
    BY <1>4 DEF Upsert, TaskOK
  <2>2. digest' \in [Accounts -> [Scopes -> SUBSET Nat]]
    <3>1. PICK s \in Scopes, t \in Accounts : task[th] = <<s, t>>
      BY <2>1 DEF Updates
    <3>2. Rows(s, t, snap[th]) \in SUBSET Nat
      BY DEF TypeOK, Rows
    <3>3. \/ digest' = digest
          \/ digest' = [digest EXCEPT ![t][s] = Rows(s, t, snap[th])]
      BY <1>4, <3>1 DEF Upsert
    <3>4. digest \in [Accounts -> [Scopes -> SUBSET Nat]]
      BY DEF TypeOK
    <3> DEFINE row == Rows(s, t, snap[th])
    <3>5. row \in SUBSET Nat /\ (digest' = digest \/ digest' = [digest EXCEPT ![t][s] = row])
      BY <3>2, <3>3
    <3> HIDE DEF row
    <3> DEFINE R == SUBSET Nat
               mine == [digest[t] EXCEPT ![s] = row]
    <3>6. row \in R /\ digest \in [Accounts -> [Scopes -> R]]
      BY <3>4, <3>5
    <3> HIDE DEF R
    <3>7. mine \in [Scopes -> R]
      BY <3>6
    <3>8. digest' = digest \/ digest' = [digest EXCEPT ![t] = mine]
      BY <3>5
    <3> HIDE DEF mine
    <3>9. digest' \in [Accounts -> [Scopes -> R]]
      BY <3>6, <3>7, <3>8
    <3> QED
      BY <3>9 DEF R
  <2>3. /\ pc' \in [Threads -> {"idle", "read", "upsert", "anchor"}]
        /\ task' \in [Threads -> Updates \cup {NoTask}]
        /\ TaskOK'
    BY <1>4, <2>1, GotoOK DEF Upsert
  <2> QED
    BY <1>4, <2>2, <2>3 DEF TypeOK, LinkOK, QueuedForItsTenant, Upsert, link, queue
<1>5. CASE Anchor(th)
  <2>1. task[th] \in Updates
    BY <1>5 DEF Anchor, TaskOK
  <2>2. Fingerprint(task[th][1], task[th][2]) \in Fingerprints
    <3>1. PICK s \in Scopes, t \in Accounts : task[th] = <<s, t>>
      BY <2>1 DEF Updates
    <3>2. Entries(s, t) \in Nat /\ files[t][s] \in BOOLEAN
      BY DEF TypeOK, Entries
    <3>3. (Visible(t) /\ files[t][s]) \in BOOLEAN
      OBVIOUS
    <3>4. Fingerprint(s, t) \in Accounts \X Nat \X BOOLEAN
      BY <3>2, <3>3 DEF Fingerprint
    <3> QED
      BY <3>1, <3>4 DEF Fingerprints
  <2>3. anchor' \in [Workers -> [Scopes -> Fingerprints]]
    BY <1>5, <1>w, <2>1, <2>2 DEF Anchor, TypeOK, Updates
  <2>4. snap' \in [Threads -> Nat]
    BY <1>5 DEF Anchor, TypeOK
  <2>5. /\ pc' \in [Threads -> {"idle", "read", "upsert", "anchor"}]
        /\ task' \in [Threads -> Updates \cup {NoTask}]
        /\ TaskOK'
    BY <1>5, GotoOK DEF Anchor
  <2> QED
    BY <1>5, <2>3, <2>4, <2>5 DEF TypeOK, LinkOK, QueuedForItsTenant, Anchor, data, link, queue
<1>6. CASE Fail(th)
  <2>1. snap' \in [Threads -> Nat] /\ failures' \in 0 .. MaxFailures
    BY <1>6, CortexAssumption DEF Fail, TypeOK
  <2>2. /\ pc' \in [Threads -> {"idle", "read", "upsert", "anchor"}]
        /\ task' \in [Threads -> Updates \cup {NoTask}]
        /\ TaskOK'
    BY <1>6, GotoOK DEF Fail
  <2> QED
    BY <1>6, <2>1, <2>2 DEF TypeOK, LinkOK, QueuedForItsTenant, Fail, data, link, queue
<1> QED
  BY <1>1, <1>2, <1>3, <1>4, <1>5, <1>6 DEF Recompile

LEMMA StutterOK == CortexInv /\ UNCHANGED vars => CortexInv'
BY DEF CortexInv, TypeOK, LinkOK, TaskOK, QueuedForItsTenant, vars, data, link, queue, thread

LEMMA StepCortex == CortexInv /\ [Next]_vars => CortexInv'
BY WriteOK, WorkerOK, RecompileOK, StutterOK, ProvidedIsAccount DEF Next

THEOREM CortexInvariant == Spec => []CortexInv
BY InitCortex, StepCortex, PTL DEF Spec

\* The state of the workers and of the memory keeps its types, through lost
\* connections and compilations that raise.
THEOREM CortexTypes == Spec => []TypeOK
BY CortexInvariant, PTL DEF CortexInv

\* A scope waits for the debounce exactly as long as an event has asked for it
\* since it was last popped; the tenant it is then compiled for is one that
\* asked since then, and there is none only if every event came without one.
\* For any mix of tenants and of events without an account.
THEOREM ScopesKeepTheirTenant == Spec => []QueuedForItsTenant
BY CortexInvariant, PTL DEF CortexInv

-----------------------------------------------------------------------------
(***************************************************************************)
(* No write is forgotten, in a store of one tenant (and of events without  *)
(* an account), as long as connections hold and nothing raises.  A worker  *)
(* may put an older digest over a newer one; the invariant is that a       *)
(* thread about to do so still has the scope coming: announced, pending or *)
(* popped.                                                                 *)
(***************************************************************************)

Calm ==
  /\ ~Drift /\ MaxThreads = 1 /\ MaxFailures = 0
  /\ Workers # {} /\ \E t : Tenants = {t}

Announced(w, s, t) == \E i \in 1 .. Len(wire[w]) : wire[w][i] = <<s, t>>

Pending(w, s, t) == s \in pending[w] /\ owner[w][s] = t

Coming(w, s, t) ==
  Announced(w, s, t) \/ Pending(w, s, t) \/ <<s, t>> \in todo[<<w, 1>>]

Reading(w, s, t) ==
  LET th == <<w, 1>>
  IN  /\ task[th] = <<s, t>>
      /\ \/ pc[th] = "read"
         \/ pc[th] = "upsert" /\ snap[th] = store[t][s]

\* Ahead, for workers of one thread.
Due(w, s, t) == Coming(w, s, t) \/ Reading(w, s, t)

Unforgotten ==
  \A s \in Scopes, t \in Tenants : Behind(s, t) => \E w \in Workers : Due(w, s, t)

StaleIsComing ==
  \A w \in Workers, s \in Scopes, t \in Tenants :
    /\ pc[<<w, 1>>] = "upsert" /\ task[<<w, 1>>] = <<s, t>>
    /\ snap[<<w, 1>>] # store[t][s]
    => Coming(w, s, t)

ForgetInv == Unforgotten /\ StaleIsComing

LEMMA OneThread ==
  ASSUME Calm
  PROVE  /\ Threads = {<<w, 1>> : w \in Workers}
         /\ \A w \in Workers : <<w, 1>> \in Threads
         /\ \A th \in Threads : th = <<th[1], 1>> /\ th[1] \in Workers
BY DEF Calm, Threads

\* The only tenant: what it reads is what it wrote, and its digest is one row.
LEMMA OneTenant ==
  ASSUME Calm
  PROVE  /\ Provided = Tenants /\ Tenants \subseteq Accounts
         /\ \A t, u \in Tenants : t = u
         /\ \A s \in Scopes, t \in Tenants : Entries(s, t) = store[t][s]
         /\ \A s \in Scopes, t \in Tenants, n \in Nat : Rows(s, t, n) = {n}
BY CortexAssumption DEF Calm, Provided, Accounts, Entries, Visible, Rows

LEMMA DueIsAhead ==
  ASSUME Calm, NEW w \in Workers, NEW s \in Scopes, NEW t \in Tenants, Due(w, s, t)
  PROVE  Ahead(w, s, t)
<1>1. <<w, 1>> \in Threads /\ <<w, 1>>[1] = w
  BY OneThread
<1> QED
  BY <1>1 DEF Due, Coming, Reading, Announced, Pending, Ahead

LEMMA Listening ==
  ASSUME Calm, CortexInv
  PROVE  \A w \in Workers : listening[w] /\ started[w] = 1
BY DEF Calm, CortexInv, TypeOK, LinkOK

\* What is coming to a worker stays so when its queue only moves.
LEMMA EnqueueKeeps ==
  ASSUME Calm, CortexInv, NEW w \in Workers, NEW ss \in SUBSET Scopes,
         NEW t \in Accounts, Enqueue(w, ss, t),
         NEW v \in Workers, NEW s \in Scopes, NEW u \in Tenants
  PROVE  /\ Pending(v, s, u) => Pending(v, s, u)'
         /\ s \in ss /\ t = u => Pending(w, s, u)'
<1>1. t # NoTenant => t = u
  BY OneTenant DEF Accounts
<1>2. u # NoTenant
  BY CortexAssumption
<1>3. \A z \in Workers :
        /\ pending'[z] = IF z = w THEN pending[w] \cup ss ELSE pending[z]
        /\ owner'[z][s] = IF z = w /\ s \in ss /\ t # NoTenant THEN t ELSE owner[z][s]
  BY DEF CortexInv, TypeOK, Enqueue
<1> QED
  BY <1>1, <1>2, <1>3 DEF Pending

\* A step that keeps the digests, the entries and the threads and loses
\* nothing that is coming.
LEMMA KeepsForget ==
  ASSUME ForgetInv, UNCHANGED <<store, digest, task, snap, pc>>,
         \A w \in Workers, s \in Scopes, t \in Tenants : Coming(w, s, t) => Coming(w, s, t)'
  PROVE  ForgetInv'
BY DEF ForgetInv, Unforgotten, StaleIsComing, Due, Reading, Behind

LEMMA InitForget ==
  ASSUME Calm, Init
  PROVE  ForgetInv
BY OneThread, OneTenant DEF Init, ForgetInv, Unforgotten, StaleIsComing, Behind

\* An announcement reaches every worker and takes nothing away.
LEMMA AnnounceForget ==
  ASSUME Calm, CortexInv, NEW s \in Scopes, NEW t \in Accounts, Announce(s, t)
  PROVE  /\ \A w \in Workers : Coming(w, s, t)'
         /\ \A w \in Workers, v \in Scopes, u \in Tenants : Coming(w, v, u) => Coming(w, v, u)'
<1>1. \A w \in Workers : wire'[w] = Append(wire[w], <<s, t>>) /\ wire[w] \in Seq(Updates)
  BY Listening DEF Announce, CortexInv, TypeOK
<1>2. ASSUME NEW w \in Workers, NEW v \in Scopes, NEW u \in Tenants, Announced(w, v, u)
      PROVE  Announced(w, v, u)'
  <2>1. PICK i \in 1 .. Len(wire[w]) : wire[w][i] = <<v, u>>
    BY <1>2 DEF Announced
  <2>2. i \in 1 .. Len(wire'[w]) /\ wire'[w][i] = <<v, u>>
    BY <1>1, <2>1 DEF Updates
  <2> QED
    BY <2>2 DEF Announced
<1>3. \A w \in Workers, v \in Scopes, u \in Tenants : Coming(w, v, u) => Coming(w, v, u)'
  BY <1>2 DEF Coming, Pending, Announce, queue, thread
<1>4. ASSUME NEW w \in Workers PROVE Announced(w, s, t)'
  <2>1. <<s, t>> \in Updates
    BY DEF Updates
  <2>2. /\ Len(wire'[w]) \in 1 .. Len(wire'[w])
        /\ wire'[w][Len(wire'[w])] = <<s, t>>
    BY <1>1, <2>1
  <2> QED
    BY <2>2 DEF Announced
<1> QED
  BY <1>3, <1>4 DEF Coming

LEMMA WriteForget ==
  ASSUME Calm, CortexInv, ForgetInv, NEW s \in Scopes, NEW t \in Accounts, Write(s, t)
  PROVE  ForgetInv'
<1>1. Announce(s, t)
  BY DEF Write
<1>2. \A w \in Workers : Coming(w, s, t)'
  BY <1>1, AnnounceForget
<1>3. \A w \in Workers, v \in Scopes, u \in Tenants : Coming(w, v, u) => Coming(w, v, u)'
  BY <1>1, AnnounceForget
<1>4. UNCHANGED <<digest, thread>>
  BY <1>1 DEF Announce
<1>5. \A v \in Scopes, u \in Tenants :
        <<v, u>> # <<s, t>> => store'[u][v] = store[u][v]
  BY DEF Write, CortexInv, TypeOK, Accounts
<1>6. Unforgotten'
  <2> SUFFICES ASSUME NEW v \in Scopes, NEW u \in Tenants, Behind(v, u)'
               PROVE  \E w \in Workers : Due(w, v, u)'
    BY DEF Unforgotten
  <2>1. CASE <<v, u>> = <<s, t>>
    BY <2>1, <1>2 DEF Due, Calm
  <2>2. CASE <<v, u>> # <<s, t>>
    <3>1. Behind(v, u)
      BY <2>2, <1>4, <1>5 DEF Behind
    <3>2. PICK w \in Workers : Due(w, v, u)
      BY <3>1 DEF ForgetInv, Unforgotten
    <3>3. Reading(w, v, u) => Reading(w, v, u)'
      BY <2>2, <1>4, <1>5 DEF Reading, thread
    <3> QED
      BY <3>2, <3>3, <1>3 DEF Due
  <2> QED
    BY <2>1, <2>2
<1>7. StaleIsComing'
  <2> SUFFICES ASSUME NEW w \in Workers, NEW v \in Scopes, NEW u \in Tenants,
                      pc'[<<w, 1>>] = "upsert", task'[<<w, 1>>] = <<v, u>>,
                      snap'[<<w, 1>>] # store'[u][v]
               PROVE  Coming(w, v, u)'
    BY DEF StaleIsComing
  <2>1. CASE <<v, u>> = <<s, t>>
    BY <2>1, <1>2
  <2>2. CASE <<v, u>> # <<s, t>>
    <3>1. snap[<<w, 1>>] # store[u][v]
      BY <2>2, <1>4, <1>5 DEF thread
    <3> QED
      BY <3>1, <1>3, <1>4 DEF ForgetInv, StaleIsComing, thread
  <2> QED
    BY <2>1, <2>2
<1> QED
  BY <1>6, <1>7 DEF ForgetInv

LEMMA WriteFileForget ==
  ASSUME Calm, CortexInv, ForgetInv, NEW s \in Scopes, NEW t \in Provided, WriteFile(s, t)
  PROVE  ForgetInv'
<1>1. Announce(s, t) /\ UNCHANGED store
  BY DEF WriteFile
<1>2. \A w \in Workers, v \in Scopes, u \in Tenants : Coming(w, v, u) => Coming(w, v, u)'
  BY <1>1, AnnounceForget, ProvidedIsAccount
<1> QED
  BY <1>1, <1>2, KeepsForget DEF Announce, thread

LEMMA WorkerForget ==
  ASSUME Calm, CortexInv, ForgetInv, NEW w \in Workers,
         Listen(w) \/ ConnectionLost(w) \/ \E t \in Provided : CatchUp(w, t)
  PROVE  ForgetInv'
<1>1. CASE HandleNotify(w)
  <2> DEFINE h == Head(wire[w])
  <2>1. wire[w] # <<>> /\ Enqueue(w, {h[1]}, h[2])
    BY <1>1 DEF HandleNotify
  <2>2. h \in Updates /\ h[1] \in Scopes /\ h[2] \in Accounts /\ h = <<h[1], h[2]>>
    BY <2>1, HeadType DEF CortexInv, Updates
  <2>3. ASSUME NEW v \in Workers, NEW s \in Scopes, NEW u \in Tenants, Announced(v, s, u)
        PROVE  Announced(v, s, u)' \/ Pending(v, s, u)'
    <3>1. PICK i \in 1 .. Len(wire[v]) : wire[v][i] = <<s, u>>
      BY <2>3 DEF Announced
    <3>2. wire[v] \in Seq(Updates) /\ wire' = [wire EXCEPT ![w] = Tail(wire[w])]
      BY <1>1 DEF HandleNotify, CortexInv, TypeOK
    <3>3. CASE v # w
      BY <3>1, <3>2, <3>3 DEF Announced, CortexInv, TypeOK
    <3>4. CASE v = w /\ i = 1
      <4>1. h = <<s, u>>
        BY <3>1, <3>2, <3>4, <2>1
      <4>2. Pending(w, s, u)'
        <5>1. h[1] = s /\ h[2] = u
          BY <4>1
        <5>2. Enqueue(w, {s}, u) /\ u \in Accounts
          BY <5>1, <2>1, OneTenant
        <5> QED
          BY <5>2, EnqueueKeeps
      <4> QED
        BY <4>2, <3>4 DEF Pending
    <3>5. CASE v = w /\ i # 1
      <4>1. wire'[v] = Tail(wire[v])
        BY <3>2, <3>5 DEF CortexInv, TypeOK
      <4>2. i - 1 \in 1 .. Len(Tail(wire[v])) /\ Tail(wire[v])[i - 1] = <<s, u>>
        <5>1. wire[v] \in Seq(Updates) /\ wire[v] # <<>> /\ i \in 2 .. Len(wire[v])
          BY <3>1, <3>2, <3>5, <2>1
        <5>2. /\ Len(Tail(wire[v])) = Len(wire[v]) - 1
              /\ Tail(wire[v])[i - 1] = wire[v][i]
          BY <5>1
        <5> QED
          BY <3>1, <5>1, <5>2
      <4> QED
        BY <4>1, <4>2 DEF Announced
    <3> QED
      BY <3>3, <3>4, <3>5
  <2>4. \A v \in Workers, s \in Scopes, u \in Tenants : Pending(v, s, u) => Pending(v, s, u)'
    BY <2>1, <2>2, EnqueueKeeps
  <2>5. \A v \in Workers, s \in Scopes, u \in Tenants : Coming(v, s, u) => Coming(v, s, u)'
    BY <1>1, <2>3, <2>4 DEF Coming, HandleNotify, thread
  <2>6. UNCHANGED <<store, digest, task, snap, pc>>
    BY <1>1 DEF HandleNotify, data, thread
  <2> QED
    BY <2>5, <2>6, KeepsForget
<1>2. CASE Reconnect(w) \/ ConnectionLost(w)
  <2>1. listening[w] /\ started[w] = 1 /\ MaxThreads = 1
    BY Listening DEF Calm
  <2> QED
    BY <1>2, <2>1 DEF Reconnect, ConnectionLost
<1>3. ASSUME NEW t \in Provided, CatchUp(w, t) PROVE ForgetInv'
  <2>1. Enqueue(w, Missing(t), t) /\ Missing(t) \in SUBSET Scopes /\ t \in Accounts
    BY <1>3, CortexAssumption, ProvidedIsAccount DEF CatchUp, Missing
  <2>2. \A v \in Workers, s \in Scopes, u \in Tenants : Pending(v, s, u) => Pending(v, s, u)'
    BY <2>1, EnqueueKeeps
  <2>3. \A v \in Workers, s \in Scopes, u \in Tenants : Coming(v, s, u) => Coming(v, s, u)'
    BY <1>3, <2>2 DEF Coming, Announced, CatchUp, link, thread
  <2> QED
    BY <1>3, <2>3, KeepsForget DEF CatchUp, data, thread
<1> QED
  BY <1>1, <1>2, <1>3 DEF Listen

LEMMA PopForget ==
  ASSUME Calm, CortexInv, ForgetInv, NEW th \in Threads, Pop(th)
  PROVE  ForgetInv'
<1> DEFINE w == th[1]
<1>1. w \in Workers /\ th = <<w, 1>>
  BY OneThread
<1>2. PICK ripe \in SUBSET pending[w] :
        /\ todo' = [todo EXCEPT ![th] = {<<s, owner[w][s]>> : s \in ripe}]
        /\ pending' = [pending EXCEPT ![w] = pending[w] \ ripe]
        /\ owner' = [owner EXCEPT ![w] =
                       [s \in Scopes |-> IF s \in ripe THEN NoTenant ELSE owner[w][s]]]
  BY DEF Pop
<1>3. todo[th] = {} /\ UNCHANGED <<data, link, task, snap, pc>>
  BY DEF Pop
<1> HIDE DEF w
<1>4. ASSUME NEW v \in Workers, NEW s \in Scopes, NEW u \in Tenants, Coming(v, s, u)
      PROVE  Coming(v, s, u)'
  <2>1. CASE Announced(v, s, u)
    BY <2>1, <1>3 DEF Coming, Announced, link
  <2>2. CASE v # w
    <3>1. <<v, 1>> # th
      BY <1>1, <2>2
    <3>2. /\ todo'[<<v, 1>>] = todo[<<v, 1>>]
          /\ pending'[v] = pending[v] /\ owner'[v] = owner[v]
      BY <1>2, <2>2, <3>1, OneThread DEF CortexInv, TypeOK
    <3> QED
      BY <1>3, <1>4, <3>2 DEF Coming, Announced, Pending, link
  <2>3. CASE v = w /\ Pending(v, s, u) /\ s \in ripe
    <3>1. <<s, u>> \in todo'[<<v, 1>>]
      BY <1>1, <1>2, <2>3 DEF Pending, CortexInv, TypeOK
    <3> QED
      BY <3>1 DEF Coming
  <2>4. CASE v = w /\ Pending(v, s, u) /\ s \notin ripe
    BY <1>1, <1>2, <2>4 DEF Coming, Pending, CortexInv, TypeOK
  <2> QED
    BY <1>1, <1>3, <1>4, <2>1, <2>2, <2>3, <2>4 DEF Coming
<1> QED
  BY <1>3, <1>4, KeepsForget DEF data

LEMMA BeginForget ==
  ASSUME Calm, CortexInv, ForgetInv, NEW th \in Threads, Begin(th)
  PROVE  ForgetInv'
<1>1. PICK u \in todo[th] :
        /\ todo' = [todo EXCEPT ![th] = todo[th] \ {u}]
        /\ pc' = [pc EXCEPT ![th] = "read"] /\ task' = [task EXCEPT ![th] = u]
  BY DEF Begin, Skipped, Calm, Goto
<1>2. pc[th] = "idle" /\ UNCHANGED <<data, link, queue, snap>>
  BY DEF Begin
<1>3. ASSUME NEW v \in Workers, NEW s \in Scopes, NEW t \in Tenants, Coming(v, s, t)
      PROVE  Coming(v, s, t)' \/ (th = <<v, 1>> /\ u = <<s, t>>)
  <2>1. CASE Announced(v, s, t) \/ Pending(v, s, t)
    BY <2>1, <1>2 DEF Coming, Announced, Pending, link, queue
  <2>2. CASE <<s, t>> \in todo[<<v, 1>>]
    <3>1. th # <<v, 1>> \/ <<s, t>> # u => <<s, t>> \in todo'[<<v, 1>>]
      BY <2>2, <1>1, OneThread DEF CortexInv, TypeOK
    <3> QED
      BY <3>1 DEF Coming
  <2> QED
    BY <1>3, <2>1, <2>2 DEF Coming
<1>r. ASSUME NEW v \in Workers, NEW s \in Scopes, NEW t \in Tenants,
             th = <<v, 1>>, u = <<s, t>>
      PROVE  Reading(v, s, t)'
  <2>1. pc'[th] = "read" /\ task'[th] = <<s, t>>
    BY <1>1, <1>r DEF CortexInv, TypeOK
  <2> QED
    BY <2>1, <1>r DEF Reading
<1>4. ASSUME NEW v \in Workers, NEW s \in Scopes, NEW t \in Tenants, Reading(v, s, t)
      PROVE  Reading(v, s, t)'
  <2>1. th # <<v, 1>>
    BY <1>2, <1>4 DEF Reading
  <2>2. pc'[<<v, 1>>] = pc[<<v, 1>>] /\ task'[<<v, 1>>] = task[<<v, 1>>]
    BY <1>1, <2>1, OneThread DEF CortexInv, TypeOK
  <2> QED
    BY <1>2, <1>4, <2>2 DEF Reading, data
<1>5. Unforgotten'
  BY <1>2, <1>3, <1>r, <1>4 DEF ForgetInv, Unforgotten, Due, Behind, data
<1>6. StaleIsComing'
  <2> SUFFICES ASSUME NEW v \in Workers, NEW s \in Scopes, NEW t \in Tenants,
                      pc'[<<v, 1>>] = "upsert", task'[<<v, 1>>] = <<s, t>>,
                      snap'[<<v, 1>>] # store'[t][s]
               PROVE  Coming(v, s, t)'
    BY DEF StaleIsComing
  <2>1. th # <<v, 1>>
    BY <1>1 DEF CortexInv, TypeOK
  <2>2. pc'[<<v, 1>>] = pc[<<v, 1>>] /\ task'[<<v, 1>>] = task[<<v, 1>>]
    BY <1>1, <2>1, OneThread DEF CortexInv, TypeOK
  <2>3. Coming(v, s, t)
    BY <1>2, <2>2 DEF ForgetInv, StaleIsComing, data
  <2> QED
    BY <1>3, <2>1, <2>3
<1> QED
  BY <1>5, <1>6 DEF ForgetInv

\* A thread past its queue: the scopes coming stay where they are.
LEMMA ComingStays ==
  ASSUME UNCHANGED <<link, queue, todo>>
  PROVE  \A v \in Workers, s \in Scopes, t \in Tenants : Coming(v, s, t)' <=> Coming(v, s, t)
BY DEF Coming, Announced, Pending, link, queue

LEMMA ReadForget ==
  ASSUME Calm, CortexInv, ForgetInv, NEW th \in Threads, Read(th)
  PROVE  ForgetInv'
<1>1. /\ snap' = [snap EXCEPT ![th] = Entries(task[th][1], task[th][2])]
      /\ pc' = [pc EXCEPT ![th] = "upsert"] /\ task' = [task EXCEPT ![th] = task[th]]
      /\ pc[th] = "read" /\ UNCHANGED <<data, link, queue, todo>>
  BY DEF Read, Goto
<1>2. \A s \in Scopes, t \in Tenants :
        task'[th] = <<s, t>> => pc'[th] = "upsert" /\ snap'[th] = store'[t][s]
  BY <1>1, OneTenant DEF CortexInv, TypeOK, data
<1>3. \A o \in Threads \ {th} :
        snap'[o] = snap[o] /\ pc'[o] = pc[o] /\ task'[o] = task[o]
  BY <1>1 DEF CortexInv, TypeOK
<1>4. task'[th] = task[th]
  BY <1>1 DEF CortexInv, TypeOK
<1>5. \A v \in Workers, s \in Scopes, t \in Tenants : Reading(v, s, t) => Reading(v, s, t)'
  BY <1>1, <1>2, <1>3, <1>4, OneThread DEF Reading, data
<1>6. Unforgotten'
  BY <1>1, <1>5, ComingStays DEF ForgetInv, Unforgotten, Due, Behind, data
<1>7. StaleIsComing'
  BY <1>1, <1>2, <1>3, OneThread, ComingStays DEF ForgetInv, StaleIsComing, data
<1> QED
  BY <1>6, <1>7 DEF ForgetInv

LEMMA UpsertForget ==
  ASSUME Calm, CortexInv, ForgetInv, NEW th \in Threads, Upsert(th)
  PROVE  ForgetInv'
<1>1. pc[th] = "upsert" /\ UNCHANGED <<store, snap, link, queue, todo>>
  BY DEF Upsert
<1>2. PICK s \in Scopes, t \in Accounts : task[th] = <<s, t>>
  BY <1>1 DEF CortexInv, TaskOK, Updates
<1>3. \/ snap[th] = 0 /\ digest' = digest
      \/ digest' = [digest EXCEPT ![t][s] = Rows(s, t, snap[th])]
  BY <1>2 DEF Upsert
<1>4. \A v \in Scopes, u \in Tenants :
        <<v, u>> # <<s, t>> => digest'[u][v] = digest[u][v]
  BY <1>3, OneTenant DEF CortexInv, TypeOK
<1>5. t \in Tenants /\ Behind(s, t)' => snap[th] # store[t][s]
  <2>1. ASSUME t \in Tenants, digest' = [digest EXCEPT ![t][s] = Rows(s, t, snap[th])]
        PROVE  digest'[t][s] = {snap[th]}
    BY <2>1, OneTenant DEF CortexInv, TypeOK
  <2> QED
    BY <1>1, <1>3, <2>1 DEF Behind, CortexInv, TypeOK
<1>6. th = <<th[1], 1>> /\ th[1] \in Workers
  BY OneThread
<1>7. /\ pc'[th] \in {"idle", "anchor"}
      /\ \A o \in Threads \ {th} : pc'[o] = pc[o] /\ task'[o] = task[o]
  BY DEF Upsert, Goto, CortexInv, TypeOK
<1>8. Unforgotten'
  <2> SUFFICES ASSUME NEW v \in Scopes, NEW u \in Tenants, Behind(v, u)'
               PROVE  \E w \in Workers : Due(w, v, u)'
    BY DEF Unforgotten
  <2>1. CASE <<v, u>> = <<s, t>>
    <3>1. t \in Tenants /\ snap[th] # store[t][s]
      BY <1>5, <2>1
    <3>2. Coming(th[1], s, t)
      BY <1>1, <1>2, <1>6, <3>1 DEF ForgetInv, StaleIsComing
    <3> QED
      BY <1>1, <1>6, <2>1, <3>1, <3>2, ComingStays DEF Due
  <2>2. CASE <<v, u>> # <<s, t>>
    <3>1. PICK w \in Workers : Due(w, v, u)
      BY <1>1, <1>4, <2>2 DEF ForgetInv, Unforgotten, Behind
    <3>2. Reading(w, v, u) => Reading(w, v, u)'
      <4>1. CASE <<w, 1>> = th
        BY <4>1, <1>2, <2>2 DEF Reading
      <4>2. CASE <<w, 1>> # th
        BY <4>2, <1>1, <1>7, OneThread DEF Reading
      <4> QED
        BY <4>1, <4>2
    <3> QED
      BY <1>1, <3>1, <3>2, ComingStays DEF Due
  <2> QED
    BY <2>1, <2>2
<1>9. StaleIsComing'
  <2> SUFFICES ASSUME NEW w \in Workers, NEW v \in Scopes, NEW u \in Tenants,
                      pc'[<<w, 1>>] = "upsert", task'[<<w, 1>>] = <<v, u>>,
                      snap'[<<w, 1>>] # store'[u][v]
               PROVE  Coming(w, v, u)'
    BY DEF StaleIsComing
  <2>1. <<w, 1>> # th
    BY <1>7
  <2>2. Coming(w, v, u)
    BY <1>1, <1>7, <2>1, OneThread DEF ForgetInv, StaleIsComing
  <2> QED
    BY <1>1, <2>2, ComingStays
<1> QED
  BY <1>8, <1>9 DEF ForgetInv

LEMMA AnchorForget ==
  ASSUME Calm, CortexInv, ForgetInv, NEW th \in Threads, Anchor(th)
  PROVE  ForgetInv'
<1>1. /\ snap' = [snap EXCEPT ![th] = 0]
      /\ pc' = [pc EXCEPT ![th] = "idle"] /\ task' = [task EXCEPT ![th] = NoTask]
      /\ pc[th] = "anchor" /\ UNCHANGED <<data, link, queue, todo>>
  BY DEF Anchor, Goto
<1>2. \A o \in Threads \ {th} :
        snap'[o] = snap[o] /\ pc'[o] = pc[o] /\ task'[o] = task[o]
  BY <1>1 DEF CortexInv, TypeOK
<1>3. pc'[th] = "idle"
  BY <1>1 DEF CortexInv, TypeOK
<1>4. \A v \in Workers, s \in Scopes, t \in Tenants : Reading(v, s, t) => Reading(v, s, t)'
  BY <1>1, <1>2, OneThread DEF Reading, data
<1>5. Unforgotten'
  BY <1>1, <1>4, ComingStays DEF ForgetInv, Unforgotten, Due, Behind, data
<1>6. StaleIsComing'
  BY <1>1, <1>2, <1>3, OneThread, ComingStays DEF ForgetInv, StaleIsComing, data
<1> QED
  BY <1>5, <1>6 DEF ForgetInv

LEMMA StepForget ==
  ASSUME Calm, CortexInv, ForgetInv, [Next]_vars
  PROVE  ForgetInv'
<1>1. ASSUME NEW th \in Threads, Fail(th) PROVE ForgetInv'
  BY <1>1 DEF Fail, Calm, CortexInv, TypeOK
<1>2. ASSUME NEW th \in Threads, Recompile(th) PROVE ForgetInv'
  BY <1>2, PopForget, BeginForget, ReadForget, UpsertForget, AnchorForget DEF Recompile
<1>3. CASE UNCHANGED vars
  BY <1>3, KeepsForget
     DEF vars, data, link, queue, thread, Coming, Announced, Pending
<1> QED
  BY <1>1, <1>2, <1>3, WriteForget, WriteFileForget, WorkerForget DEF Next

\* No write is forgotten: while the digest of a scope is behind its entries,
\* an announcement, a pending or popped scope, or a compilation of the newest
\* entries is left for some worker, although workers overwrite each other's
\* digests in any order.
THEOREM NoWriteIsForgotten ==
  ASSUME Calm
  PROVE  Spec => []NothingForgotten
<1>1. Init => ForgetInv
  BY InitForget
<1>2. CortexInv /\ ForgetInv /\ [Next]_vars => ForgetInv'
  BY StepForget
<1>3. ForgetInv => NothingForgotten
  BY DueIsAhead, OneTenant DEF ForgetInv, Unforgotten, NothingForgotten
<1> QED
  BY <1>1, <1>2, <1>3, CortexInvariant, PTL DEF Spec

=============================================================================
