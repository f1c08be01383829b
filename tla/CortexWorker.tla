----------------------------- MODULE CortexWorker -----------------------------
(***************************************************************************)
(* The Cortex keeps one digest per tenant and scope.  Postgres announces   *)
(* every write to each listening worker; the worker marks the scope        *)
(* pending, and after the debounce a recompile thread reads the tenant's   *)
(* entries and upserts the digest.  A catch-up scan queues the scopes that *)
(* have entries and no digest.  A worker whose connection is lost connects *)
(* again and starts a recompile thread more; the old one goes on.          *)
(*                                                                         *)
(* Entries are abstracted to their number of writes: a digest is the       *)
(* number it was compiled from, a fingerprint the number and the tenant.   *)
(* A write touches an entity scope and an agent scope; each is announced   *)
(* here by a message of its own, because the handler takes the lock for    *)
(* each.  A code file stored in an entity scope is announced like any      *)
(* write, but its entity digest is compiled from the other entries only.   *)
(* A write may come without an account: row security shows its entries to  *)
(* nobody, unless the store has no tenants at all (Tenants = {}).          *)
(***************************************************************************)
EXTENDS Integers, Sequences, FiniteSets

CONSTANTS
  Tenants,      \* accounts; none in a store without tenants
  Scopes,       \* "entity:<path>@<branch>" and "agent:<id>@<branch>"
  Scanned,      \* those the scan lists: on the compiler's own branch, and not
                \* the agent scope of a webhook or an external author
  Workers,      \* embedded workers, none of them on standby
  Drift,        \* drift_threshold > 0
  MaxThreads,   \* bound: recompile threads of one worker, so connections
  MaxWrites,    \* bound: writes of one tenant to one scope
  MaxLoose,     \* bound: writes without an account to one scope
  Filed,        \* bound: <<entity scope, account>> that gets a code file, once
  MaxFailures,  \* bound: compilations and fingerprints that raise
  NoTenant,     \* no account
  NoTask        \* a thread between scopes

Threads == Workers \X (1 .. MaxThreads)

Accounts == Tenants \cup {NoTenant}

Updates == Scopes \X Accounts

\* tenant_provider: the accounts the scan goes through.
Provided == IF Tenants = {} THEN {NoTenant} ELSE Tenants

ASSUME CortexAssumption ==
  /\ Drift \in BOOLEAN
  /\ MaxThreads \in Nat \ {0} /\ {MaxWrites, MaxLoose, MaxFailures} \subseteq Nat
  /\ Scanned \subseteq Scopes /\ Filed \subseteq Updates
  /\ NoTenant \notin Tenants /\ NoTask \notin Updates

VARIABLES
  store,      \* store[t][s]: writes of account t to scope s
  files,      \* files[t][s]: whether t has stored a code file in s
  digest,     \* digest[t][s]: the writes each of its digest rows was compiled from
  wire,       \* wire[w]: announcements on their way to worker w
  listening,  \* listening[w]: its LISTEN connection is up
  started,    \* started[w]: recompile threads started so far
  pending,    \* pending[w]: _pending, the scopes waiting for the debounce
  owner,      \* owner[w][s]: _scope_tenant
  heard,      \* history: the accounts that queued s with w since it was last popped
  anchor,     \* anchor[w][s]: _anchor_fingerprints
  todo,       \* todo[th]: scopes popped and not begun
  task,       \* task[th]: the scope being compiled
  snap,       \* snap[th]: the entries its strategy has read
  pc,         \* program point of each recompile thread
  failures    \* compilations and fingerprints that raised so far

data == <<store, files, digest>>
link == <<wire, listening, started>>
queue == <<pending, owner, heard>>
thread == <<todo, task, snap, pc>>
vars == <<data, link, queue, anchor, thread, failures>>

\* Row security: without an account a store with tenants shows nothing.
Visible(t) == t # NoTenant \/ Tenants = {}

\* What a strategy reads of a scope, stored code files left out.
Entries(s, t) == IF Visible(t) THEN store[t][s] ELSE 0

Fingerprint(s, t) == <<t, Entries(s, t), Visible(t) /\ files[t][s]>>

-----------------------------------------------------------------------------
(* A write to the memory, and its announcement.                            *)

Announce(s, t) ==
  /\ wire' = [w \in Workers |->
                IF listening[w] THEN Append(wire[w], <<s, t>>) ELSE wire[w]]
  /\ UNCHANGED <<digest, listening, started, queue, anchor, thread, failures>>

Write(s, t) ==
  /\ store[t][s] < (IF t = NoTenant THEN MaxLoose ELSE MaxWrites)
  /\ store' = [store EXCEPT ![t][s] = store[t][s] + 1]
  /\ UNCHANGED files
  /\ Announce(s, t)

WriteFile(s, t) ==
  /\ <<s, t>> \in Filed /\ ~files[t][s]
  /\ files' = [files EXCEPT ![t][s] = TRUE]
  /\ UNCHANGED store
  /\ Announce(s, t)

-----------------------------------------------------------------------------
(* The worker's own thread.                                                *)

\* Mutant of Enqueue: the tenant is noted without the test that there is one.
EnqueueBlindly(w, ss, t) ==
  /\ pending' = [pending EXCEPT ![w] = pending[w] \cup ss]
  /\ owner' = [owner EXCEPT ![w] = [s \in Scopes |-> IF s \in ss THEN t ELSE owner[w][s]]]
  /\ heard' = [heard EXCEPT ![w] =
                 [s \in Scopes |-> heard[w][s] \cup (IF s \in ss THEN {t} ELSE {})]]

\* Under the lock: the scopes are pending; an event that names a tenant has
\* them compiled for it, one that names none leaves the tenant as it is.
Enqueue(w, ss, t) ==
  /\ pending' = [pending EXCEPT ![w] = pending[w] \cup ss]
  /\ owner' = [owner EXCEPT ![w] =
                 [s \in Scopes |-> IF s \in ss /\ t # NoTenant THEN t ELSE owner[w][s]]]
  /\ heard' = [heard EXCEPT ![w] =
                 [s \in Scopes |-> heard[w][s] \cup (IF s \in ss THEN {t} ELSE {})]]

\* Mutant of HandleNotify: a scope that has a digest is not queued again.
HandleFirstNotify(w) ==
  /\ wire[w] # <<>>
  /\ LET s == Head(wire[w])[1]
         t == Head(wire[w])[2]
     IN  IF digest[t][s] = {} THEN Enqueue(w, {s}, t) ELSE UNCHANGED queue
  /\ wire' = [wire EXCEPT ![w] = Tail(wire[w])]
  /\ UNCHANGED <<data, listening, started, anchor, thread, failures>>

\* _handle_notify.
HandleNotify(w) ==
  /\ wire[w] # <<>>
  /\ LET s == Head(wire[w])[1]
         t == Head(wire[w])[2]
     IN  Enqueue(w, {s}, t)
  /\ wire' = [wire EXCEPT ![w] = Tail(wire[w])]
  /\ UNCHANGED <<data, listening, started, anchor, thread, failures>>

\* The connection drops; what was announced on it is gone.
ConnectionLost(w) ==
  /\ listening[w] /\ started[w] < MaxThreads
  /\ listening' = [listening EXCEPT ![w] = FALSE]
  /\ wire' = [wire EXCEPT ![w] = <<>>]
  /\ UNCHANGED <<data, started, queue, anchor, thread, failures>>

\* _run_once again, with a recompile thread of its own.
Reconnect(w) ==
  /\ ~listening[w]
  /\ listening' = [listening EXCEPT ![w] = TRUE]
  /\ started' = [started EXCEPT ![w] = started[w] + 1]
  /\ UNCHANGED <<data, wire, queue, anchor, thread, failures>>

\* _catchup_for_current_tenant: the scopes it lists that have no digest at all.
Missing(t) == {s \in Scanned : (store[t][s] > 0 \/ files[t][s]) /\ digest[t][s] = {}}

\* Mutant of CatchUp: no scan (catchup_interval_s <= 0).
CatchUpNever(w, t) == FALSE /\ UNCHANGED vars

CatchUp(w, t) ==
  /\ listening[w] /\ Missing(t) # {}
  /\ Enqueue(w, Missing(t), t)
  /\ UNCHANGED <<data, link, anchor, thread, failures>>

-----------------------------------------------------------------------------
(* A recompile thread: _recompile_pending.                                 *)

Alive(th) == th[2] <= started[th[1]]

\* Under the lock: the scopes whose debounce is over leave the queue with
\* their tenants.
Pop(th) ==
  LET w == th[1]
  IN  /\ Alive(th) /\ pc[th] = "idle" /\ todo[th] = {}
      /\ \E ripe \in SUBSET pending[w] :
           /\ ripe # {}
           /\ todo' = [todo EXCEPT ![th] = {<<s, owner[w][s]>> : s \in ripe}]
           /\ pending' = [pending EXCEPT ![w] = pending[w] \ ripe]
           /\ owner' = [owner EXCEPT ![w] =
                          [s \in Scopes |-> IF s \in ripe THEN NoTenant ELSE owner[w][s]]]
           /\ heard' = [heard EXCEPT ![w] =
                          [s \in Scopes |-> IF s \in ripe THEN {} ELSE heard[w][s]]]
      /\ UNCHANGED <<data, link, anchor, task, snap, pc, failures>>

Goto(th, point, u) ==
  /\ pc' = [pc EXCEPT ![th] = point]
  /\ task' = [task EXCEPT ![th] = u]

\* The drift gate: an unchanged fingerprint skips the scope, one that raises
\* does not.
Skipped(w, u) == Drift /\ anchor[w][u[1]] = Fingerprint(u[1], u[2])

Begin(th) ==
  /\ pc[th] = "idle"
  /\ \E u \in todo[th] :
       /\ todo' = [todo EXCEPT ![th] = todo[th] \ {u}]
       /\ \/ Skipped(th[1], u) /\ UNCHANGED <<pc, task, failures>>
          \/ ~Skipped(th[1], u) /\ Goto(th, "read", u) /\ UNCHANGED failures
          \/ /\ Skipped(th[1], u) /\ failures < MaxFailures
             /\ failures' = failures + 1
             /\ Goto(th, "read", u)
  /\ UNCHANGED <<data, link, queue, anchor, snap>>

\* The strategy reads the tenant's entries.
Read(th) ==
  /\ pc[th] = "read"
  /\ snap' = [snap EXCEPT ![th] = Entries(task[th][1], task[th][2])]
  /\ Goto(th, "upsert", task[th])
  /\ UNCHANGED <<data, link, queue, anchor, todo, failures>>

\* upsert_digest: a tenant has one row for a scope.  ON CONFLICT never matches
\* a row without an account, so every compilation of such a scope adds one.
Rows(s, t, n) == IF t = NoTenant THEN digest[t][s] \cup {n} ELSE {n}

\* Mutant of Upsert: the scope leaves the queue once compiled, not before.
UpsertClearing(th) ==
  /\ pc[th] = "upsert"
  /\ LET s == task[th][1]
         t == task[th][2]
     IN  /\ digest' = [digest EXCEPT ![t][s] = IF snap[th] = 0 THEN @ ELSE Rows(s, t, snap[th])]
         /\ pending' = [pending EXCEPT ![th[1]] = pending[th[1]] \ {s}]
         /\ owner' = [owner EXCEPT ![th[1]][s] = NoTenant]
         /\ heard' = [heard EXCEPT ![th[1]][s] = {}]
  /\ IF snap[th] = 0 THEN Goto(th, "idle", NoTask) ELSE Goto(th, "anchor", task[th])
  /\ UNCHANGED <<store, files, link, anchor, todo, snap, failures>>

\* The compiler upserts what it computed, whatever is there by now.  Where the
\* strategy found no entries there is no digest, and no anchor.
Upsert(th) ==
  /\ pc[th] = "upsert"
  /\ \/ /\ snap[th] = 0
        /\ Goto(th, "idle", NoTask)
        /\ UNCHANGED digest
     \/ /\ snap[th] > 0
        /\ LET s == task[th][1]
               t == task[th][2]
           IN  digest' = [digest EXCEPT ![t][s] = Rows(s, t, snap[th])]
        /\ Goto(th, "anchor", task[th])
  /\ UNCHANGED <<store, files, link, queue, anchor, todo, snap, failures>>

\* The fingerprint is taken of the entries as they are after the compile.
Anchor(th) ==
  /\ pc[th] = "anchor"
  /\ anchor' = [anchor EXCEPT ![th[1]][task[th][1]] = Fingerprint(task[th][1], task[th][2])]
  /\ snap' = [snap EXCEPT ![th] = 0]
  /\ Goto(th, "idle", NoTask)
  /\ UNCHANGED <<data, link, queue, todo, failures>>

\* The read or the upsert raises: logged, and the scope is not queued again.
\* The fingerprint raises: there is none, and the anchor stays what it was.
Fail(th) ==
  /\ pc[th] # "idle" /\ failures < MaxFailures
  /\ failures' = failures + 1
  /\ snap' = [snap EXCEPT ![th] = 0]
  /\ Goto(th, "idle", NoTask)
  /\ UNCHANGED <<data, link, queue, anchor, todo>>

Init ==
  /\ store = [t \in Accounts |-> [s \in Scopes |-> 0]]
  /\ files = [t \in Accounts |-> [s \in Scopes |-> FALSE]]
  /\ digest = [t \in Accounts |-> [s \in Scopes |-> {}]]
  /\ wire = [w \in Workers |-> <<>>]
  /\ listening = [w \in Workers |-> TRUE]
  /\ started = [w \in Workers |-> 1]
  /\ pending = [w \in Workers |-> {}]
  /\ owner = [w \in Workers |-> [s \in Scopes |-> NoTenant]]
  /\ heard = [w \in Workers |-> [s \in Scopes |-> {}]]
  /\ anchor = [w \in Workers |-> [s \in Scopes |-> <<>>]]
  /\ todo = [th \in Threads |-> {}]
  /\ task = [th \in Threads |-> NoTask]
  /\ snap = [th \in Threads |-> 0]
  /\ pc = [th \in Threads |-> "idle"]
  /\ failures = 0

Listen(w) == HandleNotify(w) \/ Reconnect(w)

Recompile(th) == Pop(th) \/ Begin(th) \/ Read(th) \/ Upsert(th) \/ Anchor(th)

Next ==
  \/ \E s \in Scopes, t \in Accounts : Write(s, t)
  \/ \E s \in Scopes, t \in Provided : WriteFile(s, t)
  \/ \E w \in Workers : Listen(w) \/ ConnectionLost(w) \/ \E t \in Provided : CatchUp(w, t)
  \/ \E th \in Threads : Recompile(th) \/ Fail(th)

Spec == Init /\ [][Next]_vars

\* Threads are scheduled, a lost connection is tried again, and the scan
\* comes round every catchup_interval_s.
Fairness ==
  /\ \A w \in Workers : WF_vars(Listen(w)) /\ \A t \in Provided : WF_vars(CatchUp(w, t))
  /\ \A th \in Threads : WF_vars(Recompile(th))

FairSpec == Spec /\ Fairness

-----------------------------------------------------------------------------
(* Properties.                                                             *)

Fingerprints == {<<>>} \cup (Accounts \X Nat \X BOOLEAN)

TypeOK ==
  /\ store \in [Accounts -> [Scopes -> Nat]]
  /\ files \in [Accounts -> [Scopes -> BOOLEAN]]
  /\ digest \in [Accounts -> [Scopes -> SUBSET Nat]]
  /\ wire \in [Workers -> Seq(Updates)]
  /\ listening \in [Workers -> BOOLEAN]
  /\ started \in [Workers -> 1 .. MaxThreads]
  /\ pending \in [Workers -> SUBSET Scopes]
  /\ owner \in [Workers -> [Scopes -> Accounts]]
  /\ heard \in [Workers -> [Scopes -> SUBSET Accounts]]
  /\ anchor \in [Workers -> [Scopes -> Fingerprints]]
  /\ todo \in [Threads -> SUBSET Updates]
  /\ task \in [Threads -> Updates \cup {NoTask}]
  /\ snap \in [Threads -> Nat]
  /\ pc \in [Threads -> {"idle", "read", "upsert", "anchor"}]
  /\ failures \in 0 .. MaxFailures

\* Worker w still has the last write of t to s ahead of it.
Ahead(w, s, t) ==
  \/ \E i \in 1 .. Len(wire[w]) : wire[w][i] = <<s, t>>
  \/ s \in pending[w] /\ owner[w][s] = t
  \/ \E th \in Threads :
       /\ th[1] = w
       /\ \/ <<s, t>> \in todo[th]
          \/ task[th] = <<s, t>> /\ pc[th] = "read"
          \/ task[th] = <<s, t>> /\ pc[th] = "upsert" /\ snap[th] = store[t][s]

\* The digest of s is not the one its entries compile to.
Behind(s, t) == store[t][s] > 0 /\ digest[t][s] # {store[t][s]}

\* No write is forgotten: a digest behind its entries has a worker that will
\* still compile it, even when a slower worker has just put an older digest
\* over a newer one.
NothingForgotten ==
  \A s \in Scopes, t \in Provided : Behind(s, t) => \E w \in Workers : Ahead(w, s, t)

\* A scope waits for the debounce exactly as long as somebody has asked for it
\* since it was last taken, and for a tenant that asked since then: never for
\* the tenant of an earlier compilation, and for no tenant only when no tenant
\* asked.
QueuedForItsTenant ==
  \A w \in Workers, s \in Scopes :
    /\ s \in pending[w] <=> heard[w][s] # {}
    /\ owner[w][s] # NoTenant => owner[w][s] \in heard[w][s]
    /\ owner[w][s] = NoTenant => heard[w][s] \subseteq {NoTenant}

\* A digest reflects every write in the end.
DigestsCatchUp ==
  \A s \in Scopes, t \in Provided : Behind(s, t) ~> ~Behind(s, t)

\* A tenant that has nothing but code files in a scope is listed by every scan
\* and never has a digest.
FilesOnly(s, t) == files[t][s] /\ store[t][s] = 0

\* A scope the scan lists and somebody wrote to gets a digest in the end, for
\* every tenant that shares its name, even if its announcements are lost, its
\* compilation raises, or it was first compiled when it held code files only
\* or for no tenant: the catch-up scan sees to it.  It may not where another
\* tenant of that name has code files only: each scan queues the scope for both
\* and the last one named has it.
MissingDigestAppears ==
  \A s \in Scanned, t \in Provided :
    store[t][s] > 0 ~> digest[t][s] # {} \/ \E u \in Provided : FilesOnly(s, u)

-----------------------------------------------------------------------------
(* Broken by the code: see the README.                                     *)

\* The skips of the drift gate are redundant: the digest is what a
\* compilation would make it.
SkipsAreRedundant ==
  \A th \in Threads : \A u \in todo[th] :
    pc[th] = "idle" /\ Skipped(th[1], u) => ~Behind(u[1], u[2])

\* Every scanned scope gets its digest, whatever other tenants store in a scope
\* of its name.
DigestAppearsEver ==
  \A s \in Scanned, t \in Provided : store[t][s] > 0 ~> digest[t][s] # {}

=============================================================================
