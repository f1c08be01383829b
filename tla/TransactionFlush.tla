--------------------------- MODULE TransactionFlush ---------------------------
(***************************************************************************)
(* Transactions over the filesystem adapter.  A buffer of pending writes   *)
(* is flushed as one commit: the current version of every key is read      *)
(* without a lock, the batch takes the locks of all its keys in the order  *)
(* of their names, renames its files into place, lets the locks go, and    *)
(* only then looks for its parent and saves the commit.  Any number of     *)
(* processes flush at once, and a process may die anywhere.                *)
(*                                                                         *)
(* A key is its rank in the order of the names, a commit id its rank in    *)
(* the order of the ids.  Ids are random; Minted is what the random        *)
(* numbers will be.                                                        *)
(***************************************************************************)
EXTENDS Integers, Sequences, FiniteSets

CONSTANTS
  Agents,      \* processes
  Keys,        \* <entity_path, key>, by rank
  Minted,      \* commit ids in the order they are minted; bounds the flushes
  Buffers,     \* the sequences of keys a transaction may buffer
  MaxCrashes,  \* bound: processes that die
  NoFile, NoAgent, NoCommit

Ids == {Minted[i] : i \in DOMAIN Minted}

ASSUME FlushAssumption ==
  /\ IsFiniteSet(Agents)
  /\ Keys \subseteq Nat
  /\ Minted \in Seq(Nat) /\ Cardinality(Ids) = Len(Minted)
  /\ Buffers \subseteq Seq(Keys) \ {<<>>}
  /\ MaxCrashes \in Nat
  /\ NoAgent \notin Agents /\ NoCommit \notin Ids
  /\ NoFile \notin [v : Nat, commit : Ids \cup {NoCommit}, base : Nat]

VARIABLES
  cur,      \* cur[k]: the live file of a key
  past,     \* past[k]: its superseded files, by version
  lock,     \* lock[k]: the process with the flock of a key
  pc,       \* program point of each process
  id,       \* commit_id of its flush
  done,     \* positions of the buffer locked, then written
  base,     \* versions read, one for each position so far
  num,      \* the version being written or opened
  head,     \* the commit listed as newest
  stamp,    \* created_at of the commit made
  raised,   \* an exception is on its way out
  plan,     \* plan[c]: the buffer flushed as c, or <<>>
  commits,  \* commits[c]: the commit file
  clock,    \* the wall clock, in ticks
  torn,     \* history: keys a process died on between two renames
  crashes   \* processes that died so far

files == <<cur, past>>
flush == <<id, done, base, num, head, stamp, raised>>
bounds == <<torn, crashes>>
vars == <<files, lock, pc, flush, plan, commits, clock, bounds>>

Buffer(a) == plan[id[a]]

\* Mutant of First: the order of the buffer.
FirstBuffered(t, S) == CHOOSE i \in S : \A j \in S : i <= j

\* The first of the positions S of a buffer, sorted by key.
First(t, S) == CHOOSE i \in S : \A j \in S : t[i] < t[j] \/ (t[i] = t[j] /\ i <= j)

Position(a) == First(Buffer(a), DOMAIN Buffer(a) \ done[a])
Wanted(a) == Buffer(a)[Position(a)]
Held(a) == {k \in Keys : lock[k] = a}

Return(a) ==
  /\ pc' = [pc EXCEPT ![a] = "idle"]
  /\ id' = [id EXCEPT ![a] = NoCommit]
  /\ done' = [done EXCEPT ![a] = {}]
  /\ base' = [base EXCEPT ![a] = <<>>]
  /\ num' = [num EXCEPT ![a] = 0]
  /\ head' = [head EXCEPT ![a] = NoCommit]
  /\ stamp' = [stamp EXCEPT ![a] = 0]
  /\ raised' = [raised EXCEPT ![a] = FALSE]

Goto(a, point) == pc' = [pc EXCEPT ![a] = point]

-----------------------------------------------------------------------------
(* TransactionBuffer.flush: what the buffer's keys hold now.               *)

Begin(a) ==
  /\ pc[a] = "idle"
  /\ \E t \in Buffers, i \in DOMAIN Minted :
       /\ plan[Minted[i]] = <<>> /\ \A j \in 1 .. i - 1 : plan[Minted[j]] # <<>>
       /\ plan' = [plan EXCEPT ![Minted[i]] = t]
       /\ id' = [id EXCEPT ![a] = Minted[i]]
  /\ Goto(a, "read")
  /\ UNCHANGED <<files, lock, done, base, num, head, stamp, raised, commits, clock, bounds>>

\* The version the next pending write is built on, 0 for none.
Note(a, v) ==
  /\ base' = [base EXCEPT ![a] = Append(base[a], v)]
  /\ Goto(a, IF Len(base[a]) + 1 = Len(Buffer(a)) THEN "lock" ELSE "read")

Reading(a) == Buffer(a)[Len(base[a]) + 1]

\* adapter.read finds the live file, if there is one at this moment.
Locate(a) ==
  /\ pc[a] = "read"
  /\ IF cur[Reading(a)] = NoFile
     THEN Note(a, 0) /\ UNCHANGED num
     ELSE /\ num' = [num EXCEPT ![a] = cur[Reading(a)].v]
          /\ Goto(a, "open") /\ UNCHANGED base
  /\ UNCHANGED <<files, lock, id, done, head, stamp, raised, plan, commits, clock, bounds>>

\* It opens the file, which may have been renamed since.
Open(a) ==
  /\ pc[a] = "open"
  /\ IF cur[Reading(a)] # NoFile /\ cur[Reading(a)].v = num[a]
     THEN Note(a, num[a]) /\ UNCHANGED <<id, done, num, head, stamp, raised>>
     ELSE Return(a)
  /\ UNCHANGED <<files, lock, plan, commits, clock, bounds>>

-----------------------------------------------------------------------------
(* FilesystemAdapter.write_batch.                                          *)

\* Mutant of Acquire: nobody waits for a lock.
AcquireBarging(a) ==
  /\ pc[a] = "lock"
  /\ lock' = [lock EXCEPT ![Wanted(a)] = a]
  /\ LET held == done[a] \cup {Position(a)}
     IN  IF held = DOMAIN Buffer(a)
         THEN done' = [done EXCEPT ![a] = {}] /\ Goto(a, "supersede")
         ELSE done' = [done EXCEPT ![a] = held] /\ UNCHANGED pc
  /\ UNCHANGED <<files, id, base, num, head, stamp, raised, plan, commits, clock, bounds>>

\* The locks are taken in the order of the keys' names.
Acquire(a) ==
  /\ pc[a] = "lock" /\ lock[Wanted(a)] = NoAgent
  /\ lock' = [lock EXCEPT ![Wanted(a)] = a]
  /\ LET held == done[a] \cup {Position(a)}
     IN  IF held = DOMAIN Buffer(a)
         THEN done' = [done EXCEPT ![a] = {}] /\ Goto(a, "supersede")
         ELSE done' = [done EXCEPT ![a] = held] /\ UNCHANGED pc
  /\ UNCHANGED <<files, id, base, num, head, stamp, raised, plan, commits, clock, bounds>>

\* Mutant of LockTimeout: the keys locked so far are written.
LockTimeoutPartial(a) ==
  /\ pc[a] = "lock" /\ lock[Wanted(a)] # NoAgent
  /\ IF Held(a) = {}
     THEN Return(a)
     ELSE /\ done' = [done EXCEPT ![a] = DOMAIN Buffer(a) \ done[a]]
          /\ Goto(a, "supersede") /\ UNCHANGED <<id, base, num, head, stamp, raised>>
  /\ UNCHANGED <<files, lock, plan, commits, clock, bounds>>

\* Mutant of LockTimeout: the exception is lost on the way.
LockTimeoutSwallowed(a) ==
  /\ pc[a] = "lock" /\ lock[Wanted(a)] # NoAgent
  /\ IF Held(a) = {}
     THEN Return(a)
     ELSE Goto(a, "release") /\ UNCHANGED flush
  /\ UNCHANGED <<files, lock, plan, commits, clock, bounds>>

\* A lock not free in time: the locks taken go back and the flush raises.
\* The holder may be this very batch, when two of its writes share a key.
LockTimeout(a) ==
  /\ pc[a] = "lock" /\ lock[Wanted(a)] # NoAgent
  /\ IF Held(a) = {}
     THEN Return(a)
     ELSE /\ raised' = [raised EXCEPT ![a] = TRUE]
          /\ Goto(a, "release") /\ UNCHANGED <<id, done, base, num, head, stamp>>
  /\ UNCHANGED <<files, lock, plan, commits, clock, bounds>>

\* The next key in order: its live file is renamed away, if it has one.
\* The version the entry was given when it was read plays no part.
Supersede(a) ==
  /\ pc[a] = "supersede"
  /\ LET k == Wanted(a)
         old == cur[k]
     IN  IF old = NoFile
         THEN num' = [num EXCEPT ![a] = 1] /\ UNCHANGED files
         ELSE /\ num' = [num EXCEPT ![a] = old.v + 1]
              /\ past' = [past EXCEPT ![k][old.v] = old]
              /\ cur' = [cur EXCEPT ![k] = NoFile]
  /\ Goto(a, "publish")
  /\ UNCHANGED <<lock, id, done, base, head, stamp, raised, plan, commits, clock, bounds>>

\* The new file is renamed into place.
Publish(a) ==
  /\ pc[a] = "publish"
  /\ cur' = [cur EXCEPT ![Wanted(a)] =
               [v |-> num[a], commit |-> id[a], base |-> base[a][Position(a)]]]
  /\ done' = [done EXCEPT ![a] = done[a] \cup {Position(a)}]
  /\ Goto(a, IF done'[a] = DOMAIN Buffer(a) THEN "release" ELSE "supersede")
  /\ UNCHANGED <<past, lock, id, base, num, head, stamp, raised, plan, commits, clock, bounds>>

\* The locks go in the reverse of their order, one at a time.
Release(a) ==
  /\ pc[a] = "release"
  /\ \E k \in Held(a) :
       /\ \A j \in Held(a) : j <= k
       /\ lock' = [lock EXCEPT ![k] = NoAgent]
       /\ IF Held(a) # {k}
          THEN UNCHANGED <<pc, flush>>
          ELSE IF raised[a] THEN Return(a) ELSE Goto(a, "list") /\ UNCHANGED flush
  /\ UNCHANGED <<files, plan, commits, clock, bounds>>

-----------------------------------------------------------------------------
(* The commit.                                                             *)

Saved == {c \in Ids : commits[c] # NoCommit}

Newer(c, d) ==
  \/ commits[c].made > commits[d].made
  \/ commits[c].made = commits[d].made /\ c >= d

\* list_commits(limit=1), newest first, the id breaking ties; the directory
\* is read in one step.
ListCommits(a) ==
  /\ pc[a] = "list"
  /\ head' = [head EXCEPT ![a] =
                IF Saved = {} THEN NoCommit ELSE CHOOSE c \in Saved : \A d \in Saved : Newer(c, d)]
  /\ Goto(a, "stamp")
  /\ UNCHANGED <<files, lock, id, done, base, num, stamp, raised, plan, commits, clock, bounds>>

\* Commit(...): the clock may have ticked since the last one.
Stamp(a) ==
  /\ pc[a] = "stamp"
  /\ clock' \in {clock, clock + 1}
  /\ stamp' = [stamp EXCEPT ![a] = clock']
  /\ Goto(a, "save")
  /\ UNCHANGED <<files, lock, id, done, base, num, head, raised, plan, commits, bounds>>

\* save_commit; the buffer is cleared.  The commit names the versions that
\* followed the ones read.
SaveCommit(a) ==
  /\ pc[a] = "save"
  /\ commits' = [commits EXCEPT ![id[a]] =
       [entries |-> {<<Buffer(a)[i], base[a][i] + 1>> : i \in DOMAIN Buffer(a)},
        parent |-> head[a], made |-> stamp[a]]]
  /\ Return(a)
  /\ UNCHANGED <<files, lock, plan, clock, bounds>>

\* A process dies, or an I/O error ends its flush: its flocks go, its files
\* stay.
Crash(a) ==
  /\ pc[a] # "idle" /\ crashes < MaxCrashes
  /\ crashes' = crashes + 1
  /\ torn' = IF pc[a] = "publish" THEN torn \cup {Wanted(a)} ELSE torn
  /\ lock' = [k \in Keys |-> IF lock[k] = a THEN NoAgent ELSE lock[k]]
  /\ Return(a)
  /\ UNCHANGED <<files, plan, commits, clock>>

Init ==
  /\ cur = [k \in Keys |-> NoFile]
  /\ past = [k \in Keys |-> [v \in 1 .. Len(Minted) |-> NoFile]]
  /\ lock = [k \in Keys |-> NoAgent]
  /\ pc = [a \in Agents |-> "idle"]
  /\ id = [a \in Agents |-> NoCommit]
  /\ done = [a \in Agents |-> {}]
  /\ base = [a \in Agents |-> <<>>]
  /\ num = [a \in Agents |-> 0]
  /\ head = [a \in Agents |-> NoCommit]
  /\ stamp = [a \in Agents |-> 0]
  /\ raised = [a \in Agents |-> FALSE]
  /\ plan = [c \in Ids |-> <<>>]
  /\ commits = [c \in Ids |-> NoCommit]
  /\ clock = 0 /\ torn = {} /\ crashes = 0

Step(a) ==
  \/ Locate(a) \/ Open(a)
  \/ Acquire(a) \/ LockTimeout(a) \/ Supersede(a) \/ Publish(a) \/ Release(a)
  \/ ListCommits(a) \/ Stamp(a) \/ SaveCommit(a)

Next == \E a \in Agents : Begin(a) \/ Step(a) \/ Crash(a)

Spec == Init /\ [][Next]_vars

-----------------------------------------------------------------------------
(* dag.find_common_ancestor: two breadth-first walks, a step each in turn. *)

\* The parents of c that a walk has not visited: flushes name one at most.
Unvisited(c, visited) ==
  IF commits[c].parent \in visited \cup {NoCommit} THEN <<>> ELSE <<commits[c].parent>>

\* Mutant of Met: it looks among what waits to be visited.
MetWaiting(mine, other) ==
  /\ mine.queue # <<>>
  /\ \E i \in DOMAIN other.queue : other.queue[i] = Head(mine.queue)

\* The commit next in one walk was visited by the other.
Met(mine, other) == mine.queue # <<>> /\ Head(mine.queue) \in other.visited

\* A walk after visiting its next commit.
Visit(walk) ==
  LET c == Head(walk.queue)
      visited == walk.visited \cup {c}
  IN  IF walk.queue = <<>> THEN walk
      ELSE [visited |-> visited,
            queue |-> Tail(walk.queue)
                      \o IF c \in walk.visited THEN <<>> ELSE Unvisited(c, visited)]

Walk(c) == [visited |-> {}, queue |-> <<c>>]

Start(c, d) == [a |-> Walk(c), b |-> Walk(d), answer |-> IF c = d THEN c ELSE NoCommit]

\* A turn of the loop: the two walks, and the answer once there is one.
Turn(s) ==
  LET a == Visit(s.a)
  IN  IF s.answer # NoCommit THEN s
      ELSE IF Met(s.a, s.b) THEN [s EXCEPT !.answer = Head(s.a.queue)]
      ELSE IF Met(s.b, a) THEN [s EXCEPT !.answer = Head(s.b.queue)]
      ELSE [a |-> a, b |-> Visit(s.b), answer |-> NoCommit]

Search(c, d) ==
  LET turn[n \in Nat] == IF n = 0 THEN Start(c, d) ELSE Turn(turn[n - 1])
  IN  turn

\* Each walk visits a commit at most once and queues its one parent: the
\* queues are empty after as many turns as there are commits, and one.
FindCommonAncestor(c, d) == Search(c, d)[Len(Minted) + 1].answer

-----------------------------------------------------------------------------
(* Properties.                                                             *)

Versions == 1 .. Len(Minted)

WaitsFor(a, b) == pc[a] = "lock" /\ a # b /\ lock[Wanted(a)] = b

\* Batches never wait for each other in a circle, whatever the orders of
\* their buffers: in every group somebody waits for nobody of the group.
NoCircularWait ==
  \A group \in (SUBSET Agents) \ {{}} :
    \E a \in group : \A b \in group : ~WaitsFor(a, b)

FileOf(k, v) == IF cur[k] # NoFile /\ cur[k].v = v THEN cur[k] ELSE past[k][v]

IsOf(k, v, c) == FileOf(k, v) # NoFile /\ FileOf(k, v).commit = c

Landed(c, k) == \E v \in Versions : IsOf(k, v, c)

KeysOf(c) == {plan[c][i] : i \in DOMAIN plan[c]}

Writing(c) == \E a \in Agents : id[a] = c /\ pc[a] \in {"supersede", "publish"}

\* A flush that is not in the middle of its renames, because it has not
\* begun, has raised or is through, has written all its keys or none.
AllOrNothing ==
  crashes = 0 =>
    \A c \in Ids : \/ Writing(c)
                   \/ \A k \in KeysOf(c) : Landed(c, k)
                   \/ \A k \in KeysOf(c) : ~Landed(c, k)

\* Said of crashes too, it fails.
AllOrNothingEver ==
  \A c \in Ids : \/ Writing(c)
                 \/ \A k \in KeysOf(c) : Landed(c, k)
                 \/ \A k \in KeysOf(c) : ~Landed(c, k)

\* Version u of k is of commit c, a later version of commit d.
Precedes(c, d, k) ==
  \E u, v \in Versions : u < v /\ IsOf(k, u, c) /\ IsOf(k, v, d)

\* Two commits that share keys land in one order on all of them.
BatchesSerialise ==
  crashes = 0 =>
    \A c, d \in Ids : c <= d =>
      \A j, k \in KeysOf(c) \cap KeysOf(d) : Precedes(c, d, j) => ~Precedes(d, c, k)

\* A commit anybody can find has its entries in the store, even if its
\* process or another one dies; only on a key that another process has torn
\* may the history be gone.
SavedIsWhole ==
  \A c \in Saved : \A k \in KeysOf(c) \ torn : Landed(c, k)

\* A set of commits with the parents of all its members.
WithParents(S) == \A c \in S : commits[c].parent \in S \cup {NoCommit}

\* c and the commits it descends from.
Lineage(c) == {d \in Saved : \A S \in SUBSET Saved : c \in S /\ WithParents(S) => d \in S}

\* On the histories flushes make, however they fork, the search finds an
\* ancestor of both that descends from every other one, or that there is none.
CommonAncestorIsLatest ==
  \A c, d \in Saved :
    LET common == Lineage(c) \cap Lineage(d)
        found == FindCommonAncestor(c, d)
    IN  IF common = {} THEN found = NoCommit
        ELSE found \in common /\ common \subseteq Lineage(found)

\* The versions a commit lists are those its entries landed on.
CommitNamesItsVersions ==
  \A c \in Saved : \A e \in commits[c].entries : IsOf(e[1], e[2], c)

\* The commits form one chain.
HistoryIsLinear ==
  \A c, d \in Saved : c # d => commits[c].parent # commits[d].parent

=============================================================================
