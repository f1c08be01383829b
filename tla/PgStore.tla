------------------------------- MODULE PgStore -------------------------------
(***************************************************************************)
(* The table of memory entries in Postgres: one row per version of a key   *)
(* on a branch, live until something supersedes it.  Writes, outcomes,     *)
(* merges and rollbacks are READ COMMITTED transactions: every statement   *)
(* sees what was committed before it, a row lock is held to the end, and a *)
(* statement that had to wait looks again only at the rows it had found.   *)
(* The unique constraint on versions binds rows of an account: in a store  *)
(* with no tenants account_id is NULL, and NULLs never collide.            *)
(*                                                                         *)
(* Row i is rows[i].  Each branch is cut from main.  A value is a claim;   *)
(* credit is the evidence a row carries, as the claims whose outcomes      *)
(* reached it.                                                             *)
(***************************************************************************)
EXTENDS Integers, Sequences, FiniteSets

CONSTANTS
  Keys, Claims,
  Main,        \* the branch "main"
  Branches,    \* the other branches
  Clients,     \* connections of the pool
  Tenanted,    \* rows have an account_id
  Strategies,  \* MergeStrategy: "ff", "branch", "main"
  MaxRows,     \* bound: rows of the table when an operation begins
  MaxClock     \* bound: times told apart

AllBranches == Branches \cup {Main}

ASSUME PgAssumption ==
  /\ Main \notin Branches
  /\ Tenanted \in BOOLEAN
  /\ MaxRows \in Nat /\ MaxClock \in Nat

VARIABLES
  rows,    \* amfs_memory_entries, as committed
  cut,     \* cut[b]: the row of b in amfs_branches
  clock,   \* now
  pc,      \* program point of each client
  job,     \* the operation each client is in
  want,    \* want[c]: the live rows a locking statement of c has found
  cur,     \* cur[c]: the row c works from, or NoRow
  held,    \* held[c]: the rows c has locked
  stage,   \* stage[c]: what the transaction of c has changed
  todo,    \* todo[c]: what is left of the loop of a merge or a rollback
  clash    \* clash[c]: the merge has met a conflict

client == <<pc, job>>
locks == <<want, cur, held>>
loop == <<stage, todo, clash>>
vars == <<rows, cut, clock, client, locks, loop>>

NoRow == 0

Row == [branch : AllBranches, key : Keys, ver : Nat, claim : Claims,
        at : Nat, live : BOOLEAN, credit : SUBSET Claims]

Nothing == [off |-> {}, on |-> {}, new |-> <<>>]

NoJob == [op |-> "none"]

-----------------------------------------------------------------------------
(* Reading the table, as it is or as the transaction of c sees it.         *)

On(t, b, k) == {i \in DOMAIN t : t[i].branch = b /\ t[i].key = k}

Live(t, b, k) == {i \in On(t, b, k) : t[i].live}

\* ORDER BY version DESC LIMIT 1: any of the rows that tie.
Newest(t, S) ==
  IF S = {} THEN {NoRow} ELSE {i \in S : \A j \in S : t[j].ver <= t[i].ver}

HasRecord(b) == b # Main /\ cut[b].status # "none"

\* read: the branch's own live row, else the live row of the parent.
Answers(b, k) ==
  IF Live(rows, b, k) = {} /\ HasRecord(b) THEN Newest(rows, Live(rows, Main, k))
  ELSE Newest(rows, Live(rows, b, k))

NextVersion(t, i) == IF i = NoRow THEN 1 ELSE t[i].ver + 1

\* SELECT COALESCE(MAX(version), 0) + 1.
AfterAll(t, b, k) ==
  IF On(t, b, k) = {} THEN 1
  ELSE NextVersion(t, CHOOSE i \in On(t, b, k) : i \in Newest(t, On(t, b, k)))

\* UPDATE superseded_at, UPDATE superseded_at = NULL and INSERT.
Applied(t, s) ==
  [i \in 1 .. Len(t) |-> [t[i] EXCEPT !.live = (t[i].live /\ i \notin s.off) \/ i \in s.on]]
  \o s.new

Seen(c) == Applied(rows, stage[c])

\* Mutant of Taken: the constraint was never added.
TakenNever(t, r) == FALSE

\* uq_entry_version would refuse row r.
Taken(t, r) == Tenanted /\ \E i \in On(t, r.branch, r.key) : t[i].ver = r.ver

LockedByOther(c, i) == \E d \in Clients \ {c} : i \in held[d]

-----------------------------------------------------------------------------
(* Control.                                                                *)

Goto(c, point) == pc' = [pc EXCEPT ![c] = point]

\* The transaction is over and its locks are gone.
Release(c) ==
  /\ want' = [want EXCEPT ![c] = {}]
  /\ cur' = [cur EXCEPT ![c] = NoRow]
  /\ held' = [held EXCEPT ![c] = {}]
  /\ stage' = [stage EXCEPT ![c] = Nothing]
  /\ todo' = [todo EXCEPT ![c] = {}]
  /\ clash' = [clash EXCEPT ![c] = FALSE]

Return(c) == Goto(c, "idle") /\ job' = [job EXCEPT ![c] = NoJob] /\ Release(c)

\* A write of the HTTP server that fails, or seems to, is tried again through
\* the engine; any other operation raises.
Fail(c) ==
  IF job[c].op = "write" /\ job[c].hot
  THEN /\ Goto(c, "read")
       /\ job' = [job EXCEPT ![c].hot = FALSE]
       /\ Release(c)
  ELSE Return(c)

Inserting == {c \in Clients : job[c].op \in {"write", "outcome", "merge"}}

Room == Len(rows) + Cardinality(Inserting) < MaxRows

Start(c, point, j) ==
  /\ pc[c] = "idle"
  /\ Room \/ j.op = "rollback"
  /\ Goto(c, point)
  /\ job' = [job EXCEPT ![c] = j]
  /\ UNCHANGED <<rows, cut, clock>>

-----------------------------------------------------------------------------
(* write.                                                                  *)

\* CoWEngine.write reads the key, and states the version after that.
Read(j, r) == [j EXCEPT !.base = r, !.expect = NextVersion(rows, r), !.at = clock]

\* A write of the HTTP server states its value as version 1 and starts with
\* SELECT ... FOR UPDATE; one through the engine starts with its read.
BeginWrite(c) ==
  \E b \in AllBranches, k \in Keys, v \in Claims, hot \in BOOLEAN :
    LET j == [op |-> "write", branch |-> b, key |-> k, claim |-> v, at |-> clock,
              hot |-> hot, expect |-> 1, base |-> NoRow]
    IN  /\ IF hot THEN Start(c, "lock", j)
           ELSE \E r \in Answers(b, k) : Start(c, "select", Read(j, r))
        /\ want' = [want EXCEPT ![c] = IF hot THEN Live(rows, b, k) ELSE {}]
        /\ UNCHANGED <<cur, held, loop>>

\* The same after a write of the HTTP server has failed.
ReadAgain(c) ==
  /\ pc[c] = "read"
  /\ \E r \in Answers(job[c].branch, job[c].key) : job' = [job EXCEPT ![c] = Read(job[c], r)]
  /\ Goto(c, "select")
  /\ UNCHANGED <<rows, cut, clock, locks, loop>>

\* SELECT ... FOR UPDATE: the rows its snapshot holds.
Select(c) ==
  /\ pc[c] = "select"
  /\ want' = [want EXCEPT ![c] = Live(rows, job[c].branch, job[c].key)]
  /\ Goto(c, "lock")
  /\ UNCHANGED <<rows, cut, clock, job, cur, held, loop>>

\* ... and the first of them that is still live, once nobody else holds it.
\* A row superseded while the statement waited is passed over, and the one
\* that superseded it is not in the snapshot.
LockRow(c) ==
  /\ pc[c] = "lock"
  /\ \E r \in Newest(rows, {i \in want[c] : rows[i].live}) :
       /\ r # NoRow => ~LockedByOther(c, r)
       /\ cur' = [cur EXCEPT ![c] = r]
       /\ held' = [held EXCEPT ![c] = {r} \ {NoRow}]
       /\ Goto(c, IF r = NoRow /\ job[c].branch # Main THEN "parent" ELSE "store")
  /\ UNCHANGED <<rows, cut, clock, job, want, loop>>

\* _parent_live_row, a baseline that is not locked.
ReadParent(c) ==
  /\ pc[c] = "parent"
  /\ \E r \in IF HasRecord(job[c].branch) THEN Newest(rows, Live(rows, Main, job[c].key))
              ELSE {NoRow} :
       cur' = [cur EXCEPT ![c] = r]
  /\ Goto(c, "store")
  /\ UNCHANGED <<rows, cut, clock, job, want, held, loop>>

\* Mutant of Stated: a new claim starts with the record of the old one.
StatedWithRecord(j, r) ==
  [branch |-> j.branch, key |-> j.key, ver |-> NextVersion(rows, r), claim |-> j.claim,
   at |-> j.at, live |-> TRUE, credit |-> IF r # NoRow THEN rows[r].credit ELSE {}]

\* inherit_evidence: the same claim keeps its evidence, another has none.
Stated(j, r) ==
  [branch |-> j.branch, key |-> j.key, ver |-> NextVersion(rows, r), claim |-> j.claim,
   at |-> j.at, live |-> TRUE,
   credit |-> IF r # NoRow /\ rows[r].claim = j.claim THEN rows[r].credit ELSE {}]

\* Mutant of Conflict: only a first version is checked.
ConflictOnFirst(j, r) == j.expect = 1 /\ j.expect # NextVersion(rows, r)

Conflict(j, r) == j.expect > 1 /\ j.expect # NextVersion(rows, r)

\* The conflict check, UPDATE of every live row if there was one to lock, and
\* INSERT.  The connection may be lost with the answer to the commit.
Store(c) ==
  LET j   == job[c]
      r   == cur[c]
      old == IF r \in held[c] THEN Live(rows, j.branch, j.key) ELSE {}
  IN  /\ pc[c] = "store"
      /\ \/ /\ Conflict(j, r)
            /\ Return(c)
            /\ UNCHANGED rows
         \/ /\ ~Conflict(j, r)
            /\ \A i \in old : ~LockedByOther(c, i)
            /\ IF Taken(rows, Stated(j, r))
               THEN Fail(c) /\ UNCHANGED rows
               ELSE /\ rows' = Applied(rows, [off |-> old, on |-> {}, new |-> <<Stated(j, r)>>])
                    /\ Return(c) \/ (Room /\ Fail(c))
      /\ UNCHANGED <<cut, clock>>

-----------------------------------------------------------------------------
(* commit_outcome: an outcome about a row the agent has read, carried out  *)
(* by the trigger on amfs_outcomes, which looks at no branch.              *)

BeginOutcome(c) ==
  \E b \in AllBranches, k \in Keys :
    \E r \in Answers(b, k) \ {NoRow} :
      /\ Start(c, "pick", [op |-> "outcome", branch |-> b, key |-> k, base |-> r,
                           cite |-> rows[r].ver, claim |-> rows[r].claim])
      /\ UNCHANGED <<locks, loop>>

LiveAnywhere(k) == {i \in DOMAIN rows : rows[i].key = k /\ rows[i].live}

Versioned(k, v) == {i \in DOMAIN rows : rows[i].key = k /\ rows[i].ver = v}

\* Credit the claim that was read: row r says the same as some row of the
\* version cited, or is that version, or there is no such row.
StillHeld(j, r) ==
  \/ rows[r].ver = j.cite
  \/ Versioned(j.key, j.cite) = {}
  \/ \E i \in Versioned(j.key, j.cite) : rows[i].claim = rows[r].claim

Rewritten(j, r) ==
  /\ rows[r].ver # j.cite
  /\ \E i \in Versioned(j.key, j.cite) : rows[i].claim # rows[r].claim

PickRow(c) ==
  /\ pc[c] = "pick"
  /\ \E r \in Newest(rows, LiveAnywhere(job[c].key)) :
       \/ /\ IF r = NoRow THEN TRUE ELSE Rewritten(job[c], r)
          /\ Return(c)
       \/ /\ r # NoRow /\ StillHeld(job[c], r)
          /\ cur' = [cur EXCEPT ![c] = r]
          /\ Goto(c, "apply")
          /\ UNCHANGED <<job, want, held, loop>>
  /\ UNCHANGED <<rows, cut, clock>>

Credited(r, claim) ==
  [rows[r] EXCEPT !.ver = rows[r].ver + 1, !.live = TRUE,
                  !.credit = rows[r].credit \cup {claim}]

\* UPDATE by id, whatever the row has become since, and INSERT of its copy.
Apply(c) ==
  LET copy == Credited(cur[c], job[c].claim)
  IN  /\ pc[c] = "apply"
      /\ ~LockedByOther(c, cur[c])
      /\ IF Taken(rows, copy) THEN UNCHANGED rows
         ELSE rows' = Applied(rows, [off |-> {cur[c]}, on |-> {}, new |-> <<copy>>])
      /\ Return(c)
      /\ UNCHANGED <<cut, clock>>

-----------------------------------------------------------------------------
(* create_branch, close_branch, merge_branch and fork_agent.               *)

CreateBranch(b) ==
  /\ cut[b].status = "none"
  /\ cut' = [cut EXCEPT ![b] = [status |-> "active", at |-> clock]]
  /\ UNCHANGED <<rows, clock, client, locks, loop>>

Merging(b) == {c \in Clients : pc[c] \in {"entry", "put"} /\ job[c].branch = b}

\* The UPDATE waits for a merge, which holds the row of its branch.
CloseBranch(b) ==
  /\ cut[b].status \notin {"none", "closed"} /\ Merging(b) = {}
  /\ cut' = [cut EXCEPT ![b].status = "closed"]
  /\ UNCHANGED <<rows, clock, client, locks, loop>>

LiveOf(b) == {i \in DOMAIN rows : rows[i].branch = b /\ rows[i].live}

\* The live rows of the branch, each with a live row of main if there is one.
Pairs(b) ==
  {p \in LiveOf(b) \X (LiveOf(Main) \cup {NoRow}) :
     IF p[2] = NoRow THEN Live(rows, Main, rows[p[1]].key) = {}
     ELSE rows[p[2]].key = rows[p[1]].key}

BeginMerge(c) ==
  \E b \in Branches, s \in Strategies :
    /\ cut[b].status = "active" /\ Merging(b) = {}
    /\ Start(c, "entry", [op |-> "merge", branch |-> b, strategy |-> s,
                          pair |-> <<NoRow, NoRow>>])
    /\ todo' = [todo EXCEPT ![c] = Pairs(b)]
    /\ UNCHANGED <<locks, stage, clash>>

MainChanged(c, k) ==
  \E i \in Live(Seen(c), Main, k) : Seen(c)[i].at > cut[job[c].branch].at

\* One turn of the loop, up to the decision: a key changed on both sides is
\* a conflict, or left as main has it, or taken from the branch.
Entry(c) ==
  /\ pc[c] = "entry"
  /\ \E p \in todo[c] :
       LET changed == p[2] # NoRow /\ MainChanged(c, rows[p[1]].key)
       IN  /\ todo' = [todo EXCEPT ![c] = todo[c] \ {p}]
           /\ IF changed /\ job[c].strategy # "branch"
              THEN /\ clash' = [clash EXCEPT ![c] = clash[c] \/ job[c].strategy = "ff"]
                   /\ UNCHANGED client
              ELSE /\ job' = [job EXCEPT ![c].pair = p]
                   /\ Goto(c, "put")
                   /\ UNCHANGED clash
  /\ UNCHANGED <<rows, cut, clock, locks, stage>>

\* Mutant of Put: a row of the branch that supersedes nothing keeps its version.
PutAsIs(c) ==
  LET be   == rows[job[c].pair[1]]
      off  == {job[c].pair[2]} \ {NoRow}
      copy == [be EXCEPT !.branch = Main, !.credit = {},
                         !.ver = IF off = {} THEN be.ver ELSE AfterAll(Seen(c), Main, be.key)]
  IN  /\ pc[c] = "put"
      /\ \A i \in off : ~LockedByOther(c, i)
      /\ held' = [held EXCEPT ![c] = held[c] \cup off]
      /\ stage' = [stage EXCEPT ![c].off = stage[c].off \cup off,
                                ![c].new = Append(stage[c].new, copy)]
      /\ Goto(c, "entry")
      /\ UNCHANGED <<rows, cut, clock, job, want, cur, todo, clash>>

\* The rest of the turn: UPDATE of the row of main by id, and INSERT of the
\* branch's row after every version main has.  The evidence is not copied.
Put(c) ==
  LET be   == rows[job[c].pair[1]]
      off  == {job[c].pair[2]} \ {NoRow}
      copy == [be EXCEPT !.branch = Main, !.ver = AfterAll(Seen(c), Main, be.key),
                         !.credit = {}]
  IN  /\ pc[c] = "put"
      /\ \A i \in off : ~LockedByOther(c, i)
      /\ held' = [held EXCEPT ![c] = held[c] \cup off]
      /\ stage' = [stage EXCEPT ![c].off = stage[c].off \cup off,
                                ![c].new = Append(stage[c].new, copy)]
      /\ Goto(c, "entry")
      /\ UNCHANGED <<rows, cut, clock, job, want, cur, todo, clash>>

Refused(c) == \E n \in DOMAIN stage[c].new : Taken(rows, stage[c].new[n])

\* With conflicts the branch stays active, and what was merged stays merged.
CommitMerge(c) ==
  /\ pc[c] = "entry" /\ todo[c] = {}
  /\ IF Refused(c) THEN UNCHANGED <<rows, cut>>
     ELSE /\ rows' = Seen(c)
          /\ cut' = IF clash[c] THEN cut ELSE [cut EXCEPT ![job[c].branch].status = "merged"]
  /\ Return(c)
  /\ UNCHANGED <<clock>>

Forked(i) == [rows[i] EXCEPT !.branch = Main, !.ver = 1, !.at = clock, !.credit = {}]

\* fork_agent: the live rows of a branch become version 1 on main, where
\* there is no version 1 yet (ON CONFLICT DO NOTHING).
Fork ==
  \E b \in AllBranches :
    \E S \in SUBSET {i \in LiveOf(b) : ~Taken(rows, Forked(i))} :
      \E order \in [1 .. Cardinality(S) -> S] :
        /\ Room /\ S # {} /\ S = {order[n] : n \in DOMAIN order}
        /\ \A i \in LiveOf(b) :
             \/ i \in S
             \/ Taken(rows, Forked(i))
             \/ Tenanted /\ \E j \in S : rows[j].key = rows[i].key
        /\ Tenanted => \A i, j \in S : rows[i].key = rows[j].key => i = j
        /\ rows' = rows \o [n \in DOMAIN order |-> Forked(order[n])]
        /\ UNCHANGED <<cut, clock, client, locks, loop>>

-----------------------------------------------------------------------------
(* rollback_to_timestamp.                                                  *)

BeginRollback(c) ==
  \E b \in AllBranches, t \in 0 .. MaxClock :
    LET since == {k \in Keys : \E i \in Live(rows, b, k) : rows[i].at > t}
    IN  /\ t < clock /\ since # {}
        /\ Start(c, "revert", [op |-> "rollback", branch |-> b, to |-> t, key |-> NoRow])
        /\ todo' = [todo EXCEPT ![c] = since]
        /\ UNCHANGED <<locks, stage, clash>>

\* UPDATE superseded_at of a key: the rows its snapshot holds.
Revert(c) ==
  /\ pc[c] = "revert"
  /\ \E k \in todo[c] :
       /\ job' = [job EXCEPT ![c].key = k]
       /\ want' = [want EXCEPT ![c] = Live(rows, job[c].branch, k)]
       /\ todo' = [todo EXCEPT ![c] = todo[c] \ {k}]
  /\ Goto(c, "restore")
  /\ UNCHANGED <<rows, cut, clock, cur, held, stage, clash>>

\* Those of them still live are superseded, and the last version written by
\* then is live again.
Restore(c) ==
  LET j   == job[c]
      off == {i \in want[c] : rows[i].live}
  IN  /\ pc[c] = "restore"
      /\ \E r \in Newest(rows, {i \in On(rows, j.branch, j.key) : rows[i].at <= j.to}) :
           LET on == {r} \ {NoRow}
           IN  /\ \A i \in off \cup on : ~LockedByOther(c, i)
               /\ held' = [held EXCEPT ![c] = held[c] \cup off \cup on]
               /\ stage' = [stage EXCEPT ![c].off = stage[c].off \cup off,
                                         ![c].on = stage[c].on \cup on]
      /\ Goto(c, "revert")
      /\ UNCHANGED <<rows, cut, clock, job, want, cur, todo, clash>>

CommitRollback(c) ==
  /\ pc[c] = "revert" /\ todo[c] = {}
  /\ rows' = Seen(c)
  /\ Return(c)
  /\ UNCHANGED <<cut, clock>>

-----------------------------------------------------------------------------
(* Time, and transactions that end otherwise.                              *)

Tick ==
  /\ clock < MaxClock
  /\ clock' = clock + 1
  /\ UNCHANGED <<rows, cut, client, locks, loop>>

\* The connection is lost, or the deadlock detector picks c, before the
\* transaction commits.
Lose(c) ==
  /\ pc[c] # "idle"
  /\ Fail(c)
  /\ UNCHANGED <<rows, cut, clock>>

-----------------------------------------------------------------------------

Init ==
  /\ rows = <<>>
  /\ cut = [b \in Branches |-> [status |-> "none", at |-> 0]]
  /\ clock = 0
  /\ pc = [c \in Clients |-> "idle"]
  /\ job = [c \in Clients |-> NoJob]
  /\ want = [c \in Clients |-> {}]
  /\ cur = [c \in Clients |-> NoRow]
  /\ held = [c \in Clients |-> {}]
  /\ stage = [c \in Clients |-> Nothing]
  /\ todo = [c \in Clients |-> {}]
  /\ clash = [c \in Clients |-> FALSE]

Begin(c) == BeginWrite(c) \/ BeginOutcome(c) \/ BeginMerge(c) \/ BeginRollback(c)

Step(c) ==
  \/ ReadAgain(c) \/ Select(c) \/ LockRow(c) \/ ReadParent(c) \/ Store(c)
  \/ PickRow(c) \/ Apply(c)
  \/ Entry(c) \/ Put(c) \/ CommitMerge(c)
  \/ Revert(c) \/ Restore(c) \/ CommitRollback(c)

Next ==
  \/ \E c \in Clients : Begin(c) \/ Step(c) \/ Lose(c)
  \/ \E b \in Branches : CreateBranch(b) \/ CloseBranch(b)
  \/ Fork
  \/ Tick

Spec == Init /\ [][Next]_vars

-----------------------------------------------------------------------------
(* Properties.                                                             *)

Points == {"idle", "read", "select", "lock", "parent", "store", "pick", "apply",
           "entry", "put", "revert", "restore"}

\* Everything has its type.
TypeOK ==
  /\ \A i \in DOMAIN rows : rows[i] \in Row
  /\ cut \in [Branches -> [status : {"none", "active", "closed", "merged"}, at : Nat]]
  /\ clock \in 0 .. MaxClock
  /\ pc \in [Clients -> Points]
  /\ \A c \in Clients :
       /\ held[c] \subseteq DOMAIN rows /\ want[c] \subseteq DOMAIN rows
       /\ cur[c] \in DOMAIN rows \cup {NoRow}
       /\ \A n \in DOMAIN stage[c].new : stage[c].new[n] \in Row

\* On main the versions of a key are 1, 2, ... with no gap and no repetition,
\* whatever writes, outcomes, merges, forks and rollbacks come in between.
MainDense ==
  \A k \in Keys : \A i \in On(rows, Main, k) :
    /\ \A j \in On(rows, Main, k) : rows[i].ver = rows[j].ver => i = j
    /\ rows[i].ver = 1 \/ \E j \in On(rows, Main, k) : rows[j].ver + 1 = rows[i].ver

\* Client c writes, and is told that it has.
Wrote(c) == pc[c] = "store" /\ pc'[c] = "idle" /\ rows' # rows

\* A write to main that is acknowledged is what the next reader finds.
WriteIsRead ==
  [][\A c \in Clients, k \in Keys :
       Wrote(c) /\ job[c].branch = Main /\ job[c].key = k =>
         Answers(Main, k)' = {Len(rows')}]_vars

\* A write through the engine that is acknowledged supersedes the very row
\* its author had read, if there was one.
ReadWritesExtend ==
  [][\A c \in Clients :
       Wrote(c) /\ job[c].branch = Main /\ ~job[c].hot /\ job[c].base # NoRow =>
         cur[c] = job[c].base]_vars

\* A row of a key no branch has written carries the credit of no other claim.
CreditIsEarned ==
  \A i \in DOMAIN rows :
    (\A b \in Branches : On(rows, b, rows[i].key) = {}) => rows[i].credit \subseteq {rows[i].claim}

-----------------------------------------------------------------------------
(* Broken by the code: see the README.                                     *)

\* An outcome changes the branch whose row was read and no other.
OutcomeStaysOnItsBranch ==
  [][\A c \in Clients :
       pc[c] = "apply" /\ rows' # rows => rows[cur[c]].branch = rows[job[c].base].branch]_vars

\* A write to a branch that is acknowledged is what the next reader finds.
BranchWriteIsRead ==
  [][\A c \in Clients, b \in Branches, k \in Keys :
       Wrote(c) /\ job[c].branch = b /\ job[c].key = k => Answers(b, k)' = {Len(rows')}]_vars

=============================================================================
