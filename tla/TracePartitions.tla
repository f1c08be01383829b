--------------------------- MODULE TracePartitions ---------------------------
(***************************************************************************)
(* The table of decision traces, partitioned by month while it is in use.  *)
(* Every adapter that starts rebuilds a flat table once, creates the       *)
(* partitions of the months to come, moves what the DEFAULT partition      *)
(* holds into partitions of its own, and copies the parent's row security  *)
(* onto each; retention strips payloads and drops months.  Statements are  *)
(* READ COMMITTED, several of these run at once, and any of them may fail  *)
(* (a lock timeout, a lost connection, a process that dies), which rolls   *)
(* its open transaction back.                                              *)
(*                                                                         *)
(* Time is counted in half months: created_at falls in the first or the    *)
(* second half of its month, and so does a cutoff.  Partitions are sorted  *)
(* by name: DEFAULT, then the months.                                      *)
(***************************************************************************)
EXTENDS Integers, FiniteSets, FiniteSetsExt

CONSTANTS
  Traces, Policies,
  Upkeepers,  \* adapters that start
  Janitors,   \* retention jobs
  Ahead,      \* months_ahead
  Hot, Keep,  \* hot_days and drop_after_days
  MaxTime,    \* bound: the last half month
  MaxLoad     \* bound: traces written and policies there are, together

ASSUME PartitionAssumption ==
  /\ Upkeepers \cap Janitors = {}
  /\ Ahead \in Nat /\ Hot \in Nat /\ Keep \in Nat /\ {MaxTime, MaxLoad} \subseteq Nat

VARIABLES
  now,
  shape,     \* relkind of the table: "flat" or "parted"
  parts,     \* months that have a partition
  place,     \* place[t]: the partition that holds trace t, or one of the below
  created,   \* created_at of each trace
  stripped,  \* traces whose payload is gone
  policies,  \* row-security policies of the parent, enabled if there are any
  security,  \* security[p]: the same of partition p
  late,      \* history: late[u], what upkeeper u has come too early to see: rows
             \* of the month it moves since it copied them, policies of the flat
             \* table since it read them
  pc, job    \* of each upkeeper and janitor

rows == <<shape, parts, place, created>>
table == <<rows, late>>
vars == <<now, table, stripped, policies, security, pc, job>>

Default == -1
Flat == -2
Unwritten == -3
Removed == -4

Month(time) == time \div 2
From(m) == 2 * m
Until(m) == 2 * m + 2

Months == 0 .. Month(MaxTime) + Ahead
Partitions == Months \cup {Default}
Attached == parts \cup {Default}

In(p) == {t \in Traces : place[t] = p}
WaitingFor(m) == {t \in In(Default) : Month(created[t]) = m}

Written == {t \in Traces : place[t] # Unwritten}
Room == Cardinality(Written) + Cardinality(policies) < MaxLoad

Unscoped == [on |-> FALSE, has |-> {}]

NoJob == [todo |-> {}]

Goto(w, point) == pc' = [pc EXCEPT ![w] = point]

Return(w) == Goto(w, "idle") /\ job' = [job EXCEPT ![w] = NoJob]

Current(w) == Min(job[w].todo)

Left(w) == job[w].todo \ {Current(w)}

-----------------------------------------------------------------------------
(* save_trace: the row goes where its created_at belongs.                  *)

\* What is committed now is too late for the upkeepers of S.
TooLate(S, x) == late' = [u \in Upkeepers |-> late[u] \cup (IF u \in S THEN {x} ELSE {})]

Forget(w) == late' = [u \in Upkeepers |-> IF u = w THEN {} ELSE late[u]]

Moving(m) == {u \in Upkeepers : pc[u] = "delete" /\ Current(u) = m}

Write(t) ==
  \E c \in 0 .. now :
    LET p == IF shape = "flat" THEN Flat ELSE IF Month(c) \in parts THEN Month(c) ELSE Default
    IN  /\ place[t] = Unwritten /\ Room
        /\ TooLate(IF p = Default THEN Moving(Month(c)) ELSE {}, t)
        /\ place' = [place EXCEPT ![t] = p]
        /\ created' = [created EXCEPT ![t] = c]
        /\ UNCHANGED <<now, shape, parts, stripped, policies, security, pc, job>>

\* The tenant package scopes the table.
Protect(x) ==
  /\ x \notin policies /\ Room
  /\ TooLate({u \in Upkeepers : shape = "flat" /\ pc[u] = "rebuild"}, x)
  /\ policies' = policies \cup {x}
  /\ UNCHANGED <<now, rows, stripped, security, pc, job>>

-----------------------------------------------------------------------------
(* migrate_to_partitioned.                                                 *)

Start(u) ==
  /\ pc[u] = "idle"
  /\ Goto(u, IF shape = "flat" THEN "capture" ELSE "list")
  /\ UNCHANGED <<now, table, stripped, policies, security, job>>

\* _capture_extras, before the rename has locked the table.
Capture(u) ==
  /\ pc[u] = "capture"
  /\ Goto(u, "rebuild")
  /\ job' = [job EXCEPT ![u] = [todo |-> {}, extras |-> policies]]
  /\ Forget(u)
  /\ UNCHANGED <<now, rows, stripped, policies, security>>

\* Mutant of Rebuild: what the table has become meanwhile is not noticed.
RebuildAgain(u) ==
  /\ pc[u] = "rebuild"
  /\ shape' = "parted"
  /\ place' = [t \in Traces |-> IF place[t] = Flat THEN Month(created[t]) ELSE place[t]]
  /\ parts' = parts \cup {Month(created[t]) : t \in In(Flat)}
              \cup (Month(now) .. Month(now) + Ahead)
  /\ policies' = job[u].extras
  /\ Goto(u, "list")
  /\ Forget(u)
  /\ UNCHANGED <<now, created, stripped, security, job>>

\* From the rename, which locks the table, to COMMIT.  If another has rebuilt
\* it the partitions' names are taken, and this one fails.
Rebuild(u) ==
  LET held == {Month(created[t]) : t \in In(Flat)}
      from == Min(held \cup {IF held = {} THEN Month(now) ELSE Max(held)})
      to   == Max(held \cup {Month(now) + Ahead})
  IN  /\ pc[u] = "rebuild" /\ shape = "flat"
      /\ shape' = "parted"
      /\ parts' = from .. to
      /\ place' = [t \in Traces |-> IF place[t] = Flat THEN Month(created[t]) ELSE place[t]]
      /\ policies' = job[u].extras
      /\ Goto(u, "list")
      /\ Forget(u)
      /\ UNCHANGED <<now, created, stripped, security, job>>

-----------------------------------------------------------------------------
(* ensure_partitions.                                                      *)

\* list_partitions; there is nothing to do for a flat table.
List(u) ==
  /\ pc[u] = "list"
  /\ IF shape = "flat" THEN Return(u)
     ELSE Goto(u, "plan") /\ job' = [job EXCEPT ![u] = [todo |-> {}, existing |-> parts]]
  /\ UNCHANGED <<now, table, stripped, policies, security>>

Wanted ==
  (Month(now) .. Month(now) + Ahead) \cup {Month(created[t]) : t \in In(Default)}

Plan(u) ==
  /\ pc[u] = "plan"
  /\ Goto(u, "probe")
  /\ job' = [job EXCEPT ![u] = [todo |-> Wanted \ job[u].existing]]
  /\ UNCHANGED <<now, table, stripped, policies, security>>

\* _create_partition: does the default partition hold rows of the month?
Probe(u) ==
  /\ pc[u] = "probe" /\ job[u].todo # {}
  /\ Goto(u, IF WaitingFor(Current(u)) = {} THEN "create" ELSE "name")
  /\ UNCHANGED <<now, table, stripped, policies, security, job>>

\* Another transaction has created a table of that name.
NameTaken(u) ==
  \E v \in Upkeepers \ {u} :
    pc[v] \in {"copy", "delete", "attach"} /\ Current(v) = Current(u)

\* CREATE TABLE IF NOT EXISTS ... PARTITION OF, and COMMIT.
Create(u) ==
  /\ pc[u] = "create" /\ ~NameTaken(u)
  /\ Current(u) \in parts \/ WaitingFor(Current(u)) = {}
  /\ parts' = parts \cup {Current(u)}
  /\ Goto(u, "probe")
  /\ job' = [job EXCEPT ![u] = [todo |-> Left(u)]]
  /\ UNCHANGED <<now, shape, place, created, late, stripped, policies, security>>

\* CREATE TABLE ... (LIKE ...).
Name(u) ==
  /\ pc[u] = "name" /\ ~NameTaken(u)
  /\ Current(u) \notin parts
  /\ Goto(u, "copy")
  /\ UNCHANGED <<now, table, stripped, policies, security, job>>

\* Mutant of Copy: the last half of the month is not copied.
CopyShort(u) ==
  LET due == {t \in WaitingFor(Current(u)) : created[t] = From(Current(u))}
  IN  /\ pc[u] = "copy"
      /\ Goto(u, "delete")
      /\ job' = [job EXCEPT ![u] = [todo |-> @.todo, copied |-> due, bare |-> due \cap stripped,
                                    deleted |-> {}]]
      /\ Forget(u)
      /\ UNCHANGED <<now, rows, stripped, policies, security>>

\* INSERT ... SELECT, of the rows and payloads there are now.
Copy(u) ==
  LET due == WaitingFor(Current(u))
  IN  /\ pc[u] = "copy"
      /\ Goto(u, "delete")
      /\ job' = [job EXCEPT ![u] = [todo |-> @.todo, copied |-> due, bare |-> due \cap stripped,
                                    deleted |-> {}]]
      /\ Forget(u)
      /\ UNCHANGED <<now, rows, stripped, policies, security>>

\* DELETE, of the rows there are by now.
Delete(u) ==
  /\ pc[u] = "delete"
  /\ Goto(u, "attach")
  /\ job' = [job EXCEPT ![u].deleted = WaitingFor(Current(u))]
  /\ UNCHANGED <<now, table, stripped, policies, security>>

\* ATTACH PARTITION, refused while the default partition holds a row of the
\* month, and COMMIT.
Attach(u) ==
  LET j == job[u]
  IN  /\ pc[u] = "attach" /\ WaitingFor(Current(u)) \subseteq j.deleted
      /\ parts' = parts \cup {Current(u)}
      /\ place' = [t \in Traces |-> IF t \in j.copied THEN Current(u)
                                    ELSE IF t \in j.deleted THEN Removed ELSE place[t]]
      /\ stripped' = (stripped \ j.copied) \cup j.bare
      /\ Goto(u, "probe")
      /\ job' = [job EXCEPT ![u] = [todo |-> Left(u)]]
      /\ Forget(u)
      /\ UNCHANGED <<now, shape, created, policies, security>>

-----------------------------------------------------------------------------
(* sync_partition_rls, each statement on its own.                          *)

\* What it reads of the parent: its flags, its policies, its partitions.
Sync(u) ==
  /\ pc[u] = "probe" /\ job[u].todo = {}
  /\ IF policies = {} THEN Return(u)
     ELSE /\ Goto(u, "sync")
          /\ job' = [job EXCEPT ![u] = [todo |-> Attached, listed |-> Attached, want |-> policies]]
  /\ UNCHANGED <<now, table, stripped, policies, security>>

Visit(u) ==
  /\ pc[u] = "sync" /\ job[u].todo # {} /\ Current(u) \in Attached
  /\ Goto(u, "grant")
  /\ job' = [job EXCEPT ![u] =
       [todo |-> @.todo, listed |-> @.listed, want |-> @.want,
        lacks |-> @.want \ security[Current(u)].has]]
  /\ UNCHANGED <<now, table, stripped, policies, security>>

\* CREATE POLICY, which fails if another has created it.
CreatePolicy(u) ==
  \E x \in job[u].lacks :
    /\ Current(u) \in Attached /\ x \notin security[Current(u)].has
    /\ security' = [security EXCEPT ![Current(u)].has = @ \cup {x}]
    /\ job' = [job EXCEPT ![u].lacks = @ \ {x}]
    /\ UNCHANGED <<now, table, stripped, policies, pc>>

\* Mutant of Enable: it does not wait for the policies.
EnableFirst(u) ==
  /\ Current(u) \in Attached
  /\ security' = [security EXCEPT ![Current(u)].on = TRUE]
  /\ UNCHANGED <<now, table, stripped, policies, pc, job>>

\* After the policies, never before.
Enable(u) ==
  /\ job[u].lacks = {} /\ Current(u) \in Attached
  /\ security' = [security EXCEPT ![Current(u)].on = TRUE]
  /\ Goto(u, "sync")
  /\ job' = [job EXCEPT ![u] = [todo |-> Left(u), listed |-> @.listed, want |-> @.want]]
  /\ UNCHANGED <<now, table, stripped, policies>>

-----------------------------------------------------------------------------
(* apply_retention.                                                        *)

Older(S, cutoff) == {t \in S : created[t] < cutoff}

\* The cutoffs are of this moment, and so is the list of partitions.  A flat
\* table is stripped in one statement.
Retain(r) ==
  \E drops \in BOOLEAN :  \* with drop_after_days
    /\ pc[r] = "idle"
    /\ IF shape = "flat"
       THEN /\ stripped' = stripped \cup Older(In(Flat), now - Hot)
            /\ UNCHANGED <<pc, job>>
       ELSE /\ Goto(r, "drop")
            /\ job' = [job EXCEPT ![r] =
                 [todo |-> Attached, hot |-> now - Hot, at |-> place,
                  expired |-> {m \in parts : drops /\ Until(m) <= now - Keep}]]
            /\ UNCHANGED stripped
    /\ UNCHANGED <<now, table, policies, security>>

Expired(r) == job[r].todo \cap job[r].expired

\* DROP TABLE IF EXISTS.
Drop(r) ==
  /\ pc[r] = "drop" /\ Expired(r) # {}
  /\ LET m == Min(Expired(r))
     IN  /\ parts' = parts \ {m}
         /\ place' = [t \in Traces |-> IF place[t] = m THEN Removed ELSE place[t]]
         /\ security' = [security EXCEPT ![m] = Unscoped]
         /\ job' = [job EXCEPT ![r].todo = @ \ {m}]
  /\ UNCHANGED <<now, shape, created, late, stripped, policies, pc>>

DropsDone(r) ==
  /\ pc[r] = "drop" /\ Expired(r) = {}
  /\ Goto(r, "strip")
  /\ UNCHANGED <<now, table, stripped, policies, security, job>>

\* Mutant of Cold: a month that has begun before the cutoff is cold.
ColdFrom(p, hot) ==
  IF p # Default /\ From(p) < hot THEN In(p) ELSE Older(In(p), hot)

\* Mutant of Cold: the default partition, which has no bounds, is passed over.
ColdInBounds(p, hot) ==
  IF p = Default \/ From(p) >= hot THEN {} ELSE Older(In(p), hot)

\* The rows the UPDATE of one partition reaches: none of a month that begins
\* at the cutoff or later, all of one that ends by then.
Cold(p, hot) ==
  IF p = Default THEN Older(In(p), hot)
  ELSE IF From(p) >= hot THEN {}
  ELSE IF Until(p) <= hot THEN In(p)
  ELSE Older(In(p), hot)

\* UPDATE of one partition: it waits for rows an open transaction has deleted,
\* and fails if the partition is gone.
Strip(r) ==
  LET cold == Cold(Current(r), job[r].hot)
  IN  /\ pc[r] = "strip" /\ job[r].todo # {}
      /\ Current(r) \in Attached \/ From(Current(r)) >= job[r].hot
      /\ \A u \in Upkeepers : pc[u] = "attach" => job[u].deleted \cap cold = {}
      /\ stripped' = stripped \cup cold
      /\ job' = [job EXCEPT ![r].todo = Left(r)]
      /\ UNCHANGED <<now, table, policies, security, pc>>

-----------------------------------------------------------------------------

Finished(w) == pc[w] \in {"sync", "strip"} /\ job[w].todo = {}

\* The work is done, or a statement fails and its transaction is rolled back.
\* A failed rebuild does not keep the adapter from starting.
End(w) ==
  /\ pc[w] # "idle"
  /\ Return(w) \/ (pc[w] = "rebuild" /\ Goto(w, "list") /\ job' = [job EXCEPT ![w] = NoJob])
  /\ Forget(w)
  /\ UNCHANGED <<now, rows, stripped, policies, security>>

Tick ==
  /\ now < MaxTime
  /\ now' = now + 1
  /\ UNCHANGED <<table, stripped, policies, security, pc, job>>

Init ==
  /\ now = 0 /\ shape \in {"flat", "parted"} /\ parts = {}
  /\ place = [t \in Traces |-> Unwritten] /\ created = [t \in Traces |-> 0]
  /\ stripped = {} /\ policies = {} /\ late = [u \in Upkeepers |-> {}]
  /\ security = [p \in Partitions |-> Unscoped]
  /\ pc = [w \in Upkeepers \cup Janitors |-> "idle"]
  /\ job = [w \in Upkeepers \cup Janitors |-> NoJob]

Migrate(u) == Start(u) \/ Capture(u) \/ Rebuild(u)

Ensure(u) ==
  List(u) \/ Plan(u) \/ Probe(u) \/ Create(u) \/ Name(u) \/ Copy(u) \/ Delete(u) \/ Attach(u)

Scope(u) == Sync(u) \/ Visit(u) \/ (pc[u] = "grant" /\ (CreatePolicy(u) \/ Enable(u)))

Next ==
  \/ \E t \in Traces : Write(t)
  \/ \E x \in Policies : Protect(x)
  \/ \E u \in Upkeepers : Migrate(u) \/ Ensure(u) \/ Scope(u)
  \/ \E r \in Janitors : Retain(r) \/ Drop(r) \/ DropsDone(r) \/ Strip(r)
  \/ \E w \in Upkeepers \cup Janitors : End(w)
  \/ Tick

Spec == Init /\ [][Next]_vars

-----------------------------------------------------------------------------
(* Properties.                                                             *)

Stored(t) == place[t] \notin {Unwritten, Removed}

\* Rebuilding the table, creating partitions, draining the default one and
\* retention, any number of them at once and given up at any statement: a trace
\* is lost to a drop of its month, whose end lies Keep back, or to the drain that
\* deleted it without having copied it, since it was committed in between.
TracesStay ==
  [][\A t \in Traces : Stored(t) /\ ~Stored(t)' =>
       \/ Until(Month(created[t])) <= now - Keep
       \/ \E u \in Upkeepers : pc[u] = "attach" /\ pc'[u] = "probe" /\ t \in late[u]]_vars

\* A trace keeps its payload for Hot, in whichever partition it is and however
\* its month lies to the cutoff.
HotTracesKeepTheirPayload == \A t \in stripped : created[t] < now - Hot

\* When retention has gone through, every trace older than its cutoff that was
\* there when it began, and has stayed in its partition, has been stripped.
RetentionIsComplete ==
  \A r \in Janitors : Finished(r) =>
    \A t \in Traces :
      /\ job[r].at[t] \in Partitions /\ place[t] = job[r].at[t]
      /\ created[t] < job[r].hot
      => t \in stripped

\* Months that retention leaves alone so far, and the default partition.
Lasting == {p \in Partitions : p = Default \/ Until(p) > now - Keep}

\* Row security is never on without a policy, and where upkeep has gone through
\* every partition it listed has the policies the parent had then.
PartitionsAreScoped ==
  /\ \A p \in Lasting : security[p].on => security[p].has # {}
  /\ \A u \in Upkeepers : Finished(u) =>
       \A p \in Lasting \cap job[u].listed :
         security[p].on /\ job[u].want \subseteq security[p].has

\* The parent keeps its policies, also when the table it was rebuilt from had
\* been rebuilt by another meanwhile: the one rebuild of the flat table loses at
\* most those created since it read the policies.
PoliciesSurvive ==
  [][\A x \in policies \ policies' :
       shape = "flat" /\ \E u \in Upkeepers :
         pc[u] = "rebuild" /\ pc'[u] = "list" /\ x \in late[u]]_vars

-----------------------------------------------------------------------------
(* Broken by the code: see the README.                                     *)

\* No trace is lost before its month is dropped.
NoTraceIsLostEver ==
  [][\A t \in Traces : Stored(t) /\ ~Stored(t)' => Until(Month(created[t])) <= now - Keep]_vars

\* The rebuild keeps every policy.
PoliciesSurviveEver == [][policies \subseteq policies']_vars

=============================================================================
