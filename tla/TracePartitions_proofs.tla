------------------------ MODULE TracePartitions_proofs ------------------------
(***************************************************************************)
(* Rebuild, drain and retention of the trace table, for any traces,        *)
(* policies, upkeepers and retention jobs.  The drain is the hard part: it *)
(* works from the rows it has read, and they stay where they are for       *)
(* everybody else because a month has one drain at a time and retention    *)
(* takes no row out of the default partition.  Rows of the month may still *)
(* come: they are the ones a drain can lose.                               *)
(***************************************************************************)
EXTENDS TracePartitions, WellFoundedInduction, TLAPS

Workers == Upkeepers \cup Janitors

Points == {"idle", "capture", "rebuild", "list", "plan", "probe", "create", "name", "copy",
           "delete", "attach", "sync", "grant", "drop", "strip"}

\* The job of an upkeeper that makes a partition.
Making == {"create", "name", "copy", "delete", "attach"}
Named == {"copy", "delete", "attach"}
Drain == [todo : SUBSET Nat, copied : SUBSET Traces, bare : SUBSET Traces,
          deleted : SUBSET Traces]

Pass == [todo : SUBSET (Nat \cup {Default}), hot : Int, at : [Traces -> Int],
         expired : SUBSET Nat]

Types ==
  /\ now \in Nat /\ shape \in {"flat", "parted"} /\ parts \subseteq Nat
  /\ place \in [Traces -> Int] /\ created \in [Traces -> 0 .. now]
  /\ stripped \subseteq Traces
  /\ pc \in [Workers -> Points]
  /\ job = [w \in Workers |-> job[w]]

\* A trace in a partition is in that of its month, which exists; a table that
\* is partitioned has no trace outside.
RowOK(t) ==
  /\ place[t] >= 0 => place[t] = Month(created[t]) /\ place[t] \in parts
  /\ place[t] >= 0 \/ place[t] = Default => shape = "parted"
  /\ shape = "parted" => place[t] # Flat
  /\ t \in stripped => place[t] # Unwritten /\ created[t] < now - Hot

\* What a drain has copied and deleted is in the default partition for all
\* others, and nothing is deleted that has not been copied but what came late.
DrainOK(u) ==
  /\ pc[u] \in Making \cup {"probe"} => job[u].todo \subseteq Nat
  /\ pc[u] \in Making => job[u].todo # {}
  /\ pc[u] \in {"delete", "attach"} =>
       /\ job[u] \in Drain
       /\ job[u].copied \subseteq WaitingFor(Current(u))
       /\ job[u].deleted \subseteq WaitingFor(Current(u))
       /\ \A t \in job[u].bare : t \in job[u].copied /\ created[t] < now - Hot
  /\ pc[u] = "delete" => WaitingFor(Current(u)) \subseteq job[u].copied \cup late[u]
  /\ pc[u] = "attach" => job[u].deleted \subseteq job[u].copied \cup late[u]

\* A month is drained by one upkeeper at a time.
Apart ==
  \A u, v \in Upkeepers :
    u # v /\ pc[u] \in Named /\ pc[v] \in Named => Current(u) # Current(v)

\* A rebuild has read the policies there are but those that came late.
ExtrasOK(u) ==
  pc[u] = "rebuild" /\ shape = "flat" => policies \subseteq job[u].extras \cup late[u]

\* A trace that retention has not seen leave its partition is still to be
\* visited there, or has been.
PassOK(r) ==
  /\ pc[r] \in {"idle", "drop", "strip"}
  /\ pc[r] # "idle" =>
       /\ shape = "parted"
       /\ job[r] \in Pass
       /\ job[r].hot <= now - Hot
       /\ \A m \in job[r].expired : Until(m) <= now - Keep
       /\ \A t \in Traces :
            /\ place[t] = Unwritten => job[r].at[t] = Unwritten
            /\ job[r].at[t] >= 0 => place[t] \in {job[r].at[t], Removed}
            /\ place[t] = job[r].at[t] /\ place[t] >= Default =>
                 \/ place[t] \in job[r].todo
                 \/ pc[r] = "strip" /\ (created[t] < job[r].hot => t \in stripped)

TraceInv ==
  /\ Types /\ Apart
  /\ \A t \in Traces : RowOK(t)
  /\ \A u \in Upkeepers : DrainOK(u) /\ ExtrasOK(u)
  /\ \A r \in Janitors : PassOK(r)

-----------------------------------------------------------------------------
(* Months, and extremes of sets of months.                                 *)

LEMMA MonthBounds ==
  ASSUME NEW c \in Nat
  PROVE  Month(c) \in Nat /\ From(Month(c)) <= c /\ c < Until(Month(c)) /\ Month(c) <= c
BY DEF Month, From, Until

LEMMA LeastIsIn ==
  ASSUME NEW low \in Int, NEW S \in SUBSET {x \in Int : low <= x}, S # {}
  PROVE  Min(S) \in S /\ \A y \in S : Min(S) <= y
<1> DEFINE Heights == {h \in Nat : low + h \in S}
<1>1. \A y \in S : y - low \in Heights
  OBVIOUS
<1>2. PICK h \in Heights : \A k \in Heights : ~(k < h)
  <2>1. Heights \in SUBSET Nat /\ Heights # {}
    BY <1>1
  <2> HIDE DEF Heights
  <2>2. PICK h \in Heights : \A k \in Heights : ~(<<k, h>> \in OpToRel(<, Nat))
    BY <2>1, NatLessThanWellFounded, WFMin, Zenon
  <2> QED
    BY <2>1, <2>2 DEF OpToRel
<1>3. \A y \in S : low + h <= y
  <2> SUFFICES ASSUME NEW y \in S PROVE low + h <= y
    OBVIOUS
  <2>1. y - low \in Heights /\ y - low \in Nat /\ h \in Nat
    BY <1>1
  <2>2. ~(y - low < h)
    BY <1>2, <2>1
  <2> QED
    BY <2>1, <2>2
<1> QED
  BY <1>2, <1>3 DEF Min

LEMMA LeastMonth ==
  ASSUME NEW S \in SUBSET Nat, S # {}
  PROVE  Min(S) \in S /\ \A y \in S : Min(S) <= y
<1>1. S \in SUBSET {x \in Int : 0 <= x} /\ 0 \in Int
  OBVIOUS
<1> QED
  BY <1>1, LeastIsIn

LEMMA GreatestIsIn ==
  ASSUME NEW n \in Nat, NEW S \in SUBSET (0 .. n), S # {}
  PROVE  Max(S) \in S /\ \A y \in S : y <= Max(S)
<1> DEFINE Depths == {d \in Int : 0 <= d /\ n - d \in S}
<1>1. \A y \in S : n - y \in Depths
  OBVIOUS
<1>2. Min(Depths) \in Depths /\ \A d \in Depths : Min(Depths) <= d
  <2>1. Depths \in SUBSET {x \in Int : 0 <= x} /\ Depths # {}
    BY <1>1
  <2> HIDE DEF Depths
  <2>2. 0 \in Int
    OBVIOUS
  <2> QED
    BY <2>1, <2>2, LeastIsIn
<1> DEFINE x == n - Min(Depths)
<1>3. x \in S /\ Min(Depths) \in Int
  BY <1>2
<1>4. \A y \in S : y <= x
  BY <1>1, <1>2, <1>3
<1> QED
  BY <1>3, <1>4 DEF Max

-----------------------------------------------------------------------------
(* What a step leaves alone.                                               *)

\* Upkeeper u takes a step of its own: the table stays as it is.
LEMMA UpkeepStep ==
  ASSUME TraceInv, NEW u \in Upkeepers, NEW p \in Points, NEW j,
         UNCHANGED <<now, rows, stripped, policies>>,
         \A v \in Upkeepers \ {u} : late'[v] = late[v],
         pc' = [pc EXCEPT ![u] = p], job' = [job EXCEPT ![u] = j],
         DrainOK(u)', ExtrasOK(u)',
         \A v \in Upkeepers \ {u} : p \in Named /\ pc[v] \in Named => Min(j.todo) # Current(v)
  PROVE  TraceInv'
<1>1. u \in Workers /\ u \notin Janitors
  BY PartitionAssumption DEF Workers
<1>2. Types'
  BY <1>1 DEF TraceInv, Types, rows
<1>3. \A w \in Workers \ {u} : pc'[w] = pc[w] /\ job'[w] = job[w]
  BY <1>1 DEF TraceInv, Types
<1>4. pc'[u] = p /\ job'[u] = j
  BY <1>1 DEF TraceInv, Types
<1>5. \A t \in Traces : RowOK(t)'
  BY DEF TraceInv, RowOK, rows
<1>6. \A v \in Upkeepers : DrainOK(v)' /\ ExtrasOK(v)'
  <2> TAKE v \in Upkeepers
  <2>1. CASE v # u
    <3>1. pc'[v] = pc[v] /\ job'[v] = job[v] /\ DrainOK(v) /\ ExtrasOK(v)
      BY <1>3, <2>1 DEF Workers, TraceInv
    <3>2. Current(v)' = Current(v)
      BY <3>1 DEF Current
    <3>3. WaitingFor(Current(v))' = WaitingFor(Current(v))
      BY <3>2 DEF WaitingFor, In, rows
    <3>4. late'[v] = late[v] /\ shape' = shape /\ created' = created
      BY <2>1 DEF rows
    <3> QED
      BY <3>1, <3>2, <3>3, <3>4 DEF DrainOK, ExtrasOK
  <2> QED
    BY <2>1
<1>7. Apart'
  <2> SUFFICES ASSUME NEW v \in Upkeepers, NEW w \in Upkeepers, v # w,
                      pc'[v] \in Named, pc'[w] \in Named
               PROVE  Current(v)' # Current(w)'
    BY DEF Apart
  <2>1. Current(u)' = Min(j.todo)
    BY <1>4 DEF Current
  <2>2. \A x \in Upkeepers \ {u} : Current(x)' = Current(x) /\ pc'[x] = pc[x]
    BY <1>3 DEF Current, Workers
  <2>3. CASE v = u
    BY <2>1, <2>2, <2>3, <1>4
  <2>4. CASE w = u
    BY <2>1, <2>2, <2>4, <1>4
  <2>5. CASE v # u /\ w # u
    BY <2>2, <2>5 DEF TraceInv, Apart
  <2> QED
    BY <2>3, <2>4, <2>5
<1>8. \A r \in Janitors : PassOK(r)'
  <2> TAKE r \in Janitors
  <2>1. pc'[r] = pc[r] /\ job'[r] = job[r] /\ PassOK(r)
    BY <1>1, <1>3 DEF Workers, TraceInv
  <2> QED
    BY <2>1 DEF PassOK, rows
<1> QED
  BY <1>2, <1>5, <1>6, <1>7, <1>8 DEF TraceInv

\* What upkeeper v knows stays true while the rows it works on stay.
LEMMA DrainKept ==
  ASSUME NEW v \in Upkeepers, DrainOK(v), now \in Nat, now' \in Nat, now <= now',
         created \in [Traces -> 0 .. now],
         pc'[v] = pc[v], job'[v] = job[v], late[v] \subseteq late'[v],
         pc[v] \in {"delete", "attach"} =>
           \A t \in job[v].copied \cup job[v].deleted :
             place'[t] = place[t] /\ created'[t] = created[t],
         pc[v] = "delete" =>
           WaitingFor(Current(v))' \subseteq WaitingFor(Current(v)) \cup late'[v]
  PROVE  DrainOK(v)'
<1>1. Current(v)' = Current(v)
  BY DEF Current
<1>2. CASE pc[v] \in {"delete", "attach"}
  <2>1. /\ job[v] \in Drain
        /\ job[v].copied \subseteq WaitingFor(Current(v))
        /\ job[v].deleted \subseteq WaitingFor(Current(v))
        /\ \A t \in job[v].bare : t \in job[v].copied /\ created[t] < now - Hot
    BY <1>2 DEF DrainOK
  <2>2. /\ job[v].copied \subseteq WaitingFor(Current(v))'
        /\ job[v].deleted \subseteq WaitingFor(Current(v))'
    BY <2>1, <1>1, <1>2 DEF WaitingFor, In
  <2>3. \A t \in job[v].bare : created'[t] < now' - Hot
    <3> TAKE t \in job[v].bare
    <3>1. t \in Traces /\ created'[t] = created[t] /\ created[t] < now - Hot
      BY <2>1, <1>2 DEF WaitingFor, In
    <3>2. created[t] \in Nat /\ Hot \in Nat
      BY <3>1, PartitionAssumption
    <3> QED
      BY <3>1, <3>2
  <2> QED
    BY <1>1, <1>2, <2>1, <2>2, <2>3 DEF DrainOK, Making
<1>3. CASE pc[v] \notin {"delete", "attach"}
  BY <1>1, <1>3 DEF DrainOK
<1> QED
  BY <1>2, <1>3

\* What can happen to a trace.
Moved(t) ==
  \/ place'[t] = place[t] /\ created'[t] = created[t] /\ (t \in stripped => t \in stripped')
  \/ place[t] \in {Unwritten, Flat} /\ place'[t] # Unwritten
  \/ place'[t] = Removed
  \/ place[t] = Default /\ place'[t] >= 0

\* What retention knows stays true while others move traces.
LEMMA PassKept ==
  ASSUME TraceInv, NEW r \in Janitors, now' \in Nat, now <= now',
         shape = "parted" => shape' = "parted",
         pc'[r] = pc[r], job'[r] = job[r],
         \A t \in Traces : Moved(t)
  PROVE  PassOK(r)'
<1> SUFFICES ASSUME pc[r] # "idle" PROVE PassOK(r)'
  BY DEF PassOK, TraceInv
<1>1. shape = "parted" /\ job[r] \in Pass /\ PassOK(r)
  BY DEF TraceInv, PassOK
<1>2. job[r].hot <= now' - Hot /\ \A m \in job[r].expired : Until(m) <= now' - Keep
  <2>1. /\ now \in Nat /\ now' \in Nat /\ Hot \in Nat /\ Keep \in Nat /\ job[r].hot \in Int
        /\ job[r].hot <= now - Hot
        /\ \A m \in job[r].expired : m \in Nat /\ Until(m) <= now - Keep
    BY <1>1, PartitionAssumption DEF PassOK, Pass, TraceInv, Types
  <2>2. \A m \in job[r].expired : Until(m) \in Int
    BY <2>1 DEF Until
  <2> QED
    BY <2>1, <2>2
<1>3. ASSUME NEW t \in Traces
      PROVE  /\ place'[t] = Unwritten => job[r].at[t] = Unwritten
             /\ job[r].at[t] >= 0 => place'[t] \in {job[r].at[t], Removed}
             /\ place'[t] = job[r].at[t] /\ place'[t] >= Default =>
                  \/ place'[t] \in job[r].todo
                  \/ pc[r] = "strip" /\ (created'[t] < job[r].hot => t \in stripped')
  <2>1. /\ place[t] = Unwritten => job[r].at[t] = Unwritten
        /\ job[r].at[t] >= 0 => place[t] \in {job[r].at[t], Removed}
        /\ place[t] = job[r].at[t] /\ place[t] >= Default =>
             \/ place[t] \in job[r].todo
             \/ pc[r] = "strip" /\ (created[t] < job[r].hot => t \in stripped)
    BY <1>1 DEF PassOK
  <2>2. place[t] # Flat /\ place[t] \in Int /\ job[r].at[t] \in Int
    BY <1>1 DEF TraceInv, RowOK, Types, Pass
  <2>3. CASE place'[t] = place[t] /\ created'[t] = created[t] /\ (t \in stripped => t \in stripped')
    BY <2>1, <2>3
  <2>4. CASE place[t] = Unwritten /\ place'[t] # Unwritten
    BY <2>1, <2>4 DEF Unwritten, Default
  <2>5. CASE place'[t] = Removed
    BY <2>5 DEF Removed, Unwritten, Default
  <2>6. CASE place[t] = Default /\ place'[t] >= 0
    BY <2>1, <2>2, <2>6 DEF Removed, Unwritten, Default
  <2> QED
    BY <2>2, <2>3, <2>4, <2>5, <2>6 DEF Moved
<1> QED
  BY <1>1, <1>2, <1>3 DEF PassOK

\* Retention job r takes a step of its own that may strip old traces.
LEMMA JanitorStep ==
  ASSUME TraceInv, NEW r \in Janitors, NEW p \in Points, NEW j,
         UNCHANGED <<now, rows, policies>>, \A v \in Upkeepers : late'[v] = late[v],
         stripped \subseteq stripped', stripped' \subseteq Traces,
         \A t \in stripped' \ stripped : place[t] # Unwritten /\ created[t] < now - Hot,
         pc' = [pc EXCEPT ![r] = p], job' = [job EXCEPT ![r] = j],
         PassOK(r)'
  PROVE  TraceInv'
<1>1. r \in Workers /\ r \notin Upkeepers
  BY PartitionAssumption DEF Workers
<1>2. Types'
  BY <1>1 DEF TraceInv, Types, rows
<1>3. \A w \in Workers \ {r} : pc'[w] = pc[w] /\ job'[w] = job[w]
  BY <1>1 DEF TraceInv, Types
<1>4. \A t \in Traces : RowOK(t)'
  <2> TAKE t \in Traces
  <2> QED
    BY DEF TraceInv, RowOK, rows
<1>5. \A v \in Upkeepers : pc'[v] = pc[v] /\ job'[v] = job[v] /\ Current(v)' = Current(v)
  BY <1>1, <1>3 DEF Workers, Current
<1>6. \A v \in Upkeepers : DrainOK(v)' /\ ExtrasOK(v)'
  <2> TAKE v \in Upkeepers
  <2>1. DrainOK(v) /\ ExtrasOK(v)
    BY DEF TraceInv
  <2>2. WaitingFor(Current(v))' = WaitingFor(Current(v))
    BY <1>5 DEF WaitingFor, In, rows
  <2> QED
    BY <1>5, <2>1, <2>2 DEF DrainOK, ExtrasOK, rows
<1>7. Apart'
  BY <1>5 DEF TraceInv, Apart
<1>8. \A q \in Janitors : PassOK(q)'
  <2> TAKE q \in Janitors
  <2>1. CASE q # r
    <3>1. pc'[q] = pc[q] /\ job'[q] = job[q]
      BY <1>3, <2>1 DEF Workers
    <3>2. \A t \in Traces : Moved(t)
      BY DEF Moved, rows
    <3>3. now \in Nat /\ now' = now /\ shape' = shape
      BY DEF TraceInv, Types, rows
    <3>4. now' \in Nat /\ now <= now'
      BY <3>3
    <3> QED
      BY <3>1, <3>2, <3>3, <3>4, PassKept
  <2> QED
    BY <2>1
<1> QED
  BY <1>2, <1>4, <1>6, <1>7, <1>8 DEF TraceInv

-----------------------------------------------------------------------------
(* The invariant: at the start, and step by step.                          *)

LEMMA TraceInit == Init => TraceInv
<1> SUFFICES ASSUME Init PROVE TraceInv
  OBVIOUS
<1>1. \A w \in Workers : pc[w] = "idle"
  BY DEF Init, Workers
<1>2. Types
  <2>1. now \in Nat /\ shape \in {"flat", "parted"} /\ parts \subseteq Nat
        /\ place \in [Traces -> Int] /\ created \in [Traces -> 0 .. now]
        /\ stripped \subseteq Traces
    BY DEF Init, Unwritten
  <2>2. pc \in [Workers -> Points]
    <3>1. pc = [w \in Workers |-> "idle"] /\ "idle" \in Points
      BY DEF Init, Workers, Points
    <3> QED
      BY <3>1
  <2>3. job = [w \in Workers |-> job[w]]
    BY DEF Init, Workers
  <2> QED
    BY <2>1, <2>2, <2>3 DEF Types
<1>3. \A t \in Traces : RowOK(t)
  BY DEF Init, RowOK, Unwritten, Default, Flat
<1>4. Apart /\ \A u \in Upkeepers : DrainOK(u) /\ ExtrasOK(u)
  BY <1>1 DEF Apart, DrainOK, ExtrasOK, Making, Named, Workers
<1>5. \A r \in Janitors : PassOK(r)
  BY <1>1 DEF PassOK, Workers
<1> QED
  BY <1>2, <1>3, <1>4, <1>5 DEF TraceInv

\* The steps of upkeeper u that leave the table alone.
LEMMA ControlKeeps ==
  ASSUME TraceInv, NEW u \in Upkeepers,
         \/ Start(u) \/ Capture(u) \/ List(u) \/ Sync(u) \/ Visit(u)
         \/ (pc[u] = "grant" /\ (CreatePolicy(u) \/ Enable(u))) \/ End(u)
  PROVE  TraceInv'
<1>1. u \in Workers /\ pc \in [Workers -> Points] /\ job = [w \in Workers |-> job[w]]
  BY DEF Workers, TraceInv, Types
<1>2. /\ UNCHANGED <<now, rows, stripped, policies>>
      /\ \A v \in Upkeepers \ {u} : late'[v] = late[v]
  BY DEF Start, Capture, List, Sync, Visit, CreatePolicy, Enable, End, Forget, table
<1>3. PICK p \in {"idle", "capture", "rebuild", "list", "plan", "sync", "grant"} :
         \E j : /\ pc' = [pc EXCEPT ![u] = p] /\ job' = [job EXCEPT ![u] = j]
                /\ p = "rebuild" => j.extras = policies
  <2>1. CASE Start(u)
    <3>1. job' = [job EXCEPT ![u] = job[u]]
      BY <2>1, <1>1 DEF Start
    <3> QED
      BY <2>1, <3>1 DEF Start, Goto
  <2>2. CASE Capture(u)
    <3>1. /\ pc' = [pc EXCEPT ![u] = "rebuild"]
          /\ job' = [job EXCEPT ![u] = [todo |-> {}, extras |-> policies]]
      BY <2>2 DEF Capture, Goto
    <3>2. [todo |-> {}, extras |-> policies].extras = policies
      OBVIOUS
    <3> QED
      BY <3>1, <3>2, Zenon
  <2>3. CASE List(u)
    BY <2>3 DEF List, Return, Goto
  <2>4. CASE Sync(u)
    BY <2>4 DEF Sync, Return, Goto
  <2>5. CASE Visit(u)
    BY <2>5 DEF Visit, Goto
  <2>6. CASE pc[u] = "grant" /\ CreatePolicy(u)
    <3>1. pc' = [pc EXCEPT ![u] = "grant"]
      BY <2>6, <1>1 DEF CreatePolicy
    <3> QED
      BY <2>6, <3>1 DEF CreatePolicy
  <2>7. CASE Enable(u)
    BY <2>7 DEF Enable, Goto
  <2>8. CASE End(u)
    BY <2>8 DEF End, Return, Goto
  <2> QED
    BY <2>1, <2>2, <2>3, <2>4, <2>5, <2>6, <2>7, <2>8
<1> PICK j : /\ pc' = [pc EXCEPT ![u] = p] /\ job' = [job EXCEPT ![u] = j]
             /\ p = "rebuild" => j.extras = policies
  BY <1>3
<1>4. pc'[u] = p /\ job'[u] = j /\ p \in Points
  BY <1>1, <1>3 DEF Points
<1>5. DrainOK(u)'
  BY <1>3, <1>4 DEF DrainOK, Making
<1>6. ExtrasOK(u)'
  BY <1>2, <1>3, <1>4 DEF ExtrasOK
<1>7. p \notin Named
  BY <1>3 DEF Named
<1> QED
  BY <1>2, <1>3, <1>4, <1>5, <1>6, <1>7, UpkeepStep

\* The steps of upkeeper u towards a partition, which leave the table alone too.
LEMMA MakingKeeps ==
  ASSUME TraceInv, NEW u \in Upkeepers,
         Plan(u) \/ Probe(u) \/ Name(u) \/ Copy(u) \/ Delete(u)
  PROVE  TraceInv'
<1>1. /\ u \in Workers /\ pc \in [Workers -> Points] /\ job = [w \in Workers |-> job[w]]
      /\ DrainOK(u) /\ parts \subseteq Nat /\ created \in [Traces -> 0 .. now] /\ now \in Nat
      /\ Month(now) \in Nat
  BY MonthBounds DEF Workers, TraceInv, Types
<1>2. /\ UNCHANGED <<now, rows, stripped, policies>>
      /\ \A v \in Upkeepers \ {u} : late'[v] = late[v]
  BY DEF Plan, Probe, Name, Copy, Delete, Forget, table
<1>3. \A m : WaitingFor(m)' = WaitingFor(m)
  BY <1>2 DEF WaitingFor, In, rows
<1>4. CASE Plan(u)
  <2> DEFINE j == [todo |-> Wanted \ job[u].existing]
  <2>1. pc' = [pc EXCEPT ![u] = "probe"] /\ job' = [job EXCEPT ![u] = j]
    BY <1>4 DEF Plan, Goto
  <2>2. pc'[u] = "probe" /\ job'[u] = j
    BY <1>1, <2>1
  <2>3. Wanted \subseteq Nat
    <3>1. \A t \in In(Default) : Month(created[t]) \in Nat
      BY <1>1, MonthBounds DEF In
    <3>2. Month(now) .. Month(now) + Ahead \subseteq Nat
      BY <1>1, PartitionAssumption
    <3> QED
      BY <3>1, <3>2 DEF Wanted
  <2>4. pc'[u] = "probe" /\ job'[u].todo \subseteq Nat
    <3>1. j.todo \subseteq Nat
      BY <2>3
    <3> QED
      BY <2>2, <3>1, Zenon
  <2>5. DrainOK(u)' /\ ExtrasOK(u)'
    BY <2>4 DEF DrainOK, ExtrasOK, Making
  <2>6. "probe" \in Points /\ "probe" \notin Named
    BY DEF Named, Points
  <2> QED
    BY <1>2, <2>1, <2>5, <2>6, UpkeepStep
<1>5. CASE Probe(u)
  <2> PICK p \in {"create", "name"} : pc' = [pc EXCEPT ![u] = p]
    BY <1>5 DEF Probe, Goto
  <2>1. job' = [job EXCEPT ![u] = job[u]]
    BY <1>1, <1>5 DEF Probe
  <2>2. pc'[u] = p /\ job'[u] = job[u] /\ pc[u] = "probe" /\ job[u].todo # {}
    BY <1>1, <1>5, <2>1 DEF Probe
  <2>3. DrainOK(u)' /\ ExtrasOK(u)'
    BY <1>1, <2>2 DEF DrainOK, ExtrasOK, Making
  <2> QED
    BY <1>2, <2>1, <2>3, UpkeepStep DEF Named, Points
<1>6. CASE Name(u)
  <2>1. pc' = [pc EXCEPT ![u] = "copy"] /\ job' = [job EXCEPT ![u] = job[u]]
    BY <1>1, <1>6 DEF Name, Goto
  <2>2. pc'[u] = "copy" /\ job'[u] = job[u] /\ pc[u] = "name"
    BY <1>1, <1>6, <2>1 DEF Name
  <2>3. DrainOK(u)' /\ ExtrasOK(u)'
    BY <1>1, <2>2 DEF DrainOK, ExtrasOK, Making
  <2>4. \A v \in Upkeepers \ {u} : pc[v] \in Named => Min(job[u].todo) # Current(v)
    BY <1>6 DEF Name, NameTaken, Named, Current
  <2>5. "copy" \in Points
    BY DEF Points
  <2> QED
    BY <1>2, <2>1, <2>3, <2>4, <2>5, UpkeepStep
<1>7. CASE Copy(u)
  <2> DEFINE due == WaitingFor(Current(u))
             j == [todo |-> job[u].todo, copied |-> due, bare |-> due \cap stripped,
                   deleted |-> {}]
  <2>1. pc' = [pc EXCEPT ![u] = "delete"] /\ job' = [job EXCEPT ![u] = j] /\ pc[u] = "copy"
    BY <1>1, <1>7 DEF Copy, Goto
  <2>2. pc'[u] = "delete" /\ job'[u] = j
    BY <1>1, <2>1
  <2>3. Current(u)' = Current(u)
    BY <2>2 DEF Current
  <2>4. job[u].todo \subseteq Nat /\ job[u].todo # {} /\ due \subseteq Traces
    BY <1>1, <2>1 DEF DrainOK, Making, WaitingFor, In
  <2>5. j \in Drain
    BY <2>4 DEF Drain
  <2>6. \A t \in due \cap stripped : created[t] < now - Hot
    BY <2>4 DEF TraceInv, RowOK
  <2>7. DrainOK(u)' /\ ExtrasOK(u)'
    BY <1>2, <1>3, <2>2, <2>3, <2>4, <2>5, <2>6 DEF DrainOK, ExtrasOK, Making, rows
  <2>8. \A v \in Upkeepers \ {u} : pc[v] \in Named => Min(j.todo) # Current(v)
    BY <2>1 DEF TraceInv, Apart, Named, Current
  <2>9. "delete" \in Points
    BY DEF Points
  <2> QED
    BY <1>2, <2>1, <2>7, <2>8, <2>9, UpkeepStep
<1>8. CASE Delete(u)
  <2> DEFINE due == WaitingFor(Current(u))
             j == [job[u] EXCEPT !.deleted = due]
  <2>1. pc' = [pc EXCEPT ![u] = "attach"] /\ job' = [job EXCEPT ![u] = j] /\ pc[u] = "delete"
    BY <1>1, <1>8 DEF Delete, Goto
  <2>2. pc'[u] = "attach" /\ job'[u] = j
    BY <1>1, <2>1
  <2>3. job[u] \in Drain /\ due \subseteq Traces
    BY <1>1, <2>1 DEF DrainOK, WaitingFor, In
  <2>4. /\ j \in Drain /\ j.todo = job[u].todo /\ j.copied = job[u].copied
        /\ j.bare = job[u].bare /\ j.deleted = due
    BY <2>3 DEF Drain
  <2>5. Current(u)' = Current(u)
    BY <2>2, <2>4 DEF Current
  <2> HIDE DEF j
  <2>6. late' = late
    BY <1>8 DEF Delete, table
  <2>7. DrainOK(u)' /\ ExtrasOK(u)'
    BY <1>1, <1>2, <1>3, <2>1, <2>2, <2>4, <2>5, <2>6 DEF DrainOK, ExtrasOK, Making, rows
  <2>8. \A v \in Upkeepers \ {u} : pc[v] \in Named => Min(j.todo) # Current(v)
    BY <2>1, <2>4 DEF TraceInv, Apart, Named, Current
  <2>9. "attach" \in Points
    BY DEF Points
  <2> QED
    BY <1>2, <2>1, <2>7, <2>8, <2>9, UpkeepStep
<1> QED
  BY <1>4, <1>5, <1>6, <1>7, <1>8

LEMMA WriteKeeps ==
  ASSUME TraceInv, NEW s \in Traces, Write(s)
  PROVE  TraceInv'
<1> PICK c \in 0 .. now :
      LET p == IF shape = "flat" THEN Flat ELSE IF Month(c) \in parts THEN Month(c) ELSE Default
      IN  /\ place[s] = Unwritten
          /\ TooLate(IF p = Default THEN Moving(Month(c)) ELSE {}, s)
          /\ place' = [place EXCEPT ![s] = p]
          /\ created' = [created EXCEPT ![s] = c]
          /\ UNCHANGED <<now, shape, parts, stripped, policies, security, pc, job>>
  BY DEF Write
<1> DEFINE p == IF shape = "flat" THEN Flat ELSE IF Month(c) \in parts THEN Month(c) ELSE Default
<1>1. /\ place[s] = Unwritten
      /\ TooLate(IF p = Default THEN Moving(Month(c)) ELSE {}, s)
      /\ place' = [place EXCEPT ![s] = p]
      /\ created' = [created EXCEPT ![s] = c]
      /\ UNCHANGED <<now, shape, parts, stripped, policies, security, pc, job>>
  OBVIOUS
<1>2. Types /\ now \in Nat /\ c \in Nat /\ Month(c) \in Nat
  BY MonthBounds DEF TraceInv, Types
<1>3. p \in Int /\ p # Unwritten /\ p # Removed
  BY <1>2 DEF Flat, Default, Unwritten, Removed
<1>4. /\ place'[s] = p /\ created'[s] = c
      /\ \A t \in Traces \ {s} : place'[t] = place[t] /\ created'[t] = created[t]
  BY <1>1, <1>2 DEF Types
<1>5. Types'
  BY <1>1, <1>2, <1>3 DEF Types
<1>6. \A t \in Traces : RowOK(t)'
  <2> TAKE t \in Traces
  <2>1. RowOK(t)
    BY DEF TraceInv
  <2>2. CASE t = s
    <3>1. t \notin stripped /\ shape \in {"flat", "parted"}
      BY <2>1, <2>2, <1>1, <1>2 DEF RowOK, Types
    <3> QED
      BY <2>2, <3>1, <1>1, <1>2, <1>4 DEF RowOK, Flat, Default
  <2>3. CASE t # s
    BY <2>1, <2>3, <1>1, <1>4 DEF RowOK
  <2> QED
    BY <2>2, <2>3
<1>7. \A v \in Upkeepers : DrainOK(v)' /\ ExtrasOK(v)'
  <2> TAKE v \in Upkeepers
  <2>1. DrainOK(v) /\ ExtrasOK(v) /\ pc'[v] = pc[v] /\ job'[v] = job[v] /\ Current(v)' = Current(v)
    BY <1>1 DEF TraceInv, Current
  <2>2. ASSUME pc[v] \in {"delete", "attach"}, NEW t \in job[v].copied \cup job[v].deleted
        PROVE  place'[t] = place[t] /\ created'[t] = created[t]
    <3>1. t \in Traces /\ place[t] = Default
      BY <2>1, <2>2 DEF DrainOK, WaitingFor, In
    <3> QED
      BY <3>1, <1>1, <1>4 DEF Default, Unwritten
  <2>3. ASSUME pc[v] = "delete"
        PROVE  WaitingFor(Current(v))' \subseteq WaitingFor(Current(v)) \cup late'[v]
    <3>1. p = Default /\ Month(c) = Current(v) => s \in late'[v]
      <4>1. Month(c) = Current(v) => v \in Moving(Month(c))
        BY <2>3 DEF Moving
      <4> QED
        BY <1>1, <4>1 DEF TooLate
    <3>2. s \in WaitingFor(Current(v))' => s \in late'[v]
      BY <3>1, <1>4, <2>1 DEF WaitingFor, In
    <3> QED
      BY <3>2, <1>4, <2>1 DEF WaitingFor, In
  <2>4. late[v] \subseteq late'[v]
    BY <1>1 DEF TooLate
  <2>5. DrainOK(v)'
    <3>1. created \in [Traces -> 0 .. now] /\ now' = now /\ now' \in Nat /\ now <= now'
      BY <1>1, <1>2 DEF Types
    <3> QED
      BY <1>2, <2>1, <2>2, <2>3, <2>4, <3>1, DrainKept
  <2>6. ExtrasOK(v)'
    BY <1>1, <2>1, <2>4 DEF ExtrasOK
  <2> QED
    BY <2>5, <2>6
<1>8. Apart'
  BY <1>1 DEF TraceInv, Apart, Current
<1>9. \A r \in Janitors : PassOK(r)'
  <2> TAKE r \in Janitors
  <2>1. \A t \in Traces : Moved(t)
    BY <1>1, <1>3, <1>4 DEF Moved
  <2>2. now' \in Nat /\ now <= now' /\ shape' = shape /\ pc'[r] = pc[r] /\ job'[r] = job[r]
    BY <1>1, <1>2
  <2> QED
    BY <2>1, <2>2, PassKept
<1> QED
  BY <1>5, <1>6, <1>7, <1>8, <1>9 DEF TraceInv

\* Time and the tenant package.
LEMMA OthersKeep ==
  ASSUME TraceInv, Tick \/ \E x \in Policies : Protect(x)
  PROVE  TraceInv'
<1>1. UNCHANGED <<rows, stripped, security, pc, job>>
  BY DEF Tick, Protect, table
<1>2. Types /\ now \in Nat /\ now' \in Nat /\ now <= now'
  <2>1. Types /\ now \in Nat
    BY DEF TraceInv, Types
  <2>2. now' = now \/ now' = now + 1
    BY DEF Tick, Protect
  <2> QED
    BY <2>1, <2>2
<1>3. Types'
  <2>1. 0 .. now \subseteq 0 .. now'
    BY <1>2
  <2> QED
    BY <1>1, <1>2, <2>1 DEF Types, rows
<1>4. \A t \in Traces : RowOK(t)'
  <2> TAKE t \in Traces
  <2>1. RowOK(t) /\ created[t] \in Nat /\ Hot \in Nat
    BY <1>2, PartitionAssumption DEF TraceInv, Types
  <2> QED
    BY <1>1, <1>2, <2>1 DEF RowOK, rows
<1>5. \A v \in Upkeepers : DrainOK(v)'
  <2> TAKE v \in Upkeepers
  <2>1. DrainOK(v) /\ created \in [Traces -> 0 .. now]
    BY <1>2 DEF TraceInv, Types
  <2>2. pc'[v] = pc[v] /\ job'[v] = job[v] /\ Current(v)' = Current(v)
    BY <1>1 DEF Current
  <2>3. WaitingFor(Current(v))' = WaitingFor(Current(v))
    BY <1>1, <2>2 DEF WaitingFor, In, rows
  <2>4. place' = place /\ created' = created
    BY <1>1 DEF rows
  <2>5. late[v] \subseteq late'[v]
    BY DEF Tick, Protect, TooLate, table
  <2> QED
    BY <1>2, <2>1, <2>2, <2>3, <2>4, <2>5, DrainKept
<1>6. \A v \in Upkeepers : ExtrasOK(v)'
  <2> TAKE v \in Upkeepers
  <2>1. CASE Tick
    BY <2>1, <1>1 DEF Tick, TraceInv, ExtrasOK, table, rows
  <2>2. ASSUME NEW x \in Policies, Protect(x), pc[v] = "rebuild", shape = "flat"
        PROVE  policies' \subseteq job[v].extras \cup late'[v]
    <3>1. policies' = policies \cup {x} /\ late'[v] = late[v] \cup {x}
      BY <2>2 DEF Protect, TooLate
    <3>2. policies \subseteq job[v].extras \cup late[v]
      BY <2>2 DEF TraceInv, ExtrasOK
    <3> QED
      BY <3>1, <3>2
  <2> QED
    BY <2>1, <2>2, <1>1 DEF ExtrasOK, rows
<1>7. Apart'
  BY <1>1 DEF TraceInv, Apart, Current
<1>8. \A r \in Janitors : PassOK(r)'
  <2> TAKE r \in Janitors
  <2>1. \A t \in Traces : Moved(t)
    BY <1>1 DEF Moved, rows
  <2>2. shape' = shape /\ pc'[r] = pc[r] /\ job'[r] = job[r]
    BY <1>1 DEF rows
  <2> QED
    BY <1>2, <2>1, <2>2, PassKept
<1> QED
  BY <1>3, <1>4, <1>5, <1>6, <1>7, <1>8 DEF TraceInv

\* Upkeeper u commits a change of the table.
LEMMA TableStep ==
  ASSUME TraceInv, NEW u \in Upkeepers, NEW p \in {"list", "probe"}, NEW j,
         now' = now, created' = created,
         shape' = "parted" \/ UNCHANGED <<shape, policies>>,
         \A v \in Upkeepers \ {u} : late'[v] = late[v],
         pc' = [pc EXCEPT ![u] = p], job' = [job EXCEPT ![u] = j],
         Types', DrainOK(u)', \A t \in Traces : RowOK(t)' /\ Moved(t),
         \A v \in Upkeepers \ {u} :
           /\ pc[v] \in {"delete", "attach"} =>
                \A t \in job[v].copied \cup job[v].deleted : place'[t] = place[t]
           /\ pc[v] = "delete" => WaitingFor(Current(v))' \subseteq WaitingFor(Current(v))
  PROVE  TraceInv'
<1>1. u \in Workers /\ u \notin Janitors
  BY PartitionAssumption DEF Workers
<1>2. \A w \in Workers \ {u} : pc'[w] = pc[w] /\ job'[w] = job[w]
  BY <1>1 DEF TraceInv, Types
<1>3. pc'[u] = p /\ job'[u] = j
  BY <1>1 DEF TraceInv, Types
<1>4. \A v \in Upkeepers : DrainOK(v)' /\ ExtrasOK(v)'
  <2> TAKE v \in Upkeepers
  <2>1. CASE v = u
    BY <2>1, <1>3 DEF ExtrasOK
  <2>2. CASE v # u
    <3>1. pc'[v] = pc[v] /\ job'[v] = job[v] /\ DrainOK(v) /\ ExtrasOK(v)
      BY <1>2, <2>2 DEF Workers, TraceInv
    <3>2. /\ now \in Nat /\ now' \in Nat /\ now <= now'
          /\ created \in [Traces -> 0 .. now]
      BY DEF TraceInv, Types
    <3>3. late'[v] = late[v]
      BY <2>2
    <3>4. DrainOK(v)'
      BY <2>2, <3>1, <3>2, <3>3, DrainKept
    <3>5. ExtrasOK(v)'
      BY <3>1, <3>3 DEF ExtrasOK
    <3> QED
      BY <3>4, <3>5
  <2> QED
    BY <2>1, <2>2
<1>5. Apart'
  <2>1. \A v \in Upkeepers \ {u} : pc'[v] = pc[v] /\ Current(v)' = Current(v)
    BY <1>2 DEF Workers, Current
  <2>2. pc'[u] \notin Named
    BY <1>3 DEF Named
  <2> QED
    BY <2>1, <2>2 DEF TraceInv, Apart
<1>6. \A r \in Janitors : PassOK(r)'
  <2> TAKE r \in Janitors
  <2>1. pc'[r] = pc[r] /\ job'[r] = job[r]
    BY <1>1, <1>2 DEF Workers
  <2>2. now' \in Nat /\ now <= now'
    BY DEF TraceInv, Types
  <2>3. shape = "parted" => shape' = "parted"
    OBVIOUS
  <2> QED
    BY <2>1, <2>2, <2>3, PassKept
<1> QED
  BY <1>4, <1>5, <1>6 DEF TraceInv

\* The month that is being made, and what is left to make.
LEMMA CurrentMonth ==
  ASSUME TraceInv, NEW u \in Upkeepers, pc[u] \in Making
  PROVE  Current(u) \in Nat /\ Left(u) \subseteq Nat
<1>1. job[u].todo \subseteq Nat /\ job[u].todo # {}
  BY DEF TraceInv, DrainOK
<1>2. Min(job[u].todo) \in job[u].todo
  BY <1>1, LeastMonth
<1> QED
  BY <1>1, <1>2 DEF Current, Left

LEMMA CreateKeeps ==
  ASSUME TraceInv, NEW u \in Upkeepers, Create(u)
  PROVE  TraceInv'
<1> DEFINE j == [todo |-> Left(u)]
<1>1. /\ parts' = parts \cup {Current(u)} /\ pc[u] = "create"
      /\ pc' = [pc EXCEPT ![u] = "probe"] /\ job' = [job EXCEPT ![u] = j]
      /\ UNCHANGED <<now, shape, place, created, late, stripped, policies, security>>
  BY DEF Create, Goto
<1>2. Current(u) \in Nat /\ Left(u) \subseteq Nat
  BY <1>1, CurrentMonth DEF Making
<1>3. Types'
  BY <1>1, <1>2 DEF TraceInv, Types, Points
<1>4. DrainOK(u)'
  <2>1. pc'[u] = "probe" /\ job'[u] = j
    BY <1>1 DEF TraceInv, Types, Workers
  <2>2. j.todo \subseteq Nat
    BY <1>2
  <2>3. job'[u].todo \subseteq Nat
    BY <2>1, <2>2, Zenon
  <2> QED
    BY <2>1, <2>3 DEF DrainOK, Making
<1>5. \A t \in Traces : RowOK(t)' /\ Moved(t)
  BY <1>1 DEF TraceInv, RowOK, Moved
<1>6. \A v \in Upkeepers \ {u} : WaitingFor(Current(v))' = WaitingFor(Current(v))
  <2> TAKE v \in Upkeepers \ {u}
  <2>1. Current(v)' = Current(v)
    BY <1>1 DEF TraceInv, Types, Workers, Current
  <2> QED
    BY <1>1, <2>1 DEF WaitingFor, In
<1> HIDE DEF j
<1> QED
  BY <1>1, <1>3, <1>4, <1>5, <1>6, TableStep

LEMMA AttachKeeps ==
  ASSUME TraceInv, NEW u \in Upkeepers, Attach(u)
  PROVE  TraceInv'
<1> DEFINE j == [todo |-> Left(u)]
           to(t) == IF t \in job[u].copied THEN Current(u)
                    ELSE IF t \in job[u].deleted THEN Removed ELSE place[t]
<1>1. /\ parts' = parts \cup {Current(u)} /\ pc[u] = "attach"
      /\ place' = [t \in Traces |-> to(t)]
      /\ stripped' = (stripped \ job[u].copied) \cup job[u].bare
      /\ pc' = [pc EXCEPT ![u] = "probe"] /\ job' = [job EXCEPT ![u] = j]
      /\ UNCHANGED <<now, shape, created, policies>>
      /\ \A v \in Upkeepers \ {u} : late'[v] = late[v]
  BY DEF Attach, Goto, Forget
<1>2. Current(u) \in Nat /\ Left(u) \subseteq Nat
  BY <1>1, CurrentMonth DEF Making
<1>3. /\ job[u].copied \subseteq WaitingFor(Current(u)) /\ job[u].bare \subseteq job[u].copied
      /\ job[u].deleted \subseteq WaitingFor(Current(u))
      /\ \A t \in job[u].bare : created[t] < now - Hot
  BY <1>1 DEF TraceInv, DrainOK
<1>4. \A t \in WaitingFor(Current(u)) :
        t \in Traces /\ place[t] = Default /\ Month(created[t]) = Current(u)
  BY DEF WaitingFor, In
<1>5. \A t \in Traces : place'[t] = to(t)
  BY <1>1
<1>6. Types'
  <2>1. \A t \in Traces : to(t) \in Int
    BY <1>2 DEF TraceInv, Types, Removed
  <2>2. place' \in [Traces -> Int] /\ stripped' \subseteq Traces
    BY <1>1, <1>3, <1>4, <2>1 DEF TraceInv, Types
  <2> QED
    BY <1>1, <1>2, <2>2 DEF TraceInv, Types, Points
<1>7. DrainOK(u)'
  <2>1. pc'[u] = "probe" /\ job'[u] = j
    BY <1>1 DEF TraceInv, Types, Workers
  <2>2. j.todo \subseteq Nat
    BY <1>2
  <2>3. job'[u].todo \subseteq Nat
    BY <2>1, <2>2, Zenon
  <2> QED
    BY <2>1, <2>3 DEF DrainOK, Making
<1>8. \A t \in Traces : RowOK(t)' /\ Moved(t)
  <2> TAKE t \in Traces
  <2>1. RowOK(t) /\ place[t] \in Int
    BY DEF TraceInv, Types
  <2>2. CASE t \in job[u].copied
    <3>1. /\ place'[t] = Current(u) /\ place[t] = Default /\ Month(created[t]) = Current(u)
          /\ t \in stripped' => created[t] < now - Hot
      BY <1>1, <1>3, <1>4, <1>5, <2>2
    <3> QED
      BY <1>1, <1>2, <2>1, <3>1 DEF RowOK, Moved, Default, Flat, Unwritten
  <2>3. CASE t \notin job[u].copied /\ t \in job[u].deleted
    <3>1. place'[t] = Removed /\ (t \in stripped' => t \in stripped)
      BY <1>1, <1>3, <1>5, <2>3
    <3> QED
      BY <1>1, <2>1, <3>1 DEF RowOK, Moved, Removed, Default, Flat, Unwritten
  <2>4. CASE t \notin job[u].copied /\ t \notin job[u].deleted
    <3>1. place'[t] = place[t] /\ (t \in stripped' <=> t \in stripped)
      BY <1>1, <1>3, <1>5, <2>4
    <3> QED
      BY <1>1, <2>1, <3>1 DEF RowOK, Moved
  <2> QED
    BY <2>2, <2>3, <2>4
<1>9. ASSUME NEW v \in Upkeepers \ {u}
      PROVE  /\ pc[v] \in {"delete", "attach"} =>
                  \A t \in job[v].copied \cup job[v].deleted : place'[t] = place[t]
             /\ pc[v] = "delete" => WaitingFor(Current(v))' \subseteq WaitingFor(Current(v))
  <2>1. DrainOK(v) /\ Current(v)' = Current(v)
    BY <1>1 DEF TraceInv, Types, Workers, Current
  <2>2. pc[v] \in {"delete", "attach"} => Current(v) # Current(u)
    BY <1>1 DEF TraceInv, Apart, Named
  <2>3. ASSUME pc[v] \in {"delete", "attach"}, NEW t \in job[v].copied \cup job[v].deleted
        PROVE  place'[t] = place[t]
    <3>1. t \in Traces /\ Month(created[t]) = Current(v)
      BY <2>1, <2>3 DEF DrainOK, WaitingFor, In
    <3>2. t \notin WaitingFor(Current(u))
      BY <3>1, <2>2, <2>3, <1>4
    <3> QED
      BY <1>3, <1>5, <3>1, <3>2
  <2>4. WaitingFor(Current(v))' \subseteq WaitingFor(Current(v))
    BY <1>1, <1>2, <1>5, <2>1 DEF WaitingFor, In, Default, Removed
  <2> QED
    BY <2>3, <2>4
<1> HIDE DEF j, to
<1> QED
  BY <1>1, <1>6, <1>7, <1>8, <1>9, TableStep

LEMMA RebuildKeeps ==
  ASSUME TraceInv, NEW u \in Upkeepers, Rebuild(u)
  PROVE  TraceInv'
<1> DEFINE held == {Month(created[t]) : t \in In(Flat)}
           from == Min(held \cup {IF held = {} THEN Month(now) ELSE Max(held)})
           to   == Max(held \cup {Month(now) + Ahead})
           put(t) == IF place[t] = Flat THEN Month(created[t]) ELSE place[t]
<1>1. /\ pc[u] = "rebuild" /\ shape = "flat" /\ shape' = "parted"
      /\ parts' = from .. to
      /\ place' = [t \in Traces |-> put(t)]
      /\ pc' = [pc EXCEPT ![u] = "list"] /\ job' = [job EXCEPT ![u] = job[u]]
      /\ UNCHANGED <<now, created, stripped>>
      /\ \A v \in Upkeepers \ {u} : late'[v] = late[v]
  BY DEF Rebuild, Goto, Forget, TraceInv, Types
<1>2. now \in Nat /\ Month(now) \in Nat /\ Ahead \in Nat /\ Month(now) + Ahead \in Nat
  BY MonthBounds, PartitionAssumption DEF TraceInv, Types
<1>3. \A t \in Traces : Month(created[t]) \in Nat /\ Month(created[t]) <= Month(now)
  <2> TAKE t \in Traces
  <2>1. created[t] \in Nat /\ created[t] <= now
    BY <1>2 DEF TraceInv, Types
  <2> QED
    BY <2>1, <1>2, MonthBounds DEF Month
<1>4. held \in SUBSET (0 .. Month(now) + Ahead)
  BY <1>2, <1>3 DEF In
<1> HIDE DEF held
<1>5. from \in Nat /\ \A m \in held : from <= m
  <2> DEFINE S == held \cup {IF held = {} THEN Month(now) ELSE Max(held)}
  <2>1. held # {} => Max(held) \in held
    BY <1>2, <1>4, GreatestIsIn
  <2>2. S \subseteq Nat /\ S # {}
    <3>1. held \subseteq Nat
      BY <1>2, <1>4
    <3>2. (IF held = {} THEN Month(now) ELSE Max(held)) \in Nat
      BY <1>2, <2>1, <3>1
    <3> QED
      BY <3>1, <3>2
  <2> HIDE DEF S
  <2>3. Min(S) \in S /\ \A m \in S : Min(S) <= m
    BY <2>2, LeastMonth
  <2>4. Min(S) \in Nat /\ \A m \in held : Min(S) <= m
    BY <2>2, <2>3 DEF S
  <2> QED
    BY <2>4 DEF S
<1>6. to \in Nat /\ \A m \in held : m <= to
  <2> DEFINE S == held \cup {Month(now) + Ahead}
  <2>1. S \in SUBSET (0 .. Month(now) + Ahead) /\ S # {}
    <3>1. Month(now) + Ahead \in 0 .. Month(now) + Ahead
      BY <1>2
    <3>2. Month(now) + Ahead \in S
      OBVIOUS
    <3> QED
      BY <1>4, <3>1, <3>2
  <2> HIDE DEF S
  <2>2. Max(S) \in S /\ \A m \in S : m <= Max(S)
    BY <1>2, <2>1, GreatestIsIn
  <2>3. Max(S) \in Nat /\ \A m \in held : m <= Max(S)
    BY <2>1, <2>2 DEF S
  <2> QED
    BY <2>3 DEF S
<1> HIDE DEF from, to
<1>7. held \subseteq parts' /\ parts' \subseteq Nat
  BY <1>1, <1>4, <1>5, <1>6
<1>8. \A t \in Traces : place'[t] = put(t)
  BY <1>1
<1>9. Types'
  <2>1. \A t \in Traces : put(t) \in Int
    BY <1>3 DEF TraceInv, Types
  <2>2. place' \in [Traces -> Int]
    BY <1>1, <2>1
  <2> QED
    BY <1>1, <1>7, <2>2 DEF TraceInv, Types, Points
<1>10. DrainOK(u)'
  <2>1. pc'[u] = "list"
    BY <1>1 DEF TraceInv, Types, Workers
  <2> QED
    BY <2>1 DEF DrainOK, Making
<1>11. \A t \in Traces : RowOK(t)' /\ Moved(t)
  <2> TAKE t \in Traces
  <2>1. RowOK(t) /\ place[t] \in Int /\ place[t] # Default /\ ~(place[t] >= 0)
    BY <1>1 DEF TraceInv, Types, RowOK
  <2>2. CASE place[t] = Flat
    <3>1. place'[t] = Month(created[t]) /\ place'[t] \in held /\ place'[t] \in Nat
      BY <1>3, <1>8, <2>2 DEF held, In
    <3> QED
      BY <1>1, <1>7, <2>1, <2>2, <3>1 DEF RowOK, Moved, Flat, Default, Unwritten
  <2>3. CASE place[t] # Flat
    <3>1. place'[t] = place[t]
      BY <1>8, <2>3
    <3> QED
      BY <1>1, <2>1, <2>3, <3>1 DEF RowOK, Moved
  <2> QED
    BY <2>2, <2>3
<1>12. ASSUME NEW v \in Upkeepers \ {u}
       PROVE  /\ pc[v] \in {"delete", "attach"} =>
                   \A t \in job[v].copied \cup job[v].deleted : place'[t] = place[t]
              /\ pc[v] = "delete" => WaitingFor(Current(v))' \subseteq WaitingFor(Current(v))
  <2>1. DrainOK(v) /\ Current(v)' = Current(v)
    BY <1>1 DEF TraceInv, Types, Workers, Current
  <2>2. \A t \in Traces : place[t] = Default => FALSE
    BY <1>1 DEF TraceInv, RowOK
  <2>3. pc[v] \in {"delete", "attach"} => job[v].copied \cup job[v].deleted = {}
    BY <2>1, <2>2 DEF DrainOK, WaitingFor, In
  <2>4. \A t \in Traces : place'[t] # Default
    BY <1>3, <1>8, <2>2 DEF Default
  <2>5. WaitingFor(Current(v))' = {}
    BY <2>4 DEF WaitingFor, In
  <2> QED
    BY <2>3, <2>5
<1> HIDE DEF put
<1> QED
  BY <1>1, <1>9, <1>10, <1>11, <1>12, TableStep

-----------------------------------------------------------------------------
(* Retention.                                                              *)

\* What an UPDATE of a partition reaches is old.
LEMMA ColdIsOld ==
  ASSUME TraceInv, NEW p \in Nat \cup {Default}, NEW hot \in Int, NEW t \in Traces,
         place[t] = p
  PROVE  t \in Cold(p, hot) <=> created[t] < hot
<1>1. created[t] \in Nat /\ t \in In(p)
  BY DEF TraceInv, Types, In
<1>2. CASE p = Default
  BY <1>1, <1>2 DEF Cold, Older
<1>3. CASE p # Default
  <2>1. p = Month(created[t]) /\ p \in Nat
    BY <1>3 DEF TraceInv, RowOK
  <2>2. From(p) <= created[t] /\ created[t] < Until(p)
    BY <1>1, <2>1, MonthBounds
  <2>3. From(p) \in Int /\ Until(p) \in Int
    BY <2>1 DEF From, Until
  <2> QED
    BY <1>1, <1>3, <2>2, <2>3 DEF Cold, Older
<1> QED
  BY <1>2, <1>3

\* The steps of a retention job that drop nothing.
LEMMA RetentionKeeps ==
  ASSUME TraceInv, NEW r \in Janitors,
         Retain(r) \/ DropsDone(r) \/ Strip(r) \/ End(r)
  PROVE  TraceInv'
<1>1. /\ r \in Workers /\ pc \in [Workers -> Points] /\ job = [w \in Workers |-> job[w]]
      /\ now \in Nat /\ created \in [Traces -> 0 .. now] /\ Hot \in Nat /\ Keep \in Nat
      /\ stripped \subseteq Traces /\ place \in [Traces -> Int] /\ parts \subseteq Nat
      /\ shape \in {"flat", "parted"} /\ PassOK(r)
  BY PartitionAssumption DEF Workers, TraceInv, Types
<1>2. UNCHANGED <<now, rows, policies>> /\ \A v \in Upkeepers : late'[v] = late[v]
  BY PartitionAssumption DEF Retain, DropsDone, Strip, End, Forget, table
<1>3. CASE Retain(r)
  <2>1. PICK drops \in BOOLEAN :
          /\ pc[r] = "idle"
          /\ IF shape = "flat"
             THEN /\ stripped' = stripped \cup Older(In(Flat), now - Hot)
                  /\ UNCHANGED <<pc, job>>
             ELSE /\ Goto(r, "drop")
                  /\ job' = [job EXCEPT ![r] =
                       [todo |-> Attached, hot |-> now - Hot, at |-> place,
                        expired |-> {m \in parts : drops /\ Until(m) <= now - Keep}]]
                  /\ UNCHANGED stripped
    BY <1>3 DEF Retain
  <2>2. CASE shape = "flat"
    <3>1. pc' = [pc EXCEPT ![r] = "idle"] /\ job' = [job EXCEPT ![r] = job[r]]
      BY <1>1, <2>1, <2>2
    <3>2. PassOK(r)'
      BY <1>1, <2>1, <3>1 DEF PassOK
    <3>3. /\ stripped \subseteq stripped' /\ stripped' \subseteq Traces
          /\ \A t \in stripped' \ stripped : place[t] # Unwritten /\ created[t] < now - Hot
      BY <1>1, <2>1, <2>2 DEF Older, In, Flat, Unwritten
    <3>4. "idle" \in Points
      BY DEF Points
    <3> QED
      BY <1>2, <3>1, <3>2, <3>3, <3>4, JanitorStep
  <2>3. CASE shape # "flat"
    <3> DEFINE gone == {m \in parts : drops /\ Until(m) <= now - Keep}
               j == [todo |-> Attached, hot |-> now - Hot, at |-> place, expired |-> gone]
    <3>1. /\ pc' = [pc EXCEPT ![r] = "drop"] /\ job' = [job EXCEPT ![r] = j]
          /\ stripped' = stripped
      BY <2>1, <2>3 DEF Goto
    <3>2. pc'[r] = "drop" /\ job'[r] = j
      BY <1>1, <3>1
    <3>3. /\ j.todo = Attached /\ j.hot = now - Hot /\ j.expired = gone /\ j.at = place
      OBVIOUS
    <3>4. j \in Pass
      BY <1>1 DEF Pass, Attached
    <3> HIDE DEF j
    <3>5. j.hot <= now - Hot /\ \A m \in j.expired : Until(m) <= now - Keep
      BY <1>1, <3>3
    <3>6. \A t \in Traces : place[t] >= Default => place[t] \in j.todo
      <4> TAKE t \in Traces
      <4>1. RowOK(t) /\ place[t] \in Int
        BY <1>1 DEF TraceInv
      <4> QED
        BY <3>3, <4>1 DEF RowOK, Attached, Default
    <3>7. PassOK(r)'
      BY <1>1, <1>2, <2>3, <3>2, <3>3, <3>4, <3>5, <3>6 DEF PassOK, rows
    <3>8. "drop" \in Points
      BY DEF Points
    <3> QED
      BY <1>1, <1>2, <3>1, <3>7, <3>8, JanitorStep
  <2> QED
    BY <2>2, <2>3
<1>4. CASE DropsDone(r)
  <2>1. /\ pc' = [pc EXCEPT ![r] = "strip"] /\ job' = [job EXCEPT ![r] = job[r]]
        /\ pc[r] = "drop" /\ stripped' = stripped
    BY <1>1, <1>4 DEF DropsDone, Goto
  <2>2. pc'[r] = "strip" /\ job'[r] = job[r]
    BY <1>1, <2>1
  <2>3. PassOK(r)'
    BY <1>1, <1>2, <2>1, <2>2 DEF PassOK, rows
  <2>4. "strip" \in Points
    BY DEF Points
  <2> QED
    BY <1>1, <1>2, <2>1, <2>3, <2>4, JanitorStep
<1>5. CASE Strip(r)
  <2> DEFINE j == [job[r] EXCEPT !.todo = Left(r)]
             cold == Cold(Current(r), job[r].hot)
  <2>1. /\ pc[r] = "strip" /\ job[r].todo # {} /\ stripped' = stripped \cup cold
        /\ pc' = [pc EXCEPT ![r] = "strip"] /\ job' = [job EXCEPT ![r] = j]
    BY <1>1, <1>5 DEF Strip
  <2>2. pc'[r] = "strip" /\ job'[r] = j
    BY <1>1, <2>1
  <2>3. shape = "parted" /\ job[r] \in Pass /\ job[r].hot \in Int /\ job[r].hot <= now - Hot
    BY <1>1, <2>1 DEF PassOK, Pass
  <2>4. /\ j \in Pass /\ j.todo = job[r].todo \ {Current(r)} /\ j.hot = job[r].hot
        /\ j.expired = job[r].expired /\ j.at = job[r].at
    BY <2>3 DEF Pass, Left
  <2>5. Current(r) \in Nat \cup {Default}
    <3>1. job[r].todo \in SUBSET {x \in Int : Default <= x} /\ Default \in Int
      BY <2>3 DEF Pass, Default
    <3> QED
      BY <2>1, <2>3, <3>1, LeastIsIn DEF Current, Pass
  <2> HIDE DEF j
  <2>6. \A t \in cold : t \in Traces /\ place[t] = Current(r)
    BY DEF Cold, Older, In
  <2>7. \A t \in cold : created[t] < job[r].hot
    BY <2>3, <2>5, <2>6, ColdIsOld
  <2> HIDE DEF cold
  <2>8. \A t \in cold : place[t] # Unwritten /\ created[t] < now - Hot
    BY <1>1, <2>3, <2>5, <2>6, <2>7 DEF Unwritten, Default
  <2>9. PassOK(r)'
    <3> SUFFICES ASSUME NEW t \in Traces
                 PROVE  place[t] = j.at[t] /\ place[t] >= Default =>
                          place[t] \in j.todo \/ (created[t] < j.hot => t \in stripped')
      BY <1>1, <1>2, <2>1, <2>2, <2>3, <2>4 DEF PassOK, rows
    <3>1. place[t] = Current(r) /\ created[t] < job[r].hot => t \in stripped'
      BY <2>1, <2>3, <2>5, ColdIsOld DEF cold
    <3> QED
      BY <1>1, <2>1, <2>4, <3>1 DEF PassOK
  <2>10. stripped \subseteq stripped' /\ stripped' \subseteq Traces
    BY <1>1, <2>1, <2>6
  <2>11. \A t \in stripped' \ stripped : place[t] # Unwritten /\ created[t] < now - Hot
    BY <2>1, <2>8
  <2>12. "strip" \in Points
    BY DEF Points
  <2> QED
    BY <1>2, <2>1, <2>9, <2>10, <2>11, <2>12, JanitorStep
<1>6. CASE End(r)
  <2>1. pc' = [pc EXCEPT ![r] = "idle"] /\ job' = [job EXCEPT ![r] = NoJob]
    BY <1>1, <1>6 DEF End, Return, Goto, PassOK
  <2>2. pc'[r] = "idle" /\ stripped' = stripped
    BY <1>1, <1>6, <2>1 DEF End
  <2>3. PassOK(r)' /\ "idle" \in Points
    BY <2>2 DEF PassOK, Points
  <2> QED
    BY <1>1, <1>2, <2>1, <2>2, <2>3, JanitorStep
<1> QED
  BY <1>3, <1>4, <1>5, <1>6

\* A dropped month ends by the cutoff that the pass has read.
LEMMA DroppedMonth ==
  ASSUME TraceInv, NEW r \in Janitors, pc[r] = "drop", Expired(r) # {}
  PROVE  /\ Min(Expired(r)) \in Nat
         /\ Until(Min(Expired(r))) <= now - Keep
<1>1. Expired(r) \subseteq Nat /\ \A m \in Expired(r) : Until(m) <= now - Keep
  BY DEF TraceInv, PassOK, Pass, Expired
<1> QED
  BY <1>1, LeastMonth

LEMMA DropKeeps ==
  ASSUME TraceInv, NEW r \in Janitors, Drop(r)
  PROVE  TraceInv'
<1> DEFINE m == Min(Expired(r))
           j == [job[r] EXCEPT !.todo = @ \ {m}]
           put(t) == IF place[t] = m THEN Removed ELSE place[t]
<1>1. /\ pc[r] = "drop" /\ Expired(r) # {} /\ parts' = parts \ {m}
      /\ place' = [t \in Traces |-> put(t)]
      /\ job' = [job EXCEPT ![r] = j]
      /\ UNCHANGED <<now, shape, created, late, stripped, policies, pc>>
  BY DEF Drop
<1>2. m \in Nat
  BY <1>1, DroppedMonth
<1>3. r \in Workers /\ r \notin Upkeepers /\ Types /\ PassOK(r)
  BY PartitionAssumption DEF Workers, TraceInv
<1> HIDE DEF m
<1>4. \A t \in Traces : place'[t] = put(t) /\ place[t] \in Int
  BY <1>1, <1>3 DEF Types
<1>5. job'[r] = j /\ \A w \in Workers \ {r} : job'[w] = job[w]
  BY <1>1, <1>3 DEF Types
<1>6. shape = "parted" /\ job[r] \in Pass
  BY <1>1, <1>3 DEF PassOK
<1>7. /\ j \in Pass /\ j.todo = job[r].todo \ {m} /\ j.hot = job[r].hot
      /\ j.expired = job[r].expired /\ j.at = job[r].at
  BY <1>6 DEF Pass
<1> HIDE DEF j
<1>8. Types'
  <2>1. place' \in [Traces -> Int]
    BY <1>1, <1>4 DEF Removed
  <2>2. job' = [w \in Workers |-> job'[w]]
    BY <1>1, <1>3 DEF Types
  <2> QED
    BY <1>1, <1>3, <2>1, <2>2 DEF Types
<1>9. \A t \in Traces : RowOK(t)' /\ Moved(t)
  <2> TAKE t \in Traces
  <2>1. RowOK(t)
    BY DEF TraceInv
  <2> QED
    BY <1>1, <1>2, <1>4, <2>1 DEF RowOK, Moved, Removed, Default, Flat, Unwritten
<1>10. \A v \in Upkeepers : pc'[v] = pc[v] /\ job'[v] = job[v] /\ Current(v)' = Current(v)
  BY <1>1, <1>3, <1>5 DEF Workers, Current
<1>11. \A v \in Upkeepers : DrainOK(v)' /\ ExtrasOK(v)'
  <2> TAKE v \in Upkeepers
  <2>1. DrainOK(v) /\ ExtrasOK(v) /\ Default \notin Nat
    BY DEF TraceInv, Default
  <2>2. ASSUME pc[v] \in {"delete", "attach"}, NEW t \in job[v].copied \cup job[v].deleted
        PROVE  place'[t] = place[t] /\ created'[t] = created[t]
    <3>1. t \in Traces /\ place[t] = Default
      BY <2>1, <2>2 DEF DrainOK, WaitingFor, In
    <3> QED
      BY <1>1, <1>2, <1>4, <2>1, <3>1
  <2>3. WaitingFor(Current(v))' \subseteq WaitingFor(Current(v))
    BY <1>1, <1>4, <1>10 DEF WaitingFor, In, Removed, Default
  <2>4. created \in [Traces -> 0 .. now] /\ now \in Nat /\ now' \in Nat /\ now <= now'
    BY <1>1, <1>3 DEF Types
  <2>5. DrainOK(v)'
    <3>1. late[v] \subseteq late'[v]
      BY <1>1
    <3> QED
      BY <1>10, <2>1, <2>2, <2>3, <2>4, <3>1, DrainKept
  <2> QED
    BY <1>1, <1>10, <2>1, <2>5 DEF ExtrasOK
<1>12. Apart'
  BY <1>10 DEF TraceInv, Apart
<1>13. \A q \in Janitors : PassOK(q)'
  <2> TAKE q \in Janitors
  <2>1. CASE q = r
    <3>1. PassOK(q) /\ pc[q] = "drop" /\ pc'[q] = "drop" /\ job'[q] = j
      BY <1>1, <1>3, <1>5, <2>1
    <3>2. ASSUME NEW t \in Traces
          PROVE  /\ place'[t] = Unwritten => j.at[t] = Unwritten
                 /\ j.at[t] >= 0 => place'[t] \in {j.at[t], Removed}
                 /\ place'[t] = j.at[t] /\ place'[t] >= Default => place'[t] \in j.todo
      <4>1. /\ place[t] = Unwritten => job[r].at[t] = Unwritten
            /\ job[r].at[t] >= 0 => place[t] \in {job[r].at[t], Removed}
            /\ place[t] = job[r].at[t] /\ place[t] >= Default => place[t] \in job[r].todo
        BY <2>1, <3>1 DEF PassOK
      <4> QED
        BY <1>2, <1>4, <1>7, <4>1 DEF Removed, Unwritten, Default
    <3> QED
      BY <1>1, <1>3, <1>6, <1>7, <3>1, <3>2 DEF PassOK
  <2>2. CASE q # r
    <3>1. pc'[q] = pc[q] /\ job'[q] = job[q]
      BY <1>1, <1>5, <2>2 DEF Workers
    <3>2. now' \in Nat /\ now <= now' /\ shape' = shape
      BY <1>1, <1>3 DEF Types
    <3> QED
      BY <1>9, <3>1, <3>2, PassKept
  <2> QED
    BY <2>1, <2>2
<1> QED
  BY <1>8, <1>9, <1>11, <1>12, <1>13 DEF TraceInv

LEMMA TraceNext == TraceInv /\ [Next]_vars => TraceInv'
<1> SUFFICES ASSUME TraceInv, [Next]_vars PROVE TraceInv'
  OBVIOUS
<1>1. ASSUME NEW t \in Traces, Write(t) PROVE TraceInv'
  BY <1>1, WriteKeeps
<1>2. CASE Tick \/ \E x \in Policies : Protect(x)
  BY <1>2, OthersKeep
<1>3. ASSUME NEW u \in Upkeepers, Migrate(u) \/ Ensure(u) \/ Scope(u) \/ End(u) PROVE TraceInv'
  BY <1>3, ControlKeeps, MakingKeeps, CreateKeeps, AttachKeeps, RebuildKeeps
     DEF Migrate, Ensure, Scope
<1>4. ASSUME NEW r \in Janitors, Retain(r) \/ Drop(r) \/ DropsDone(r) \/ Strip(r) \/ End(r)
      PROVE  TraceInv'
  BY <1>4, RetentionKeeps, DropKeeps
<1>5. CASE UNCHANGED vars
  <2>1. UNCHANGED <<now, shape, parts, place, created, late, stripped, policies, pc, job>>
    BY <1>5 DEF vars, table, rows
  <2>2. Types' /\ Apart' /\ \A t \in Traces : RowOK(t)'
    BY <2>1 DEF TraceInv, Types, Apart, Current, RowOK
  <2>3. \A u \in Upkeepers : DrainOK(u)' /\ ExtrasOK(u)'
    BY <2>1 DEF TraceInv, DrainOK, ExtrasOK, Current, WaitingFor, In
  <2>4. \A r \in Janitors : PassOK(r)'
    BY <2>1 DEF TraceInv, PassOK
  <2> QED
    BY <2>2, <2>3, <2>4 DEF TraceInv
<1> QED
  BY <1>1, <1>2, <1>3, <1>4, <1>5 DEF Next

LEMMA TraceInvariant == Spec => []TraceInv
BY TraceInit, TraceNext, PTL DEF Spec

-----------------------------------------------------------------------------
(* The theorems.                                                           *)

\* Whatever is rebuilt, drained and stripped at once, a trace keeps its payload
\* for hot_days (apply_retention).
THEOREM TracesKeepTheirPayload == Spec => []HotTracesKeepTheirPayload
<1>1. TraceInv => HotTracesKeepTheirPayload
  BY DEF TraceInv, RowOK, Types, HotTracesKeepTheirPayload
<1> QED
  BY <1>1, TraceInvariant, PTL

\* A retention pass that has gone through has missed no old trace that was in
\* its partition all the time (apply_retention).
THEOREM RetentionMissesNone == Spec => []RetentionIsComplete
<1>1. TraceInv => RetentionIsComplete
  <2> SUFFICES ASSUME TraceInv, NEW r \in Janitors, Finished(r), NEW t \in Traces,
                      job[r].at[t] \in Partitions, place[t] = job[r].at[t],
                      created[t] < job[r].hot
               PROVE  t \in stripped
    BY DEF RetentionIsComplete
  <2>1. PassOK(r) /\ job[r].todo = {}
    BY DEF TraceInv, Finished
  <2>2. pc[r] = "strip"
    BY <2>1 DEF Finished, PassOK
  <2>3. place[t] >= Default
    BY DEF Partitions, Months, Default
  <2> QED
    BY <2>1, <2>2, <2>3 DEF PassOK
<1> QED
  BY <1>1, TraceInvariant, PTL

\* What may become of a trace.
LEMMA StepLosesNoTrace ==
  ASSUME TraceInv, Next, NEW t \in Traces, Stored(t), ~Stored(t)'
  PROVE  \/ Until(Month(created[t])) <= now - Keep
         \/ \E u \in Upkeepers : pc[u] = "attach" /\ pc'[u] = "probe" /\ t \in late[u]
<1>1. /\ place \in [Traces -> Int] /\ place[t] # Unwritten /\ place[t] # Removed
      /\ place'[t] \in {Unwritten, Removed} /\ RowOK(t) /\ Month(created[t]) \in Nat
  BY MonthBounds DEF Stored, TraceInv, Types
<1>2. place' # place
  BY <1>1 DEF Stored
<1>3. ~\E s \in Traces : Write(s)
  <2> SUFFICES ASSUME NEW s \in Traces, Write(s) PROVE FALSE
    OBVIOUS
  <2>1. place[s] = Unwritten /\ \E p : place' = [place EXCEPT ![s] = p]
    BY DEF Write
  <2> QED
    BY <1>1, <2>1
<1>4. ~\E u \in Upkeepers : Rebuild(u)
  <2> SUFFICES ASSUME NEW u \in Upkeepers, Rebuild(u) PROVE FALSE
    OBVIOUS
  <2>1. place' = [s \in Traces |-> IF place[s] = Flat THEN Month(created[s]) ELSE place[s]]
    BY DEF Rebuild
  <2> QED
    BY <1>1, <2>1 DEF Unwritten, Removed
<1>5. CASE \E u \in Upkeepers : Attach(u)
  <2> PICK u \in Upkeepers : Attach(u)
    BY <1>5
  <2>1. /\ pc[u] = "attach" /\ pc' = [pc EXCEPT ![u] = "probe"]
        /\ place' = [s \in Traces |-> IF s \in job[u].copied THEN Current(u)
                                      ELSE IF s \in job[u].deleted THEN Removed ELSE place[s]]
    BY DEF Attach, Goto
  <2>2. job[u].deleted \subseteq job[u].copied \cup late[u] /\ Current(u) \in Nat
    BY <2>1, CurrentMonth DEF TraceInv, DrainOK, Making
  <2>3. t \in late[u]
    BY <1>1, <2>1, <2>2 DEF Unwritten, Removed
  <2>4. pc'[u] = "probe"
    BY <2>1 DEF TraceInv, Types, Workers
  <2> QED
    BY <2>1, <2>3, <2>4
<1>6. CASE \E r \in Janitors : Drop(r)
  <2> PICK r \in Janitors : Drop(r)
    BY <1>6
  <2>1. pc[r] = "drop" /\ Expired(r) # {}
        /\ place' = [s \in Traces |-> IF place[s] = Min(Expired(r)) THEN Removed ELSE place[s]]
    BY DEF Drop
  <2>2. place[t] = Min(Expired(r))
    BY <1>1, <2>1
  <2>3. Min(Expired(r)) \in Nat /\ Until(Min(Expired(r))) <= now - Keep
    BY <2>1, DroppedMonth
  <2> QED
    BY <1>1, <2>2, <2>3 DEF RowOK
<1> QED
  BY <1>2, <1>3, <1>4, <1>5, <1>6
     DEF Next, Tick, Protect, Migrate, Start, Capture, Ensure, List, Plan, Probe, Create, Name,
         Copy, Delete, Scope, Sync, Visit, CreatePolicy, Enable, Retain, DropsDone, Strip, End,
         table, rows

\* No rebuild, drain or upkeep, at whichever statement it is given up and
\* whatever is written meanwhile, loses a trace: retention removes those of a
\* month that has expired, and a drain those that were committed after it had
\* copied the month and before it deleted it (_create_partition).
THEOREM NoTraceIsLost == Spec => TracesStay
<1>1. TraceInv /\ [Next]_vars =>
        [\A t \in Traces : Stored(t) /\ ~Stored(t)' =>
           \/ Until(Month(created[t])) <= now - Keep
           \/ \E u \in Upkeepers : pc[u] = "attach" /\ pc'[u] = "probe" /\ t \in late[u]]_vars
  BY StepLosesNoTrace
<1> QED
  BY <1>1, TraceInvariant, PTL DEF Spec, TracesStay

\* The policies that scope the table outlive its rebuild, two adapters that
\* start at once included (migrate_to_partitioned): the one that finds it still
\* flat loses only those created after it had read them.
THEOREM PoliciesOutliveTheRebuild == Spec => PoliciesSurvive
<1>1. ASSUME TraceInv, Next, NEW x \in policies \ policies'
      PROVE  shape = "flat" /\ \E u \in Upkeepers :
               pc[u] = "rebuild" /\ pc'[u] = "list" /\ x \in late[u]
  <2>1. PICK u \in Upkeepers : Rebuild(u)
    <3>1. ASSUME NEW y \in Policies, Protect(y) PROVE policies \subseteq policies'
      BY <3>1 DEF Protect
    <3> QED
      BY <1>1, <3>1
         DEF Next, Write, Tick, Migrate, Start, Capture, Ensure, List, Plan, Probe, Create, Name,
             Copy, Delete, Attach, Scope, Sync, Visit, CreatePolicy, Enable, Retain, Drop,
             DropsDone, Strip, End
  <2>2. /\ pc[u] = "rebuild" /\ shape = "flat" /\ policies' = job[u].extras
        /\ pc' = [pc EXCEPT ![u] = "list"]
    BY <2>1 DEF Rebuild, Goto
  <2>3. policies \subseteq job[u].extras \cup late[u]
    BY <1>1, <2>2 DEF TraceInv, ExtrasOK
  <2>4. pc'[u] = "list"
    BY <1>1, <2>2 DEF TraceInv, Types, Workers
  <2> QED
    BY <1>1, <2>2, <2>3, <2>4
<1>2. TraceInv /\ [Next]_vars =>
        [\A x \in policies \ policies' :
           shape = "flat" /\ \E u \in Upkeepers :
             pc[u] = "rebuild" /\ pc'[u] = "list" /\ x \in late[u]]_vars
  BY <1>1
<1> QED
  BY <1>2, TraceInvariant, PTL DEF Spec, PoliciesSurvive

-----------------------------------------------------------------------------
(* Row security.  What upkeeper u has gone through is scoped, and what it  *)
(* has in hand lacks no more policies than it knows; a month that is       *)
(* dropped takes its policies along, and is not one that lasts.            *)

ScopeOK(u) ==
  /\ pc[u] # "strip"
  /\ pc[u] = "rebuild" => job[u].extras \subseteq Policies
  /\ pc[u] \in {"sync", "grant"} =>
       /\ job[u].want \subseteq Policies /\ job[u].want # {}
       /\ \A p \in Lasting : p \in job[u].listed /\ p \notin job[u].todo =>
            security[p].on /\ job[u].want \subseteq security[p].has
  /\ pc[u] = "grant" =>
       /\ job[u].lacks \subseteq Policies
       /\ Current(u) \in Lasting =>
            job[u].want \subseteq security[Current(u)].has \cup job[u].lacks

ScopeInv ==
  /\ policies \subseteq Policies
  /\ security \in [Partitions -> [on : BOOLEAN, has : SUBSET Policies]]
  /\ \A p \in Lasting : security[p].on => security[p].has # {}
  /\ \A u \in Upkeepers : ScopeOK(u)

LEMMA LastingShrinks ==
  ASSUME now \in Nat, now' \in Nat, now <= now'
  PROVE  Lasting' \subseteq Lasting
<1>1. \A p \in Months : Until(p) \in Int
  BY DEF Months, Until
<1>2. Keep \in Nat
  BY PartitionAssumption
<1> QED
  BY <1>1, <1>2 DEF Lasting, Partitions

\* What upkeeper v knows of row security stays true while policies only come.
LEMMA ScopeKept ==
  ASSUME NEW v \in Upkeepers, ScopeOK(v), pc'[v] = pc[v], job'[v] = job[v],
         Lasting' \subseteq Lasting,
         \A p \in Lasting' :
           (security[p].on => security'[p].on) /\ security[p].has \subseteq security'[p].has
  PROVE  ScopeOK(v)'
<1>1. Current(v)' = Current(v)
  BY DEF Current
<1>2. pc[v] = "rebuild" => job'[v].extras \subseteq Policies
  BY DEF ScopeOK
<1>3. pc[v] \in {"sync", "grant"} =>
        /\ job'[v].want \subseteq Policies /\ job'[v].want # {}
        /\ \A p \in Lasting' : p \in job'[v].listed /\ p \notin job'[v].todo =>
             security'[p].on /\ job'[v].want \subseteq security'[p].has
  BY DEF ScopeOK
<1>4. pc[v] = "grant" =>
        /\ job'[v].lacks \subseteq Policies
        /\ Current(v) \in Lasting' =>
             job'[v].want \subseteq security'[Current(v)].has \cup job'[v].lacks
  BY DEF ScopeOK
<1> QED
  BY <1>1, <1>2, <1>3, <1>4 DEF ScopeOK

\* Upkeeper u takes a step that changes no partition's row security.
LEMMA ScopeStep ==
  ASSUME TraceInv, ScopeInv, NEW u \in Upkeepers, NEW p, NEW j,
         now' = now, security' = security, policies' \subseteq Policies,
         pc' = [pc EXCEPT ![u] = p], job' = [job EXCEPT ![u] = j], ScopeOK(u)'
  PROVE  ScopeInv'
<1>1. Lasting' = Lasting
  BY DEF Lasting
<1>2. \A v \in Upkeepers \ {u} : pc'[v] = pc[v] /\ job'[v] = job[v]
  BY DEF TraceInv, Types, Workers
<1>3. \A v \in Upkeepers : ScopeOK(v)'
  BY <1>1, <1>2, ScopeKept DEF ScopeInv
<1> QED
  BY <1>1, <1>3 DEF ScopeInv

\* The steps of upkeeper u, but for those that change row security.
LEMMA UpkeepScopes ==
  ASSUME TraceInv, ScopeInv, NEW u \in Upkeepers,
         Migrate(u) \/ Ensure(u) \/ Sync(u) \/ Visit(u) \/ End(u)
  PROVE  ScopeInv'
<1>1. /\ u \in Workers /\ pc \in [Workers -> Points] /\ job = [w \in Workers |-> job[w]]
      /\ ScopeOK(u) /\ policies \subseteq Policies
  BY DEF Workers, TraceInv, Types, ScopeInv
<1>2. now' = now /\ security' = security
  BY DEF Migrate, Start, Capture, Rebuild, Ensure, List, Plan, Probe, Create, Name, Copy, Delete,
         Attach, Sync, Visit, End
<1>3. CASE Capture(u)
  <2> DEFINE j == [todo |-> {}, extras |-> policies]
  <2>1. /\ pc' = [pc EXCEPT ![u] = "rebuild"] /\ job' = [job EXCEPT ![u] = j]
        /\ policies' = policies
    BY <1>3 DEF Capture, Goto
  <2>2. pc'[u] = "rebuild" /\ job'[u] = j /\ j.extras = policies
    BY <1>1, <2>1
  <2> HIDE DEF j
  <2>3. ScopeOK(u)'
    BY <1>1, <2>2 DEF ScopeOK
  <2> QED
    BY <1>1, <1>2, <2>1, <2>3, ScopeStep
<1>4. CASE Sync(u) /\ policies # {}
  <2> DEFINE j == [todo |-> Attached, listed |-> Attached, want |-> policies]
  <2>1. /\ pc' = [pc EXCEPT ![u] = "sync"] /\ job' = [job EXCEPT ![u] = j]
        /\ policies' = policies
    BY <1>4 DEF Sync, Goto
  <2>2. /\ pc'[u] = "sync" /\ job'[u] = j
        /\ j.want = policies /\ j.todo = Attached /\ j.listed = Attached
    BY <1>1, <2>1
  <2> HIDE DEF j
  <2>3. ScopeOK(u)'
    BY <1>1, <1>4, <2>2 DEF ScopeOK
  <2> QED
    BY <1>1, <1>2, <2>1, <2>3, ScopeStep
<1>5. CASE Visit(u)
  <2> DEFINE j == [todo |-> job[u].todo, listed |-> job[u].listed, want |-> job[u].want,
                   lacks |-> job[u].want \ security[Current(u)].has]
  <2>1. /\ pc' = [pc EXCEPT ![u] = "grant"] /\ job' = [job EXCEPT ![u] = j]
        /\ policies' = policies /\ pc[u] = "sync"
    BY <1>5 DEF Visit, Goto
  <2>2. /\ pc'[u] = "grant" /\ job'[u] = j
        /\ j.todo = job[u].todo /\ j.listed = job[u].listed /\ j.want = job[u].want
        /\ j.lacks = job[u].want \ security[Current(u)].has
    BY <1>1, <2>1
  <2> HIDE DEF j
  <2>3. Current(u)' = Current(u) /\ Lasting' = Lasting
    BY <1>2, <2>2 DEF Current, Lasting
  <2>4. /\ job[u].want \subseteq Policies /\ job[u].want # {}
        /\ \A p \in Lasting : p \in job[u].listed /\ p \notin job[u].todo =>
             security[p].on /\ job[u].want \subseteq security[p].has
    BY <1>1, <2>1 DEF ScopeOK
  <2>5. ScopeOK(u)'
    BY <1>2, <2>2, <2>3, <2>4 DEF ScopeOK
  <2> QED
    BY <1>1, <1>2, <2>1, <2>5, ScopeStep
<1>6. CASE ~Capture(u) /\ ~(Sync(u) /\ policies # {}) /\ ~Visit(u)
  <2>1. PICK p, j : pc' = [pc EXCEPT ![u] = p] /\ job' = [job EXCEPT ![u] = j]
                    /\ p \notin {"rebuild", "sync", "grant", "strip"}
    <3>1. CASE Start(u) \/ Probe(u) \/ Name(u)
      <4>1. job' = [job EXCEPT ![u] = job[u]]
        BY <1>1, <3>1 DEF Start, Probe, Name
      <4>2. PICK q \in {"capture", "list", "create", "name", "copy"} :
              pc' = [pc EXCEPT ![u] = q]
        BY <3>1 DEF Start, Probe, Name, Goto
      <4>3. q \notin {"rebuild", "sync", "grant", "strip"}
        OBVIOUS
      <4> QED
        BY <4>1, <4>2, <4>3, Zenon
    <3>2. CASE Rebuild(u)
      <4>1. job' = [job EXCEPT ![u] = job[u]]
        BY <1>1, <3>2 DEF Rebuild
      <4>2. pc' = [pc EXCEPT ![u] = "list"] /\ "list" \notin {"rebuild", "sync", "grant", "strip"}
        BY <3>2 DEF Rebuild, Goto
      <4> QED
        BY <4>1, <4>2, Zenon
    <3>3. CASE List(u) \/ Plan(u) \/ Create(u)
      BY <3>3 DEF List, Plan, Create, Goto, Return
    <3>4. CASE Copy(u) \/ Delete(u) \/ Attach(u)
      BY <3>4 DEF Copy, Delete, Attach, Goto
    <3>5. CASE Sync(u) /\ policies = {}
      BY <3>5 DEF Sync, Goto, Return
    <3>6. CASE End(u)
      BY <3>6 DEF End, Goto, Return
    <3> QED
      BY <1>6, <3>1, <3>2, <3>3, <3>4, <3>5, <3>6 DEF Migrate, Ensure
  <2>2. pc'[u] = p
    BY <1>1, <2>1
  <2>3. ScopeOK(u)'
    BY <2>1, <2>2 DEF ScopeOK
  <2>4. policies' \subseteq Policies
    <3>1. CASE Rebuild(u)
      BY <1>1, <3>1 DEF Rebuild, ScopeOK
    <3>2. CASE ~Rebuild(u)
      BY <1>1, <3>2 DEF Migrate, Start, Capture, Ensure, List, Plan, Probe, Create, Name, Copy,
                        Delete, Attach, Sync, Visit, End
    <3> QED
      BY <3>1, <3>2
  <2> QED
    BY <1>2, <2>1, <2>3, <2>4, ScopeStep
<1> QED
  BY <1>3, <1>4, <1>5, <1>6

LEMMA CreatePolicyScopes ==
  ASSUME TraceInv, ScopeInv, NEW u \in Upkeepers, pc[u] = "grant", CreatePolicy(u)
  PROVE  ScopeInv'
<1>1. PICK x \in job[u].lacks :
        /\ security' = [security EXCEPT ![Current(u)].has = @ \cup {x}]
        /\ job' = [job EXCEPT ![u].lacks = @ \ {x}]
        /\ UNCHANGED <<now, table, stripped, policies, pc>>
  BY DEF CreatePolicy
<1>2. /\ u \in Workers /\ job = [w \in Workers |-> job[w]] /\ ScopeOK(u)
      /\ security \in [Partitions -> [on : BOOLEAN, has : SUBSET Policies]]
      /\ x \in Policies
  BY DEF Workers, TraceInv, Types, ScopeInv, ScopeOK
<1> DEFINE j == [job[u] EXCEPT !.lacks = @ \ {x}]
           c == [security[Current(u)] EXCEPT !.has = @ \cup {x}]
<1>3. \A p \in Partitions :
        /\ p # Current(u) => security'[p] = security[p]
        /\ p = Current(u) => security'[p] = c
  BY <1>1, <1>2
<1>4. \A p \in Partitions : security[p] \in [on : BOOLEAN, has : SUBSET Policies]
  BY <1>2
<1>5. Current(u) \in Partitions =>
        /\ c \in [on : BOOLEAN, has : SUBSET Policies]
        /\ c.on = security[Current(u)].on /\ c.has = security[Current(u)].has \cup {x}
  BY <1>2, <1>4
<1> HIDE DEF c
<1>6. security' \in [Partitions -> [on : BOOLEAN, has : SUBSET Policies]]
  <2>1. security' = [p \in Partitions |-> security'[p]]
    BY <1>1, <1>2
  <2>2. \A p \in Partitions : security'[p] \in [on : BOOLEAN, has : SUBSET Policies]
    BY <1>3, <1>4, <1>5
  <2> QED
    BY <2>1, <2>2, Zenon
<1>7. \A p \in Partitions :
        security'[p].on = security[p].on /\ security[p].has \subseteq security'[p].has
  BY <1>3, <1>5
<1>8. Lasting' = Lasting /\ Lasting \subseteq Partitions
  BY <1>1 DEF Lasting
<1>9. \A p \in Lasting' : security'[p].on => security'[p].has # {}
  BY <1>7, <1>8 DEF ScopeInv
<1>10. job'[u] = j /\ \A v \in Upkeepers \ {u} : job'[v] = job[v]
  BY <1>1, <1>2 DEF Workers
<1>11. \A v \in Upkeepers \ {u} : ScopeOK(v)'
  <2> TAKE v \in Upkeepers \ {u}
  <2>1. ScopeOK(v) /\ pc'[v] = pc[v] /\ job'[v] = job[v]
    BY <1>1, <1>10 DEF ScopeInv
  <2> QED
    BY <1>7, <1>8, <2>1, ScopeKept
<1>12. ScopeOK(u)'
  <2>1. /\ job[u].want \subseteq Policies /\ job[u].want # {} /\ job[u].lacks \subseteq Policies
        /\ \A p \in Lasting : p \in job[u].listed /\ p \notin job[u].todo =>
             security[p].on /\ job[u].want \subseteq security[p].has
        /\ Current(u) \in Lasting =>
             job[u].want \subseteq security[Current(u)].has \cup job[u].lacks
    BY <1>2 DEF ScopeOK
  <2>2. /\ j.want = job[u].want /\ j.listed = job[u].listed /\ j.todo = job[u].todo
        /\ j.lacks = job[u].lacks \ {x}
    <3>1. job[u].want = j.want /\ job[u].listed = j.listed /\ job[u].todo = j.todo
      OBVIOUS
    <3>2. j.lacks = job[u].lacks \ {x}
      OBVIOUS
    <3> QED
      BY <3>1, <3>2
  <2> HIDE DEF j
  <2>3. Current(u)' = Current(u) /\ pc'[u] = "grant"
    BY <1>1, <1>10, <2>2 DEF Current
  <2>4. \A p \in Lasting' : p \in job'[u].listed /\ p \notin job'[u].todo =>
          security'[p].on /\ job'[u].want \subseteq security'[p].has
    BY <1>7, <1>8, <1>10, <2>1, <2>2
  <2>5. Current(u) \in Lasting' =>
          job'[u].want \subseteq security'[Current(u)].has \cup job'[u].lacks
    BY <1>3, <1>5, <1>8, <1>10, <2>1, <2>2
  <2>6. job'[u].want \subseteq Policies /\ job'[u].want # {} /\ job'[u].lacks \subseteq Policies
    BY <1>10, <2>1, <2>2
  <2> QED
    BY <2>3, <2>4, <2>5, <2>6 DEF ScopeOK
<1>13. \A v \in Upkeepers : ScopeOK(v)'
  BY <1>11, <1>12
<1> QED
  BY <1>1, <1>6, <1>9, <1>13 DEF ScopeInv

LEMMA EnableScopes ==
  ASSUME TraceInv, ScopeInv, NEW u \in Upkeepers, pc[u] = "grant", Enable(u)
  PROVE  ScopeInv'
<1> DEFINE j == [todo |-> Left(u), listed |-> job[u].listed, want |-> job[u].want]
           c == [security[Current(u)] EXCEPT !.on = TRUE]
<1>1. /\ job[u].lacks = {}
      /\ security' = [security EXCEPT ![Current(u)] = c]
      /\ pc' = [pc EXCEPT ![u] = "sync"] /\ job' = [job EXCEPT ![u] = j]
      /\ now' = now /\ policies' = policies
  BY DEF Enable, Goto
<1>2. /\ u \in Workers /\ job = [w \in Workers |-> job[w]] /\ pc \in [Workers -> Points]
      /\ ScopeOK(u)
      /\ security \in [Partitions -> [on : BOOLEAN, has : SUBSET Policies]]
  BY DEF Workers, TraceInv, Types, ScopeInv
<1>3. \A p \in Partitions :
        /\ p # Current(u) => security'[p] = security[p]
        /\ p = Current(u) => security'[p] = c
  BY <1>1, <1>2
<1>4. \A p \in Partitions : security[p] \in [on : BOOLEAN, has : SUBSET Policies]
  BY <1>2
<1>5. Current(u) \in Partitions =>
        /\ c \in [on : BOOLEAN, has : SUBSET Policies]
        /\ c.on = TRUE /\ c.has = security[Current(u)].has
  BY <1>2, <1>4
<1> HIDE DEF c
<1>6. security' \in [Partitions -> [on : BOOLEAN, has : SUBSET Policies]]
  <2>1. security' = [p \in Partitions |-> security'[p]]
    BY <1>1, <1>2
  <2>2. \A p \in Partitions : security'[p] \in [on : BOOLEAN, has : SUBSET Policies]
    BY <1>3, <1>4, <1>5
  <2> QED
    BY <2>1, <2>2, Zenon
<1>7. \A p \in Partitions :
        (security[p].on => security'[p].on) /\ security[p].has = security'[p].has
  BY <1>3, <1>5
<1>8. Lasting' = Lasting /\ Lasting \subseteq Partitions
  BY <1>1 DEF Lasting
<1>9. /\ job[u].want \subseteq Policies /\ job[u].want # {}
      /\ \A p \in Lasting : p \in job[u].listed /\ p \notin job[u].todo =>
           security[p].on /\ job[u].want \subseteq security[p].has
      /\ Current(u) \in Lasting => job[u].want \subseteq security[Current(u)].has
  BY <1>1, <1>2 DEF ScopeOK
<1>10. \A p \in Lasting' : security'[p].on => security'[p].has # {}
  BY <1>3, <1>7, <1>8, <1>9 DEF ScopeInv
<1>11. /\ pc'[u] = "sync" /\ job'[u] = j
       /\ \A v \in Upkeepers \ {u} : job'[v] = job[v] /\ pc'[v] = pc[v]
  BY <1>1, <1>2 DEF Workers
<1>12. \A v \in Upkeepers \ {u} : ScopeOK(v)'
  <2> TAKE v \in Upkeepers \ {u}
  <2>1. ScopeOK(v) /\ pc'[v] = pc[v] /\ job'[v] = job[v]
    BY <1>11 DEF ScopeInv
  <2> QED
    BY <1>7, <1>8, <2>1, ScopeKept
<1>13. ScopeOK(u)'
  <2>1. j.todo = Left(u) /\ j.listed = job[u].listed /\ j.want = job[u].want
    OBVIOUS
  <2> HIDE DEF j
  <2>2. \A p \in Lasting : p \in job[u].listed /\ p \notin Left(u) =>
          security'[p].on /\ job[u].want \subseteq security'[p].has
    <3> SUFFICES ASSUME NEW p \in Lasting, p \in job[u].listed, p \notin Left(u)
                 PROVE  security'[p].on /\ job[u].want \subseteq security'[p].has
      OBVIOUS
    <3>1. CASE p = Current(u)
      BY <1>3, <1>5, <1>8, <1>9, <3>1
    <3>2. CASE p # Current(u)
      <4>1. p \notin job[u].todo
        BY <3>2 DEF Left
      <4> QED
        BY <1>3, <1>8, <1>9, <3>2, <4>1
    <3> QED
      BY <3>1, <3>2
  <2> QED
    BY <1>8, <1>9, <1>11, <2>1, <2>2 DEF ScopeOK
<1>14. \A v \in Upkeepers : ScopeOK(v)'
  BY <1>12, <1>13
<1> QED
  BY <1>1, <1>6, <1>10, <1>14 DEF ScopeInv

\* Retention, and everybody who is no upkeeper.
LEMMA OthersScope ==
  ASSUME TraceInv, ScopeInv,
         \/ \E t \in Traces : Write(t)
         \/ \E x \in Policies : Protect(x)
         \/ \E r \in Janitors : Retain(r) \/ Drop(r) \/ DropsDone(r) \/ Strip(r) \/ End(r)
         \/ Tick \/ UNCHANGED vars
  PROVE  ScopeInv'
<1>1. now \in Nat /\ now' \in Nat /\ now <= now'
  <2>1. now \in Nat
    BY DEF TraceInv, Types
  <2>2. now' = now \/ now' = now + 1
    BY DEF Write, Protect, Retain, Drop, DropsDone, Strip, End, Tick, vars
  <2> QED
    BY <2>1, <2>2
<1>2. Lasting' \subseteq Lasting /\ Lasting \subseteq Partitions
  BY <1>1, LastingShrinks DEF Lasting
<1>3. policies' \subseteq Policies
  BY DEF ScopeInv, Write, Protect, Retain, Drop, DropsDone, Strip, End, Tick, vars
<1>4. \A v \in Upkeepers : pc'[v] = pc[v] /\ job'[v] = job[v]
  <2>1. CASE UNCHANGED <<pc, job>>
    BY <2>1
  <2>2. ASSUME NEW r \in Janitors, \E p, j : /\ pc' = [pc EXCEPT ![r] = p] \/ pc' = pc
                                             /\ job' = [job EXCEPT ![r] = j] \/ job' = job
        PROVE  \A v \in Upkeepers : pc'[v] = pc[v] /\ job'[v] = job[v]
    BY <2>2, PartitionAssumption DEF TraceInv, Types, Workers
  <2>3. ASSUME NEW r \in Janitors,
               Retain(r) \/ Drop(r) \/ DropsDone(r) \/ Strip(r) \/ End(r)
        PROVE  \E p, j : /\ pc' = [pc EXCEPT ![r] = p] \/ pc' = pc
                         /\ job' = [job EXCEPT ![r] = j] \/ job' = job
    <3>1. CASE Retain(r)
      BY <3>1 DEF Retain, Goto
    <3>2. CASE Drop(r) \/ Strip(r)
      BY <3>2 DEF Drop, Strip
    <3>3. CASE DropsDone(r)
      BY <3>3 DEF DropsDone, Goto
    <3>4. CASE End(r)
      BY <3>4 DEF End, Goto, Return
    <3> QED
      BY <2>3, <3>1, <3>2, <3>3, <3>4
  <2> QED
    BY <2>1, <2>2, <2>3 DEF Write, Protect, Tick, vars
<1>5. /\ security' \in [Partitions -> [on : BOOLEAN, has : SUBSET Policies]]
      /\ \A p \in Lasting' : security'[p] = security[p]
  <2>1. CASE security' = security
    BY <2>1 DEF ScopeInv
  <2>2. ASSUME NEW r \in Janitors, Drop(r)
        PROVE  /\ security' \in [Partitions -> [on : BOOLEAN, has : SUBSET Policies]]
               /\ \A p \in Lasting' : security'[p] = security[p]
    <3> DEFINE m == Min(Expired(r))
    <3>1. /\ pc[r] = "drop" /\ Expired(r) # {} /\ now' = now
          /\ security' = [security EXCEPT ![m] = Unscoped]
      BY <2>2 DEF Drop
    <3>2. m \in Nat /\ Until(m) <= now - Keep
      BY <3>1, DroppedMonth
    <3> HIDE DEF m
    <3>3. m \notin Lasting'
      <4>1. now - Keep \in Int /\ Until(m) \in Int /\ m # Default
        BY <1>1, <3>2, PartitionAssumption DEF Until, Default
      <4> QED
        BY <3>1, <3>2, <4>1 DEF Lasting
    <3>4. Unscoped \in [on : BOOLEAN, has : SUBSET Policies]
      BY DEF Unscoped
    <3>5. security' \in [Partitions -> [on : BOOLEAN, has : SUBSET Policies]]
      BY <3>1, <3>4 DEF ScopeInv
    <3>6. \A p \in Lasting' : security'[p] = security[p]
      BY <1>2, <3>1, <3>3 DEF ScopeInv
    <3> QED
      BY <3>5, <3>6
  <2> QED
    BY <2>1, <2>2 DEF Write, Protect, Retain, DropsDone, Strip, End, Tick, vars
<1>6. \A p \in Lasting' : security'[p].on => security'[p].has # {}
  BY <1>2, <1>5 DEF ScopeInv
<1>7. \A v \in Upkeepers : ScopeOK(v)'
  <2> TAKE v \in Upkeepers
  <2>1. ScopeOK(v)
    BY DEF ScopeInv
  <2> QED
    BY <1>2, <1>4, <1>5, <2>1, ScopeKept
<1> QED
  BY <1>3, <1>5, <1>6, <1>7 DEF ScopeInv

LEMMA ScopeInit == Init => ScopeInv
<1> SUFFICES ASSUME Init PROVE ScopeInv
  OBVIOUS
<1>1. security = [p \in Partitions |-> Unscoped] /\ policies = {}
  BY DEF Init
<1>2. Unscoped \in [on : BOOLEAN, has : SUBSET Policies] /\ ~Unscoped.on
  BY DEF Unscoped
<1>3. \A p \in Lasting : security[p] = Unscoped
  BY <1>1 DEF Lasting
<1>4. \A u \in Upkeepers : ScopeOK(u)
  BY DEF Init, ScopeOK
<1> QED
  BY <1>1, <1>2, <1>3, <1>4 DEF ScopeInv

LEMMA ScopeNext == TraceInv /\ ScopeInv /\ [Next]_vars => ScopeInv'
<1> SUFFICES ASSUME TraceInv, ScopeInv, [Next]_vars PROVE ScopeInv'
  OBVIOUS
<1>1. CASE \/ \E t \in Traces : Write(t)
           \/ \E x \in Policies : Protect(x)
           \/ \E r \in Janitors : Retain(r) \/ Drop(r) \/ DropsDone(r) \/ Strip(r) \/ End(r)
           \/ Tick \/ UNCHANGED vars
  BY <1>1, OthersScope
<1>2. ASSUME NEW u \in Upkeepers, Migrate(u) \/ Ensure(u) \/ Scope(u) \/ End(u)
      PROVE  ScopeInv'
  BY <1>2, UpkeepScopes, CreatePolicyScopes, EnableScopes DEF Scope
<1> QED
  BY <1>1, <1>2 DEF Next

\* Wherever upkeep has gone through, every partition that lasts has row security
\* on and the policies the parent had, and none has it on without a policy,
\* whatever rivals, failures and drops came in between (sync_partition_rls).
THEOREM PartitionsStayScoped == Spec => []PartitionsAreScoped
<1>1. TraceInv /\ ScopeInv => PartitionsAreScoped
  <2> SUFFICES ASSUME ScopeInv, NEW u \in Upkeepers, Finished(u),
                      NEW p \in Lasting \cap job[u].listed, TraceInv
               PROVE  security[p].on /\ job[u].want \subseteq security[p].has
    BY DEF PartitionsAreScoped, ScopeInv
  <2>1. ScopeOK(u) /\ job[u].todo = {}
    BY DEF ScopeInv, Finished
  <2>2. pc[u] = "sync"
    BY <2>1 DEF Finished, ScopeOK
  <2> QED
    BY <2>1, <2>2 DEF ScopeOK
<1> QED
  BY <1>1, ScopeInit, ScopeNext, TraceInvariant, PTL DEF Spec

=============================================================================
