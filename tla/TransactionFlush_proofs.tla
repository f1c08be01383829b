------------------------ MODULE TransactionFlush_proofs ------------------------
(***************************************************************************)
(* For any finite number of processes, any keys and any buffers, and       *)
(* wherever processes die:                                                 *)
(*                                                                         *)
(* Batches never wait for each other in a circle: every batch waits for a  *)
(* key that sorts no lower than the ones it holds, so of a group the one   *)
(* that waits for the highest key waits for somebody who is not waiting in *)
(* turn.                                                                   *)
(*                                                                         *)
(* What a flush leaves is whole: it holds the locks of all its keys over   *)
(* all its renames, so nobody writes between them, and it saves its commit *)
(* when all of them are behind it.  Without crashes every flush lands as a *)
(* whole or not at all, and two that share keys land in one order.         *)
(*                                                                         *)
(* The history they make may fork.  The search for a common ancestor ends  *)
(* by itself all the same, at the latest commit both walks can reach.      *)
(***************************************************************************)
EXTENDS TransactionFlush, FiniteSetTheorems, FunctionTheorems, WellFoundedInduction,
        TLAPS

\* A finite set has a greatest element under any integer measure: one above
\* which the fewest elements lie.
LEMMA FiniteGreatest ==
  ASSUME NEW G, IsFiniteSet(G), G # {}, NEW f \in [G -> Int]
  PROVE  \E a \in G : \A b \in G : f[b] <= f[a]
<1> DEFINE Above(a) == {b \in G : f[a] < f[b]}
           Aboves == {Above(a) : a \in G}
<1>1. PICK U \in Aboves : \A V \in Aboves : <<V, U>> \notin StrictSubsetOrdering(G)
  <2>1. \A a \in G : IsFiniteSet(Above(a)) /\ Above(a) \in SUBSET G
    BY FS_Subset
  <2>2. Aboves \subseteq FiniteSubsetsOf(G)
    <3> HIDE DEF Above
    <3> QED
      BY <2>1 DEF FiniteSubsetsOf
  <2>3. Aboves # {}
    <3>1. \A a \in G : Above(a) \in Aboves
      OBVIOUS
    <3> HIDE DEF Aboves
    <3> QED
      BY <3>1
  <2> HIDE DEF Aboves
  <2> QED
    BY <2>2, <2>3, FS_StrictSubsetOrderingWellFounded, WFMin
<1>2. PICK a \in G : U = Above(a)
  BY <1>1
<1>3. ASSUME NEW b \in G, ~(f[b] <= f[a]) PROVE FALSE
  <2>1. f[a] < f[b] /\ \A e \in G : f[e] \in Int
    BY <1>3
  <2>2. Above(b) \subseteq Above(a) /\ b \in Above(a) /\ b \notin Above(b)
    BY <2>1
  <2>3. <<Above(b), Above(a)>> \in StrictSubsetOrdering(G)
    BY <2>2 DEF StrictSubsetOrdering
  <2> QED
    BY <1>1, <1>2, <2>3
<1> QED
  BY <1>3

\* What First chooses of a buffer: a position whose key no other's precedes.
LEMMA FirstIsLeast ==
  ASSUME NEW t \in Seq(Keys), NEW S \in SUBSET DOMAIN t, S # {}
  PROVE  First(t, S) \in S /\ \A j \in S : t[First(t, S)] <= t[j]
<1>1. IsFiniteSet(DOMAIN t)
  <2>1. DOMAIN t = 1 .. Len(t) /\ Len(t) \in Nat
    OBVIOUS
  <2> QED
    BY <2>1, FS_Interval
<1>2. \A j \in DOMAIN t : t[j] \in Int /\ j \in Int
  <2>1. \A j \in DOMAIN t : t[j] \in Keys /\ j \in Nat
    OBVIOUS
  <2>2. Keys \subseteq Int
    <3>1. Keys \subseteq Nat
      BY FlushAssumption
    <3> QED
      BY <3>1
  <2>3. Nat \subseteq Int
    OBVIOUS
  <2> QED
    BY <2>1, <2>2, <2>3, Zenon
<1> DEFINE byKey == [i \in S |-> 0 - t[i]]
<1>3. PICK k \in S : \A j \in S : byKey[j] <= byKey[k]
  <2>1. byKey \in [S -> Int]
    BY <1>2
  <2>2. IsFiniteSet(S)
    BY <1>1, FS_Subset
  <2> HIDE DEF byKey
  <2> QED
    BY <2>1, <2>2, FiniteGreatest
<1> DEFINE Low == {i \in S : t[i] = t[k]}
           byPlace == [i \in Low |-> 0 - i]
<1>4. PICK i \in Low : \A j \in Low : byPlace[j] <= byPlace[i]
  <2>1. byPlace \in [Low -> Int] /\ Low # {}
    BY <1>2
  <2>2. IsFiniteSet(Low)
    BY <1>1, FS_Subset
  <2> HIDE DEF byPlace, Low
  <2> QED
    BY <2>1, <2>2, FiniteGreatest
<1>5. \A j \in S : t[i] < t[j] \/ (t[i] = t[j] /\ i <= j)
  <2> SUFFICES ASSUME NEW j \in S PROVE t[i] < t[j] \/ (t[i] = t[j] /\ i <= j)
    OBVIOUS
  <2>1. t[i] \in Int /\ t[j] \in Int /\ t[k] \in Int /\ i \in Int /\ j \in Int
    BY <1>2
  <2>2. t[i] = t[k] /\ 0 - t[j] <= 0 - t[k]
    BY <1>3, <1>4
  <2>3. t[j] = t[k] => 0 - j <= 0 - i
    BY <1>4
  <2> QED
    BY <2>1, <2>2, <2>3
<1>6. i \in S
  OBVIOUS
<1> DEFINE Least(n) == \A j \in S : t[n] < t[j] \/ (t[n] = t[j] /\ n <= j)
<1>7. First(t, S) \in S /\ Least(First(t, S))
  BY <1>5, <1>6 DEF First
<1> QED
  BY <1>2, <1>7

-----------------------------------------------------------------------------
(***************************************************************************)
(* The inductive invariant.  A process on its way has a buffer of its own; *)
(* it holds locks only between the first Acquire and the last Release; and *)
(* while it is acquiring, what it holds are the keys done, and none of     *)
(* them sorts above one that is left.                                      *)
(***************************************************************************)
Points == {"idle", "read", "open", "lock", "supersede", "publish", "release",
           "list", "stamp", "save"}

ShapeOK ==
  /\ lock \in [Keys -> Agents \cup {NoAgent}]
  /\ pc \in [Agents -> Points]
  /\ id \in [Agents -> Ids \cup {NoCommit}]
  /\ DOMAIN done = Agents
  /\ plan \in [Ids -> Seq(Keys)]

BufferOK == \A a \in Agents : pc[a] # "idle" => id[a] \in Ids /\ Buffer(a) # <<>>

FreshOK == \A a \in Agents : pc[a] \in {"idle", "read", "open"} => done[a] = {}

HolderOK ==
  \A a \in Agents, k \in Keys :
    lock[k] = a => pc[a] \in {"lock", "supersede", "publish", "release"}

AscentOK ==
  \A a \in Agents : pc[a] = "lock" =>
    /\ done[a] \subseteq DOMAIN Buffer(a) /\ done[a] # DOMAIN Buffer(a)
    /\ \A k \in Keys : lock[k] = a => \E i \in done[a] : Buffer(a)[i] = k
    /\ \A i \in done[a], j \in DOMAIN Buffer(a) \ done[a] : Buffer(a)[i] <= Buffer(a)[j]

FlushInv == ShapeOK /\ BufferOK /\ FreshOK /\ HolderOK /\ AscentOK

LEMMA MintedIds == \A i \in DOMAIN Minted : Minted[i] \in Ids
BY DEF Ids

LEMMA InitFlush == Init => FlushInv
<1> SUFFICES ASSUME Init PROVE FlushInv
  OBVIOUS
<1>1. ShapeOK
  BY DEF Init, ShapeOK, Points
<1>2. \A k \in Keys : lock[k] = NoAgent
  BY DEF Init
<1>3. \A a \in Agents : pc[a] = "idle" /\ done[a] = {}
  BY DEF Init
<1> QED
  BY <1>1, <1>2, <1>3, FlushAssumption DEF FlushInv, BufferOK, FreshOK, HolderOK, AscentOK

\* What a step of one process leaves of the others: their locks and their
\* part of the invariant.
LEMMA OthersOK ==
  ASSUME FlushInv, NEW a \in Agents, ShapeOK',
         \A b \in Agents \ {a} : pc'[b] = pc[b] /\ id'[b] = id[b] /\ done'[b] = done[b],
         \A c \in Ids : plan[c] # <<>> => plan'[c] = plan[c],
         \A k \in Keys, b \in Agents \ {a} : lock'[k] = b => lock[k] = b
  PROVE  \A b \in Agents \ {a} :
           /\ pc'[b] # "idle" => id'[b] \in Ids /\ Buffer(b)' # <<>>
           /\ pc'[b] \in {"idle", "read", "open"} => done'[b] = {}
           /\ \A k \in Keys : lock'[k] = b => pc'[b] \in {"lock", "supersede", "publish", "release"}
           /\ pc'[b] = "lock" =>
                /\ done'[b] \subseteq DOMAIN Buffer(b)' /\ done'[b] # DOMAIN Buffer(b)'
                /\ \A k \in Keys : lock'[k] = b => \E i \in done'[b] : Buffer(b)'[i] = k
                /\ \A i \in done'[b], j \in DOMAIN Buffer(b)' \ done'[b] :
                     Buffer(b)'[i] <= Buffer(b)'[j]
<1> SUFFICES ASSUME NEW b \in Agents \ {a}
             PROVE  /\ pc'[b] # "idle" => id'[b] \in Ids /\ Buffer(b)' # <<>>
                    /\ pc'[b] \in {"idle", "read", "open"} => done'[b] = {}
                    /\ \A k \in Keys :
                         lock'[k] = b => pc'[b] \in {"lock", "supersede", "publish", "release"}
                    /\ pc'[b] = "lock" =>
                         /\ done'[b] \subseteq DOMAIN Buffer(b)' /\ done'[b] # DOMAIN Buffer(b)'
                         /\ \A k \in Keys : lock'[k] = b => \E i \in done'[b] : Buffer(b)'[i] = k
                         /\ \A i \in done'[b], j \in DOMAIN Buffer(b)' \ done'[b] :
                              Buffer(b)'[i] <= Buffer(b)'[j]
  OBVIOUS
<1>1. pc[b] # "idle" => id[b] \in Ids /\ Buffer(b) # <<>> /\ Buffer(b)' = Buffer(b)
  BY DEF FlushInv, BufferOK, Buffer
<1>2. pc'[b] = pc[b] /\ id'[b] = id[b] /\ done'[b] = done[b]
  OBVIOUS
<1>3. CASE pc[b] = "lock"
  BY <1>1, <1>2, <1>3 DEF FlushInv, AscentOK
<1>4. CASE pc[b] # "lock"
  BY <1>1, <1>2, <1>4 DEF FlushInv, FreshOK, HolderOK
<1>5. \A k \in Keys : lock'[k] = b => pc'[b] \in {"lock", "supersede", "publish", "release"}
  BY <1>2 DEF FlushInv, HolderOK
<1> QED
  BY <1>1, <1>2, <1>3, <1>4, <1>5

\* A step is judged by the process that takes it.
LEMMA OwnOK ==
  ASSUME FlushInv, NEW a \in Agents, ShapeOK',
         \A b \in Agents \ {a} : pc'[b] = pc[b] /\ id'[b] = id[b] /\ done'[b] = done[b],
         \A c \in Ids : plan[c] # <<>> => plan'[c] = plan[c],
         \A k \in Keys, b \in Agents \ {a} : lock'[k] = b => lock[k] = b,
         pc'[a] # "idle" => id'[a] \in Ids /\ Buffer(a)' # <<>>,
         pc'[a] \in {"idle", "read", "open"} => done'[a] = {},
         \A k \in Keys : lock'[k] = a => pc'[a] \in {"lock", "supersede", "publish", "release"},
         pc'[a] = "lock" =>
           /\ done'[a] \subseteq DOMAIN Buffer(a)' /\ done'[a] # DOMAIN Buffer(a)'
           /\ \A k \in Keys : lock'[k] = a => \E i \in done'[a] : Buffer(a)'[i] = k
           /\ \A i \in done'[a], j \in DOMAIN Buffer(a)' \ done'[a] :
                Buffer(a)'[i] <= Buffer(a)'[j]
  PROVE  FlushInv'
<1>1. BufferOK' /\ FreshOK'
  BY OthersOK DEF BufferOK, FreshOK
<1>2. HolderOK'
  BY OthersOK DEF HolderOK
<1>3. AscentOK'
  BY OthersOK DEF AscentOK
<1> QED
  BY <1>1, <1>2, <1>3 DEF FlushInv

-----------------------------------------------------------------------------
\* A buffer that is not empty has a position.
LEMMA NoneLeft ==
  ASSUME NEW S, NEW t \in Seq(S), t # <<>>
  PROVE  DOMAIN t # {}
<1>1. DOMAIN t = 1 .. Len(t) /\ Len(t) \in Nat
  OBVIOUS
<1>2. Len(t) # 0
  OBVIOUS
<1> QED
  BY <1>1, <1>2

\* Steps that touch neither locks nor buffers, and end nowhere near a lock.
LEMMA QuietOK ==
  ASSUME FlushInv, NEW a \in Agents, Locate(a) \/ Open(a) \/ ListCommits(a) \/ Stamp(a)
                                     \/ SaveCommit(a)
  PROVE  FlushInv'
<1>1. Buffer(a) # <<>> /\ id[a] \in Ids
  BY DEF FlushInv, BufferOK, Locate, Open, ListCommits, Stamp, SaveCommit
<1>2. \A k \in Keys : lock[k] # a
  BY DEF FlushInv, HolderOK, Locate, Open, ListCommits, Stamp, SaveCommit
<1>3. lock' = lock /\ plan' = plan
  BY DEF Locate, Open, ListCommits, Stamp, SaveCommit
<1>4. ShapeOK'
  BY <1>3 DEF FlushInv, ShapeOK, Points, Locate, Open, ListCommits, Stamp, SaveCommit, Note,
              Return, Goto
<1>5. \A b \in Agents \ {a} : pc'[b] = pc[b] /\ id'[b] = id[b] /\ done'[b] = done[b]
  BY DEF FlushInv, ShapeOK, Locate, Open, ListCommits, Stamp, SaveCommit, Note, Return, Goto
<1>6. pc'[a] # "idle" => id'[a] = id[a] /\ Buffer(a)' = Buffer(a)
  BY <1>3 DEF FlushInv, ShapeOK, Locate, Open, ListCommits, Stamp, SaveCommit, Note, Return,
              Goto, Buffer
<1>7. pc'[a] \in {"idle", "read", "open", "lock"} => done'[a] = {}
  BY DEF FlushInv, ShapeOK, FreshOK, Locate, Open, ListCommits, Stamp, SaveCommit, Note, Return,
         Goto
<1>8. DOMAIN Buffer(a) # {}
  <2>1. Buffer(a) \in Seq(Keys)
    BY <1>1 DEF FlushInv, ShapeOK, Buffer
  <2> QED
    BY <1>1, <2>1, NoneLeft
<1> QED
  BY <1>1, <1>2, <1>3, <1>4, <1>5, <1>6, <1>7, <1>8, OwnOK

LEMMA BeginOK ==
  ASSUME FlushInv, NEW a \in Agents, Begin(a)
  PROVE  FlushInv'
<1>1. PICK t \in Buffers, c \in Ids :
        plan[c] = <<>> /\ plan' = [plan EXCEPT ![c] = t] /\ id' = [id EXCEPT ![a] = c]
  BY MintedIds DEF Begin
<1>2. t \in Seq(Keys) /\ t # <<>>
  BY FlushAssumption
<1>3. ShapeOK' /\ pc'[a] = "read" /\ done' = done /\ lock' = lock
  BY <1>1, <1>2 DEF FlushInv, ShapeOK, Points, Begin, Goto
<1>4. pc[a] = "idle" /\ done[a] = {} /\ \A k \in Keys : lock[k] # a
  BY DEF FlushInv, FreshOK, HolderOK, Begin
<1>5. id'[a] = c /\ Buffer(a)' = t
  BY <1>1 DEF FlushInv, ShapeOK, Buffer
<1>6. \A d \in Ids : plan[d] # <<>> => plan'[d] = plan[d]
  BY <1>1 DEF FlushInv, ShapeOK
<1>7. \A b \in Agents \ {a} : pc'[b] = pc[b] /\ id'[b] = id[b] /\ done'[b] = done[b]
  BY <1>1, <1>3 DEF FlushInv, ShapeOK, Begin, Goto
<1> QED
  BY <1>1, <1>2, <1>3, <1>4, <1>5, <1>6, <1>7, OwnOK

\* The next key of a batch is one of those left, and none left sorts below it.
LEMMA WantedIsLeast ==
  ASSUME FlushInv, NEW a \in Agents, pc[a] = "lock"
  PROVE  /\ Position(a) \in DOMAIN Buffer(a) \ done[a]
         /\ Wanted(a) \in Keys
         /\ \A j \in DOMAIN Buffer(a) \ done[a] : Wanted(a) <= Buffer(a)[j]
<1>1. Buffer(a) \in Seq(Keys)
  BY DEF FlushInv, ShapeOK, BufferOK, Buffer
<1>2. DOMAIN Buffer(a) \ done[a] # {}
  BY DEF FlushInv, AscentOK
<1>3. /\ Position(a) \in DOMAIN Buffer(a) \ done[a]
      /\ \A j \in DOMAIN Buffer(a) \ done[a] : Buffer(a)[Position(a)] <= Buffer(a)[j]
  BY <1>1, <1>2, FirstIsLeast DEF Position
<1> QED
  BY <1>1, <1>3 DEF Wanted

LEMMA AcquireOK ==
  ASSUME FlushInv, NEW a \in Agents, Acquire(a)
  PROVE  FlushInv'
<1> DEFINE held == done[a] \cup {Position(a)}
<1>1. pc[a] = "lock" /\ lock' = [lock EXCEPT ![Wanted(a)] = a] /\ plan' = plan /\ id' = id
  BY DEF Acquire
<1>2. /\ Position(a) \in DOMAIN Buffer(a) \ done[a] /\ Wanted(a) \in Keys
      /\ \A j \in DOMAIN Buffer(a) \ done[a] : Wanted(a) <= Buffer(a)[j]
  BY <1>1, WantedIsLeast
<1>3. Buffer(a) # <<>> /\ id[a] \in Ids /\ Buffer(a)' = Buffer(a)
  BY <1>1 DEF FlushInv, BufferOK, Buffer
<1>4. \A b \in Agents \ {a} : pc'[b] = pc[b] /\ done'[b] = done[b]
  BY DEF FlushInv, ShapeOK, Acquire, Goto
<1>5. ShapeOK'
  <2>1. lock' \in [Keys -> Agents \cup {NoAgent}]
    BY <1>1 DEF FlushInv, ShapeOK
  <2>2. DOMAIN done' = Agents
    BY DEF FlushInv, ShapeOK, Acquire
  <2>3. pc' \in [Agents -> Points]
    BY DEF FlushInv, ShapeOK, Points, Acquire, Goto
  <2> QED
    BY <1>1, <2>1, <2>2, <2>3 DEF FlushInv, ShapeOK
<1>6. \/ pc'[a] = "supersede"
      \/ pc'[a] = "lock" /\ done'[a] = held /\ held # DOMAIN Buffer(a)
  BY <1>1 DEF FlushInv, ShapeOK, Acquire, Goto
<1>7. /\ \A k \in Keys : lock'[k] = a => lock[k] = a \/ k = Wanted(a)
      /\ \A k \in Keys, b \in Agents \ {a} : lock'[k] = b => lock[k] = b
  BY <1>1, <1>2 DEF FlushInv, ShapeOK
<1>8. \A k \in Keys : lock'[k] = a => \E i \in held : Buffer(a)[i] = k
  BY <1>1, <1>7 DEF FlushInv, AscentOK, Wanted
<1>9. \A i \in held, j \in DOMAIN Buffer(a) \ held : Buffer(a)[i] <= Buffer(a)[j]
  <2> SUFFICES ASSUME NEW i \in held, NEW j \in DOMAIN Buffer(a) \ held
               PROVE  Buffer(a)[i] <= Buffer(a)[j]
    OBVIOUS
  <2>1. CASE i \in done[a]
    BY <1>1, <2>1 DEF FlushInv, AscentOK
  <2>2. CASE i = Position(a)
    BY <1>2, <2>2 DEF Wanted
  <2> QED
    BY <2>1, <2>2
<1>10. held \subseteq DOMAIN Buffer(a)
  BY <1>1, <1>2 DEF FlushInv, AscentOK
<1> HIDE DEF held
<1> QED
  BY <1>1, <1>3, <1>4, <1>5, <1>6, <1>7, <1>8, <1>9, <1>10, OwnOK

LEMMA WriteOK ==
  ASSUME FlushInv, NEW a \in Agents, Supersede(a) \/ Publish(a)
  PROVE  FlushInv'
<1>1. lock' = lock /\ plan' = plan /\ id' = id
  BY DEF Supersede, Publish
<1>2. Buffer(a) # <<>> /\ id[a] \in Ids /\ Buffer(a)' = Buffer(a)
  BY <1>1 DEF FlushInv, BufferOK, Supersede, Publish, Buffer
<1>3. pc'[a] \in {"supersede", "publish", "release"}
  BY DEF FlushInv, ShapeOK, Supersede, Publish, Goto
<1>4. \A b \in Agents \ {a} : pc'[b] = pc[b] /\ done'[b] = done[b]
  BY DEF FlushInv, ShapeOK, Supersede, Publish, Goto
<1>5. CASE Supersede(a)
  <2>1. ShapeOK'
    BY <1>1, <1>5 DEF FlushInv, ShapeOK, Points, Supersede, Goto
  <2> QED
    BY <1>1, <1>2, <1>3, <1>4, <2>1, OwnOK
<1>6. CASE Publish(a)
  <2>1. ShapeOK'
    BY <1>1, <1>6 DEF FlushInv, ShapeOK, Points, Publish, Goto
  <2> QED
    BY <1>1, <1>2, <1>3, <1>4, <2>1, OwnOK
<1> QED
  BY <1>5, <1>6

LEMMA ReleaseOK ==
  ASSUME FlushInv, NEW a \in Agents, Release(a)
  PROVE  FlushInv'
<1>1. PICK k \in Held(a) :
        /\ lock' = [lock EXCEPT ![k] = NoAgent]
        /\ IF Held(a) # {k}
           THEN UNCHANGED <<pc, flush>>
           ELSE IF raised[a] THEN Return(a) ELSE Goto(a, "list") /\ UNCHANGED flush
  BY DEF Release
<1>2. pc[a] = "release" /\ plan' = plan
  BY DEF Release
<1>3. Buffer(a) # <<>> /\ id[a] \in Ids
  BY <1>2 DEF FlushInv, BufferOK
<1>4. ShapeOK'
  BY <1>1, <1>2 DEF FlushInv, ShapeOK, Points, Return, Goto, flush
<1>5. \A b \in Agents \ {a} : pc'[b] = pc[b] /\ id'[b] = id[b] /\ done'[b] = done[b]
  BY <1>1 DEF FlushInv, ShapeOK, Return, Goto, flush
<1>6. \A j \in Keys, b \in Agents : lock'[j] = b => lock[j] = b /\ j # k
  BY <1>1, FlushAssumption DEF FlushInv, ShapeOK
<1>7. pc'[a] # "release" => \A j \in Keys : lock'[j] # a
  BY <1>1, <1>2, <1>6 DEF Held
<1>8. \/ pc'[a] \in {"release", "list"} /\ id'[a] = id[a]
      \/ pc'[a] = "idle" /\ done'[a] = {}
  BY <1>1, <1>2 DEF FlushInv, ShapeOK, Return, Goto, flush
<1>9. pc'[a] # "idle" => Buffer(a)' # <<>> /\ id'[a] \in Ids
  BY <1>2, <1>3, <1>8 DEF Buffer
<1> QED
  BY <1>2, <1>4, <1>5, <1>6, <1>7, <1>8, <1>9, OwnOK

LEMMA LockTimeoutOK ==
  ASSUME FlushInv, NEW a \in Agents, LockTimeout(a)
  PROVE  FlushInv'
<1>1. pc[a] = "lock" /\ lock' = lock /\ plan' = plan
  BY DEF LockTimeout
<1>2. Buffer(a) # <<>> /\ id[a] \in Ids
  BY <1>1 DEF FlushInv, BufferOK
<1>3. ShapeOK'
  BY <1>1 DEF FlushInv, ShapeOK, Points, LockTimeout, Return, Goto
<1>4. \A b \in Agents \ {a} : pc'[b] = pc[b] /\ id'[b] = id[b] /\ done'[b] = done[b]
  BY DEF FlushInv, ShapeOK, LockTimeout, Return, Goto
<1>5. \/ pc'[a] = "release" /\ id'[a] = id[a]
      \/ pc'[a] = "idle" /\ done'[a] = {} /\ Held(a) = {}
  BY <1>1 DEF FlushInv, ShapeOK, LockTimeout, Return, Goto
<1>6. pc'[a] # "idle" => Buffer(a)' # <<>> /\ id'[a] \in Ids
  BY <1>1, <1>2, <1>5 DEF Buffer
<1>7. Held(a) = {} => \A k \in Keys : lock[k] # a
  BY DEF Held
<1> QED
  BY <1>1, <1>3, <1>4, <1>5, <1>6, <1>7, OwnOK

LEMMA CrashOK ==
  ASSUME FlushInv, NEW a \in Agents, Crash(a)
  PROVE  FlushInv'
<1>1. lock' = [k \in Keys |-> IF lock[k] = a THEN NoAgent ELSE lock[k]] /\ plan' = plan
  BY DEF Crash
<1>2. ShapeOK'
  BY <1>1 DEF FlushInv, ShapeOK, Points, Crash, Return
<1>3. \A b \in Agents \ {a} : pc'[b] = pc[b] /\ id'[b] = id[b] /\ done'[b] = done[b]
  BY DEF FlushInv, ShapeOK, Crash, Return
<1>4. \A k \in Keys : lock'[k] # a /\ (lock'[k] \in Agents => lock'[k] = lock[k])
  BY <1>1, FlushAssumption DEF FlushInv, ShapeOK
<1>5. pc'[a] = "idle" /\ done'[a] = {}
  BY DEF FlushInv, ShapeOK, Crash, Return
<1> QED
  BY <1>1, <1>2, <1>3, <1>4, <1>5, OwnOK

LEMMA StepFlush ==
  ASSUME FlushInv, [Next]_vars
  PROVE  FlushInv'
<1>1. CASE UNCHANGED vars
  BY <1>1 DEF vars, files, flush, FlushInv, ShapeOK, BufferOK, FreshOK, HolderOK, AscentOK, Buffer
<1>2. CASE Next
  <2>1. PICK a \in Agents : Begin(a) \/ Step(a) \/ Crash(a)
    BY <1>2 DEF Next
  <2> QED
    BY <2>1, BeginOK, QuietOK, AcquireOK, LockTimeoutOK, WriteOK, ReleaseOK, CrashOK DEF Step
<1> QED
  BY <1>1, <1>2

-----------------------------------------------------------------------------
\* Of any batches, the one waiting for the highest key waits for nobody, or
\* for one that waits for nobody of theirs.
LEMMA AscentMeansNoCircle == FlushInv => NoCircularWait
<1> SUFFICES ASSUME FlushInv, NEW group \in (SUBSET Agents) \ {{}}
             PROVE  \E a \in group : \A b \in group : ~WaitsFor(a, b)
  BY DEF NoCircularWait
<1> DEFINE Waiting == {a \in group : pc[a] = "lock"}
           wanted == [a \in Waiting |-> Wanted(a)]
<1>1. CASE Waiting # group
  BY <1>1 DEF WaitsFor
<1>2. CASE Waiting = group
  <2>1. IsFiniteSet(Waiting) /\ Waiting # {}
    <3>1. IsFiniteSet(group)
      BY FlushAssumption, FS_Subset
    <3>2. group # {}
      OBVIOUS
    <3> HIDE DEF Waiting
    <3> QED
      BY <1>2, <3>1, <3>2
  <2>2. \A a \in Waiting : Wanted(a) \in Keys
    BY WantedIsLeast
  <2>3. wanted \in [Waiting -> Int]
    <3>1. Keys \subseteq Int
      <4>1. Keys \subseteq Nat
        BY FlushAssumption
      <4> QED
        BY <4>1
    <3> QED
      BY <2>2, <3>1, Zenon
  <2>4. PICK a \in Waiting : \A b \in Waiting : wanted[b] <= wanted[a]
    <3> HIDE DEF Waiting, wanted
    <3> QED
      BY <1>2, <2>1, <2>3, FiniteGreatest
  <2>5. SUFFICES ASSUME NEW b \in group, WaitsFor(a, b)
                 PROVE  \A c \in group : ~WaitsFor(b, c)
    BY <2>4
  <2>6. lock[Wanted(a)] = b /\ pc[b] = "lock"
    BY <1>2, <2>5 DEF WaitsFor
  <2>7. PICK i \in done[b] : Buffer(b)[i] = Wanted(a)
    BY <2>2, <2>6 DEF FlushInv, AscentOK
  <2>8. Wanted(a) <= Wanted(b)
    BY <2>6, <2>7, WantedIsLeast DEF FlushInv, AscentOK, Wanted
  <2>9. Wanted(b) <= Wanted(a)
    BY <1>2, <2>4
  <2>10. Wanted(a) \in Int /\ Wanted(b) \in Int
    BY <1>2, <2>3
  <2>11. lock[Wanted(b)] = b
    BY <2>6, <2>8, <2>9, <2>10
  <2> QED
    BY <2>11 DEF WaitsFor
<1> QED
  BY <1>1, <1>2

\* Batches never wait for each other in a circle, whatever the orders in
\* which their keys were buffered and wherever processes die.
THEOREM BatchesNeverCircle == Spec => []NoCircularWait
<1>1. Init => FlushInv
  BY InitFlush
<1>2. FlushInv /\ [Next]_vars => FlushInv'
  BY StepFlush
<1>3. FlushInv => NoCircularWait
  BY AscentMeansNoCircle
<1> QED
  BY <1>1, <1>2, <1>3, PTL DEF Spec

-----------------------------------------------------------------------------
(***************************************************************************)
(* What flushes leave behind.  While nobody dies on a key its versions are *)
(* a line without gaps, each of another commit; the locks of a batch cover *)
(* all its renames, so what it has written so far is the newest of its     *)
(* keys, and how far it is says which of its keys have landed.             *)
(***************************************************************************)
File == [v : Nat, commit : Ids, base : Nat]

DataOK ==
  /\ cur \in [Keys -> File \cup {NoFile}]
  /\ past \in [Keys -> [Versions -> File \cup {NoFile}]]
  /\ base \in [Agents -> Seq(Nat)]
  /\ num \in [Agents -> Nat]
  /\ raised \in [Agents -> BOOLEAN]
  /\ DOMAIN commits = Ids
  /\ crashes \in Nat
  /\ crashes = 0 => torn = {}

\* A flush knows as many versions as it has read keys, and all of them once
\* it asks for locks.
ReadOK(a) ==
  /\ pc[a] = "idle" => base[a] = <<>>
  /\ pc[a] \in {"read", "open"} => Len(base[a]) < Len(Buffer(a))
  /\ pc[a] \in {"lock", "supersede", "publish"} => Len(base[a]) = Len(Buffer(a))

InSection(a) == pc[a] \in {"supersede", "publish"}

\* The keys locked so far are different ones; in its section a batch has the
\* locks of all its keys and something left to write.
LockedOK(a) ==
  /\ pc[a] = "lock" =>
       /\ \A i \in done[a] : lock[Buffer(a)[i]] = a
       /\ \A i, j \in done[a] : Buffer(a)[i] = Buffer(a)[j] => i = j
  /\ InSection(a) =>
       /\ done[a] \subseteq DOMAIN Buffer(a) /\ done[a] # DOMAIN Buffer(a)
       /\ \A i \in DOMAIN Buffer(a) : lock[Buffer(a)[i]] = a
       /\ \A i, j \in DOMAIN Buffer(a) : Buffer(a)[i] = Buffer(a)[j] => i = j

\* Flushes in progress have commit ids of their own; an exception is on its
\* way out only while the locks go back.
OwnerOK ==
  /\ \A a \in Agents : pc[a] = "idle" => id[a] = NoCommit
  /\ \A a, b \in Agents : id[a] # NoCommit /\ id[a] = id[b] => a = b
  /\ \A a \in Agents : pc[a] # "release" => ~raised[a]

SectionInv == DataOK /\ OwnerOK /\ \A a \in Agents : ReadOK(a) /\ LockedOK(a)

Publishing(a, k) == pc[a] = "publish" /\ Wanted(a) = k

\* The superseded versions of a key that was never torn are those before its
\* live one or before the one being written.
LineOK(k) ==
  /\ cur[k] # NoFile =>
       /\ cur[k].v \in Versions
       /\ \A w \in Versions : past[k][w] # NoFile <=> w < cur[k].v
  /\ \A a \in Agents : Publishing(a, k) =>
       /\ cur[k] = NoFile /\ num[a] \in Versions
       /\ \A w \in Versions : past[k][w] # NoFile <=> w < num[a]
  /\ cur[k] = NoFile /\ (\A a \in Agents : ~Publishing(a, k)) =>
       \A w \in Versions : past[k][w] = NoFile

\* No two versions of it are of one commit.
OnceOK(k) ==
  \A u, v \in Versions, c \in Ids : IsOf(k, u, c) /\ IsOf(k, v, c) => u = v

\* Nothing of a flush is written before its section, nor when it could not get
\* in; all of it is, once the section is behind it.
Before(a) == pc[a] \in {"read", "open", "lock"} \/ (pc[a] = "release" /\ raised[a])
After(a) == pc[a] \in {"list", "stamp", "save"} \/ (pc[a] = "release" /\ ~raised[a])

\* How far a flush is, and what of it has landed.
StageOK(a) ==
  \A c \in Ids : id[a] = c =>
    \A k \in KeysOf(c) \ torn :
      /\ Before(a) => ~Landed(c, k)
      /\ InSection(a) =>
           \A i \in DOMAIN plan[c] : plan[c][i] = k => (Landed(c, k) <=> i \in done[a])
      /\ After(a) => Landed(c, k)

\* An id not minted yet is nowhere; a flush that is over has landed as a
\* whole or not at all; a saved one as a whole.
CommitOK(c) ==
  /\ plan[c] = <<>> =>
       /\ \A k \in Keys \ torn : ~Landed(c, k)
       /\ commits[c] = NoCommit
       /\ \A a \in Agents : id[a] # c
  /\ crashes = 0 /\ (\A a \in Agents : id[a] # c) =>
       \/ \A k \in KeysOf(c) : Landed(c, k)
       \/ \A k \in KeysOf(c) : ~Landed(c, k)
  /\ commits[c] # NoCommit =>
       /\ \A k \in KeysOf(c) \ torn : Landed(c, k)
       /\ \A a \in Agents : id[a] # c

\* What a batch in its section has written is the newest of its keys.
NewestOK(a) ==
  InSection(a) => \A c \in Ids : id[a] = c =>
    \A k \in KeysOf(c) \ torn, v \in Versions :
      IsOf(k, v, c) => \A w \in Versions : v < w => FileOf(k, w) = NoFile

OrderOK ==
  crashes = 0 =>
    \A c, d \in Ids :
      \A j, k \in KeysOf(c) \cap KeysOf(d) : Precedes(c, d, j) => ~Precedes(d, c, k)

WholeInv ==
  /\ \A k \in Keys \ torn : LineOK(k) /\ OnceOK(k)
  /\ \A a \in Agents : StageOK(a) /\ NewestOK(a)
  /\ \A c \in Ids : CommitOK(c)
  /\ OrderOK

-----------------------------------------------------------------------------
(* Who moves, and what stays.                                              *)

\* One process's step leaves the others where they are, with their buffers
\* and their locks.
LEMMA OthersStay ==
  ASSUME FlushInv, SectionInv, NEW a \in Agents, Begin(a) \/ Step(a) \/ Crash(a),
         NEW b \in Agents, b # a
  PROVE  /\ pc'[b] = pc[b] /\ id'[b] = id[b] /\ done'[b] = done[b]
         /\ base'[b] = base[b] /\ num'[b] = num[b] /\ raised'[b] = raised[b]
         /\ pc[b] # "idle" => Buffer(b)' = Buffer(b)
         /\ \A k \in Keys : lock'[k] = b <=> lock[k] = b
<1> USE DEF FlushInv, ShapeOK, SectionInv, DataOK
<1>1. pc'[b] = pc[b]
  BY DEF Begin, Step, Crash, Locate, Open, Acquire, LockTimeout, Supersede, Publish, Release,
         ListCommits, Stamp, SaveCommit, Note, Return, Goto, flush
<1>2. id'[b] = id[b]
  BY DEF Begin, Step, Crash, Locate, Open, Acquire, LockTimeout, Supersede, Publish, Release,
         ListCommits, Stamp, SaveCommit, Note, Return, Goto, flush
<1>3. done'[b] = done[b]
  BY DEF Begin, Step, Crash, Locate, Open, Acquire, LockTimeout, Supersede, Publish, Release,
         ListCommits, Stamp, SaveCommit, Note, Return, Goto, flush
<1>4. base'[b] = base[b]
  BY DEF Begin, Step, Crash, Locate, Open, Acquire, LockTimeout, Supersede, Publish, Release,
         ListCommits, Stamp, SaveCommit, Note, Return, Goto, flush
<1>5. num'[b] = num[b]
  BY DEF Begin, Step, Crash, Locate, Open, Acquire, LockTimeout, Supersede, Publish, Release,
         ListCommits, Stamp, SaveCommit, Note, Return, Goto, flush
<1>6. raised'[b] = raised[b]
  BY DEF Begin, Step, Crash, Locate, Open, Acquire, LockTimeout, Supersede, Publish, Release,
         ListCommits, Stamp, SaveCommit, Note, Return, Goto, flush
<1>7. \A c \in Ids : plan[c] # <<>> => plan'[c] = plan[c]
  <2>1. CASE Begin(a)
    <3>1. PICK t \in Buffers, c \in Ids : plan[c] = <<>> /\ plan' = [plan EXCEPT ![c] = t]
      BY <2>1, MintedIds DEF Begin
    <3> QED
      BY <3>1
  <2>2. CASE Step(a) \/ Crash(a)
    BY <2>2 DEF Step, Crash, Locate, Open, Acquire, LockTimeout, Supersede, Publish, Release,
                ListCommits, Stamp, SaveCommit
  <2> QED
    BY <2>1, <2>2
<1>8. pc[b] # "idle" => Buffer(b)' = Buffer(b)
  BY <1>2, <1>7 DEF BufferOK, Buffer
<1>9. \A k \in Keys : lock'[k] = b <=> lock[k] = b
  <2> SUFFICES ASSUME NEW k \in Keys PROVE lock'[k] = b <=> lock[k] = b
    OBVIOUS
  <2>1. CASE Acquire(a)
    <3>1. Wanted(a) \in Keys
      BY <2>1, WantedIsLeast DEF Acquire
    <3>2. lock[Wanted(a)] = NoAgent /\ lock' = [lock EXCEPT ![Wanted(a)] = a]
      BY <2>1 DEF Acquire
    <3> QED
      BY <3>1, <3>2, FlushAssumption
  <2>2. CASE Release(a)
    <3>1. PICK l \in Keys : lock[l] = a /\ lock' = [lock EXCEPT ![l] = NoAgent]
      BY <2>2 DEF Release, Held
    <3> QED
      BY <3>1, FlushAssumption
  <2>3. CASE Crash(a)
    BY <2>3, FlushAssumption DEF Crash
  <2>4. CASE ~(Acquire(a) \/ Release(a) \/ Crash(a))
    BY <2>4 DEF Begin, Step, Locate, Open, LockTimeout, Supersede, Publish, ListCommits,
                Stamp, SaveCommit
  <2> QED
    BY <2>1, <2>2, <2>3, <2>4
<1> QED
  BY <1>1, <1>2, <1>3, <1>4, <1>5, <1>6, <1>8, <1>9

LEMMA OthersSection ==
  ASSUME FlushInv, FlushInv', SectionInv, NEW a \in Agents, Begin(a) \/ Step(a) \/ Crash(a),
         NEW b \in Agents, b # a
  PROVE  ReadOK(b)' /\ LockedOK(b)'
<1>1. /\ pc'[b] = pc[b] /\ done'[b] = done[b] /\ base'[b] = base[b]
      /\ pc[b] # "idle" => Buffer(b)' = Buffer(b)
      /\ \A k \in Keys : lock'[k] = b <=> lock[k] = b
  BY OthersStay
<1>2. pc[b] # "idle" => \A i \in DOMAIN Buffer(b) : Buffer(b)[i] \in Keys
  BY DEF FlushInv, ShapeOK, BufferOK, Buffer
<1>3. ReadOK(b) /\ LockedOK(b)
  BY DEF SectionInv
<1>4. ReadOK(b)'
  BY <1>1, <1>3 DEF ReadOK
<1>5. CASE pc[b] = "lock"
  <2>1. /\ done[b] \subseteq DOMAIN Buffer(b) /\ Buffer(b)' = Buffer(b)
        /\ pc'[b] = "lock" /\ done'[b] = done[b]
    BY <1>1, <1>5 DEF FlushInv, AscentOK
  <2>2. \A i \in done[b] : lock'[Buffer(b)[i]] = b
    BY <1>1, <1>2, <1>3, <1>5, <2>1 DEF LockedOK
  <2>3. ~InSection(b)'
    BY <2>1 DEF InSection
  <2> QED
    BY <1>3, <1>4, <1>5, <2>1, <2>2, <2>3 DEF LockedOK
<1>6. CASE InSection(b)
  <2>1. /\ Buffer(b)' = Buffer(b) /\ pc'[b] \in {"supersede", "publish"}
        /\ done'[b] = done[b] /\ InSection(b)'
    BY <1>1, <1>6 DEF InSection
  <2>2. \A i \in DOMAIN Buffer(b) : lock'[Buffer(b)[i]] = b
    BY <1>1, <1>2, <1>3, <1>6 DEF LockedOK, InSection
  <2> QED
    BY <1>3, <1>4, <1>6, <2>1, <2>2 DEF LockedOK
<1>7. CASE pc[b] # "lock" /\ ~InSection(b)
  <2>1. pc'[b] # "lock" /\ ~InSection(b)'
    BY <1>1, <1>7 DEF InSection
  <2> QED
    BY <1>4, <2>1 DEF LockedOK
<1> QED
  BY <1>5, <1>6, <1>7

\* The next key of a batch is a key of its buffer not done yet.
LEMMA NextKey ==
  ASSUME FlushInv, SectionInv, NEW a \in Agents, pc[a] \in {"lock", "supersede", "publish"}
  PROVE  /\ Buffer(a) \in Seq(Keys) /\ id[a] \in Ids
         /\ Position(a) \in DOMAIN Buffer(a) \ done[a]
         /\ Wanted(a) = Buffer(a)[Position(a)] /\ Wanted(a) \in Keys
<1>1. Buffer(a) \in Seq(Keys) /\ id[a] \in Ids
  BY DEF FlushInv, ShapeOK, BufferOK, Buffer
<1>2. DOMAIN Buffer(a) \ done[a] # {}
  BY DEF FlushInv, AscentOK, SectionInv, LockedOK, InSection
<1>3. Position(a) \in DOMAIN Buffer(a) \ done[a]
  BY <1>1, <1>2, FirstIsLeast DEF Position
<1> QED
  BY <1>1, <1>3 DEF Wanted

-----------------------------------------------------------------------------
(* The data and the locks of the process that moves.                       *)

\* Reading the versions the buffer's keys hold.
LEMMA ReadSection ==
  ASSUME FlushInv, SectionInv, NEW a \in Agents, Locate(a) \/ Open(a)
  PROVE  DataOK' /\ ReadOK(a)' /\ LockedOK(a)'
<1> USE DEF FlushInv, ShapeOK, SectionInv, DataOK
<1>1. /\ pc[a] \in {"read", "open"} /\ done[a] = {} /\ id[a] \in Ids
      /\ UNCHANGED <<cur, past, commits, crashes, torn, plan>>
  BY DEF Locate, Open, FreshOK, BufferOK, files, bounds
<1>2. /\ Buffer(a) \in Seq(Keys) /\ base[a] \in Seq(Nat) /\ Len(base[a]) \in Nat
      /\ Len(base[a]) < Len(Buffer(a))
  BY <1>1 DEF ReadOK, Buffer
<1>3. Reading(a) \in Keys
  <2>1. Len(base[a]) + 1 \in 1 .. Len(Buffer(a))
    BY <1>2
  <2> QED
    BY <1>2, <2>1 DEF Reading
<1>4. cur[Reading(a)] # NoFile => cur[Reading(a)].v \in Nat
  BY <1>3 DEF File
<1>5. CASE \E v \in Nat : Note(a, v) /\ num' \in [Agents -> Nat]
                       /\ UNCHANGED <<id, done, raised>>
  <2>1. PICK v \in Nat : Note(a, v) /\ num' \in [Agents -> Nat]
                      /\ UNCHANGED <<id, done, raised>>
    BY <1>5
  <2>2. base' = [base EXCEPT ![a] = Append(base[a], v)] /\ Buffer(a)' = Buffer(a)
    BY <1>1, <2>1 DEF Note, Buffer
  <2>3. /\ Append(base[a], v) \in Seq(Nat)
        /\ Len(Append(base[a], v)) = Len(base[a]) + 1
    BY <1>2
  <2>4. base' \in [Agents -> Seq(Nat)] /\ Len(base'[a]) = Len(base[a]) + 1
    BY <2>2, <2>3
  <2>5. pc'[a] = IF Len(base[a]) + 1 = Len(Buffer(a)) THEN "lock" ELSE "read"
    BY <2>1 DEF Note, Goto
  <2>6. DataOK'
    BY <1>1, <2>1, <2>4
  <2>7. ReadOK(a)'
    BY <1>2, <2>2, <2>4, <2>5 DEF ReadOK
  <2>8. LockedOK(a)'
    <3>1. done'[a] = {} /\ ~InSection(a)'
      BY <1>1, <2>1, <2>5 DEF InSection
    <3> QED
      BY <3>1 DEF LockedOK
  <2> QED
    BY <2>6, <2>7, <2>8
<1>6. CASE pc'[a] = "open" /\ num' \in [Agents -> Nat] /\ UNCHANGED <<id, done, base, raised>>
  <2>1. DataOK'
    BY <1>1, <1>6
  <2>2. ReadOK(a)'
    BY <1>1, <1>2, <1>6 DEF ReadOK, Buffer
  <2>3. LockedOK(a)'
    BY <1>6 DEF LockedOK, InSection
  <2> QED
    BY <2>1, <2>2, <2>3
<1>7. CASE Return(a)
  <2>1. /\ pc'[a] = "idle" /\ base' \in [Agents -> Seq(Nat)] /\ num' \in [Agents -> Nat]
        /\ raised' \in [Agents -> BOOLEAN]
    BY <1>7 DEF Return
  <2>2. DataOK'
    BY <1>1, <2>1
  <2>3. ReadOK(a)'
    <3>1. base'[a] = <<>>
      BY <1>7 DEF Return
    <3> QED
      BY <2>1, <3>1 DEF ReadOK
  <2>4. LockedOK(a)'
    BY <2>1 DEF LockedOK, InSection
  <2> QED
    BY <2>2, <2>3, <2>4
<1>8. CASE Locate(a)
  <2>1. CASE cur[Reading(a)] = NoFile
    BY <1>5, <1>8, <2>1 DEF Locate
  <2>2. CASE cur[Reading(a)] # NoFile
    BY <1>4, <1>6, <1>8, <2>2 DEF Locate, Goto
  <2> QED
    BY <2>1, <2>2
<1>9. CASE Open(a)
  <2>1. CASE Note(a, num[a]) /\ UNCHANGED <<id, done, num, head, stamp, raised>>
    BY <1>5, <2>1
  <2> QED
    BY <1>7, <1>9, <2>1 DEF Open
<1> QED
  BY <1>8, <1>9

\* Taking the next lock.
LEMMA AcquireSection ==
  ASSUME FlushInv, SectionInv, NEW a \in Agents, Acquire(a)
  PROVE  DataOK' /\ ReadOK(a)' /\ LockedOK(a)'
<1> DEFINE held == done[a] \cup {Position(a)}
<1>1. /\ pc[a] = "lock" /\ lock[Wanted(a)] = NoAgent
      /\ lock' = [lock EXCEPT ![Wanted(a)] = a]
      /\ UNCHANGED <<cur, past, id, base, num, raised, plan, commits, crashes, torn>>
      /\ Buffer(a)' = Buffer(a)
  BY DEF Acquire, files, bounds, Buffer
<1>2. /\ Buffer(a) \in Seq(Keys) /\ Position(a) \in DOMAIN Buffer(a) \ done[a]
      /\ Wanted(a) = Buffer(a)[Position(a)] /\ Wanted(a) \in Keys
  BY <1>1, NextKey
<1>3. DataOK'
  BY <1>1 DEF SectionInv, DataOK
<1>4. ReadOK(a)'
  <2>1. Len(base[a]) = Len(Buffer(a)) /\ pc'[a] \in {"lock", "supersede"}
    BY <1>1 DEF FlushInv, ShapeOK, SectionInv, ReadOK, Acquire, Goto
  <2> QED
    BY <1>1, <2>1 DEF ReadOK
<1>5. done[a] \subseteq DOMAIN Buffer(a)
  BY <1>1 DEF FlushInv, AscentOK
<1>6. \A i \in held : lock'[Buffer(a)[i]] = a
  <2> SUFFICES ASSUME NEW i \in held PROVE lock'[Buffer(a)[i]] = a
    OBVIOUS
  <2>1. Buffer(a)[i] \in Keys
    BY <1>2, <1>5
  <2>2. lock[Buffer(a)[i]] = a \/ Buffer(a)[i] = Wanted(a)
    BY <1>1, <1>2 DEF SectionInv, LockedOK
  <2> QED
    BY <1>1, <2>1, <2>2 DEF FlushInv, ShapeOK
<1>7. \A i, j \in held : Buffer(a)[i] = Buffer(a)[j] => i = j
  BY <1>1, <1>2, FlushAssumption DEF SectionInv, LockedOK
<1>8. \/ pc'[a] = "lock" /\ done'[a] = held
      \/ pc'[a] = "supersede" /\ done'[a] = {} /\ held = DOMAIN Buffer(a)
  BY <1>1 DEF FlushInv, ShapeOK, Acquire, Goto
<1>9. DOMAIN Buffer(a) # {}
  BY <1>2
<1> HIDE DEF held
<1>10. CASE pc'[a] = "lock" /\ done'[a] = held
  <2>1. ~InSection(a)'
    BY <1>10 DEF InSection
  <2> QED
    BY <1>1, <1>3, <1>4, <1>6, <1>7, <1>10, <2>1 DEF LockedOK
<1>11. CASE pc'[a] = "supersede" /\ done'[a] = {} /\ held = DOMAIN Buffer(a)
  BY <1>1, <1>3, <1>4, <1>6, <1>7, <1>9, <1>11 DEF LockedOK
<1> QED
  BY <1>8, <1>10, <1>11

\* Writing one key of the batch.
LEMMA WriteSection ==
  ASSUME FlushInv, SectionInv, NEW a \in Agents, Supersede(a) \/ Publish(a)
  PROVE  DataOK' /\ ReadOK(a)' /\ LockedOK(a)'
<1>0. /\ InSection(a) /\ Buffer(a)' = Buffer(a) /\ lock' = lock /\ base' = base
      /\ UNCHANGED <<id, raised, plan, commits, crashes, torn>>
  BY DEF Supersede, Publish, InSection, Buffer, bounds
<1>1. /\ Buffer(a) \in Seq(Keys) /\ id[a] \in Ids
      /\ Position(a) \in DOMAIN Buffer(a) \ done[a]
      /\ Wanted(a) = Buffer(a)[Position(a)] /\ Wanted(a) \in Keys
  BY <1>0, NextKey DEF InSection
<1>2. Len(base[a]) = Len(Buffer(a))
  BY <1>0 DEF SectionInv, ReadOK, InSection
<1>3. CASE Supersede(a)
  <2>1. pc'[a] = "publish" /\ done' = done
    BY <1>3 DEF FlushInv, ShapeOK, Supersede, Goto
  <2>2. ReadOK(a)'
    BY <1>0, <1>2, <2>1 DEF ReadOK
  <2>3. LockedOK(a)'
    BY <1>0, <2>1 DEF SectionInv, LockedOK, InSection
  <2>4. DataOK'
    <3>1. CASE cur[Wanted(a)] = NoFile
      <4>1. num' = [num EXCEPT ![a] = 1] /\ cur' = cur /\ past' = past
        BY <1>3, <3>1 DEF Supersede, files
      <4> QED
        BY <1>0, <4>1 DEF SectionInv, DataOK
    <3>2. CASE cur[Wanted(a)] # NoFile
      <4>1. PICK k \in Keys, old \in File : k = Wanted(a) /\ old = cur[k]
        BY <1>1, <3>2 DEF SectionInv, DataOK
      <4>2. old.v \in Nat
        BY DEF File
      <4>3. /\ num' = [num EXCEPT ![a] = old.v + 1]
            /\ past' = [past EXCEPT ![k][old.v] = old]
            /\ cur' = [cur EXCEPT ![k] = NoFile]
        BY <1>3, <3>2, <4>1 DEF Supersede
      <4>4. num' \in [Agents -> Nat] /\ cur' \in [Keys -> File \cup {NoFile}]
        BY <4>2, <4>3 DEF SectionInv, DataOK
      <4>5. past' \in [Keys -> [Versions -> File \cup {NoFile}]]
        BY <4>3 DEF SectionInv, DataOK
      <4> QED
        BY <1>0, <4>4, <4>5 DEF SectionInv, DataOK
    <3> QED
      BY <3>1, <3>2
  <2> QED
    BY <2>2, <2>3, <2>4
<1>4. CASE Publish(a)
  <2> DEFINE e == [v |-> num[a], commit |-> id[a], base |-> base[a][Position(a)]]
             held == done[a] \cup {Position(a)}
  <2>1. \/ pc'[a] = "release" /\ done'[a] = held
        \/ pc'[a] = "supersede" /\ done'[a] = held /\ held # DOMAIN Buffer(a)
    BY <1>4 DEF FlushInv, ShapeOK, Publish, Goto
  <2>2. e \in File
    <3>1. base[a] \in Seq(Nat) /\ num[a] \in Nat
      BY DEF SectionInv, DataOK
    <3>2. base[a][Position(a)] \in Nat
      BY <1>1, <1>2, <3>1
    <3> QED
      BY <1>1, <3>1, <3>2 DEF File
  <2>3. DataOK'
    <3>1. cur' = [cur EXCEPT ![Wanted(a)] = e] /\ past' = past /\ num' = num
      BY <1>4 DEF Publish
    <3> HIDE DEF e
    <3> QED
      BY <1>0, <2>2, <3>1 DEF SectionInv, DataOK
  <2>4. ReadOK(a)'
    BY <1>0, <1>2, <2>1 DEF ReadOK
  <2>5. LockedOK(a)'
    <3> HIDE DEF held
    <3>1. held \subseteq DOMAIN Buffer(a)
      BY <1>0, <1>1 DEF SectionInv, LockedOK, held
    <3> QED
      BY <1>0, <2>1, <3>1 DEF SectionInv, LockedOK, InSection
  <2> QED
    BY <2>3, <2>4, <2>5
<1> QED
  BY <1>3, <1>4

\* The process that returns forgets its flush.
LEMMA Returned ==
  ASSUME FlushInv, SectionInv, NEW a \in Agents, Return(a)
  PROVE  /\ base' \in [Agents -> Seq(Nat)] /\ num' \in [Agents -> Nat]
         /\ raised' \in [Agents -> BOOLEAN]
         /\ pc'[a] = "idle" /\ id'[a] = NoCommit /\ base'[a] = <<>> /\ ~raised'[a]
<1>1. base' \in [Agents -> Seq(Nat)] /\ base'[a] = <<>>
  BY DEF Return, SectionInv, DataOK
<1>2. num' \in [Agents -> Nat]
  BY DEF Return, SectionInv, DataOK
<1>3. raised' \in [Agents -> BOOLEAN] /\ ~raised'[a]
  BY DEF Return, SectionInv, DataOK
<1>4. pc'[a] = "idle" /\ id'[a] = NoCommit
  BY DEF Return, FlushInv, ShapeOK
<1> QED
  BY <1>1, <1>2, <1>3, <1>4

\* Everything else keeps the files, and ends outside the section.
LEMMA OutsideSection ==
  ASSUME FlushInv, SectionInv, NEW a \in Agents,
         Begin(a) \/ LockTimeout(a) \/ Release(a) \/ ListCommits(a) \/ Stamp(a)
           \/ SaveCommit(a) \/ Crash(a)
  PROVE  DataOK' /\ ReadOK(a)' /\ LockedOK(a)'
<1>1. UNCHANGED <<cur, past>>
  BY DEF Begin, LockTimeout, Release, ListCommits, Stamp, SaveCommit, Crash, files
<1>2. \/ Return(a)
      \/ pc' = [pc EXCEPT ![a] = "read"] /\ Begin(a)
      \/ \E point \in {"release", "list", "stamp", "save"} :
           pc' = [pc EXCEPT ![a] = point] /\ UNCHANGED <<base, num>>
  BY DEF FlushInv, ShapeOK, Begin, LockTimeout, Release, ListCommits, Stamp, SaveCommit, Crash,
         Goto, flush
<1>3. base' \in [Agents -> Seq(Nat)] /\ num' \in [Agents -> Nat]
  <2>1. Return(a) \/ UNCHANGED <<base, num>>
    BY <1>2 DEF Begin
  <2> QED
    BY <2>1, Returned DEF SectionInv, DataOK
<1>4. raised' \in [Agents -> BOOLEAN]
  <2>1. Return(a) \/ raised' = raised \/ raised' = [raised EXCEPT ![a] = TRUE]
    BY DEF Begin, LockTimeout, Release, ListCommits, Stamp, SaveCommit, Crash, flush
  <2> QED
    BY <2>1, Returned DEF SectionInv, DataOK
<1>5. DOMAIN commits' = Ids
  BY DEF SectionInv, DataOK, Begin, LockTimeout, Release, ListCommits, Stamp, SaveCommit, Crash
<1>6. crashes' \in Nat /\ (crashes' = 0 => torn' = {})
  <2>1. CASE Crash(a)
    <3>1. crashes' = crashes + 1 /\ crashes \in Nat
      BY <2>1 DEF Crash, SectionInv, DataOK
    <3> QED
      BY <3>1
  <2>2. CASE ~Crash(a)
    BY <2>2 DEF Begin, LockTimeout, Release, ListCommits, Stamp, SaveCommit, bounds, SectionInv,
                DataOK
  <2> QED
    BY <2>1, <2>2
<1>7. pc'[a] \in {"idle", "read", "release", "list", "stamp", "save"}
  BY <1>2, Returned DEF FlushInv, ShapeOK
<1>8. ReadOK(a)'
  <2>1. CASE Begin(a)
    <3>1. PICK t \in Buffers, c \in Ids :
            plan' = [plan EXCEPT ![c] = t] /\ id' = [id EXCEPT ![a] = c]
      BY <2>1, MintedIds DEF Begin
    <3>2. Buffer(a)' = t /\ t \in Seq(Keys) /\ t # <<>>
      BY <3>1, FlushAssumption DEF Buffer, FlushInv, ShapeOK
    <3>3. base'[a] = <<>> /\ pc'[a] = "read"
      BY <2>1 DEF Begin, ReadOK, SectionInv, FlushInv, ShapeOK, Goto
    <3>4. Len(t) > 0 /\ Len(<<>>) = 0
      BY <3>2
    <3> QED
      BY <3>2, <3>3, <3>4 DEF ReadOK
  <2>2. CASE ~Begin(a)
    <3>1. \/ pc'[a] = "idle" /\ base'[a] = <<>>
          \/ pc'[a] \in {"release", "list", "stamp", "save"}
      BY <1>2, <2>2, Returned DEF FlushInv, ShapeOK
    <3> QED
      BY <3>1 DEF ReadOK
  <2> QED
    BY <2>1, <2>2
<1>9. LockedOK(a)'
  BY <1>7 DEF LockedOK, InSection
<1>10. DataOK'
  BY <1>1, <1>3, <1>4, <1>5, <1>6 DEF SectionInv, DataOK
<1> QED
  BY <1>8, <1>9, <1>10

\* Flushes in progress stay apart: an id is minted for one that nobody has.
LEMMA OwnersApart ==
  ASSUME FlushInv, SectionInv, \A c \in Ids : plan[c] = <<>> => \A a \in Agents : id[a] # c,
         NEW a \in Agents, Begin(a) \/ Step(a) \/ Crash(a)
  PROVE  OwnerOK'
<1>1. \A b \in Agents \ {a} : pc'[b] = pc[b] /\ id'[b] = id[b] /\ raised'[b] = raised[b]
  BY OthersStay
<1>2. /\ pc'[a] = "idle" => id'[a] = NoCommit
      /\ pc'[a] # "release" => ~raised'[a]
      /\ id'[a] # NoCommit /\ id'[a] # id[a] =>
           \A b \in Agents \ {a} : id'[b] # id'[a]
  <2>1. CASE Begin(a)
    <3>1. PICK c \in Ids : plan[c] = <<>> /\ id' = [id EXCEPT ![a] = c]
      BY <2>1, MintedIds DEF Begin
    <3>2. pc'[a] = "read" /\ raised' = raised /\ pc[a] = "idle"
      BY <2>1 DEF Begin, FlushInv, ShapeOK, Goto
    <3> QED
      BY <1>1, <3>1, <3>2 DEF SectionInv, OwnerOK, FlushInv, ShapeOK
  <2>2. CASE Return(a)
    BY <2>2, Returned
  <2>3. CASE ~Begin(a) /\ ~Return(a)
    <3>1. id' = id /\ pc'[a] # "idle"
      BY <2>3 DEF Step, Crash, Locate, Open, Acquire, LockTimeout, Supersede, Publish, Release,
                  ListCommits, Stamp, SaveCommit, Note, Goto, flush, FlushInv, ShapeOK
    <3>2. \/ raised' = raised /\ (pc[a] = "release" => pc'[a] = "release" \/ ~raised[a])
          \/ pc'[a] = "release"
      BY <2>3 DEF Step, Crash, Locate, Open, Acquire, LockTimeout, Supersede, Publish, Release,
                  ListCommits, Stamp, SaveCommit, Note, Goto, flush, FlushInv, ShapeOK
    <3> QED
      BY <3>1, <3>2 DEF SectionInv, OwnerOK
  <2> QED
    BY <2>1, <2>2, <2>3
<1> QED
  BY <1>1, <1>2 DEF SectionInv, OwnerOK

\* What flushes share and what they keep to themselves, after any step.
LEMMA SectionStep ==
  ASSUME FlushInv, FlushInv', SectionInv,
         \A c \in Ids : plan[c] = <<>> => \A b \in Agents : id[b] # c,
         NEW a \in Agents, Begin(a) \/ Step(a) \/ Crash(a)
  PROVE  SectionInv'
<1>1. DataOK' /\ ReadOK(a)' /\ LockedOK(a)'
  BY ReadSection, AcquireSection, WriteSection, OutsideSection DEF Step
<1>2. \A b \in Agents \ {a} : ReadOK(b)' /\ LockedOK(b)'
  BY OthersSection
<1> QED
  BY <1>1, <1>2, OwnersApart DEF SectionInv

-----------------------------------------------------------------------------
(* What a step does to the files of a key nobody died on.                  *)

Kept(k) == \A v \in Versions : FileOf(k, v)' = FileOf(k, v)

\* a adds one version to k, the one after all there are.
Added(a, k) ==
  /\ num[a] \in Versions
  /\ \A w \in Versions : FileOf(k, w) # NoFile <=> w < num[a]
  /\ \A w \in Versions : w # num[a] => FileOf(k, w)' = FileOf(k, w)
  /\ \A w \in Versions, c \in Ids : w = num[a] /\ c = id[a] => IsOf(k, w, c)'

\* A batch in its section has the lock of the key it is at.
LEMMA OneWriter ==
  ASSUME FlushInv, SectionInv, NEW a \in Agents, InSection(a)
  PROVE  /\ lock[Wanted(a)] = a
         /\ \A b \in Agents \ {a} : InSection(b) =>
              \A i \in DOMAIN Buffer(b) : Buffer(b)[i] # Wanted(a)
<1>1. \A b \in Agents : InSection(b) =>
        \A i \in DOMAIN Buffer(b) : lock[Buffer(b)[i]] = b
  BY DEF SectionInv, LockedOK
<1>2. Position(a) \in DOMAIN Buffer(a) /\ Wanted(a) = Buffer(a)[Position(a)]
  BY NextKey DEF InSection
<1> QED
  BY <1>1, <1>2

\* The file that is renamed into place.
LEMMA PublishedFile ==
  ASSUME FlushInv, SectionInv, NEW a \in Agents, Publish(a)
  PROVE  /\ cur' = [cur EXCEPT ![Wanted(a)] =
                      [v |-> num[a], commit |-> id[a], base |-> base[a][Position(a)]]]
         /\ [v |-> num[a], commit |-> id[a], base |-> base[a][Position(a)]] \in File
         /\ [v |-> num[a], commit |-> id[a], base |-> base[a][Position(a)]] # NoFile
         /\ past' = past
<1>1. pc[a] = "publish" /\ past' = past
  BY DEF Publish
<1>2. id[a] \in Ids /\ Position(a) \in DOMAIN Buffer(a)
  BY <1>1, NextKey
<1>3. base[a] \in Seq(Nat) /\ num[a] \in Nat /\ Len(base[a]) = Len(Buffer(a))
  BY <1>1 DEF SectionInv, DataOK, ReadOK
<1>4. base[a][Position(a)] \in Nat
  BY <1>1, <1>2, <1>3, NextKey
<1>5. [v |-> num[a], commit |-> id[a], base |-> base[a][Position(a)]] \in File
  BY <1>2, <1>3, <1>4 DEF File
<1>6. \A f \in File : f # NoFile
  BY FlushAssumption DEF File
<1> QED
  BY <1>1, <1>5, <1>6 DEF Publish

LEMMA SupersedeKeeps ==
  ASSUME FlushInv, SectionInv, NEW a \in Agents, Supersede(a), NEW k \in Keys, LineOK(k)
  PROVE  Kept(k)
<1> SUFFICES ASSUME NEW v \in Versions PROVE FileOf(k, v)' = FileOf(k, v)
  BY DEF Kept
<1>1. CASE cur[Wanted(a)] = NoFile
  BY <1>1 DEF Supersede, files, FileOf
<1>2. CASE cur[Wanted(a)] # NoFile
  <2>1. PICK l \in Keys, old \in File : l = Wanted(a) /\ old = cur[l]
    BY <1>2, NextKey DEF Supersede, SectionInv, DataOK
  <2>2. /\ past' = [past EXCEPT ![l][old.v] = old]
        /\ cur' = [cur EXCEPT ![l] = NoFile]
    BY <1>2, <2>1 DEF Supersede
  <2>3. cur \in [Keys -> File \cup {NoFile}] /\ past \in [Keys -> [Versions -> File \cup {NoFile}]]
    BY DEF SectionInv, DataOK
  <2>4. CASE k # l
    BY <2>2, <2>3, <2>4 DEF FileOf
  <2>5. CASE k = l
    <3>1. old # NoFile /\ cur[k] = old /\ old.v \in Versions
      BY <1>2, <2>1, <2>5 DEF LineOK
    <3>2. cur'[k] = NoFile /\ past'[k][v] = IF v = old.v THEN old ELSE past[k][v]
      BY <2>2, <2>3, <2>5, <3>1
    <3> QED
      BY <3>1, <3>2 DEF FileOf
  <2> QED
    BY <2>4, <2>5
<1> QED
  BY <1>1, <1>2

LEMMA PublishAdds ==
  ASSUME FlushInv, SectionInv, NEW a \in Agents, Publish(a), NEW k \in Keys, LineOK(k)
  PROVE  IF k = Wanted(a) THEN Added(a, k) ELSE Kept(k)
<1> DEFINE e == [v |-> num[a], commit |-> id[a], base |-> base[a][Position(a)]]
<1>1. /\ cur' = [cur EXCEPT ![Wanted(a)] = e] /\ e \in File /\ e # NoFile /\ past' = past
      /\ e.v = num[a] /\ e.commit = id[a]
  BY PublishedFile
<1>2. cur \in [Keys -> File \cup {NoFile}]
  BY DEF SectionInv, DataOK
<1> HIDE DEF e
<1>3. CASE k # Wanted(a)
  <2>1. cur'[k] = cur[k]
    BY <1>1, <1>2, <1>3
  <2> QED
    BY <1>1, <1>3, <2>1 DEF Kept, FileOf
<1>4. CASE k = Wanted(a)
  <2>1. /\ cur[k] = NoFile /\ num[a] \in Versions
        /\ \A w \in Versions : past[k][w] # NoFile <=> w < num[a]
    BY <1>4 DEF LineOK, Publishing, Publish
  <2>2. cur'[k] = e
    BY <1>1, <1>2, <1>4
  <2>3. \A w \in Versions : FileOf(k, w) = past[k][w]
    BY <2>1 DEF FileOf
  <2>4. \A w \in Versions : FileOf(k, w)' = IF num[a] = w THEN e ELSE past[k][w]
    BY <1>1, <2>2 DEF FileOf
  <2>5. \A w \in Versions, c \in Ids : w = num[a] /\ c = id[a] => IsOf(k, w, c)'
    <3> SUFFICES ASSUME NEW w \in Versions, NEW c \in Ids, w = num[a], c = id[a]
                 PROVE  IsOf(k, w, c)'
      OBVIOUS
    <3>1. FileOf(k, w)' = e
      BY <2>4
    <3> QED
      BY <1>1, <3>1 DEF IsOf
  <2>6. \A w \in Versions : FileOf(k, w) # NoFile <=> w < num[a]
    BY <2>1, <2>3
  <2>7. \A w \in Versions : w # num[a] => FileOf(k, w)' = FileOf(k, w)
    BY <2>3, <2>4
  <2> QED
    BY <1>4, <2>1, <2>5, <2>6, <2>7 DEF Added
<1> QED
  BY <1>3, <1>4

\* A version is kept; only publishing adds one, to the key it is at.
LEMMA FilesStep ==
  ASSUME FlushInv, SectionInv, NEW a \in Agents, Begin(a) \/ Step(a) \/ Crash(a),
         NEW k \in Keys, LineOK(k)
  PROVE  IF Publish(a) /\ k = Wanted(a) THEN Added(a, k) ELSE Kept(k)
<1>1. CASE Publish(a)
  BY <1>1, PublishAdds
<1>2. CASE Supersede(a)
  <2>1. ~Publish(a)
    BY <1>2 DEF Supersede, Publish
  <2> QED
    BY <1>2, <2>1, SupersedeKeeps
<1>3. CASE ~Publish(a) /\ ~Supersede(a)
  <2>1. cur' = cur /\ past' = past
    BY <1>3 DEF Begin, Step, Crash, Locate, Open, Acquire, LockTimeout, Release, ListCommits,
                Stamp, SaveCommit, files
  <2> QED
    BY <1>3, <2>1 DEF Kept, FileOf
<1> QED
  BY <1>1, <1>2, <1>3

\* Of which commit the versions are after a step.
LEMMA IsOfStep ==
  ASSUME FlushInv, SectionInv, NEW a \in Agents, Begin(a) \/ Step(a) \/ Crash(a),
         NEW k \in Keys, LineOK(k), NEW v \in Versions, NEW c \in Ids
  PROVE  IsOf(k, v, c)' <=> \/ IsOf(k, v, c)
                            \/ Publish(a) /\ k = Wanted(a) /\ v = num[a] /\ c = id[a]
<1>1. CASE Publish(a) /\ k = Wanted(a)
  <2>1. Added(a, k)
    BY <1>1, FilesStep
  <2>2. CASE v # num[a]
    BY <1>1, <2>1, <2>2 DEF Added, IsOf
  <2>3. CASE v = num[a]
    <3>1. FileOf(k, v) = NoFile
      BY <2>1, <2>3 DEF Added, Versions
    <3>2. id[a] \in Ids
      BY <1>1 DEF FlushInv, BufferOK, Publish
    <3>3. PICK d \in Ids : d = id[a]
      BY <3>2
    <3>4. IsOf(k, v, d)'
      BY <2>1, <2>3, <3>3 DEF Added
    <3> QED
      BY <1>1, <2>3, <3>1, <3>3, <3>4 DEF IsOf
  <2> QED
    BY <2>2, <2>3
<1>2. CASE ~(Publish(a) /\ k = Wanted(a))
  BY <1>2, FilesStep DEF Kept, IsOf
<1> QED
  BY <1>1, <1>2

LEMMA LandedStep ==
  ASSUME FlushInv, SectionInv, NEW a \in Agents, Begin(a) \/ Step(a) \/ Crash(a),
         NEW k \in Keys, LineOK(k), NEW c \in Ids
  PROVE  Landed(c, k)' <=> Landed(c, k) \/ (Publish(a) /\ k = Wanted(a) /\ c = id[a])
<1>1. \A v \in Versions :
        IsOf(k, v, c)' <=> \/ IsOf(k, v, c)
                           \/ Publish(a) /\ k = Wanted(a) /\ v = num[a] /\ c = id[a]
  BY IsOfStep
<1>2. Publish(a) /\ k = Wanted(a) => num[a] \in Versions
  BY FilesStep DEF Added
<1> QED
  BY <1>1, <1>2 DEF Landed

\* What a step does to the buffers, the saved commits and the torn keys.
LEMMA RecordsStep ==
  ASSUME FlushInv, SectionInv, NEW a \in Agents, Begin(a) \/ Step(a) \/ Crash(a)
  PROVE  /\ \A c \in Ids : plan[c] # <<>> => plan'[c] = plan[c]
         /\ \A c \in Ids : plan'[c] # plan[c] => Begin(a) /\ id'[a] = c
         /\ \A c \in Ids : commits'[c] # commits[c] => SaveCommit(a) /\ id[a] = c
         /\ torn \subseteq torn' /\ (crashes' = 0 => crashes = 0 /\ ~Crash(a))
         /\ id'[a] = id[a] \/ Return(a) \/ (Begin(a) /\ plan[id'[a]] = <<>> /\ id'[a] \in Ids
                                            /\ plan'[id'[a]] # <<>>)
<1>1. CASE Begin(a)
  <2>1. PICK t \in Buffers, c \in Ids :
          plan[c] = <<>> /\ plan' = [plan EXCEPT ![c] = t] /\ id' = [id EXCEPT ![a] = c]
    BY <1>1, MintedIds DEF Begin
  <2>2. id'[a] = c /\ t # <<>> /\ plan'[c] = t
    BY <2>1, FlushAssumption DEF FlushInv, ShapeOK
  <2>3. UNCHANGED <<commits, torn, crashes>> /\ ~Crash(a)
    BY <1>1 DEF Begin, bounds, Crash
  <2> QED
    BY <1>1, <2>1, <2>2, <2>3 DEF FlushInv, ShapeOK
<1>2. CASE SaveCommit(a)
  <2>1. plan' = plan /\ torn' = torn /\ crashes' = crashes /\ Return(a) /\ ~Crash(a)
    BY <1>2, FlushAssumption DEF SaveCommit, bounds, Crash, SectionInv, DataOK
  <2>2. \A c \in Ids : c # id[a] => commits'[c] = commits[c]
    BY <1>2 DEF SaveCommit, SectionInv, DataOK
  <2> QED
    BY <1>2, <2>1, <2>2
<1>3. CASE Crash(a)
  <2>1. crashes' = crashes + 1 /\ crashes \in Nat
    BY <1>3 DEF Crash, SectionInv, DataOK
  <2>2. plan' = plan /\ commits' = commits /\ torn \subseteq torn' /\ Return(a)
    BY <1>3 DEF Crash
  <2>3. crashes' # 0
    BY <2>1
  <2> QED
    BY <2>2, <2>3
<1>4. CASE Step(a) /\ ~SaveCommit(a) /\ ~Crash(a)
  <2>1. UNCHANGED <<plan, commits, torn, crashes>>
    BY <1>4 DEF Step, Locate, Open, Acquire, LockTimeout, Supersede, Publish, Release,
                ListCommits, Stamp, bounds
  <2>2. id'[a] = id[a] \/ Return(a)
    BY <1>4 DEF Step, Locate, Open, Acquire, LockTimeout, Supersede, Publish, Release,
                ListCommits, Stamp, flush
  <2> QED
    BY <1>4, <2>1, <2>2
<1> QED
  BY <1>1, <1>2, <1>3, <1>4

-----------------------------------------------------------------------------
(* The versions of a key stay a line.                                      *)

LEMMA IdsFinite == IsFiniteSet(Ids) /\ Cardinality(Ids) = Len(Minted) /\ Len(Minted) \in Nat
<1>1. DOMAIN Minted = 1 .. Len(Minted) /\ Len(Minted) \in Nat
  BY FlushAssumption
<1>2. Minted \in [DOMAIN Minted -> Ids] /\ \A c \in Ids : \E i \in DOMAIN Minted : Minted[i] = c
  <2>1. Minted \in [DOMAIN Minted -> Nat]
    BY FlushAssumption
  <2> QED
    BY <2>1 DEF Ids
<1>3. Minted \in Surjection(DOMAIN Minted, Ids)
  BY <1>2, Fun_IsSurj
<1>4. IsFiniteSet(DOMAIN Minted)
  BY <1>1, FS_Interval
<1> QED
  BY <1>1, <1>3, <1>4, FS_Surjection, FlushAssumption

\* As long as a flush has not landed on a key, the commits that have leave
\* room for one more version.
LEMMA RoomForOneMore ==
  ASSUME NEW n \in Nat, NEW f \in [1 .. n -> Ids], NEW c \in Ids,
         \A i \in 1 .. n : f[i] # c,
         \A i, j \in 1 .. n : f[i] = f[j] => i = j
  PROVE  n + 1 \in Versions
<1>1. IsFiniteSet(Ids \ {c}) /\ Cardinality(Ids \ {c}) = Len(Minted) - 1 /\ Len(Minted) \in Nat
  BY IdsFinite, FS_RemoveElement
<1>2. f \in [1 .. n -> Ids \ {c}]
  OBVIOUS
<1>3. f \in Injection(1 .. n, Ids \ {c})
  BY <1>2, Fun_IsInj
<1>4. Cardinality(1 .. n) <= Cardinality(Ids \ {c})
  BY <1>1, <1>3, FS_Injection
<1>5. Cardinality(1 .. n) = n
  <2>1. 1 \in Int /\ n \in Int
    OBVIOUS
  <2>2. Cardinality(1 .. n) = IF 1 > n THEN 0 ELSE n - 1 + 1
    BY <2>1, FS_Interval
  <2> QED
    BY <2>2
<1>6. n <= Len(Minted) - 1
  BY <1>1, <1>4, <1>5
<1> QED
  BY <1>1, <1>6 DEF Versions

LEMMA WantedStays ==
  ASSUME NEW b \in Agents, Buffer(b)' = Buffer(b), done'[b] = done[b]
  PROVE  Wanted(b)' = Wanted(b)
<1>1. Position(b)' = Position(b)
  BY DEF Position
<1> QED
  BY <1>1 DEF Wanted

LEMMA OthersPublishing ==
  ASSUME FlushInv, SectionInv, NEW a \in Agents, Begin(a) \/ Step(a) \/ Crash(a),
         NEW b \in Agents, b # a, NEW k
  PROVE  (Publishing(b, k)' <=> Publishing(b, k)) /\ num'[b] = num[b]
<1>1. /\ pc'[b] = pc[b] /\ num'[b] = num[b] /\ done'[b] = done[b]
      /\ pc[b] # "idle" => Buffer(b)' = Buffer(b)
  BY OthersStay
<1>2. pc[b] # "idle" => Wanted(b)' = Wanted(b)
  BY <1>1, WantedStays
<1> QED
  BY <1>1, <1>2 DEF Publishing

LEMMA LineKept ==
  ASSUME NEW k \in Keys, LineOK(k), cur'[k] = cur[k], past'[k] = past[k],
         \A b \in Agents : /\ Publishing(b, k)' <=> Publishing(b, k)
                           /\ Publishing(b, k) => num'[b] = num[b]
  PROVE  LineOK(k)'
BY DEF LineOK

\* A batch has not landed on the key it is at.
LEMMA NotYet ==
  ASSUME FlushInv, SectionInv, WholeInv, NEW a \in Agents, InSection(a), Wanted(a) \notin torn
  PROVE  id[a] \in Ids /\ ~Landed(id[a], Wanted(a))
<1>1. /\ id[a] \in Ids /\ Position(a) \in DOMAIN Buffer(a) \ done[a]
      /\ Wanted(a) = Buffer(a)[Position(a)]
  BY NextKey DEF InSection
<1>2. PICK c \in Ids, k \in Keys : c = id[a] /\ k = Wanted(a)
  BY <1>1, NextKey DEF InSection
<1>3. Buffer(a) = plan[c] /\ k \in KeysOf(c) \ torn
  BY <1>1, <1>2 DEF Buffer, KeysOf
<1> QED
  BY <1>1, <1>2, <1>3 DEF WholeInv, StageOK

LEMMA LineSupersede ==
  ASSUME FlushInv, SectionInv, WholeInv, NEW a \in Agents, Supersede(a),
         NEW k \in Keys, k \notin torn, k = Wanted(a)
  PROVE  LineOK(k)'
<1>1. pc[a] = "supersede" /\ InSection(a) /\ LineOK(k) /\ OnceOK(k)
  BY DEF Supersede, InSection, WholeInv
<1>2. pc'[a] = "publish" /\ Wanted(a)' = k
  <2>1. pc'[a] = "publish" /\ done' = done /\ Buffer(a)' = Buffer(a)
    BY DEF Supersede, Goto, FlushInv, ShapeOK, Buffer
  <2> QED
    BY <2>1, WantedStays
<1>3. \A b \in Agents : ~Publishing(b, k) /\ (b # a => ~Publishing(b, k)')
  <2> SUFFICES ASSUME NEW b \in Agents, b # a PROVE ~Publishing(b, k)
    BY <1>1, OthersPublishing DEF Publishing, Step
  <2>1. pc[b] = "publish" => Wanted(b) # k
    BY <1>1, OneWriter, NextKey DEF InSection
  <2> QED
    BY <2>1 DEF Publishing
<1>4. /\ cur \in [Keys -> File \cup {NoFile}] /\ past \in [Keys -> [Versions -> File \cup {NoFile}]]
      /\ num \in [Agents -> Nat]
  BY DEF SectionInv, DataOK
<1>5. id[a] \in Ids /\ ~Landed(id[a], k)
  BY <1>1, NotYet
<1>6. CASE cur[k] = NoFile
  <2>1. num' = [num EXCEPT ![a] = 1] /\ cur' = cur /\ past' = past
    BY <1>6 DEF Supersede, files
  <2>2. num'[a] = 1 /\ 1 \in Versions
    <3>1. Len(Minted) \in Nat /\ Len(Minted) # 0
      BY <1>5, FlushAssumption DEF Ids
    <3> QED
      BY <1>4, <2>1, <3>1 DEF Versions
  <2>3. \A w \in Versions : past'[k][w] = NoFile /\ ~(w < 1)
    BY <1>1, <1>3, <1>6, <2>1 DEF LineOK, Versions
  <2>4. \A b \in Agents : Publishing(b, k)' => b = a
    BY <1>3
  <2> QED
    BY <1>2, <1>6, <2>1, <2>2, <2>3, <2>4 DEF LineOK, Publishing
<1>7. CASE cur[k] # NoFile
  <2>1. PICK old \in File : old = cur[k]
    BY <1>4, <1>7
  <2>2. old.v \in Versions /\ \A w \in Versions : past[k][w] # NoFile <=> w < old.v
    BY <1>1, <1>7, <2>1 DEF LineOK
  <2>3. /\ num' = [num EXCEPT ![a] = old.v + 1]
        /\ past' = [past EXCEPT ![k][old.v] = old]
        /\ cur' = [cur EXCEPT ![k] = NoFile]
    BY <1>7, <2>1 DEF Supersede
  <2>4. old.v + 1 \in Versions
    <3>1. old.v \in Nat /\ \A i \in 1 .. old.v : i \in Versions
      BY <2>2, FlushAssumption DEF Versions
    <3> DEFINE f == [i \in 1 .. old.v |-> FileOf(k, i).commit]
    <3>2. \A i \in 1 .. old.v : FileOf(k, i) \in File /\ FileOf(k, i) # NoFile
      <4> SUFFICES ASSUME NEW i \in 1 .. old.v
                   PROVE  FileOf(k, i) \in File /\ FileOf(k, i) # NoFile
        OBVIOUS
      <4>1. i \in Versions /\ (i = old.v \/ i < old.v)
        BY <3>1
      <4>2. i = old.v => FileOf(k, i) = cur[k]
        BY <1>7, <2>1 DEF FileOf
      <4>3. i < old.v => FileOf(k, i) = past[k][i] /\ past[k][i] # NoFile
        BY <2>1, <2>2, <3>1, <4>1 DEF FileOf
      <4> QED
        BY <1>4, <1>7, <4>1, <4>2, <4>3
    <3>3. \A i \in 1 .. old.v : f[i] \in Ids /\ IsOf(k, i, f[i])
      BY <3>2 DEF IsOf, File
    <3> HIDE DEF f
    <3>4. \A i, j \in 1 .. old.v : f[i] = f[j] => i = j
      BY <1>1, <3>1, <3>3 DEF OnceOK
    <3>5. \A i \in 1 .. old.v : f[i] # id[a]
      BY <1>5, <3>1, <3>3 DEF Landed
    <3>6. f \in [1 .. old.v -> Ids]
      BY <3>3 DEF f
    <3> QED
      BY <1>5, <3>1, <3>4, <3>5, <3>6, RoomForOneMore
  <2>5. cur'[k] = NoFile /\ num'[a] = old.v + 1
    BY <1>4, <2>3
  <2>6. \A w \in Versions : past'[k][w] = IF w = old.v THEN old ELSE past[k][w]
    BY <1>4, <2>2, <2>3
  <2>7. \A w \in Versions : past'[k][w] # NoFile <=> w < old.v + 1
    BY <1>7, <2>1, <2>2, <2>6 DEF Versions
  <2>8. \A b \in Agents : Publishing(b, k)' => b = a
    BY <1>3
  <2> QED
    BY <1>2, <2>4, <2>5, <2>7, <2>8 DEF LineOK, Publishing
<1> QED
  BY <1>6, <1>7

LEMMA LinePublish ==
  ASSUME FlushInv, SectionInv, WholeInv, NEW a \in Agents, Publish(a),
         NEW k \in Keys, k \notin torn, k = Wanted(a)
  PROVE  LineOK(k)'
<1> DEFINE e == [v |-> num[a], commit |-> id[a], base |-> base[a][Position(a)]]
<1>1. cur' = [cur EXCEPT ![k] = e] /\ e # NoFile /\ past' = past /\ e.v = num[a]
  BY PublishedFile
<1>2. cur \in [Keys -> File \cup {NoFile}]
  BY DEF SectionInv, DataOK
<1> HIDE DEF e
<1>3. num[a] \in Versions /\ \A w \in Versions : past[k][w] # NoFile <=> w < num[a]
  BY DEF WholeInv, LineOK, Publishing, Publish
<1>4. cur'[k] = e
  BY <1>1, <1>2
<1>5. \A b \in Agents : ~Publishing(b, k)'
  <2>1. ~Publishing(a, k)'
    BY DEF Publish, Publishing, Goto, FlushInv, ShapeOK
  <2>2. \A b \in Agents \ {a} : ~Publishing(b, k)
    <3>1. \A b \in Agents \ {a} : pc[b] = "publish" => Wanted(b) # k
      BY OneWriter, NextKey DEF InSection, Publish
    <3> QED
      BY <3>1 DEF Publishing
  <2> QED
    BY <2>1, <2>2, OthersPublishing DEF Step
<1> QED
  BY <1>1, <1>3, <1>4, <1>5 DEF LineOK

LEMMA LineStep ==
  ASSUME FlushInv, SectionInv, WholeInv, NEW a \in Agents, Begin(a) \/ Step(a) \/ Crash(a),
         NEW k \in Keys, k \notin torn'
  PROVE  LineOK(k)'
<1>1. k \notin torn /\ LineOK(k)
  BY RecordsStep DEF WholeInv
<1>2. CASE k = Wanted(a) /\ (Supersede(a) \/ Publish(a))
  BY <1>1, <1>2, LineSupersede, LinePublish
<1>3. CASE k # Wanted(a) /\ (Supersede(a) \/ Publish(a))
  <2>1. cur'[k] = cur[k] /\ past'[k] = past[k]
    BY <1>3 DEF Supersede, Publish, files, SectionInv, DataOK
  <2>2. Publishing(a, k)' <=> Publishing(a, k)
    <3>1. CASE Supersede(a)
      <4>1. done' = done /\ Buffer(a)' = Buffer(a)
        BY <3>1 DEF Supersede, Buffer
      <4>2. Wanted(a)' = Wanted(a)
        BY <4>1, WantedStays
      <4> QED
        BY <1>3, <4>2 DEF Publishing
    <3>2. CASE Publish(a)
      BY <1>3, <3>2 DEF Publish, Publishing, Goto, FlushInv, ShapeOK
    <3> QED
      BY <1>3, <3>1, <3>2
  <2>3. ~Publishing(a, k)
    BY <1>3 DEF Publishing
  <2> QED
    BY <1>1, <2>1, <2>2, <2>3, OthersPublishing, LineKept
<1>4. CASE ~Supersede(a) /\ ~Publish(a)
  <2>1. cur' = cur /\ past' = past
    BY <1>4 DEF Begin, Step, Crash, Locate, Open, Acquire, LockTimeout, Release, ListCommits,
                Stamp, SaveCommit, files
  <2>2. pc'[a] # "publish"
    BY <1>4 DEF FlushInv, ShapeOK, Begin, Step, Crash, Locate, Open, Acquire, LockTimeout,
                Release, ListCommits, Stamp, SaveCommit, Note, Return, Goto, flush
  <2>3. ~Publishing(a, k)
    <3>1. pc[a] = "publish" => Crash(a)
      BY <1>4 DEF Begin, Step, Locate, Open, Acquire, LockTimeout, Release, ListCommits, Stamp,
                  SaveCommit
    <3>2. pc[a] = "publish" => Wanted(a) \in torn'
      BY <3>1 DEF Crash
    <3> QED
      BY <3>2 DEF Publishing
  <2>4. ~Publishing(a, k)'
    BY <2>2 DEF Publishing
  <2> QED
    BY <1>1, <2>1, <2>3, <2>4, OthersPublishing, LineKept
<1> QED
  BY <1>2, <1>3, <1>4

LEMMA OnceStep ==
  ASSUME FlushInv, SectionInv, WholeInv, NEW a \in Agents, Begin(a) \/ Step(a) \/ Crash(a),
         NEW k \in Keys, k \notin torn'
  PROVE  OnceOK(k)'
<1>1. k \notin torn /\ LineOK(k) /\ OnceOK(k)
  BY RecordsStep DEF WholeInv
<1> SUFFICES ASSUME NEW u \in Versions, NEW v \in Versions, NEW c \in Ids,
                    IsOf(k, u, c)', IsOf(k, v, c)'
             PROVE  u = v
  BY DEF OnceOK
<1>2. \A w \in Versions :
        IsOf(k, w, c)' => \/ IsOf(k, w, c)
                          \/ Publish(a) /\ k = Wanted(a) /\ w = num[a] /\ c = id[a]
  BY <1>1, IsOfStep
<1>3. Publish(a) /\ k = Wanted(a) => ~Landed(id[a], k)
  BY <1>1, NotYet DEF Publish, InSection
<1> QED
  BY <1>1, <1>2, <1>3 DEF OnceOK, Landed

-----------------------------------------------------------------------------
(* How far a flush is, and what of it has landed.                          *)

LEMMA KeysTyped ==
  ASSUME FlushInv, NEW c \in Ids
  PROVE  /\ plan[c] \in Seq(Keys) /\ KeysOf(c) \subseteq Keys
         /\ \A k \in KeysOf(c) : \E i \in DOMAIN plan[c] : plan[c][i] = k
         /\ \A i \in DOMAIN plan[c] : plan[c][i] \in KeysOf(c)
<1>1. plan[c] \in Seq(Keys)
  BY DEF FlushInv, ShapeOK
<1> QED
  BY <1>1 DEF KeysOf

LEMMA KeysStay ==
  ASSUME NEW c, plan'[c] = plan[c]
  PROVE  KeysOf(c)' = KeysOf(c)
BY DEF KeysOf

\* What is landed after a step, on a key nobody has died on.
LEMMA LandedAfter ==
  ASSUME FlushInv, SectionInv, WholeInv, NEW a \in Agents, Begin(a) \/ Step(a) \/ Crash(a),
         NEW k \in Keys, k \notin torn', NEW c \in Ids
  PROVE  Landed(c, k)' <=> Landed(c, k) \/ (Publish(a) /\ k = Wanted(a) /\ c = id[a])
<1>1. k \notin torn
  BY RecordsStep
<1>2. LineOK(k)
  BY <1>1 DEF WholeInv
<1> QED
  BY <1>2, LandedStep

LEMMA StagePublish ==
  ASSUME FlushInv, SectionInv, WholeInv, NEW a \in Agents, Publish(a)
  PROVE  StageOK(a)'
<1>1. PICK c \in Ids : c = id[a]
  BY DEF FlushInv, BufferOK, Publish
<1>2. /\ InSection(a) /\ pc[a] = "publish" /\ ~raised[a]
      /\ UNCHANGED <<id, plan, raised, torn>>
  BY DEF Publish, InSection, SectionInv, OwnerOK, bounds
<1>3. /\ Buffer(a) = plan[c] /\ Position(a) \in DOMAIN plan[c] \ done[a]
      /\ Wanted(a) = plan[c][Position(a)]
      /\ \A i, j \in DOMAIN plan[c] : plan[c][i] = plan[c][j] => i = j
  BY <1>1, <1>2, NextKey DEF Buffer, SectionInv, LockedOK
<1>4. \/ pc'[a] = "release" /\ done'[a] = DOMAIN plan[c]
      \/ pc'[a] = "supersede"
  BY <1>3 DEF Publish, Goto, FlushInv, ShapeOK
<1>5. done'[a] = done[a] \cup {Position(a)}
  BY DEF Publish, FlushInv, ShapeOK
<1>6. \A k \in KeysOf(c) \ torn, i \in DOMAIN plan[c] :
        plan[c][i] = k => (Landed(c, k)' <=> i \in done'[a])
  <2> SUFFICES ASSUME NEW k \in KeysOf(c) \ torn, NEW i \in DOMAIN plan[c], plan[c][i] = k
               PROVE  Landed(c, k)' <=> i \in done'[a]
    OBVIOUS
  <2>1. Landed(c, k) <=> i \in done[a]
    BY <1>1, <1>2 DEF WholeInv, StageOK
  <2>2. k \in Keys
    BY KeysTyped
  <2>3. Landed(c, k)' <=> Landed(c, k) \/ k = Wanted(a)
    BY <1>1, <1>2, <2>2, LandedAfter DEF Step
  <2> QED
    BY <1>3, <1>5, <2>1, <2>3
<1>7. pc'[a] = "release" => \A k \in KeysOf(c) \ torn : Landed(c, k)'
  BY <1>4, <1>6, KeysTyped
<1>8. ~Before(a)' /\ (After(a)' => pc'[a] = "release")
  BY <1>2, <1>4 DEF Before, After
<1>9. KeysOf(c)' = KeysOf(c)
  BY <1>2, KeysStay
<1> QED
  BY <1>1, <1>2, <1>6, <1>7, <1>8, <1>9 DEF StageOK

\* Of the steps that publish nothing.
LEMMA PhaseStep ==
  ASSUME FlushInv, SectionInv, NEW a \in Agents, Step(a), ~Publish(a), ~Return(a)
  PROVE  /\ id'[a] = id[a] /\ (Before(a)' => Before(a)) /\ (After(a)' => After(a))
         /\ InSection(a)' => \/ InSection(a) /\ done'[a] = done[a]
                             \/ Before(a) /\ done'[a] = {}
<1> USE DEF FlushInv, ShapeOK, Before, After, InSection
<1>1. CASE Locate(a) \/ Open(a)
  <2>1. id' = id /\ pc[a] \in {"read", "open"} /\ pc'[a] \in {"read", "open", "lock"}
    BY <1>1 DEF Locate, Open, Note, Goto
  <2> QED
    BY <2>1
<1>2. CASE Acquire(a)
  <2>1. /\ id' = id /\ pc[a] = "lock"
        /\ pc'[a] = "lock" \/ (pc'[a] = "supersede" /\ done'[a] = {})
    BY <1>2 DEF Acquire, Goto
  <2> QED
    BY <2>1
<1>3. CASE LockTimeout(a)
  <2>1. /\ id' = id /\ pc[a] = "lock" /\ pc'[a] = "release"
        /\ raised' = [raised EXCEPT ![a] = TRUE]
    BY <1>3 DEF LockTimeout, Goto
  <2>2. raised'[a]
    BY <2>1 DEF SectionInv, DataOK
  <2> QED
    BY <2>1, <2>2
<1>4. CASE Supersede(a)
  <2>1. id' = id /\ pc[a] = "supersede" /\ pc'[a] = "publish" /\ done' = done
    BY <1>4 DEF Supersede, Goto
  <2> QED
    BY <2>1
<1>5. CASE Release(a)
  <2>1. /\ id' = id /\ pc[a] = "release" /\ raised' = raised
        /\ pc'[a] = "release" \/ (pc'[a] = "list" /\ ~raised[a])
    BY <1>5 DEF Release, Goto, flush
  <2> QED
    BY <2>1
<1>6. CASE ListCommits(a) \/ Stamp(a)
  <2>1. id' = id /\ pc[a] \in {"list", "stamp"} /\ pc'[a] \in {"stamp", "save"}
    BY <1>6 DEF ListCommits, Stamp, Goto
  <2> QED
    BY <2>1
<1>7. ~SaveCommit(a)
  BY DEF SaveCommit
<1> QED
  BY <1>1, <1>2, <1>3, <1>4, <1>5, <1>6, <1>7 DEF Step

LEMMA StageOwn ==
  ASSUME FlushInv, SectionInv, WholeInv, NEW a \in Agents, Begin(a) \/ Step(a) \/ Crash(a)
  PROVE  StageOK(a)'
<1>1. CASE Return(a)
  <2>1. id'[a] = NoCommit
    BY <1>1, Returned
  <2> QED
    BY <2>1, FlushAssumption DEF StageOK
<1>2. CASE Publish(a)
  BY <1>2, StagePublish
<1>3. CASE Begin(a)
  <2>1. /\ \A c \in Ids : c = id'[a] => plan[c] = <<>> /\ ~Publish(a)
        /\ Before(a)' /\ ~InSection(a)' /\ ~After(a)'
    <3>1. pc[a] = "idle" /\ pc'[a] = "read"
      BY <1>3 DEF Begin, Goto, FlushInv, ShapeOK
    <3>2. \A c \in Ids : c = id'[a] => plan[c] = <<>>
      <4>1. PICK d \in Ids : plan[d] = <<>> /\ id' = [id EXCEPT ![a] = d]
        BY <1>3, MintedIds DEF Begin
      <4> QED
        BY <4>1 DEF FlushInv, ShapeOK
    <3> QED
      BY <3>1, <3>2 DEF Publish, Before, InSection, After
  <2>2. \A c \in Ids, k \in Keys \ torn' : c = id'[a] => ~Landed(c, k)'
    <3> SUFFICES ASSUME NEW c \in Ids, NEW k \in Keys \ torn', c = id'[a] PROVE ~Landed(c, k)'
      OBVIOUS
    <3>1. ~Landed(c, k)
      BY <2>1, RecordsStep DEF WholeInv, CommitOK
    <3> QED
      BY <1>3, <2>1, <3>1, LandedAfter
  <2>3. \A c \in Ids : KeysOf(c)' \subseteq Keys
    <3>1. \A c \in Ids : plan'[c] \in Seq(Keys)
      BY <1>3, BeginOK DEF FlushInv, ShapeOK
    <3> QED
      BY <3>1 DEF KeysOf
  <2> QED
    BY <2>1, <2>2, <2>3 DEF StageOK
<1>4. CASE Step(a) /\ ~Publish(a) /\ ~Return(a)
  <2> SUFFICES ASSUME NEW c \in Ids, id'[a] = c, NEW k \in KeysOf(c)', k \notin torn'
               PROVE  /\ Before(a)' => ~Landed(c, k)'
                      /\ InSection(a)' =>
                           \A i \in DOMAIN plan'[c] : plan'[c][i] = k => (Landed(c, k)' <=> i \in done'[a])
                      /\ After(a)' => Landed(c, k)'
    BY DEF StageOK
  <2>1. /\ id[a] = c /\ (Before(a)' => Before(a)) /\ (After(a)' => After(a))
        /\ InSection(a)' => \/ InSection(a) /\ done'[a] = done[a]
                            \/ Before(a) /\ done'[a] = {}
    BY <1>4, PhaseStep
  <2>2. plan'[c] = plan[c] /\ k \notin torn
    <3>1. pc[a] # "idle"
      BY <2>1, FlushAssumption DEF SectionInv, OwnerOK
    <3> QED
      BY <2>1, <3>1, RecordsStep DEF FlushInv, BufferOK, Buffer
  <2>3. k \in KeysOf(c) /\ k \in Keys
    BY <2>2, KeysStay, KeysTyped
  <2>4. Landed(c, k)' <=> Landed(c, k)
    BY <1>4, <2>3, LandedAfter
  <2>5. StageOK(a)
    BY DEF WholeInv
  <2> QED
    BY <2>1, <2>2, <2>3, <2>4, <2>5 DEF StageOK
<1>5. CASE Crash(a)
  <2>1. Return(a)
    BY <1>5 DEF Crash
  <2> QED
    BY <1>1, <2>1
<1> QED
  BY <1>1, <1>2, <1>3, <1>4, <1>5

LEMMA StageOthers ==
  ASSUME FlushInv, SectionInv, WholeInv, NEW a \in Agents, Begin(a) \/ Step(a) \/ Crash(a),
         NEW b \in Agents, b # a
  PROVE  StageOK(b)' /\ NewestOK(b)'
<1>1. pc'[b] = pc[b] /\ id'[b] = id[b] /\ done'[b] = done[b] /\ raised'[b] = raised[b]
  BY OthersStay
<1>2. /\ Before(b)' <=> Before(b)
      /\ After(b)' <=> After(b)
      /\ InSection(b)' <=> InSection(b)
  BY <1>1 DEF Before, After, InSection
<1>3. ASSUME NEW c \in Ids, id'[b] = c, NEW k \in KeysOf(c)', k \notin torn'
      PROVE  /\ id[b] = c /\ plan'[c] = plan[c] /\ k \in KeysOf(c) /\ k \in Keys /\ k \notin torn
             /\ Landed(c, k)' <=> Landed(c, k)
  <2>1. id[b] = c /\ pc[b] # "idle"
    BY <1>1, <1>3, FlushAssumption DEF SectionInv, OwnerOK
  <2>2. plan'[c] = plan[c] /\ k \notin torn
    BY <1>3, <2>1, RecordsStep DEF FlushInv, BufferOK, Buffer
  <2>3. k \in KeysOf(c) /\ k \in Keys
    BY <1>3, <2>2, KeysStay, KeysTyped
  <2>4. id[a] # c
    BY <1>3, <2>1, FlushAssumption DEF SectionInv, OwnerOK
  <2> QED
    BY <1>3, <2>1, <2>2, <2>3, <2>4, LandedAfter
<1>4. StageOK(b)'
  <2>1. StageOK(b)
    BY DEF WholeInv
  <2> QED
    BY <1>1, <1>2, <1>3, <2>1 DEF StageOK
<1>5. NewestOK(b)'
  <2> SUFFICES ASSUME InSection(b)', NEW c \in Ids, id'[b] = c,
                      NEW k \in KeysOf(c)', k \notin torn', NEW v \in Versions,
                      IsOf(k, v, c)', NEW w \in Versions, v < w
               PROVE  FileOf(k, w)' = NoFile
    BY DEF NewestOK
  <2>1. id[b] = c /\ k \in KeysOf(c) /\ k \in Keys /\ k \notin torn
    BY <1>3
  <2>2. ~(Publish(a) /\ k = Wanted(a))
    <3> SUFFICES ASSUME Publish(a), k = Wanted(a) PROVE FALSE
      OBVIOUS
    <3>1. PICK i \in DOMAIN plan[c] : plan[c][i] = k
      BY <2>1, KeysTyped
    <3>2. Buffer(b) = plan[c] /\ InSection(b) /\ InSection(a)
      BY <1>2, <2>1 DEF Buffer, Publish, InSection
    <3> QED
      BY <3>1, <3>2, OneWriter
  <2>3. LineOK(k) /\ NewestOK(b)
    BY <2>1 DEF WholeInv
  <2>4. Kept(k)
    BY <2>1, <2>2, <2>3, FilesStep
  <2>5. FileOf(k, v)' = FileOf(k, v) /\ FileOf(k, w)' = FileOf(k, w)
    BY <2>4 DEF Kept
  <2>6. IsOf(k, v, c)
    BY <2>5 DEF IsOf
  <2> QED
    BY <1>2, <2>1, <2>3, <2>5, <2>6 DEF NewestOK
<1> QED
  BY <1>4, <1>5

LEMMA NewestOwn ==
  ASSUME FlushInv, SectionInv, WholeInv, NEW a \in Agents, Begin(a) \/ Step(a) \/ Crash(a)
  PROVE  NewestOK(a)'
<1> SUFFICES ASSUME InSection(a)', NEW c \in Ids, id'[a] = c,
                    NEW k \in KeysOf(c)', k \notin torn', NEW v \in Versions,
                    IsOf(k, v, c)', NEW w \in Versions, v < w
             PROVE  FileOf(k, w)' = NoFile
  BY DEF NewestOK
<1>1. ~Return(a) /\ ~Begin(a) /\ ~Crash(a)
  BY DEF Return, Begin, Crash, Goto, InSection, FlushInv, ShapeOK
<1>2. id[a] = c /\ pc[a] # "idle"
  <2>1. id[a] = c
    BY <1>1, RecordsStep
  <2> QED
    BY <2>1, FlushAssumption DEF SectionInv, OwnerOK
<1>3. plan'[c] = plan[c] /\ k \notin torn
  BY <1>2, RecordsStep DEF FlushInv, BufferOK, Buffer
<1>4. k \in KeysOf(c) /\ k \in Keys
  BY <1>3, KeysStay, KeysTyped
<1>5. LineOK(k) /\ NewestOK(a) /\ StageOK(a)
  BY <1>3, <1>4 DEF WholeInv
<1>6. CASE Publish(a) /\ k = Wanted(a)
  <2>1. Added(a, k)
    BY <1>4, <1>5, <1>6, FilesStep
  <2>2. ~Landed(c, k)
    BY <1>2, <1>3, <1>6, NotYet DEF Publish, InSection
  <2>3. v = num[a]
    BY <1>4, <1>5, <2>2, IsOfStep DEF Landed
  <2>4. FileOf(k, w) = NoFile /\ w # num[a]
    BY <2>1, <2>3 DEF Added, Versions
  <2> QED
    BY <2>1, <2>4 DEF Added
<1>7. CASE ~(Publish(a) /\ k = Wanted(a))
  <2>1. FileOf(k, v)' = FileOf(k, v) /\ FileOf(k, w)' = FileOf(k, w)
    BY <1>4, <1>5, <1>7, FilesStep DEF Kept
  <2>2. IsOf(k, v, c)
    BY <2>1 DEF IsOf
  <2>3. ~Before(a)
    BY <1>2, <1>3, <1>4, <1>5, <2>2 DEF StageOK, Landed
  <2>4. InSection(a)
    <3>1. CASE Publish(a)
      BY <3>1 DEF Publish, InSection
    <3>2. CASE ~Publish(a)
      BY <1>1, <2>3, <3>2, PhaseStep
    <3> QED
      BY <3>1, <3>2
  <2> QED
    BY <1>2, <1>3, <1>4, <1>5, <2>1, <2>2, <2>4 DEF NewestOK
<1> QED
  BY <1>6, <1>7

-----------------------------------------------------------------------------
(* The commits.                                                            *)

\* A flush that gives its id up has landed as a whole, or not at all.
LEMMA OverIsWhole ==
  ASSUME FlushInv, SectionInv, WholeInv, NEW a \in Agents, Step(a), Return(a), torn = {},
         NEW c \in Ids, id[a] = c
  PROVE  \/ \A k \in KeysOf(c) : Landed(c, k)
         \/ \A k \in KeysOf(c) : ~Landed(c, k)
<1>1. Before(a) \/ After(a)
  <2> USE DEF Before, After, FlushInv, ShapeOK
  <2>1. pc'[a] = "idle"
    BY Returned
  <2>2. CASE Locate(a) \/ Open(a) \/ LockTimeout(a) \/ Acquire(a)
    BY <2>2 DEF Locate, Open, LockTimeout, Acquire
  <2>3. CASE Release(a) \/ ListCommits(a) \/ Stamp(a) \/ SaveCommit(a)
    BY <2>3 DEF Release, ListCommits, Stamp, SaveCommit
  <2>4. CASE Supersede(a) \/ Publish(a)
    BY <2>1, <2>4 DEF Supersede, Publish, Goto
  <2> QED
    BY <2>2, <2>3, <2>4 DEF Step
<1>2. StageOK(a)
  BY DEF WholeInv
<1> QED
  BY <1>1, <1>2 DEF StageOK

LEMMA CommitStep ==
  ASSUME FlushInv, SectionInv, WholeInv, NEW a \in Agents, Begin(a) \/ Step(a) \/ Crash(a),
         NEW c \in Ids
  PROVE  CommitOK(c)'
<1>1. CommitOK(c)
  BY DEF WholeInv
<1>2. /\ plan[c] # <<>> => plan'[c] = plan[c]
      /\ plan'[c] # plan[c] => Begin(a) /\ id'[a] = c
      /\ commits'[c] # commits[c] => SaveCommit(a) /\ id[a] = c
      /\ torn \subseteq torn' /\ (crashes' = 0 => crashes = 0 /\ ~Crash(a))
  BY RecordsStep
<1>3. \A b \in Agents \ {a} : id'[b] = id[b]
  BY OthersStay
<1>4. id[a] = c => plan[c] # <<>>
  BY <1>1 DEF CommitOK
<1>5. id'[a] = c => id[a] = c \/ (Begin(a) /\ plan[c] = <<>> /\ plan'[c] # <<>>)
  <2>1. Return(a) => id'[a] # c
    BY Returned, FlushAssumption
  <2> QED
    BY <2>1, RecordsStep
<1>6. Publish(a) => id'[a] = id[a]
  BY DEF Publish
<1>7. KeysOf(c) \subseteq Keys
  BY KeysTyped
<1>8. ASSUME plan'[c] = <<>>
      PROVE  /\ \A k \in Keys \ torn' : ~Landed(c, k)'
             /\ commits'[c] = NoCommit
             /\ \A b \in Agents : id'[b] # c
  <2>1. plan[c] = <<>> /\ id[a] # c
    BY <1>2, <1>4, <1>8
  <2> QED
    BY <1>1, <1>2, <1>3, <1>5, <1>8, <2>1, LandedAfter DEF CommitOK
<1>9. ASSUME crashes' = 0, \A b \in Agents : id'[b] # c
      PROVE  \/ \A k \in KeysOf(c)' : Landed(c, k)'
             \/ \A k \in KeysOf(c)' : ~Landed(c, k)'
  <2>1. crashes = 0 /\ torn' = {} /\ torn = {} /\ ~Crash(a)
    <3>1. DataOK'
      BY ReadSection, AcquireSection, WriteSection, OutsideSection DEF Step
    <3> QED
      BY <1>2, <1>9, <3>1 DEF SectionInv, DataOK
  <2>2. KeysOf(c)' = KeysOf(c)
    BY <1>2, <1>9, KeysStay
  <2>3. \A k \in KeysOf(c) : Landed(c, k)' <=> Landed(c, k)
    BY <1>6, <1>7, <1>9, <2>1, LandedAfter
  <2>4. CASE \A b \in Agents : id[b] # c
    BY <1>1, <2>1, <2>2, <2>3, <2>4 DEF CommitOK
  <2>5. CASE id[a] = c
    <3>1. Step(a) /\ Return(a)
      <4>1. ~Begin(a)
        BY <1>9, <2>5, FlushAssumption DEF Begin, SectionInv, OwnerOK
      <4> QED
        BY <1>9, <2>1, <2>5, <4>1, RecordsStep
    <3> QED
      BY <2>1, <2>2, <2>3, <2>5, <3>1, OverIsWhole
  <2> QED
    BY <1>3, <1>9, <2>4, <2>5
<1>10. ASSUME commits'[c] # NoCommit
       PROVE  /\ \A k \in KeysOf(c)' \ torn' : Landed(c, k)'
              /\ \A b \in Agents : id'[b] # c
  <2>1. plan[c] # <<>>
    BY <1>1, <1>2, <1>4, <1>10 DEF CommitOK
  <2>2. KeysOf(c)' = KeysOf(c)
    BY <1>2, <2>1, KeysStay
  <2>3. CASE commits[c] # NoCommit
    BY <1>1, <1>2, <1>3, <1>5, <1>7, <2>1, <2>2, <2>3, LandedAfter DEF CommitOK
  <2>4. CASE SaveCommit(a) /\ id[a] = c
    <3>1. After(a) /\ StageOK(a)
      BY <2>4 DEF SaveCommit, After, WholeInv
    <3>2. \A k \in KeysOf(c) \ torn' : Landed(c, k)'
      BY <1>2, <1>7, <2>4, <3>1, LandedAfter DEF StageOK
    <3>3. id'[a] # c
      BY <2>4, Returned, FlushAssumption DEF SaveCommit
    <3>4. \A b \in Agents \ {a} : id[b] # c
      BY <2>4, FlushAssumption DEF SectionInv, OwnerOK
    <3> QED
      BY <1>3, <2>2, <3>2, <3>3, <3>4
  <2> QED
    BY <1>2, <1>10, <2>3, <2>4
<1> QED
  BY <1>8, <1>9, <1>10 DEF CommitOK

-----------------------------------------------------------------------------
(* The order.                                                              *)

\* A new pair of versions ends in the one just published.
LEMMA PrecedesStep ==
  ASSUME FlushInv, SectionInv, WholeInv, NEW a \in Agents, Begin(a) \/ Step(a) \/ Crash(a),
         NEW k \in Keys, k \notin torn', NEW c \in Ids, NEW d \in Ids, Precedes(c, d, k)'
  PROVE  \/ Precedes(c, d, k)
         \/ Publish(a) /\ k = Wanted(a) /\ d = id[a] /\ Landed(c, k)
<1>1. LineOK(k)
  BY RecordsStep DEF WholeInv
<1>2. PICK u, v \in Versions : u < v /\ IsOf(k, u, c)' /\ IsOf(k, v, d)'
  BY DEF Precedes
<1>3. /\ IsOf(k, u, c) \/ (Publish(a) /\ k = Wanted(a) /\ u = num[a] /\ c = id[a])
      /\ IsOf(k, v, d) \/ (Publish(a) /\ k = Wanted(a) /\ v = num[a] /\ d = id[a])
  BY <1>1, <1>2, IsOfStep
<1>4. IsOf(k, v, d) => ~(Publish(a) /\ k = Wanted(a) /\ u = num[a])
  <2> SUFFICES ASSUME IsOf(k, v, d), Publish(a), k = Wanted(a), u = num[a] PROVE FALSE
    OBVIOUS
  <2>1. Added(a, k)
    BY <1>1, FilesStep
  <2>2. v < u
    BY <2>1 DEF Added, IsOf
  <2> QED
    BY <1>2, <2>2 DEF Versions
<1>5. u # v
  BY <1>2 DEF Versions
<1> QED
  BY <1>2, <1>3, <1>4, <1>5 DEF Precedes, Landed

\* What a batch in its section has written, nobody has written after.
LEMMA NoneAfter ==
  ASSUME FlushInv, SectionInv, WholeInv, torn = {}, NEW a \in Agents, InSection(a),
         NEW c \in Ids, NEW d \in Ids, id[a] = d, NEW k \in KeysOf(d)
  PROVE  ~Precedes(d, c, k)
<1> SUFFICES ASSUME NEW u \in Versions, NEW v \in Versions, u < v, IsOf(k, u, d), IsOf(k, v, c)
             PROVE  FALSE
  BY DEF Precedes
<1>1. NewestOK(a)
  BY DEF WholeInv
<1>2. FileOf(k, v) = NoFile
  BY <1>1 DEF NewestOK
<1> QED
  BY <1>2 DEF IsOf

LEMMA OrderStep ==
  ASSUME FlushInv, SectionInv, WholeInv, NEW a \in Agents, Begin(a) \/ Step(a) \/ Crash(a)
  PROVE  OrderOK'
<1> SUFFICES ASSUME crashes' = 0, NEW c \in Ids, NEW d \in Ids,
                    NEW j \in KeysOf(c)' \cap KeysOf(d)', NEW k \in KeysOf(c)' \cap KeysOf(d)',
                    Precedes(c, d, j)', Precedes(d, c, k)'
             PROVE  FALSE
  BY DEF OrderOK
<1>1. crashes = 0 /\ torn' = {} /\ torn = {}
  <2>1. DataOK'
    BY ReadSection, AcquireSection, WriteSection, OutsideSection DEF Step
  <2> QED
    BY <2>1, RecordsStep DEF SectionInv, DataOK
<1>2. j \in Keys /\ k \in Keys
  <2>1. plan'[c] \in Seq(Keys)
    BY StepFlush DEF FlushInv, ShapeOK, Next
  <2> QED
    BY <2>1 DEF KeysOf
<1>3. /\ Precedes(c, d, j) \/ (Publish(a) /\ j = Wanted(a) /\ d = id[a] /\ Landed(c, j))
      /\ Precedes(d, c, k) \/ (Publish(a) /\ k = Wanted(a) /\ c = id[a] /\ Landed(d, k))
  BY <1>1, <1>2, PrecedesStep
<1>4. Landed(c, j) \/ Landed(c, k)
  BY <1>3 DEF Precedes, Landed
<1>5. Landed(d, j) \/ Landed(d, k)
  BY <1>3 DEF Precedes, Landed
<1>6. plan[c] # <<>> /\ plan[d] # <<>>
  BY <1>1, <1>2, <1>4, <1>5 DEF WholeInv, CommitOK
<1>7. KeysOf(c)' = KeysOf(c) /\ KeysOf(d)' = KeysOf(d)
  BY <1>6, RecordsStep, KeysStay
<1>8. Publish(a) => InSection(a) /\ ~Landed(id[a], Wanted(a))
  BY <1>1, NotYet DEF Publish, InSection
<1>9. Publish(a) /\ d = id[a] => ~Precedes(d, c, k)
  BY <1>1, <1>7, <1>8, NoneAfter
<1>10. Publish(a) /\ c = id[a] => ~Precedes(c, d, j)
  BY <1>1, <1>7, <1>8, NoneAfter
<1>11. ~(Precedes(c, d, j) /\ Precedes(d, c, k))
  BY <1>1, <1>7 DEF WholeInv, OrderOK
<1> QED
  BY <1>3, <1>8, <1>9, <1>10, <1>11

-----------------------------------------------------------------------------
FlushesInv == FlushInv /\ SectionInv /\ WholeInv

LEMMA WholeInit == Init => FlushesInv
<1> SUFFICES ASSUME Init PROVE FlushesInv
  OBVIOUS
<1>1. FlushInv
  BY InitFlush
<1>2. /\ cur = [k \in Keys |-> NoFile] /\ past = [k \in Keys |-> [v \in Versions |-> NoFile]]
      /\ pc = [b \in Agents |-> "idle"] /\ id = [b \in Agents |-> NoCommit]
      /\ base = [b \in Agents |-> <<>>] /\ num = [b \in Agents |-> 0]
      /\ raised = [b \in Agents |-> FALSE]
      /\ plan = [c \in Ids |-> <<>>] /\ commits = [c \in Ids |-> NoCommit]
      /\ torn = {} /\ crashes = 0
  BY DEF Init, Versions
<1>3. DataOK
  <2>1. base \in [Agents -> Seq(Nat)]
    <3>1. <<>> \in Seq(Nat)
      OBVIOUS
    <3> QED
      BY <1>2, <3>1
  <2>2. cur \in [Keys -> File \cup {NoFile}] /\ past \in [Keys -> [Versions -> File \cup {NoFile}]]
    BY <1>2
  <2> QED
    BY <1>2, <2>1, <2>2 DEF DataOK
<1>4. OwnerOK
  BY <1>2 DEF OwnerOK
<1>5. \A b \in Agents : ReadOK(b) /\ LockedOK(b) /\ ~InSection(b) /\ ~Before(b) /\ ~After(b)
  BY <1>2 DEF ReadOK, LockedOK, InSection, Before, After
<1>6. \A k \in Keys, v \in Versions : FileOf(k, v) = NoFile
  BY <1>2 DEF FileOf
<1>7. \A c \in Ids : KeysOf(c) = {}
  BY <1>2 DEF KeysOf
<1>8. \A k \in Keys : LineOK(k) /\ OnceOK(k)
  BY <1>2, <1>6 DEF LineOK, OnceOK, IsOf, Publishing
<1>9. \A b \in Agents : StageOK(b) /\ NewestOK(b)
  BY <1>5 DEF StageOK, NewestOK
<1>10. \A c \in Ids : CommitOK(c)
  BY <1>2, <1>6, <1>7, FlushAssumption DEF CommitOK, Landed, IsOf
<1>11. OrderOK
  BY <1>7 DEF OrderOK
<1> QED
  BY <1>1, <1>3, <1>4, <1>5, <1>8, <1>9, <1>10, <1>11 DEF FlushesInv, SectionInv, WholeInv

LEMMA WholeStep ==
  ASSUME FlushesInv, [Next]_vars
  PROVE  FlushesInv'
<1> USE DEF FlushesInv
<1>1. FlushInv'
  BY StepFlush
<1>2. CASE UNCHANGED vars
  <2>1. UNCHANGED <<cur, past, lock, pc, id, done, base, num, raised, plan, commits, torn, crashes>>
    BY <1>2 DEF vars, files, flush, bounds
  <2>2. SectionInv'
    <3>1. DataOK'
      BY <2>1 DEF SectionInv, DataOK
    <3>2. OwnerOK'
      BY <2>1 DEF SectionInv, OwnerOK
    <3>3. \A b \in Agents : Buffer(b)' = Buffer(b) /\ (InSection(b)' <=> InSection(b))
      BY <2>1 DEF Buffer, InSection
    <3>4. \A b \in Agents : ReadOK(b)'
      BY <2>1, <3>3 DEF SectionInv, ReadOK
    <3>5. \A b \in Agents : LockedOK(b)'
      BY <2>1, <3>3 DEF SectionInv, LockedOK
    <3> QED
      BY <3>1, <3>2, <3>4, <3>5 DEF SectionInv
  <2>3. \A k \in Keys \ torn : LineOK(k)' /\ OnceOK(k)'
    <3> SUFFICES ASSUME NEW k \in Keys \ torn PROVE LineOK(k)' /\ OnceOK(k)'
      OBVIOUS
    <3>1. \A b \in Agents : Publishing(b, k)' <=> Publishing(b, k)
      BY <2>1 DEF Publishing, Wanted, Position, Buffer
    <3>2. LineOK(k)'
      BY <2>1, <3>1, LineKept DEF WholeInv
    <3>3. OnceOK(k)'
      BY <2>1 DEF WholeInv, OnceOK, IsOf, FileOf
    <3> QED
      BY <3>2, <3>3
  <2>4. \A k, v : FileOf(k, v)' = FileOf(k, v)
    BY <2>1 DEF FileOf
  <2>5. /\ \A k, v, c : IsOf(k, v, c)' <=> IsOf(k, v, c)
        /\ \A k, c : Landed(c, k)' <=> Landed(c, k)
        /\ \A k, c, d : Precedes(c, d, k)' <=> Precedes(c, d, k)
    BY <2>4 DEF IsOf, Landed, Precedes
  <2>6. \A c : KeysOf(c)' = KeysOf(c)
    BY <2>1 DEF KeysOf
  <2>7. \A b \in Agents : StageOK(b)' /\ NewestOK(b)'
    BY <2>1, <2>4, <2>5, <2>6 DEF WholeInv, StageOK, NewestOK, Before, After, InSection
  <2>8. \A c \in Ids : CommitOK(c)'
    BY <2>1, <2>5, <2>6 DEF WholeInv, CommitOK
  <2>9. OrderOK'
    BY <2>1, <2>5, <2>6 DEF WholeInv, OrderOK
  <2> QED
    BY <1>1, <2>1, <2>2, <2>3, <2>7, <2>8, <2>9 DEF WholeInv
<1>3. CASE Next
  <2>1. PICK a \in Agents : Begin(a) \/ Step(a) \/ Crash(a)
    BY <1>3 DEF Next
  <2>2. SectionInv'
    BY <1>1, <2>1, SectionStep DEF WholeInv, CommitOK
  <2>3. \A k \in Keys \ torn' : LineOK(k)' /\ OnceOK(k)'
    BY <2>1, LineStep, OnceStep
  <2>4. \A b \in Agents : StageOK(b)' /\ NewestOK(b)'
    BY <2>1, StageOwn, NewestOwn, StageOthers
  <2>5. \A c \in Ids : CommitOK(c)'
    BY <2>1, CommitStep
  <2>6. OrderOK'
    BY <2>1, OrderStep
  <2> QED
    BY <1>1, <2>2, <2>3, <2>4, <2>5, <2>6 DEF WholeInv
<1> QED
  BY <1>2, <1>3

LEMMA WholeAlways == Spec => []FlushesInv
<1>1. FlushesInv /\ [Next]_vars => FlushesInv'
  BY WholeStep
<1> QED
  BY <1>1, WholeInit, PTL DEF Spec

-----------------------------------------------------------------------------
\* TransactionBuffer.flush over write_batch: without crashes, a flush that is
\* not in the middle of its renames has written all its keys or none, whoever
\* flushes at the same time and whatever it could not lock.
THEOREM FlushIsAllOrNothing == Spec => []AllOrNothing
<1>1. FlushesInv => AllOrNothing
  <2> SUFFICES ASSUME FlushesInv, crashes = 0, NEW c \in Ids, ~Writing(c)
               PROVE  \/ \A k \in KeysOf(c) : Landed(c, k)
                      \/ \A k \in KeysOf(c) : ~Landed(c, k)
    BY DEF AllOrNothing
  <2>1. torn = {}
    BY DEF FlushesInv, SectionInv, DataOK
  <2>2. CASE \A a \in Agents : id[a] # c
    BY <2>2 DEF FlushesInv, WholeInv, CommitOK
  <2>3. ASSUME NEW a \in Agents, id[a] = c
        PROVE  \/ \A k \in KeysOf(c) : Landed(c, k)
               \/ \A k \in KeysOf(c) : ~Landed(c, k)
    <3>1. pc[a] # "idle" /\ ~InSection(a)
      BY <2>3, FlushAssumption DEF FlushesInv, SectionInv, OwnerOK, Writing, InSection
    <3>2. Before(a) \/ After(a)
      BY <3>1 DEF FlushesInv, FlushInv, ShapeOK, Points, Before, After, InSection
    <3> QED
      BY <2>1, <2>3, <3>2 DEF FlushesInv, WholeInv, StageOK
  <2> QED
    BY <2>2, <2>3
<1> QED
  BY <1>1, WholeAlways, PTL

\* save_commit comes last: a commit anybody can find has all its entries in
\* the store, whatever died before or after, except on a key somebody died on
\* between its two renames.
THEOREM SavedCommitsAreWhole == Spec => []SavedIsWhole
<1>1. FlushesInv => SavedIsWhole
  BY DEF FlushesInv, WholeInv, CommitOK, SavedIsWhole, Saved
<1> QED
  BY <1>1, WholeAlways, PTL

\* write_batch's ordered locks are held over all its renames: two commits that
\* share keys land in the same order on each of them.
THEOREM FlushesSerialise == Spec => []BatchesSerialise
<1>1. FlushesInv => BatchesSerialise
  BY DEF FlushesInv, WholeInv, OrderOK, BatchesSerialise
<1> QED
  BY <1>1, WholeAlways, PTL

-----------------------------------------------------------------------------
(* The search for a common ancestor.                                       *)

\* Below every member of a set of naturals there is a least one.
LEMMA LeastNatural ==
  ASSUME NEW S \in SUBSET Nat, S # {}
  PROVE  \E m \in S : \A n \in S : m <= n
<1>1. PICK m \in S : \A n \in S : ~(<<n, m>> \in OpToRel(<, Nat))
  BY NatLessThanWellFounded, WFMin, Zenon
<1>2. \A n \in S : ~(n < m)
  BY <1>1 DEF OpToRel
<1> QED
  BY <1>2

\* f is the first n turns of a loop from s.
Runs(f, n, s) == f = [i \in 0 .. n |-> IF i = 0 THEN s ELSE Turn(f[i - 1])]

LEMMA RunsAgree ==
  ASSUME NEW s, NEW m \in Nat, NEW n \in Nat, m <= n, NEW f, Runs(f, m, s), NEW g, Runs(g, n, s)
  PROVE  \A i \in 0 .. m : f[i] = g[i]
<1> DEFINE Differ == {i \in 0 .. m : f[i] # g[i]}
<1>1. SUFFICES ASSUME Differ # {} PROVE FALSE
  OBVIOUS
<1>2. PICK i \in Differ : \A j \in Differ : i <= j
  <2>1. Differ \in SUBSET Nat
    OBVIOUS
  <2> HIDE DEF Differ
  <2> QED
    BY <1>1, <2>1, LeastNatural
<1>3. \A j \in 0 .. m : /\ f[j] = IF j = 0 THEN s ELSE Turn(f[j - 1])
                        /\ g[j] = IF j = 0 THEN s ELSE Turn(g[j - 1])
  BY DEF Runs
<1>4. i # 0
  BY <1>2, <1>3
<1>5. i - 1 \in 0 .. m /\ i - 1 \notin Differ
  BY <1>2, <1>4
<1>6. f[i - 1] = g[i - 1]
  BY <1>5
<1> QED
  BY <1>2, <1>3, <1>4, <1>6

LEMMA RunsExist ==
  ASSUME NEW s, NEW n \in Nat
  PROVE  \E f : Runs(f, n, s)
<1> DEFINE None == {i \in Nat : ~ \E f : Runs(f, i, s)}
<1>1. SUFFICES ASSUME None # {} PROVE FALSE
  OBVIOUS
<1>2. PICK i \in None : \A j \in None : i <= j
  <2>1. None \in SUBSET Nat
    OBVIOUS
  <2> HIDE DEF None
  <2> QED
    BY <1>1, <2>1, LeastNatural
<1>3. CASE i = 0
  <2>1. Runs([j \in 0 .. 0 |-> s], 0, s)
    BY DEF Runs
  <2> QED
    BY <1>2, <1>3, <2>1
<1>4. CASE i # 0
  <2>1. i - 1 \in Nat /\ i - 1 \notin None
    BY <1>2, <1>4
  <2>2. PICK f : Runs(f, i - 1, s)
    BY <2>1
  <2> DEFINE g == [j \in 0 .. i |-> IF j = i THEN Turn(f[i - 1]) ELSE f[j]]
  <2>3. \A j \in 0 .. i : g[j] = IF j = 0 THEN s ELSE Turn(g[j - 1])
    <3> SUFFICES ASSUME NEW j \in 0 .. i PROVE g[j] = IF j = 0 THEN s ELSE Turn(g[j - 1])
      OBVIOUS
    <3>1. i \in Nat /\ j \in Nat /\ j <= i
      BY <1>2
    <3>2. \A l \in 0 .. i - 1 : g[l] = f[l]
      BY <3>1
    <3>3. CASE j = i
      BY <3>1, <3>2, <3>3, <1>4
    <3>4. CASE j # i
      <4>1. f[j] = IF j = 0 THEN s ELSE Turn(f[j - 1])
        BY <2>2, <3>1, <3>4 DEF Runs
      <4> QED
        BY <3>1, <3>2, <3>4, <4>1
    <3> QED
      BY <3>3, <3>4
  <2>4. Runs(g, i, s)
    <3>1. g = [j \in 0 .. i |-> g[j]]
      OBVIOUS
    <3> HIDE DEF g
    <3> QED
      BY <2>3, <3>1 DEF Runs
  <2> QED
    BY <1>2, <2>4
<1> QED
  BY <1>3, <1>4

\* The function Search is defined by exists: it is the loop.
LEMMA SearchIsTheLoop ==
  ASSUME NEW c, NEW d
  PROVE  /\ Search(c, d)[0] = Start(c, d)
         /\ \A n \in Nat : Search(c, d)[n + 1] = Turn(Search(c, d)[n])
<1> DEFINE s == Start(c, d)
           run(n) == CHOOSE f : Runs(f, n, s)
           whole == [n \in Nat |-> run(n)[n]]
           Loop(f) == f = [n \in Nat |-> IF n = 0 THEN s ELSE Turn(f[n - 1])]
<1> HIDE DEF s
<1>1. \A n \in Nat : Runs(run(n), n, s)
  BY RunsExist
<1> HIDE DEF run
<1>2. Loop(whole)
  <2>1. ASSUME NEW n \in Nat
        PROVE  whole[n] = IF n = 0 THEN s ELSE Turn(whole[n - 1])
    <3>1. run(n)[n] = IF n = 0 THEN s ELSE Turn(run(n)[n - 1])
      BY <1>1 DEF Runs
    <3>2. CASE n # 0
      <4>1. n - 1 \in Nat /\ n - 1 <= n /\ n - 1 \in 0 .. n - 1
        BY <3>2
      <4>2. run(n - 1)[n - 1] = run(n)[n - 1]
        BY <1>1, <4>1, RunsAgree
      <4> QED
        BY <3>1, <3>2, <4>1, <4>2
    <3> QED
      BY <3>1, <3>2
  <2>2. whole = [n \in Nat |-> whole[n]]
    OBVIOUS
  <2> HIDE DEF whole
  <2> QED
    BY <2>1, <2>2
<1>3. Search(c, d) = CHOOSE f : Loop(f)
  BY DEF Search, s
<1>4. Loop(Search(c, d))
  <2> HIDE DEF Loop
  <2> QED
    BY <1>2, <1>3
<1> QED
  BY <1>4 DEF s

-----------------------------------------------------------------------------
\* Commits have their parents before them: every parent named is saved, and of
\* every set of commits one has its parent elsewhere.
DescentOK ==
  /\ clock \in Nat /\ stamp \in [Agents -> Nat] /\ DOMAIN head = Agents
  /\ \A a \in Agents : head[a] \in Saved \cup {NoCommit}
  /\ \A c \in Saved : commits[c].made \in Nat /\ commits[c].parent \in Saved \cup {NoCommit}
  /\ \A S \in SUBSET Saved : S # {} => \E c \in S : commits[c].parent \notin S

\* There is a newest commit to list.
LEMMA NewestListed ==
  ASSUME DescentOK, Saved # {}
  PROVE  \E c \in Saved : \A d \in Saved : Newer(c, d)
<1>1. IsFiniteSet(Saved) /\ \A c \in Saved : c \in Int /\ commits[c].made \in Int
  <2>1. Saved \in SUBSET Ids /\ Ids \subseteq Int
    BY FlushAssumption DEF Saved, Ids
  <2>2. IsFiniteSet(Saved)
    BY <2>1, IdsFinite, FS_Subset
  <2> QED
    BY <2>1, <2>2 DEF DescentOK
<1> DEFINE made == [c \in Saved |-> commits[c].made]
<1>2. PICK m \in Saved : \A d \in Saved : made[d] <= made[m]
  <2>1. made \in [Saved -> Int]
    BY <1>1
  <2> HIDE DEF made
  <2> QED
    BY <1>1, <2>1, FiniteGreatest
<1> DEFINE Last == {c \in Saved : commits[c].made = commits[m].made}
           rank == [c \in Last |-> c]
<1>3. PICK c \in Last : \A d \in Last : rank[d] <= rank[c]
  <2>1. rank \in [Last -> Int] /\ Last # {} /\ IsFiniteSet(Last)
    <3>1. IsFiniteSet(Last)
      BY <1>1, FS_Subset
    <3> QED
      BY <1>1, <3>1
  <2> HIDE DEF rank, Last
  <2> QED
    BY <2>1, FiniteGreatest
<1>4. ASSUME NEW d \in Saved PROVE Newer(c, d)
  <2>1. commits[d].made <= commits[c].made
    BY <1>2, <1>3
  <2>2. commits[d].made = commits[c].made => d <= c
    BY <1>3
  <2> QED
    BY <1>1, <2>1, <2>2 DEF Newer
<1> QED
  BY <1>3, <1>4

LEMMA DescentInit == Init => DescentOK
<1> SUFFICES ASSUME Init PROVE DescentOK
  OBVIOUS
<1>1. Saved = {}
  BY DEF Init, Saved
<1> QED
  BY <1>1 DEF Init, DescentOK

\* A commit becomes visible with the parent its process had listed.
LEMMA DescentSave ==
  ASSUME FlushesInv, DescentOK, NEW a \in Agents, SaveCommit(a)
  PROVE  DescentOK'
<1> DEFINE n == id[a]
<1>1. n \in Ids /\ n \notin Saved
  BY DEF FlushesInv, FlushInv, BufferOK, WholeInv, CommitOK, Saved, SaveCommit
<1>2. /\ DOMAIN commits = Ids
      /\ \A c \in Ids \ {n} : commits'[c] = commits[c]
      /\ commits'[n].parent = head[a] /\ commits'[n].made = stamp[a]
  BY <1>1 DEF FlushesInv, SectionInv, DataOK, SaveCommit
<1>3. Saved \subseteq Saved' /\ Saved' \subseteq Saved \cup {n} /\ Saved \subseteq Ids
  BY <1>1, <1>2 DEF Saved
<1>4. clock' = clock /\ stamp' \in [Agents -> Nat] /\ DOMAIN head' = Agents
  BY DEF SaveCommit, Return, DescentOK
<1>5. \A b \in Agents : head'[b] \in Saved' \cup {NoCommit}
  BY <1>3 DEF SaveCommit, Return, DescentOK
<1>6. \A c \in Saved' : commits'[c].made \in Nat /\ commits'[c].parent \in Saved \cup {NoCommit}
  BY <1>1, <1>2, <1>3 DEF DescentOK
<1>7. ASSUME NEW S \in SUBSET Saved', S # {}
      PROVE  \E c \in S : commits'[c].parent \notin S
  <2>1. CASE S \subseteq {n}
    <3>1. S = {n} /\ n \in Saved'
      BY <1>7, <2>1
    <3>2. commits'[n].parent # n
      BY <1>1, <1>6, <3>1, FlushAssumption
    <3> QED
      BY <3>1, <3>2
  <2>2. CASE ~(S \subseteq {n})
    <3>1. S \ {n} \in SUBSET Saved /\ S \ {n} # {}
      BY <1>3, <2>2
    <3>2. PICK c \in S \ {n} : commits[c].parent \notin S \ {n}
      BY <3>1 DEF DescentOK
    <3>3. commits'[c].parent = commits[c].parent /\ commits[c].parent # n
      BY <1>1, <1>2, <1>3, <3>1, <3>2, FlushAssumption DEF DescentOK
    <3> QED
      BY <3>2, <3>3
  <2> QED
    BY <2>1, <2>2
<1> QED
  BY <1>3, <1>4, <1>5, <1>6, <1>7 DEF DescentOK

LEMMA DescentStep ==
  ASSUME FlushesInv, DescentOK, [Next]_vars
  PROVE  DescentOK'
<1>1. CASE UNCHANGED vars
  BY <1>1 DEF vars, flush, DescentOK, Saved
<1>2. ASSUME NEW a \in Agents, Begin(a) \/ Step(a) \/ Crash(a), ~SaveCommit(a)
      PROVE  DescentOK'
  <2>1. commits' = commits /\ Saved' = Saved
    BY <1>2 DEF Begin, Step, Crash, Locate, Open, Acquire, LockTimeout, Supersede, Publish,
                Release, ListCommits, Stamp, Saved
  <2>2. clock' \in Nat
    BY <1>2 DEF DescentOK, Begin, Step, Crash, Locate, Open, Acquire, LockTimeout, Supersede,
                Publish, Release, ListCommits, Stamp
  <2>3. stamp' \in [Agents -> Nat]
    BY <1>2, <2>2 DEF DescentOK, Begin, Step, Crash, Locate, Open, Acquire, LockTimeout,
                Supersede, Publish, Release, ListCommits, Stamp, Return, flush
  <2>4. DOMAIN head' = Agents /\ \A b \in Agents : head'[b] \in Saved \cup {NoCommit}
    <3>1. CASE ListCommits(a)
      <4>1. head'[a] \in Saved \cup {NoCommit}
        BY <3>1, NewestListed DEF ListCommits, DescentOK
      <4> QED
        BY <3>1, <4>1 DEF ListCommits, DescentOK
    <3>2. CASE ~ListCommits(a)
      BY <1>2, <3>2 DEF DescentOK, Begin, Step, Crash, Locate, Open, Acquire, LockTimeout,
                Supersede, Publish, Release, Stamp, Return, flush
    <3> QED
      BY <3>1, <3>2
  <2> QED
    BY <2>1, <2>2, <2>3, <2>4 DEF DescentOK
<1> QED
  BY <1>1, <1>2, DescentSave DEF Next

LEMMA DescentAlways == Spec => [](FlushesInv /\ DescentOK)
<1>1. FlushesInv /\ DescentOK /\ [Next]_vars => FlushesInv' /\ DescentOK'
  BY WholeStep, DescentStep
<1>2. Init => FlushesInv /\ DescentOK
  BY WholeInit, DescentInit
<1> QED
  BY <1>1, <1>2, PTL DEF Spec

-----------------------------------------------------------------------------
(* Lineages.                                                               *)

LEMMA LineageCloses ==
  ASSUME DescentOK, NEW c \in Saved
  PROVE  /\ c \in Lineage(c) /\ Lineage(c) \in SUBSET Saved /\ WithParents(Lineage(c))
         /\ \A S \in SUBSET Saved : c \in S /\ WithParents(S) => Lineage(c) \subseteq S
<1>1. c \in Lineage(c) /\ Lineage(c) \in SUBSET Saved
  BY DEF Lineage
<1>2. \A S \in SUBSET Saved : c \in S /\ WithParents(S) => Lineage(c) \subseteq S
  BY DEF Lineage
<1>3. ASSUME NEW d \in Lineage(c), commits[d].parent # NoCommit
      PROVE  commits[d].parent \in Lineage(c)
  <2>1. commits[d].parent \in Saved
    BY <1>1, <1>3 DEF DescentOK
  <2>2. ASSUME NEW S \in SUBSET Saved, c \in S, WithParents(S)
        PROVE  commits[d].parent \in S
    BY <1>2, <1>3, <2>2 DEF WithParents
  <2> QED
    BY <2>1, <2>2 DEF Lineage
<1> QED
  BY <1>1, <1>2, <1>3 DEF WithParents

LEMMA LineageShrinks ==
  ASSUME DescentOK, NEW c \in Saved, NEW d \in Lineage(c)
  PROVE  d \in Saved /\ Lineage(d) \subseteq Lineage(c)
BY LineageCloses

\* A commit, and what its parent descends from.
LEMMA LineageOfParent ==
  ASSUME DescentOK, NEW c \in Saved
  PROVE  /\ commits[c].parent = NoCommit => Lineage(c) = {c}
         /\ commits[c].parent # NoCommit =>
              /\ commits[c].parent \in Saved
              /\ Lineage(c) = {c} \cup Lineage(commits[c].parent)
              /\ c \notin Lineage(commits[c].parent)
<1> DEFINE p == commits[c].parent
<1>1. CASE p = NoCommit
  <2>1. WithParents({c})
    BY <1>1 DEF WithParents
  <2> QED
    BY <1>1, <2>1, LineageCloses
<1>2. CASE p # NoCommit
  <2>1. p \in Saved
    BY <1>2 DEF DescentOK
  <2>2. Lineage(c) \subseteq {c} \cup Lineage(p)
    <3>1. WithParents({c} \cup Lineage(p)) /\ {c} \cup Lineage(p) \in SUBSET Saved
      BY <2>1, LineageCloses DEF WithParents
    <3> QED
      BY <3>1, LineageCloses
  <2>3. {c} \cup Lineage(p) \subseteq Lineage(c)
    <3>1. c \in Lineage(c) /\ p \in Lineage(c)
      BY <1>2, LineageCloses DEF WithParents
    <3> QED
      BY <3>1, LineageShrinks
  <2>4. ASSUME c \in Lineage(p) PROVE FALSE
    <3> DEFINE Loop == {d \in Lineage(p) : c \in Lineage(d)}
    <3>1. p \in Loop /\ Loop \in SUBSET Saved
      BY <2>1, <2>4, LineageCloses
    <3>2. PICK d \in Loop : commits[d].parent \notin Loop
      BY <3>1 DEF DescentOK
    <3>3. d \in Saved /\ d # c
      BY <3>1, <3>2
    <3> DEFINE q == commits[d].parent
    <3>4. CASE q = NoCommit
      <4>1. WithParents({d})
        BY <3>4 DEF WithParents
      <4> QED
        BY <3>2, <3>3, <4>1, LineageCloses
    <3>5. CASE q # NoCommit
      <4>1. q \in Saved /\ q \in Lineage(p)
        BY <2>1, <3>2, <3>5, LineageCloses DEF WithParents
      <4>2. WithParents({d} \cup Lineage(q)) /\ {d} \cup Lineage(q) \in SUBSET Saved
        BY <3>3, <4>1, LineageCloses DEF WithParents
      <4>3. c \in Lineage(q)
        BY <3>2, <3>3, <4>2, LineageCloses
      <4> QED
        BY <3>2, <4>1, <4>3
    <3> QED
      BY <3>4, <3>5
  <2> QED
    BY <1>2, <2>1, <2>2, <2>3, <2>4
<1> QED
  BY <1>1, <1>2

-----------------------------------------------------------------------------
(* The walks.                                                              *)

\* What a walk from c has visited is what lies between c and the commit next
\* in its queue, or all there is.
WalkOK(w, c) ==
  /\ DOMAIN w = {"visited", "queue"} /\ w = [visited |-> w.visited, queue |-> w.queue]
  /\ w.visited \in SUBSET Lineage(c)
  /\ w.queue = <<>> => w.visited = Lineage(c)
  /\ w.queue # <<>> =>
       \E x \in Lineage(c) :
         /\ w.queue = <<x>> /\ w.visited = Lineage(c) \ Lineage(x)
         /\ \A v \in w.visited : x \in Lineage(v)

LEMMA WalkStarts ==
  ASSUME DescentOK, NEW c \in Saved
  PROVE  WalkOK(Walk(c), c) /\ Walk(c).visited = {}
BY LineageCloses DEF Walk, WalkOK

LEMMA WalkVisits ==
  ASSUME DescentOK, NEW c \in Saved, NEW w, WalkOK(w, c)
  PROVE  /\ WalkOK(Visit(w), c)
         /\ w.queue = <<>> => Visit(w) = w
         /\ w.queue # <<>> =>
              /\ Head(w.queue) \in Lineage(c) \ w.visited
              /\ Visit(w).visited = w.visited \cup {Head(w.queue)}
<1>1. CASE w.queue = <<>>
  BY <1>1 DEF Visit
<1>2. CASE w.queue # <<>>
  <2>1. PICK x \in Lineage(c) : /\ w.queue = <<x>> /\ w.visited = Lineage(c) \ Lineage(x)
                                /\ \A v \in w.visited : x \in Lineage(v)
    BY <1>2 DEF WalkOK
  <2>2. x \in Saved /\ x \in Lineage(x) /\ Lineage(x) \subseteq Lineage(c) /\ w.visited \subseteq Saved
    BY <2>1, LineageCloses, LineageShrinks
  <2>3. Head(w.queue) = x /\ Tail(w.queue) = <<>> /\ x \notin w.visited
    BY <2>1, <2>2
  <2> DEFINE visited == w.visited \cup {x}
             p == commits[x].parent
  <2>4. Visit(w) = [visited |-> visited, queue |-> <<>> \o Unvisited(x, visited)]
    BY <1>2, <2>3 DEF Visit
  <2>5. CASE p = NoCommit
    <3>1. Unvisited(x, visited) = <<>>
      BY <2>5 DEF Unvisited
    <3>2. visited = Lineage(c)
      BY <2>1, <2>2, <2>5, LineageOfParent
    <3>3. Visit(w) = [visited |-> visited, queue |-> <<>>]
      <4>1. <<>> \o <<>> = <<>>
        OBVIOUS
      <4> QED
        BY <2>4, <3>1, <4>1, Zenon
    <3> QED
      BY <1>2, <2>1, <2>3, <3>2, <3>3 DEF WalkOK
  <2>6. CASE p # NoCommit
    <3>1. /\ p \in Saved /\ Lineage(x) = {x} \cup Lineage(p) /\ x \notin Lineage(p)
          /\ p \in Lineage(p)
      BY <2>2, <2>6, LineageOfParent, LineageCloses
    <3>2. visited = Lineage(c) \ Lineage(p) /\ p \in Lineage(c) /\ p \notin visited
      BY <2>1, <2>2, <3>1
    <3>3. \A v \in visited : p \in Lineage(v)
      <4>1. p \in Lineage(x)
        BY <3>1
      <4>2. \A v \in w.visited : x \in Lineage(v) /\ v \in Saved
        BY <2>1, <2>2
      <4> QED
        BY <4>1, <4>2, LineageShrinks
    <3>4. Unvisited(x, visited) = <<p>>
      BY <2>6, <3>2 DEF Unvisited
    <3>5. Visit(w) = [visited |-> visited, queue |-> <<p>>]
      BY <2>4, <3>4
    <3> QED
      BY <1>2, <2>1, <2>3, <3>2, <3>3, <3>5 DEF WalkOK
  <2> QED
    BY <2>5, <2>6
<1> QED
  BY <1>1, <1>2

\* What one walk meets of the other is the latest they have in common.
LEMMA MeetingPoint ==
  ASSUME DescentOK, NEW c \in Saved, NEW d \in Saved, NEW w, WalkOK(w, c), NEW u, WalkOK(u, d),
         w.visited \cap u.visited = {}, Met(w, u)
  PROVE  /\ Head(w.queue) \in Lineage(c) \cap Lineage(d)
         /\ Lineage(c) \cap Lineage(d) \subseteq Lineage(Head(w.queue))
<1>1. PICK x \in Lineage(c) : w.queue = <<x>> /\ w.visited = Lineage(c) \ Lineage(x)
  BY DEF WalkOK, Met
<1>2. Head(w.queue) = x /\ x \in u.visited
  BY <1>1 DEF Met
<1>3. x \in Saved /\ x \in Lineage(d)
  BY <1>1, <1>2, LineageCloses DEF WalkOK
<1>4. ASSUME NEW y \in Lineage(c) \cap Lineage(d), y \notin Lineage(x) PROVE FALSE
  <2>1. y \notin u.visited
    BY <1>1, <1>4
  <2>2. u.queue # <<>>
    BY <1>4, <2>1 DEF WalkOK
  <2>3. PICK z \in Lineage(d) : u.visited = Lineage(d) \ Lineage(z) /\ \A v \in u.visited : z \in Lineage(v)
    BY <2>2 DEF WalkOK
  <2>4. y \in Lineage(z) /\ z \in Lineage(x)
    BY <1>2, <1>4, <2>1, <2>3
  <2> QED
    BY <1>3, <1>4, <2>4, LineageShrinks
<1> QED
  BY <1>1, <1>2, <1>3, <1>4

\* How far a walk is after n turns.
PaceOK(w, n) == w.queue # <<>> => Cardinality(w.visited) = n

LEMMA PaceKept ==
  ASSUME DescentOK, NEW c \in Saved, NEW w, WalkOK(w, c), NEW n \in Nat, PaceOK(w, n)
  PROVE  PaceOK(Visit(w), n + 1)
<1>1. IsFiniteSet(w.visited)
  <2>1. w.visited \in SUBSET Ids
    BY LineageCloses DEF WalkOK, Saved
  <2> QED
    BY <2>1, IdsFinite, FS_Subset
<1>2. CASE w.queue # <<>>
  <2>1. Head(w.queue) \notin w.visited /\ Visit(w).visited = w.visited \cup {Head(w.queue)}
    BY <1>2, WalkVisits
  <2>2. Cardinality(w.visited \cup {Head(w.queue)}) = Cardinality(w.visited) + 1
    BY <1>1, <2>1, FS_AddElement
  <2> QED
    BY <1>2, <2>1, <2>2 DEF PaceOK
<1>3. CASE w.queue = <<>>
  BY <1>3, WalkVisits DEF PaceOK
<1> QED
  BY <1>2, <1>3

\* A walk is over after as many turns as there are commits, and one.
LEMMA PaceEnds ==
  ASSUME DescentOK, NEW c \in Saved, NEW w, WalkOK(w, c), PaceOK(w, Len(Minted) + 1)
  PROVE  w.visited = Lineage(c)
<1>1. w.visited \in SUBSET Ids
  BY LineageCloses DEF WalkOK, Saved
<1>2. Cardinality(w.visited) <= Len(Minted) /\ Cardinality(w.visited) \in Nat
  BY <1>1, IdsFinite, FS_Subset, FS_CardinalityType
<1> QED
  BY <1>2, IdsFinite DEF WalkOK, PaceOK

\* The answer is the latest commit in both lineages; until there is one, the
\* walks have nothing in common.
SearchOK(s, n, c, d) ==
  /\ s.answer # NoCommit =>
       /\ s.answer \in Lineage(c) \cap Lineage(d)
       /\ Lineage(c) \cap Lineage(d) \subseteq Lineage(s.answer)
  /\ s.answer = NoCommit =>
       /\ WalkOK(s.a, c) /\ WalkOK(s.b, d) /\ s.a.visited \cap s.b.visited = {}
       /\ PaceOK(s.a, n) /\ PaceOK(s.b, n)

LEMMA SearchStarts ==
  ASSUME DescentOK, NEW c \in Saved, NEW d \in Saved
  PROVE  SearchOK(Start(c, d), 0, c, d) /\ DOMAIN Start(c, d) = {"a", "b", "answer"}
<1>1. c # NoCommit
  BY FlushAssumption DEF Saved
<1>2. Cardinality({}) = 0
  BY FS_EmptySet
<1> QED
  BY <1>1, <1>2, WalkStarts, LineageCloses DEF Start, SearchOK, PaceOK

LEMMA SearchTurns ==
  ASSUME DescentOK, NEW c \in Saved, NEW d \in Saved, NEW n \in Nat,
         NEW s, SearchOK(s, n, c, d), DOMAIN s = {"a", "b", "answer"},
         s = [i \in DOMAIN s |-> s[i]]
  PROVE  SearchOK(Turn(s), n + 1, c, d)
<1> DEFINE a == Visit(s.a)
           b == Visit(s.b)
<1>1. CASE s.answer # NoCommit
  BY <1>1 DEF SearchOK, Turn
<1>2. CASE s.answer = NoCommit /\ Met(s.a, s.b)
  <2>1. Turn(s).answer = Head(s.a.queue)
    BY <1>2 DEF Turn
  <2>2. Head(s.a.queue) # NoCommit
    BY <1>2, MeetingPoint, LineageCloses, FlushAssumption DEF SearchOK, Saved
  <2> QED
    BY <1>2, <2>1, <2>2, MeetingPoint DEF SearchOK
<1>3. CASE s.answer = NoCommit /\ ~Met(s.a, s.b)
  <2>1. WalkOK(a, c) /\ WalkOK(s.b, d) /\ PaceOK(a, n + 1)
    BY <1>3, WalkVisits, PaceKept DEF SearchOK
  <2>2. a.visited \cap s.b.visited = {}
    BY <1>3, WalkVisits DEF SearchOK, Met
  <2>3. CASE Met(s.b, a)
    <3>1. Turn(s).answer = Head(s.b.queue)
      BY <1>3, <2>3 DEF Turn
    <3>2. Head(s.b.queue) # NoCommit
      BY <2>1, <2>2, <2>3, MeetingPoint, LineageCloses, FlushAssumption DEF Saved
    <3> QED
      BY <2>1, <2>2, <2>3, <3>1, <3>2, MeetingPoint DEF SearchOK
  <2>4. CASE ~Met(s.b, a)
    <3>1. Turn(s) = [a |-> a, b |-> b, answer |-> NoCommit]
      BY <1>3, <2>4 DEF Turn
    <3>2. WalkOK(b, d) /\ PaceOK(b, n + 1)
      BY <1>3, WalkVisits, PaceKept DEF SearchOK
    <3>3. a.visited \cap b.visited = {}
      BY <2>1, <2>2, <2>4, WalkVisits DEF Met
    <3> HIDE DEF a, b
    <3> QED
      BY <2>1, <3>1, <3>2, <3>3 DEF SearchOK
  <2> QED
    BY <2>3, <2>4
<1> QED
  BY <1>1, <1>2, <1>3

LEMMA SearchFinds ==
  ASSUME DescentOK, NEW c \in Saved, NEW d \in Saved
  PROVE  \A n \in Nat : SearchOK(Search(c, d)[n], n, c, d)
<1> DEFINE IsRecord(s) == DOMAIN s = {"a", "b", "answer"} /\ s = [i \in DOMAIN s |-> s[i]]
           OK(n) == SearchOK(Search(c, d)[n], n, c, d) /\ IsRecord(Search(c, d)[n])
           Bad == {n \in Nat : ~OK(n)}
<1>1. SUFFICES ASSUME Bad # {} PROVE FALSE
  OBVIOUS
<1>2. PICK m \in Bad : \A n \in Bad : m <= n
  <2>1. Bad \in SUBSET Nat
    OBVIOUS
  <2> HIDE DEF Bad
  <2> QED
    BY <1>1, <2>1, LeastNatural
<1>3. OK(0)
  <2>1. IsRecord(Start(c, d))
    BY DEF Start
  <2> QED
    BY <2>1, SearchStarts, SearchIsTheLoop
<1>4. m # 0 /\ m - 1 \in Nat /\ OK(m - 1)
  <2>1. m # 0
    BY <1>2, <1>3
  <2>2. m - 1 \in Nat /\ m - 1 \notin Bad
    BY <1>2, <2>1
  <2> HIDE DEF OK
  <2> QED
    BY <2>1, <2>2
<1> DEFINE s == Search(c, d)[m - 1]
<1>5. Search(c, d)[m] = Turn(s)
  <2>1. (m - 1) + 1 = m
    BY <1>2
  <2> QED
    BY <1>4, <2>1, SearchIsTheLoop
<1>6. SearchOK(Turn(s), m, c, d)
  <2>1. SearchOK(Turn(s), (m - 1) + 1, c, d)
    <3> HIDE DEF s
    <3>1. SearchOK(s, m - 1, c, d) /\ IsRecord(s)
      BY <1>4 DEF s
    <3> QED
      BY <1>4, <3>1, SearchTurns
  <2> QED
    BY <1>2, <2>1
<1>7. IsRecord(Turn(s))
  <2> HIDE DEF s
  <2>1. IsRecord(s)
    BY <1>4 DEF s
  <2> QED
    BY <2>1 DEF Turn
<1> QED
  BY <1>2, <1>5, <1>6, <1>7

\* dag.find_common_ancestor, on any history flushes can make, however it
\* forks: the two walks meet at the latest commit both descend from, within as
\* many turns as there are commits and one, or there is none.
THEOREM AncestorsAreLatest == Spec => []CommonAncestorIsLatest
<1>1. DescentOK => CommonAncestorIsLatest
  <2> SUFFICES ASSUME DescentOK, NEW c \in Saved, NEW d \in Saved
               PROVE  LET common == Lineage(c) \cap Lineage(d)
                          found == FindCommonAncestor(c, d)
                      IN  IF common = {} THEN found = NoCommit
                          ELSE found \in common /\ common \subseteq Lineage(found)
    BY DEF CommonAncestorIsLatest
  <2> DEFINE s == Search(c, d)[Len(Minted) + 1]
  <2>1. SearchOK(s, Len(Minted) + 1, c, d)
    BY SearchFinds, IdsFinite
  <2>2. FindCommonAncestor(c, d) = s.answer
    BY DEF FindCommonAncestor
  <2> HIDE DEF s
  <2>3. CASE s.answer = NoCommit
    <3>1. s.a.visited = Lineage(c) /\ s.b.visited = Lineage(d)
      BY <2>1, <2>3, PaceEnds DEF SearchOK
    <3>2. Lineage(c) \cap Lineage(d) = {}
      BY <2>1, <2>3, <3>1 DEF SearchOK
    <3> QED
      BY <2>2, <2>3, <3>2
  <2>4. CASE s.answer # NoCommit
    BY <2>1, <2>2, <2>4 DEF SearchOK
  <2> QED
    BY <2>3, <2>4
<1> QED
  BY <1>1, DescentAlways, PTL

=============================================================================
