--------------------------- MODULE PgStore_proofs ---------------------------
(***************************************************************************)
(* The table of memory entries, for any keys, claims, branches and clients *)
(* and any number of rows.  Rows are never taken away and only their live  *)
(* flag ever changes, so what a transaction knows of the rows it found     *)
(* stays true while others commit.  With that, the versions of a key on    *)
(* main, those a merge has staged included, have no gap, and the unique    *)
(* constraint keeps them apart.                                            *)
(***************************************************************************)
EXTENDS PgStore, FiniteSetTheorems, WellFoundedInduction, TLAPS

\* A finite set has a greatest element under any integer measure: one above
\* which the fewest elements lie.
LEMMA FiniteGreatest ==
  ASSUME NEW G, IsFiniteSet(G), G # {}, NEW f \in [G -> Int]
  PROVE  \E a \in G : \A b \in G : f[b] <= f[a]
<1> DEFINE Above(a) == {b \in G : f[a] < f[b]}
           Aboves == {Above(a) : a \in G}
<1>1. PICK U \in Aboves : \A V \in Aboves : <<V, U>> \notin StrictSubsetOrdering(G)
  <2>1. \A a \in G : IsFiniteSet(Above(a)) /\ Above(a) \in SUBSET G
    BY FS_Subset
  <2>2. Aboves \subseteq FiniteSubsetsOf(G)
    <3> HIDE DEF Above
    <3> QED
      BY <2>1 DEF FiniteSubsetsOf
  <2>3. Aboves # {}
    <3>1. \A a \in G : Above(a) \in Aboves
      OBVIOUS
    <3> HIDE DEF Aboves
    <3> QED
      BY <3>1
  <2> HIDE DEF Aboves
  <2> QED
    BY <2>2, <2>3, FS_StrictSubsetOrderingWellFounded, WFMin
<1>2. PICK a \in G : U = Above(a)
  BY <1>1
<1>3. ASSUME NEW b \in G, ~(f[b] <= f[a]) PROVE FALSE
  <2>1. f[a] < f[b] /\ \A e \in G : f[e] \in Int
    BY <1>3
  <2>2. Above(b) \subseteq Above(a) /\ b \in Above(a) /\ b \notin Above(b)
    BY <2>1
  <2>3. <<Above(b), Above(a)>> \in StrictSubsetOrdering(G)
    BY <2>2 DEF StrictSubsetOrdering
  <2> QED
    BY <1>1, <1>2, <2>3
<1> QED
  BY <1>3

-----------------------------------------------------------------------------
(* Tables.                                                                 *)

Stages == [off : SUBSET Nat, on : SUBSET Nat, new : Seq(Row)]

\* u is t with the rows of new after it, but for the live flags.
Extends(t, u, new) ==
  /\ u \in Seq(Row)
  /\ Len(u) = Len(t) + Len(new)
  /\ \A i \in DOMAIN t :
       /\ u[i].branch = t[i].branch /\ u[i].key = t[i].key /\ u[i].ver = t[i].ver
       /\ u[i].claim = t[i].claim /\ u[i].credit = t[i].credit
  /\ \A n \in DOMAIN new : u[Len(t) + n] = new[n]

Grows(t, u) == \E new \in Seq(Row) : Extends(t, u, new)

Versions(t, k) == {t[i].ver : i \in On(t, Main, k)}

StagedVersions(new, k) ==
  {new[n].ver : n \in {m \in DOMAIN new : new[m].branch = Main /\ new[m].key = k}}

\* 1, 2, ... with no gap.
NoGap(V) == \A v \in V : 1 \in V /\ (v = 1 \/ v - 1 \in V)

Unbroken(t) == \A k \in Keys : NoGap(Versions(t, k))

Apart(t) ==
  \A i, j \in DOMAIN t :
    t[i].branch = Main /\ t[j].branch = Main /\ t[i].key = t[j].key /\ t[i].ver = t[j].ver
    => i = j

LEMMA AppliedExtends ==
  ASSUME NEW t \in Seq(Row), NEW s \in Stages
  PROVE  /\ Extends(t, Applied(t, s), s.new)
         /\ \A i \in DOMAIN t :
              Applied(t, s)[i].live = ((t[i].live /\ i \notin s.off) \/ i \in s.on)
<1> DEFINE flag(i) == (t[i].live /\ i \notin s.off) \/ i \in s.on
           old == [i \in 1 .. Len(t) |-> [t[i] EXCEPT !.live = flag(i)]]
<1>1. s.new \in Seq(Row) /\ Len(t) \in Nat /\ DOMAIN t = 1 .. Len(t)
  BY DEF Stages
<1>2. \A i \in 1 .. Len(t) : t[i] \in Row
  OBVIOUS
<1>3. \A i : flag(i) \in BOOLEAN
  OBVIOUS
<1> HIDE DEF flag
<1>4. \A i \in 1 .. Len(t) : old[i] \in Row /\ old[i] = [t[i] EXCEPT !.live = flag(i)]
  BY <1>2, <1>3 DEF Row
<1>5. old \in Seq(Row) /\ Len(old) = Len(t) /\ DOMAIN old = 1 .. Len(t)
  <2>1. old \in [1 .. Len(t) -> Row]
    BY <1>4
  <2> HIDE DEF old
  <2> QED
    BY <2>1, <1>1
<1>6. Applied(t, s) = old \o s.new
  BY DEF Applied, flag
<1>7. /\ old \o s.new \in Seq(Row)
      /\ Len(old \o s.new) = Len(t) + Len(s.new)
      /\ \A i \in 1 .. Len(t) : (old \o s.new)[i] = old[i]
      /\ \A n \in DOMAIN s.new : (old \o s.new)[Len(t) + n] = s.new[n]
  <2> HIDE DEF old
  <2> QED
    BY <1>1, <1>5
<1>8. \A i \in 1 .. Len(t) :
        /\ old[i].branch = t[i].branch /\ old[i].key = t[i].key /\ old[i].ver = t[i].ver
        /\ old[i].claim = t[i].claim /\ old[i].credit = t[i].credit
        /\ old[i].live = flag(i)
  <2> SUFFICES ASSUME NEW i \in 1 .. Len(t)
               PROVE  /\ old[i].branch = t[i].branch /\ old[i].key = t[i].key
                      /\ old[i].ver = t[i].ver /\ old[i].claim = t[i].claim
                      /\ old[i].credit = t[i].credit /\ old[i].live = flag(i)
    OBVIOUS
  <2>1. t[i] \in Row /\ old[i] = [t[i] EXCEPT !.live = flag(i)]
    BY <1>2, <1>4
  <2> HIDE DEF old
  <2> QED
    BY <2>1 DEF Row
<1> HIDE DEF old
<1>9. Extends(t, old \o s.new, s.new)
  BY <1>1, <1>7, <1>8 DEF Extends
<1>10. \A i \in DOMAIN t : (old \o s.new)[i].live = flag(i)
  BY <1>1, <1>7, <1>8
<1> QED
  BY <1>6, <1>9, <1>10 DEF flag

LEMMA AppendExtends ==
  ASSUME NEW t \in Seq(Row), NEW new \in Seq(Row)
  PROVE  Extends(t, t \o new, new)
<1>1. /\ t \o new \in Seq(Row) /\ Len(t \o new) = Len(t) + Len(new)
      /\ \A i \in DOMAIN t : (t \o new)[i] = t[i]
      /\ \A n \in DOMAIN new : (t \o new)[Len(t) + n] = new[n]
  OBVIOUS
<1> QED
  BY <1>1 DEF Extends

LEMMA Unchanged ==
  ASSUME NEW t \in Seq(Row)
  PROVE  Extends(t, t, <<>>)
<1>1. <<>> \in Seq(Row) /\ Len(<<>>) = 0 /\ DOMAIN <<>> = {}
  OBVIOUS
<1> QED
  BY <1>1 DEF Extends

LEMMA RowsFinite ==
  ASSUME NEW t \in Seq(Row), NEW b, NEW k
  PROVE  IsFiniteSet(On(t, b, k))
<1>1. DOMAIN t = 1 .. Len(t) /\ Len(t) \in Int /\ 1 \in Int
  OBVIOUS
<1>2. IsFiniteSet(1 .. Len(t))
  BY <1>1, FS_Interval
<1> QED
  BY <1>1, <1>2, FS_Subset DEF On

\* What a merge numbers its rows with: 1 if there is none, or the version after
\* the highest there is.
LEMMA AfterAllFollows ==
  ASSUME NEW t \in Seq(Row), NEW b, NEW k
  PROVE  \/ On(t, b, k) = {} /\ AfterAll(t, b, k) = 1
         \/ \E i \in On(t, b, k) : /\ AfterAll(t, b, k) = t[i].ver + 1
                                  /\ \A j \in On(t, b, k) : t[j].ver <= t[i].ver
<1>1. CASE On(t, b, k) = {}
  BY <1>1 DEF AfterAll
<1>2. CASE On(t, b, k) # {}
  <2> DEFINE S == On(t, b, k)
             ver == [i \in S |-> t[i].ver]
  <2>1. ver \in [S -> Int] /\ \A i \in S : i # NoRow
    <3>1. \A i \in S : i \in 1 .. Len(t)
      BY DEF On
    <3>2. \A i \in 1 .. Len(t) : t[i] \in Row /\ i # 0
      OBVIOUS
    <3>3. \A r \in Row : r.ver \in Int
      BY DEF Row
    <3> HIDE DEF S
    <3> QED
      BY <3>1, <3>2, <3>3 DEF NoRow
  <2>2. PICK g \in S : \A i \in S : ver[i] <= ver[g]
    <3>1. IsFiniteSet(S)
      BY RowsFinite
    <3> HIDE DEF S, ver
    <3> QED
      BY <1>2, <2>1, <3>1, FiniteGreatest DEF S
  <2>3. g \in Newest(t, S)
    BY <2>2 DEF Newest
  <2> DEFINE m == CHOOSE i \in S : i \in Newest(t, S)
  <2>4. m \in S /\ m \in Newest(t, S)
    BY <2>3
  <2>5. AfterAll(t, b, k) = NextVersion(t, m)
    BY <1>2 DEF AfterAll
  <2>6. \A j \in S : t[j].ver <= t[m].ver
    BY <2>4 DEF Newest
  <2> HIDE DEF m
  <2> QED
    BY <2>1, <2>4, <2>5, <2>6 DEF NextVersion
<1> QED
  BY <1>1, <1>2

\* Every row of an extended table is a row it had or one of the new.
LEMMA ExtendsRows ==
  ASSUME NEW t \in Seq(Row), NEW u, NEW new \in Seq(Row), Extends(t, u, new)
  PROVE  /\ DOMAIN t \subseteq DOMAIN u
         /\ \A i \in DOMAIN u : i \in DOMAIN t
                                \/ \E n \in DOMAIN new : i = Len(t) + n /\ u[i] = new[n]
         /\ \A n \in DOMAIN new : Len(t) + n \in DOMAIN u
<1>1. u \in Seq(Row) /\ Len(u) = Len(t) + Len(new)
  BY DEF Extends
<1>2. DOMAIN t = 1 .. Len(t) /\ DOMAIN u = 1 .. Len(u) /\ DOMAIN new = 1 .. Len(new)
      /\ Len(t) \in Nat /\ Len(new) \in Nat
  BY <1>1
<1>3. ASSUME NEW i \in DOMAIN u, i \notin DOMAIN t
      PROVE  \E n \in DOMAIN new : i = Len(t) + n /\ u[i] = new[n]
  <2>1. i - Len(t) \in 1 .. Len(new) /\ i = Len(t) + (i - Len(t))
    BY <1>1, <1>2, <1>3
  <2>2. u[Len(t) + (i - Len(t))] = new[i - Len(t)]
    BY <2>1, <1>2 DEF Extends
  <2> QED
    BY <2>1, <2>2, <1>2
<1> QED
  BY <1>1, <1>2, <1>3

\* The versions of a key on main are those it had and those of the new rows.
LEMMA ExtendsVersions ==
  ASSUME NEW t \in Seq(Row), NEW u, NEW new \in Seq(Row), Extends(t, u, new), NEW k
  PROVE  /\ Versions(u, k) = Versions(t, k) \cup StagedVersions(new, k)
         /\ \A b : On(t, b, k) \subseteq On(u, b, k)
<1>1. /\ DOMAIN t \subseteq DOMAIN u
      /\ \A i \in DOMAIN u : i \in DOMAIN t
                             \/ \E n \in DOMAIN new : i = Len(t) + n /\ u[i] = new[n]
      /\ \A n \in DOMAIN new : Len(t) + n \in DOMAIN u
  BY ExtendsRows
<1>2. /\ \A i \in DOMAIN t : u[i].branch = t[i].branch /\ u[i].key = t[i].key /\ u[i].ver = t[i].ver
      /\ \A n \in DOMAIN new : u[Len(t) + n] = new[n]
  BY DEF Extends
<1> DEFINE N == {m \in DOMAIN new : new[m].branch = Main /\ new[m].key = k}
<1>3. ASSUME NEW i \in On(u, Main, k) PROVE u[i].ver \in Versions(t, k) \cup {new[n].ver : n \in N}
  BY <1>1, <1>2, <1>3 DEF On, Versions
<1>4. ASSUME NEW i \in On(t, Main, k) PROVE t[i].ver \in Versions(u, k)
  <2>1. i \in On(u, Main, k) /\ u[i].ver = t[i].ver
    BY <1>1, <1>2, <1>4 DEF On
  <2> QED
    BY <2>1 DEF Versions
<1>5. ASSUME NEW n \in N PROVE new[n].ver \in Versions(u, k)
  <2>1. Len(t) + n \in On(u, Main, k) /\ u[Len(t) + n].ver = new[n].ver
    BY <1>1, <1>2, <1>5 DEF On
  <2> QED
    BY <2>1 DEF Versions
<1>6. Versions(u, k) = Versions(t, k) \cup StagedVersions(new, k)
  BY <1>3, <1>4, <1>5 DEF Versions, StagedVersions
<1>7. \A b : On(t, b, k) \subseteq On(u, b, k)
  BY <1>1, <1>2 DEF On
<1> QED
  BY <1>6, <1>7

\* What is without a gap stays so when other versions, without a gap, join.
LEMMA NoGapJoins ==
  ASSUME NEW V, NEW W, NEW N, V \subseteq W, NoGap(W), NoGap(V \cup N)
  PROVE  NoGap(W \cup N)
BY DEF NoGap

LEMMA NoGapGrows ==
  ASSUME NEW V, NEW v \in Nat, NoGap(V), v = 1 \/ \E w \in V : w \in Nat /\ v = w + 1
  PROVE  NoGap(V \cup {v})
<1>1. CASE v = 1
  BY <1>1 DEF NoGap
<1>2. CASE \E w \in V : w \in Nat /\ v = w + 1
  <2>1. PICK w \in V : w \in Nat /\ v = w + 1
    BY <1>2
  <2>2. v - 1 = w /\ 1 \in V
    BY <2>1 DEF NoGap
  <2> QED
    BY <2>1, <2>2 DEF NoGap
<1> QED
  BY <1>1, <1>2

-----------------------------------------------------------------------------
(* What each client knows.                                                 *)

WriteJob == [op : {"write"}, branch : AllBranches, key : Keys, claim : Claims, at : Nat,
             hot : BOOLEAN, expect : Nat, base : Nat]

OutcomeJob == [op : {"outcome"}, branch : AllBranches, key : Keys, base : Nat, cite : Nat,
               claim : Claims]

MergeJob == [op : {"merge"}, branch : Branches, strategy : Strategies, pair : Nat \X Nat]

RollbackJob == [op : {"rollback"}, branch : AllBranches, to : Nat, key : Keys \cup {NoRow}]

\* A write: the row it read, those it has found, and the one it has locked.
Writer(c) ==
  /\ job[c] \in WriteJob
  /\ job[c].hot => job[c].base = NoRow
  /\ pc[c] = "read" => ~job[c].hot
  /\ job[c].base # NoRow /\ job[c].branch = Main =>
       job[c].base \in On(rows, Main, job[c].key) /\ job[c].expect = rows[job[c].base].ver + 1
  /\ pc[c] = "lock" => want[c] \subseteq On(rows, job[c].branch, job[c].key)
  /\ pc[c] = "parent" => job[c].branch # Main
  /\ pc[c] = "store" /\ job[c].branch = Main =>
       cur[c] \in On(rows, Main, job[c].key) \cup {NoRow} /\ held[c] = {cur[c]} \ {NoRow}

Unbranched(k) == \A b \in Branches : On(rows, b, k) = {}

\* An outcome: the row it is about, and the one it has picked.
Reporter(c) ==
  /\ job[c] \in OutcomeJob
  /\ job[c].base \in DOMAIN rows
  /\ rows[job[c].base].key = job[c].key
  /\ rows[job[c].base].ver = job[c].cite
  /\ rows[job[c].base].claim = job[c].claim
  /\ pc[c] = "apply" =>
       /\ cur[c] \in DOMAIN rows /\ rows[cur[c]].key = job[c].key
       /\ Tenanted /\ Unbranched(job[c].key) => rows[cur[c]].claim = job[c].claim

IsPair(p) == p[1] \in DOMAIN rows /\ p[2] \in DOMAIN rows \cup {NoRow}

\* What a merge has staged goes to main, each row of a key above the one before,
\* and leaves no gap with the table whatever the table has become.
Merger(c) ==
  /\ job[c] \in MergeJob
  /\ todo[c] \subseteq Nat \X Nat
  /\ \A p \in todo[c] : IsPair(p)
  /\ pc[c] = "put" => IsPair(job[c].pair)
  /\ \A n \in DOMAIN stage[c].new :
       stage[c].new[n].branch = Main /\ stage[c].new[n].credit = {}
  /\ \A m, n \in DOMAIN stage[c].new :
       m < n /\ stage[c].new[m].key = stage[c].new[n].key
       => stage[c].new[m].ver < stage[c].new[n].ver
  /\ \A k \in Keys : NoGap(Versions(rows, k) \cup StagedVersions(stage[c].new, k))

Writing == {"read", "select", "lock", "parent", "store"}

Staging == {"entry", "put"}

Client(c) ==
  /\ pc[c] \in Points
  /\ want[c] \subseteq DOMAIN rows
  /\ held[c] \subseteq DOMAIN rows
  /\ cur[c] \in DOMAIN rows \cup {NoRow}
  /\ stage[c] \in Stages
  /\ pc[c] \notin Staging => stage[c].new = <<>>
  /\ pc[c] \in Writing => Writer(c)
  /\ pc[c] \in {"pick", "apply"} => Reporter(c)
  /\ pc[c] \in Staging => Merger(c)
  /\ pc[c] \in {"revert", "restore"} => job[c] \in RollbackJob /\ todo[c] \subseteq Keys

\* The variables are functions of the clients.
Frames ==
  /\ pc \in [Clients -> Points]
  /\ DOMAIN job = Clients /\ DOMAIN want = Clients /\ DOMAIN cur = Clients
  /\ DOMAIN held = Clients /\ DOMAIN stage = Clients /\ DOMAIN todo = Clients

\* With tenants the versions of a key on main are apart, and where there is no
\* branch the credit of a row is its claim's own.
Sound == Unbroken(rows) /\ (Tenanted => Apart(rows) /\ CreditIsEarned)

Table == rows \in Seq(Row) /\ Sound

Cuts ==
  /\ cut \in [Branches -> [status : {"none", "active", "closed", "merged"}, at : Nat]]
  /\ clock \in 0 .. MaxClock

PgInv == Frames /\ Table /\ Cuts /\ \A c \in Clients : Client(c)

\* A step that is not d's, as d sees it.
Still(d) ==
  /\ pc'[d] = pc[d] /\ job'[d] = job[d] /\ want'[d] = want[d] /\ cur'[d] = cur[d]
  /\ held'[d] = held[d] /\ stage'[d] = stage[d] /\ todo'[d] = todo[d]

Others(c) == \A d \in Clients \ {c} : Still(d)

\* What client d knows stays true while the table grows.
LEMMA Bystander ==
  ASSUME rows \in Seq(Row), NEW new \in Seq(Row), Extends(rows, rows', new),
         Unbroken(rows)', NEW d, Client(d), Still(d)
  PROVE  Client(d)'
<1>1. DOMAIN rows \subseteq DOMAIN rows'
  BY ExtendsRows
<1>2. \A i \in DOMAIN rows :
        /\ rows'[i].key = rows[i].key /\ rows'[i].ver = rows[i].ver
        /\ rows'[i].claim = rows[i].claim
  BY DEF Extends
<1>3. \A b, k : On(rows, b, k) \subseteq On(rows', b, k)
  BY ExtendsVersions
<1>4. \A k : Versions(rows, k) \subseteq Versions(rows', k)
  BY ExtendsVersions
<1>5. \A b, k : On(rows, b, k) \subseteq DOMAIN rows
  BY DEF On
<1>6. Writer(d) => Writer(d)'
  BY <1>2, <1>3, <1>5 DEF Writer, Still
<1>7. Reporter(d) => Reporter(d)'
  BY <1>1, <1>2, <1>3 DEF Reporter, Still, Unbranched
<1>8. Merger(d) => Merger(d)'
  <2>1. \A p : IsPair(p) => IsPair(p)'
    BY <1>1 DEF IsPair
  <2>2. ASSUME NEW k \in Keys, NoGap(Versions(rows, k) \cup StagedVersions(stage[d].new, k))
        PROVE  NoGap(Versions(rows', k) \cup StagedVersions(stage[d].new, k))
    <3>1. NoGap(Versions(rows', k))
      BY DEF Unbroken
    <3> QED
      BY <3>1, <2>2, <1>4, NoGapJoins
  <2> QED
    BY <2>1, <2>2 DEF Merger, Still
<1> QED
  BY <1>1, <1>6, <1>7, <1>8 DEF Client, Still

\* The step of one client keeps the invariant if what it knows is kept.
LEMMA OneClient ==
  ASSUME PgInv, NEW c \in Clients, NEW new \in Seq(Row), Extends(rows, rows', new),
         Sound', Cuts', Frames', Others(c), Client(c)'
  PROVE  PgInv'
<1>1. \A d \in Clients \ {c} : Client(d)'
  BY Bystander DEF PgInv, Table, Others, Sound
<1>2. Table'
  BY DEF Table, Extends
<1> QED
  BY <1>1, <1>2 DEF PgInv

LEMMA SameRows ==
  ASSUME PgInv, rows' = rows
  PROVE  <<>> \in Seq(Row) /\ Extends(rows, rows', <<>>) /\ Sound'
<1>1. Extends(rows, rows', <<>>) /\ <<>> \in Seq(Row)
  BY Unchanged DEF PgInv, Table
<1>2. Sound'
  BY DEF PgInv, Table, Sound, Unbroken, Versions, On, Apart, CreditIsEarned
<1> QED
  BY <1>1, <1>2

LEMMA OneClientOnly ==
  ASSUME PgInv, NEW c \in Clients, rows' = rows, Cuts', Frames', Others(c), Client(c)'
  PROVE  PgInv'
BY SameRows, OneClient

LEMMA ApartGrows ==
  ASSUME NEW t \in Seq(Row), NEW u, NEW new \in Seq(Row), Extends(t, u, new), Apart(t),
         \A n \in DOMAIN new : new[n].branch = Main =>
           \A i \in On(t, Main, new[n].key) : t[i].ver # new[n].ver,
         \A m, n \in DOMAIN new :
           /\ new[m].branch = Main /\ new[n].branch = Main
           /\ new[m].key = new[n].key /\ new[m].ver = new[n].ver
           => m = n
  PROVE  Apart(u)
<1> SUFFICES ASSUME NEW i \in DOMAIN u, NEW j \in DOMAIN u,
                    u[i].branch = Main, u[j].branch = Main, u[i].key = u[j].key,
                    u[i].ver = u[j].ver
             PROVE  i = j
  BY DEF Apart
<1>1. \A h \in DOMAIN u : \/ h \in DOMAIN t
                          \/ \E n \in DOMAIN new : h = Len(t) + n /\ u[h] = new[n]
  BY ExtendsRows
<1>2. \A h \in DOMAIN t : u[h].branch = t[h].branch /\ u[h].key = t[h].key /\ u[h].ver = t[h].ver
  BY DEF Extends
<1>3. CASE i \in DOMAIN t /\ j \in DOMAIN t
  BY <1>2, <1>3 DEF Apart
<1>4. ASSUME NEW g \in DOMAIN t, NEW n \in DOMAIN new, t[g].branch = Main, new[n].branch = Main,
             t[g].key = new[n].key, t[g].ver = new[n].ver
      PROVE  FALSE
  BY <1>4 DEF On
<1>5. CASE i \in DOMAIN t /\ j \notin DOMAIN t
  BY <1>1, <1>2, <1>4, <1>5
<1>6. CASE i \notin DOMAIN t /\ j \in DOMAIN t
  BY <1>1, <1>2, <1>4, <1>6
<1>7. CASE i \notin DOMAIN t /\ j \notin DOMAIN t
  BY <1>1, <1>7
<1> QED
  BY <1>3, <1>5, <1>6, <1>7

LEMMA CreditGrows ==
  ASSUME rows \in Seq(Row), NEW new \in Seq(Row), Extends(rows, rows', new), CreditIsEarned,
         \A n \in DOMAIN new : new[n].branch = Main /\ Unbranched(new[n].key) =>
           new[n].credit \subseteq {new[n].claim}
  PROVE  CreditIsEarned'
<1> SUFFICES ASSUME NEW i \in DOMAIN rows', \A b \in Branches : On(rows', b, rows'[i].key) = {}
             PROVE  rows'[i].credit \subseteq {rows'[i].claim}
  BY DEF CreditIsEarned
<1>1. \A k, b : On(rows, b, k) \subseteq On(rows', b, k)
  BY ExtendsVersions
<1>2. Unbranched(rows'[i].key)
  BY <1>1 DEF Unbranched
<1>3. CASE i \in DOMAIN rows
  BY <1>2, <1>3 DEF CreditIsEarned, Extends, Unbranched
<1>4. CASE i \notin DOMAIN rows
  <2>1. PICK n \in DOMAIN new : rows'[i] = new[n]
    BY <1>4, ExtendsRows
  <2>2. new[n].branch \in AllBranches
    <3>1. new[n] \in Row
      OBVIOUS
    <3> QED
      BY <3>1 DEF Row
  <2>3. new[n].branch \notin Branches
    BY <2>1 DEF On
  <2> QED
    BY <1>2, <2>1, <2>2, <2>3 DEF AllBranches
<1> QED
  BY <1>3, <1>4

\* What keeps a table sound that has grown without a gap: rows the constraint
\* lets in, none of which says what another of them says.
LEMMA SoundGrows ==
  ASSUME PgInv, NEW new \in Seq(Row), Extends(rows, rows', new), Unbroken(rows)',
         Tenanted => \A n \in DOMAIN new : ~Taken(rows, new[n]),
         Tenanted =>
           \A m, n \in DOMAIN new :
             /\ new[m].branch = Main /\ new[n].branch = Main
             /\ new[m].key = new[n].key /\ new[m].ver = new[n].ver
             => m = n,
         Tenanted =>
           \A n \in DOMAIN new : new[n].branch = Main /\ Unbranched(new[n].key) =>
             new[n].credit \subseteq {new[n].claim}
  PROVE  Sound'
<1> SUFFICES ASSUME Tenanted PROVE Apart(rows)' /\ CreditIsEarned'
  BY DEF Sound
<1>1. rows \in Seq(Row) /\ Apart(rows) /\ CreditIsEarned
  BY DEF PgInv, Table, Sound
<1>2. \A n \in DOMAIN new : new[n].branch = Main =>
        \A i \in On(rows, Main, new[n].key) : rows[i].ver # new[n].ver
  BY DEF Taken
<1>3. Apart(rows')
  BY <1>1, <1>2, ApartGrows
<1>4. Apart(rows)'
  BY <1>3 DEF Apart
<1> QED
  BY <1>1, <1>4, CreditGrows

LEMMA OneSound ==
  ASSUME PgInv, NEW row \in Row, Extends(rows, rows', <<row>>), Unbroken(rows)',
         ~Taken(rows, row),
         Tenanted /\ row.branch = Main /\ Unbranched(row.key) => row.credit \subseteq {row.claim}
  PROVE  Sound'
<1> DEFINE new == <<row>>
<1>1. new \in Seq(Row) /\ DOMAIN new = {1} /\ new[1] = row /\ Extends(rows, rows', new)
  OBVIOUS
<1> HIDE DEF new
<1>2. \A n \in DOMAIN new : new[n] = row
  BY <1>1
<1> QED
  BY <1>1, <1>2, SoundGrows

-----------------------------------------------------------------------------
(* Control.                                                                *)

LEMMA NothingStaged == Nothing \in Stages /\ Nothing.new = <<>>
<1>1. <<>> \in Seq(Row)
  OBVIOUS
<1> QED
  BY <1>1 DEF Nothing, Stages

LEMMA Returned ==
  ASSUME Frames, NEW c \in Clients, Return(c)
  PROVE  Frames' /\ Others(c) /\ Client(c)'
<1>1. /\ pc' = [pc EXCEPT ![c] = "idle"] /\ job' = [job EXCEPT ![c] = NoJob]
      /\ want' = [want EXCEPT ![c] = {}] /\ cur' = [cur EXCEPT ![c] = NoRow]
      /\ held' = [held EXCEPT ![c] = {}] /\ stage' = [stage EXCEPT ![c] = Nothing]
      /\ todo' = [todo EXCEPT ![c] = {}]
  BY DEF Return, Release, Goto
<1>2. Frames'
  BY <1>1 DEF Frames, Points
<1>3. Others(c)
  BY <1>1 DEF Frames, Others, Still
<1>4. pc'[c] = "idle" /\ want'[c] = {} /\ cur'[c] = NoRow /\ held'[c] = {} /\ stage'[c] = Nothing
  BY <1>1 DEF Frames
<1> QED
  BY <1>2, <1>3, <1>4, NothingStaged DEF Client, Points, Writing, Staging

LEMMA Failed ==
  ASSUME Frames, NEW c \in Clients, Client(c), pc[c] # "idle", Fail(c)
  PROVE  Frames' /\ Others(c) /\ Client(c)'
<1>1. CASE ~(job[c].op = "write" /\ job[c].hot)
  BY <1>1, Returned DEF Fail
<1>2. CASE job[c].op = "write" /\ job[c].hot
  <2>1. Writer(c)
    BY <1>2 DEF Client, Points, Writing, Staging, Reporter, OutcomeJob, Merger, MergeJob,
                RollbackJob
  <2>2. /\ pc' = [pc EXCEPT ![c] = "read"] /\ job' = [job EXCEPT ![c].hot = FALSE]
        /\ want' = [want EXCEPT ![c] = {}] /\ cur' = [cur EXCEPT ![c] = NoRow]
        /\ held' = [held EXCEPT ![c] = {}] /\ stage' = [stage EXCEPT ![c] = Nothing]
        /\ todo' = [todo EXCEPT ![c] = {}]
    BY <1>2 DEF Fail, Release, Goto
  <2>3. Frames'
    BY <2>2 DEF Frames, Points
  <2>4. Others(c)
    BY <2>2 DEF Frames, Others, Still
  <2>5. /\ pc'[c] = "read" /\ want'[c] = {} /\ cur'[c] = NoRow /\ held'[c] = {}
        /\ stage'[c] = Nothing /\ job'[c] = [job[c] EXCEPT !.hot = FALSE]
    BY <2>2 DEF Frames
  <2>6. job'[c] \in WriteJob /\ job'[c].base = NoRow /\ ~job'[c].hot
    BY <2>1, <2>5, <1>2 DEF Writer, WriteJob
  <2>7. Writer(c)'
    BY <2>5, <2>6 DEF Writer
  <2> QED
    BY <2>3, <2>4, <2>5, <2>7, NothingStaged DEF Client, Points, Writing, Staging
<1> QED
  BY <1>1, <1>2

\* A step that moves client c from one point of its operation to another.
LEMMA Moved ==
  ASSUME Frames, NEW c \in Clients, NEW point \in Points, Goto(c, point)
  PROVE  /\ pc' \in [Clients -> Points]
         /\ pc'[c] = point
         /\ \A d \in Clients \ {c} : pc'[d] = pc[d]
BY DEF Frames, Goto

-----------------------------------------------------------------------------
(* Write.                                                                  *)

\* A reader of main finds a live row of main.
LEMMA AnswersFound ==
  ASSUME NEW b, NEW k, NEW r \in Answers(b, k), r # NoRow
  PROVE  /\ r \in DOMAIN rows /\ rows[r].key = k
         /\ b = Main => r \in On(rows, Main, k)
BY DEF Answers, Newest, Live, On, HasRecord

\* What a write through the engine states.
LEMMA ReadStates ==
  ASSUME rows \in Seq(Row), NEW j \in WriteJob, clock \in Nat, ~j.hot,
         NEW r \in Answers(j.branch, j.key)
  PROVE  /\ Read(j, r) \in WriteJob
         /\ ~Read(j, r).hot /\ Read(j, r).branch = j.branch /\ Read(j, r).key = j.key
         /\ r # NoRow /\ j.branch = Main =>
              r \in On(rows, Main, j.key) /\ Read(j, r).expect = rows[r].ver + 1
         /\ Read(j, r).base = r
<1>1. r # NoRow => r \in DOMAIN rows /\ (j.branch = Main => r \in On(rows, Main, j.key))
  BY AnswersFound
<1>2. r = NoRow \/ r \in DOMAIN rows
  BY <1>1
<1>3. r \in Nat /\ NextVersion(rows, r) \in Nat
  <2>1. CASE r = NoRow
    BY <2>1 DEF NextVersion, NoRow
  <2>2. CASE r \in DOMAIN rows /\ r # NoRow
    <3>1. r \in Nat /\ rows[r] \in Row
      BY <2>2
    <3> QED
      BY <3>1, <2>2 DEF NextVersion, Row
  <2> QED
    BY <2>1, <2>2, <1>2
<1>4. Read(j, r) = [j EXCEPT !.base = r, !.expect = NextVersion(rows, r), !.at = clock]
  BY DEF Read
<1>5. /\ Read(j, r) \in WriteJob /\ Read(j, r).hot = j.hot /\ Read(j, r).branch = j.branch
      /\ Read(j, r).key = j.key /\ Read(j, r).base = r
      /\ Read(j, r).expect = NextVersion(rows, r)
  BY <1>3, <1>4 DEF WriteJob
<1> QED
  BY <1>1, <1>5 DEF NextVersion

LEMMA BeginWriteKeeps ==
  ASSUME PgInv, PgAssumption, NEW c \in Clients, BeginWrite(c)
  PROVE  PgInv'
<1>1. PICK b \in AllBranches, k \in Keys, v \in Claims, hot \in BOOLEAN :
        LET j == [op |-> "write", branch |-> b, key |-> k, claim |-> v, at |-> clock,
                  hot |-> hot, expect |-> 1, base |-> NoRow]
        IN  /\ IF hot THEN Start(c, "lock", j)
               ELSE \E r \in Answers(b, k) : Start(c, "select", Read(j, r))
            /\ want' = [want EXCEPT ![c] = IF hot THEN Live(rows, b, k) ELSE {}]
            /\ UNCHANGED <<cur, held, loop>>
  BY DEF BeginWrite
<1> DEFINE j == [op |-> "write", branch |-> b, key |-> k, claim |-> v, at |-> clock,
                 hot |-> hot, expect |-> 1, base |-> NoRow]
<1>2. clock \in Nat /\ rows \in Seq(Row) /\ Frames /\ Client(c)
  BY DEF PgInv, Cuts, Table, PgAssumption
<1>3. /\ j \in WriteJob /\ j.hot = hot /\ j.base = NoRow /\ j.branch = b /\ j.key = k
  BY <1>2 DEF WriteJob, NoRow
<1> HIDE DEF j
<1>4. PICK point \in Points, i \in WriteJob :
        /\ Start(c, point, i)
        /\ i.branch = b /\ i.key = k /\ i.hot = hot
        /\ point = IF hot THEN "lock" ELSE "select"
        /\ hot => i.base = NoRow
        /\ i.base # NoRow /\ b = Main =>
             i.base \in On(rows, Main, k) /\ i.expect = rows[i.base].ver + 1
  <2>1. CASE hot
    BY <2>1, <1>1, <1>3 DEF Points, j
  <2>2. CASE ~hot
    <3>1. PICK r \in Answers(b, k) : Start(c, "select", Read(j, r))
      BY <2>2, <1>1 DEF j
    <3>2. /\ Read(j, r) \in WriteJob
          /\ ~Read(j, r).hot /\ Read(j, r).branch = b /\ Read(j, r).key = k
          /\ r # NoRow /\ b = Main => r \in On(rows, Main, k) /\ Read(j, r).expect = rows[r].ver + 1
          /\ Read(j, r).base = r
      BY <2>2, <1>2, <1>3, ReadStates
    <3> DEFINE i == Read(j, r)
    <3>3. /\ i \in WriteJob /\ Start(c, "select", i) /\ i.branch = b /\ i.key = k /\ i.hot = hot
          /\ i.base # NoRow /\ b = Main => i.base \in On(rows, Main, k) /\ i.expect = rows[i.base].ver + 1
      <4>1. i.hot \in BOOLEAN
        BY <3>2 DEF WriteJob
      <4> QED
        BY <2>2, <3>1, <3>2, <4>1
    <3> HIDE DEF i
    <3>4. "select" \in Points
      BY DEF Points
    <3> QED
      BY <2>2, <3>3, <3>4
  <2> QED
    BY <2>1, <2>2
<1>5. /\ pc[c] = "idle" /\ Goto(c, point) /\ job' = [job EXCEPT ![c] = i]
      /\ rows' = rows /\ cut' = cut /\ clock' = clock
      /\ want' = [want EXCEPT ![c] = IF hot THEN Live(rows, b, k) ELSE {}]
      /\ cur' = cur /\ held' = held /\ stage' = stage /\ todo' = todo
  BY <1>1, <1>4 DEF Start, loop
<1>6. /\ pc' \in [Clients -> Points] /\ pc'[c] = point
      /\ \A d \in Clients \ {c} : pc'[d] = pc[d]
  BY <1>2, <1>5, Moved
<1>7. Frames' /\ Others(c)
  BY <1>2, <1>5, <1>6 DEF Frames, Others, Still
<1>8. /\ job'[c] = i /\ want'[c] \subseteq On(rows, b, k) /\ want'[c] \subseteq DOMAIN rows
  BY <1>2, <1>5 DEF Frames, Live, On
<1>9. Writer(c)'
  BY <1>4, <1>5, <1>6, <1>8 DEF Writer
<1>10. Client(c)'
  BY <1>2, <1>4, <1>5, <1>6, <1>8, <1>9 DEF Client, Points, Writing, Staging
<1>11. Cuts'
  BY <1>5 DEF PgInv, Cuts
<1> QED
  BY <1>5, <1>7, <1>10, <1>11, OneClientOnly

LEMMA ReadAgainKeeps ==
  ASSUME PgInv, PgAssumption, NEW c \in Clients, ReadAgain(c)
  PROVE  PgInv'
<1>1. PICK r \in Answers(job[c].branch, job[c].key) : job' = [job EXCEPT ![c] = Read(job[c], r)]
  BY DEF ReadAgain
<1>2. /\ clock \in Nat /\ rows \in Seq(Row) /\ Frames /\ Client(c) /\ pc[c] = "read"
      /\ Goto(c, "select")
      /\ rows' = rows /\ cut' = cut /\ clock' = clock /\ want' = want
      /\ cur' = cur /\ held' = held /\ stage' = stage /\ todo' = todo
  BY DEF PgInv, Cuts, Table, PgAssumption, ReadAgain, locks, loop
<1>3. Writer(c)
  BY <1>2 DEF Client, Writing
<1>4. /\ pc' \in [Clients -> Points] /\ pc'[c] = "select"
      /\ \A d \in Clients \ {c} : pc'[d] = pc[d]
  BY <1>2, Moved DEF Points
<1>5. Frames' /\ Others(c)
  BY <1>1, <1>2, <1>4 DEF Frames, Others, Still
<1>6. job'[c] = Read(job[c], r) /\ job[c] \in WriteJob
  BY <1>1, <1>2, <1>3 DEF Frames, Writer
<1>7. ~job[c].hot
  BY <1>2, <1>3 DEF Writer
<1>8. Writer(c)'
  <2>1. /\ job'[c] \in WriteJob /\ ~job'[c].hot
        /\ job'[c].branch = job[c].branch /\ job'[c].key = job[c].key /\ job'[c].base = r
        /\ r # NoRow /\ job[c].branch = Main =>
             r \in On(rows, Main, job[c].key) /\ job'[c].expect = rows[r].ver + 1
    BY <1>2, <1>6, <1>7, ReadStates
  <2> QED
    BY <2>1, <1>2, <1>4 DEF Writer
<1>9. Client(c)'
  BY <1>2, <1>4, <1>8 DEF Client, Points, Writing, Staging
<1>10. Cuts'
  BY <1>2 DEF PgInv, Cuts
<1> QED
  BY <1>2, <1>5, <1>9, <1>10, OneClientOnly

LEMMA SelectKeeps ==
  ASSUME PgInv, NEW c \in Clients, Select(c)
  PROVE  PgInv'
<1>1. /\ rows \in Seq(Row) /\ Frames /\ Client(c) /\ pc[c] = "select" /\ Goto(c, "lock")
      /\ want' = [want EXCEPT ![c] = Live(rows, job[c].branch, job[c].key)]
      /\ rows' = rows /\ cut' = cut /\ clock' = clock /\ job' = job
      /\ cur' = cur /\ held' = held /\ stage' = stage /\ todo' = todo
  BY DEF PgInv, Table, Select, loop
<1>2. /\ pc' \in [Clients -> Points] /\ pc'[c] = "lock"
      /\ \A d \in Clients \ {c} : pc'[d] = pc[d]
  BY <1>1, Moved DEF Points
<1>3. Frames' /\ Others(c)
  BY <1>1, <1>2 DEF Frames, Others, Still
<1>4. /\ want'[c] \subseteq On(rows, job[c].branch, job[c].key) /\ want'[c] \subseteq DOMAIN rows
  BY <1>1 DEF Frames, Live, On
<1>5. Client(c)'
  <2>1. Writer(c)
    BY <1>1 DEF Client, Writing
  <2>2. Writer(c)'
    BY <2>1, <1>1, <1>2, <1>4 DEF Writer
  <2> QED
    BY <2>2, <1>1, <1>2, <1>4 DEF Client, Points, Writing, Staging
<1> QED
  BY <1>1, <1>3, <1>5, OneClientOnly DEF PgInv, Cuts

LEMMA LockRowKeeps ==
  ASSUME PgInv, NEW c \in Clients, LockRow(c)
  PROVE  PgInv'
<1>1. PICK r \in Newest(rows, {i \in want[c] : rows[i].live}) :
        /\ cur' = [cur EXCEPT ![c] = r]
        /\ held' = [held EXCEPT ![c] = {r} \ {NoRow}]
        /\ Goto(c, IF r = NoRow /\ job[c].branch # Main THEN "parent" ELSE "store")
  BY DEF LockRow
<1>2. /\ rows \in Seq(Row) /\ Frames /\ Client(c) /\ pc[c] = "lock"
      /\ rows' = rows /\ cut' = cut /\ clock' = clock /\ job' = job
      /\ want' = want /\ stage' = stage /\ todo' = todo
  BY DEF PgInv, Table, LockRow, loop
<1>3. Writer(c)
  BY <1>2 DEF Client, Writing
<1>4. r = NoRow \/ r \in On(rows, job[c].branch, job[c].key)
  BY <1>2, <1>3 DEF Newest, Writer
<1>5. PICK point \in {"parent", "store"} :
        Goto(c, point) /\ (point = "parent" => job[c].branch # Main)
  BY <1>1
<1>6. /\ pc' \in [Clients -> Points] /\ pc'[c] = point
      /\ \A d \in Clients \ {c} : pc'[d] = pc[d]
  BY <1>2, <1>5, Moved DEF Points
<1>7. Frames' /\ Others(c)
  BY <1>1, <1>2, <1>6 DEF Frames, Others, Still
<1>8. /\ cur'[c] = r /\ held'[c] = {r} \ {NoRow}
      /\ r \in DOMAIN rows \cup {NoRow} /\ held'[c] \subseteq DOMAIN rows
  BY <1>1, <1>2, <1>4 DEF Frames, On
<1>9. Writer(c)'
  BY <1>2, <1>3, <1>4, <1>5, <1>6, <1>8 DEF Writer
<1>10. Client(c)'
  BY <1>2, <1>5, <1>6, <1>8, <1>9 DEF Client, Points, Writing, Staging
<1> QED
  BY <1>2, <1>7, <1>10, OneClientOnly DEF PgInv, Cuts

LEMMA ReadParentKeeps ==
  ASSUME PgInv, NEW c \in Clients, ReadParent(c)
  PROVE  PgInv'
<1>1. PICK r \in IF HasRecord(job[c].branch) THEN Newest(rows, Live(rows, Main, job[c].key))
                 ELSE {NoRow} :
        cur' = [cur EXCEPT ![c] = r]
  BY DEF ReadParent
<1>2. /\ rows \in Seq(Row) /\ Frames /\ Client(c) /\ pc[c] = "parent" /\ Goto(c, "store")
      /\ rows' = rows /\ cut' = cut /\ clock' = clock /\ job' = job
      /\ want' = want /\ held' = held /\ stage' = stage /\ todo' = todo
  BY DEF PgInv, Table, ReadParent, loop
<1>3. Writer(c)
  BY <1>2 DEF Client, Writing
<1>4. r \in DOMAIN rows \cup {NoRow}
  BY <1>1 DEF Newest, Live, On
<1>5. /\ pc' \in [Clients -> Points] /\ pc'[c] = "store"
      /\ \A d \in Clients \ {c} : pc'[d] = pc[d]
  BY <1>2, Moved DEF Points
<1>6. Frames' /\ Others(c) /\ cur'[c] = r
  BY <1>1, <1>2, <1>5 DEF Frames, Others, Still
<1>7. Writer(c)'
  BY <1>2, <1>3, <1>5 DEF Writer
<1>8. Client(c)'
  BY <1>2, <1>4, <1>5, <1>6, <1>7 DEF Client, Points, Writing, Staging
<1> QED
  BY <1>2, <1>6, <1>8, OneClientOnly DEF PgInv, Cuts

\* One more row, the first of its key on main or the one after another.
LEMMA OneMore ==
  ASSUME NEW t \in Seq(Row), NEW u, NEW row \in Row, Extends(t, u, <<row>>), Unbroken(t),
         row.branch = Main =>
           row.ver = 1 \/ \E i \in On(t, Main, row.key) : row.ver = t[i].ver + 1
  PROVE  Unbroken(u)
<1> SUFFICES ASSUME NEW k \in Keys PROVE NoGap(Versions(u, k))
  BY DEF Unbroken
<1>1. <<row>> \in Seq(Row) /\ DOMAIN <<row>> = {1} /\ <<row>>[1] = row
  OBVIOUS
<1>2. /\ Versions(u, k) = Versions(t, k) \cup StagedVersions(<<row>>, k)
      /\ StagedVersions(<<row>>, k) = {row.ver : m \in {n \in {1} : row.branch = Main /\ row.key = k}}
  <2>1. Versions(u, k) = Versions(t, k) \cup StagedVersions(<<row>>, k)
    <3> DEFINE new == <<row>>
    <3>1. new \in Seq(Row) /\ Extends(t, u, new)
      BY <1>1
    <3> HIDE DEF new
    <3>2. Versions(u, k) = Versions(t, k) \cup StagedVersions(new, k)
      BY <3>1, ExtendsVersions
    <3> QED
      BY <3>2 DEF new
  <2>2. StagedVersions(<<row>>, k) = {row.ver : m \in {n \in {1} : row.branch = Main /\ row.key = k}}
    BY <1>1 DEF StagedVersions
  <2> QED
    BY <2>1, <2>2
<1>3. NoGap(Versions(t, k))
  BY DEF Unbroken
<1>4. CASE row.branch = Main /\ row.key = k
  <2>1. Versions(u, k) = Versions(t, k) \cup {row.ver}
    BY <1>2, <1>4
  <2>2. row.ver \in Nat
    BY DEF Row
  <2>3. row.ver = 1 \/ \E w \in Versions(t, k) : w \in Nat /\ row.ver = w + 1
    <3>1. ASSUME NEW i \in On(t, Main, k) PROVE t[i].ver \in Versions(t, k) /\ t[i].ver \in Nat
      <4>1. i \in DOMAIN t /\ t[i] \in Row
        BY DEF On
      <4> QED
        BY <4>1 DEF Versions, Row
    <3> QED
      BY <3>1, <1>4
  <2> QED
    BY <2>1, <2>2, <2>3, <1>3, NoGapGrows
<1>5. CASE ~(row.branch = Main /\ row.key = k)
  <2>1. Versions(u, k) = Versions(t, k)
    BY <1>2, <1>5
  <2> QED
    BY <2>1, <1>3
<1> QED
  BY <1>4, <1>5

StoreOld(c) == IF cur[c] \in held[c] THEN Live(rows, job[c].branch, job[c].key) ELSE {}

\* A write that gets its row in.
Inserted(c) ==
  /\ rows' = Applied(rows, [off |-> StoreOld(c), on |-> {}, new |-> <<Stated(job[c], cur[c])>>])
  /\ ~Conflict(job[c], cur[c]) /\ ~Taken(rows, Stated(job[c], cur[c]))

LEMMA StoreInserts ==
  ASSUME NEW c \in Clients, Store(c)
  PROVE  /\ rows' = rows \/ Inserted(c)
         /\ Return(c) \/ Fail(c)
         /\ cut' = cut /\ clock' = clock /\ pc[c] = "store"
BY DEF Store, Inserted, StoreOld

\* The row it puts in.
LEMMA StatedRow ==
  ASSUME PgInv, NEW c \in Clients, pc[c] = "store"
  PROVE  /\ Stated(job[c], cur[c]) \in Row
         /\ Stated(job[c], cur[c]).branch = job[c].branch
         /\ Stated(job[c], cur[c]).key = job[c].key
         /\ Stated(job[c], cur[c]).ver = NextVersion(rows, cur[c])
         /\ Stated(job[c], cur[c]).claim = job[c].claim
         /\ Stated(job[c], cur[c]).live
         /\ Stated(job[c], cur[c]).credit =
              IF cur[c] # NoRow /\ rows[cur[c]].claim = job[c].claim THEN rows[cur[c]].credit ELSE {}
<1>1. /\ rows \in Seq(Row) /\ job[c] \in WriteJob /\ cur[c] \in DOMAIN rows \cup {NoRow}
  BY DEF PgInv, Table, Client, Writing, Writer
<1>2. cur[c] # NoRow => rows[cur[c]] \in Row
  BY <1>1
<1>3. NextVersion(rows, cur[c]) \in Nat
  BY <1>2 DEF NextVersion, Row
<1> DEFINE credit == IF cur[c] # NoRow /\ rows[cur[c]].claim = job[c].claim
                     THEN rows[cur[c]].credit ELSE {}
<1>4. credit \in SUBSET Claims
  BY <1>2 DEF Row
<1>5. Stated(job[c], cur[c]) =
        [branch |-> job[c].branch, key |-> job[c].key, ver |-> NextVersion(rows, cur[c]),
         claim |-> job[c].claim, at |-> job[c].at, live |-> TRUE, credit |-> credit]
  BY DEF Stated
<1> HIDE DEF credit
<1>6. Stated(job[c], cur[c]) \in Row
  BY <1>1, <1>3, <1>4, <1>5 DEF Row, WriteJob
<1> QED
  BY <1>5, <1>6 DEF credit

LEMMA InsertedTable ==
  ASSUME PgInv, NEW c \in Clients, pc[c] = "store", Inserted(c)
  PROVE  /\ <<Stated(job[c], cur[c])>> \in Seq(Row)
         /\ Extends(rows, rows', <<Stated(job[c], cur[c])>>)
         /\ Sound'
         /\ \A i \in DOMAIN rows : rows'[i].live = (rows[i].live /\ i \notin StoreOld(c))
<1> DEFINE row == Stated(job[c], cur[c])
           s == [off |-> StoreOld(c), on |-> {}, new |-> <<row>>]
<1>1. /\ row \in Row /\ row.branch = job[c].branch /\ row.key = job[c].key
      /\ row.ver = NextVersion(rows, cur[c]) /\ row.claim = job[c].claim
      /\ row.credit = IF cur[c] # NoRow /\ rows[cur[c]].claim = job[c].claim
                      THEN rows[cur[c]].credit ELSE {}
  BY StatedRow
<1>2. rows' = Applied(rows, s)
  BY DEF Inserted
<1>3. rows \in Seq(Row) /\ Unbroken(rows) /\ Writer(c)
  BY DEF PgInv, Table, Sound, Client, Writing
<1> HIDE DEF row
<1>4. s \in Stages /\ s.new = <<row>> /\ s.on = {} /\ s.off = StoreOld(c)
  <2>1. StoreOld(c) \subseteq Nat
    BY <1>3 DEF StoreOld, Live, On
  <2>2. <<row>> \in Seq(Row)
    BY <1>1
  <2> QED
    BY <2>1, <2>2 DEF Stages
<1> HIDE DEF s
<1>5. /\ Extends(rows, rows', <<row>>)
      /\ \A i \in DOMAIN rows : rows'[i].live = ((rows[i].live /\ i \notin StoreOld(c)) \/ i \in {})
  BY <1>2, <1>3, <1>4, AppliedExtends
<1>6. row.branch = Main => row.ver = 1 \/ \E i \in On(rows, Main, row.key) : row.ver = rows[i].ver + 1
  BY <1>1, <1>3 DEF Writer, NextVersion
<1>7. Unbroken(rows')
  BY <1>1, <1>3, <1>5, <1>6, OneMore
<1>8. Unbroken(rows)'
  BY <1>7 DEF Unbroken, Versions, On
<1>9. ASSUME Tenanted, row.branch = Main, Unbranched(row.key)
      PROVE  row.credit \subseteq {row.claim}
  <2>1. CASE cur[c] # NoRow /\ rows[cur[c]].claim = job[c].claim
    <3>1. cur[c] \in DOMAIN rows /\ rows[cur[c]].key = row.key
      BY <1>1, <1>3, <1>9, <2>1 DEF Writer, On
    <3>2. rows[cur[c]].credit \subseteq {rows[cur[c]].claim}
      BY <1>9, <3>1 DEF PgInv, Table, Sound, CreditIsEarned, Unbranched
    <3> QED
      BY <1>1, <2>1, <3>2
  <2>2. CASE ~(cur[c] # NoRow /\ rows[cur[c]].claim = job[c].claim)
    BY <1>1, <2>2
  <2> QED
    BY <2>1, <2>2
<1>10. Sound'
  <2>1. ~Taken(rows, row)
    BY DEF Inserted, row
  <2> QED
    BY <1>1, <1>5, <1>8, <1>9, <2>1, OneSound
<1> QED
  BY <1>1, <1>5, <1>10 DEF row

LEMMA StoreKeeps ==
  ASSUME PgInv, NEW c \in Clients, Store(c)
  PROVE  PgInv'
<1>1. Frames' /\ Others(c) /\ Client(c)'
  BY StoreInserts, Returned, Failed DEF PgInv
<1>2. Cuts'
  BY StoreInserts DEF PgInv, Cuts
<1>3. CASE rows' = rows
  BY <1>1, <1>2, <1>3, OneClientOnly
<1>4. CASE Inserted(c)
  BY <1>1, <1>2, <1>4, InsertedTable, StoreInserts, OneClient
<1> QED
  BY <1>3, <1>4, StoreInserts

-----------------------------------------------------------------------------
(* Outcomes.                                                               *)

LEMMA BeginOutcomeKeeps ==
  ASSUME PgInv, NEW c \in Clients, BeginOutcome(c)
  PROVE  PgInv'
<1>1. PICK b \in AllBranches, k \in Keys : \E r \in Answers(b, k) \ {NoRow} :
        /\ Start(c, "pick", [op |-> "outcome", branch |-> b, key |-> k, base |-> r,
                             cite |-> rows[r].ver, claim |-> rows[r].claim])
        /\ UNCHANGED <<locks, loop>>
  BY DEF BeginOutcome
<1>2. PICK r \in Answers(b, k) \ {NoRow} :
        /\ Start(c, "pick", [op |-> "outcome", branch |-> b, key |-> k, base |-> r,
                             cite |-> rows[r].ver, claim |-> rows[r].claim])
        /\ UNCHANGED <<locks, loop>>
  BY <1>1
<1> DEFINE j == [op |-> "outcome", branch |-> b, key |-> k, base |-> r,
                 cite |-> rows[r].ver, claim |-> rows[r].claim]
<1>3. /\ rows \in Seq(Row) /\ Frames /\ Client(c) /\ pc[c] = "idle" /\ Goto(c, "pick")
      /\ job' = [job EXCEPT ![c] = j]
      /\ rows' = rows /\ cut' = cut /\ clock' = clock /\ want' = want
      /\ cur' = cur /\ held' = held /\ stage' = stage /\ todo' = todo
  BY <1>2 DEF PgInv, Table, Start, locks, loop
<1>4. r \in DOMAIN rows /\ rows[r].key = k
  BY AnswersFound
<1>5. rows[r] \in Row /\ r \in Nat
  BY <1>3, <1>4
<1>6. j \in OutcomeJob /\ j.base = r /\ j.key = k /\ j.cite = rows[r].ver /\ j.claim = rows[r].claim
  BY <1>5 DEF OutcomeJob, Row
<1> HIDE DEF j
<1>7. /\ pc' \in [Clients -> Points] /\ pc'[c] = "pick"
      /\ \A d \in Clients \ {c} : pc'[d] = pc[d]
  BY <1>3, Moved DEF Points
<1>8. Frames' /\ Others(c) /\ job'[c] = j
  BY <1>3, <1>7 DEF Frames, Others, Still
<1>9. Reporter(c)'
  BY <1>3, <1>4, <1>6, <1>7, <1>8 DEF Reporter
<1>10. Client(c)'
  BY <1>3, <1>7, <1>9 DEF Client, Points, Writing, Staging
<1> QED
  BY <1>3, <1>8, <1>10, OneClientOnly DEF PgInv, Cuts

LEMMA PickRowKeeps ==
  ASSUME PgInv, NEW c \in Clients, PickRow(c)
  PROVE  PgInv'
<1>1. /\ rows \in Seq(Row) /\ Frames /\ Client(c) /\ pc[c] = "pick"
      /\ rows' = rows /\ cut' = cut /\ clock' = clock
  BY DEF PgInv, Table, PickRow
<1>2. CASE Return(c)
  BY <1>1, <1>2, Returned, OneClientOnly DEF PgInv, Cuts
<1>3. CASE ~Return(c)
  <2>1. PICK r \in Newest(rows, LiveAnywhere(job[c].key)) :
          /\ r # NoRow /\ StillHeld(job[c], r)
          /\ cur' = [cur EXCEPT ![c] = r] /\ Goto(c, "apply")
          /\ UNCHANGED <<job, want, held, loop>>
    BY <1>3 DEF PickRow
  <2>2. r \in DOMAIN rows /\ rows[r].key = job[c].key
    BY <2>1 DEF Newest, LiveAnywhere
  <2>3. job' = job /\ want' = want /\ held' = held /\ stage' = stage /\ todo' = todo
    BY <2>1 DEF loop
  <2>4. /\ pc' \in [Clients -> Points] /\ pc'[c] = "apply"
        /\ \A d \in Clients \ {c} : pc'[d] = pc[d]
    BY <1>1, <2>1, Moved DEF Points
  <2>5. Frames' /\ Others(c) /\ cur'[c] = r
    BY <1>1, <2>1, <2>3, <2>4 DEF Frames, Others, Still
  <2>6. Reporter(c)'
    <3>1. Reporter(c)
      BY <1>1 DEF Client
    <3>2. ASSUME Tenanted, Unbranched(job[c].key) PROVE rows[r].claim = job[c].claim
      <4>1. StillHeld(job[c], r)
        BY <2>1
      <4>2. \A i \in DOMAIN rows : rows[i].key = job[c].key => rows[i].branch = Main
        <5> SUFFICES ASSUME NEW i \in DOMAIN rows, rows[i].key = job[c].key
                     PROVE  rows[i].branch = Main
          OBVIOUS
        <5>1. rows[i] \in Row
          BY <1>1
        <5> QED
          BY <5>1, <3>2 DEF Row, AllBranches, Unbranched, On
      <4>3. job[c].base \in Versioned(job[c].key, job[c].cite)
        BY <3>1 DEF Reporter, Versioned
      <4>4. \A i \in Versioned(job[c].key, job[c].cite) : i = job[c].base
        BY <3>1, <3>2, <4>2 DEF Versioned, Reporter, PgInv, Table, Sound, Apart
      <4>5. rows[r].ver = job[c].cite => r \in Versioned(job[c].key, job[c].cite)
        BY <2>2 DEF Versioned
      <4> QED
        BY <3>1, <4>1, <4>3, <4>4, <4>5 DEF StillHeld, Reporter
    <3>3. \A k : Unbranched(k)' = Unbranched(k)
      BY <1>1 DEF Unbranched, On
    <3> QED
      BY <3>1, <3>2, <3>3, <1>1, <2>2, <2>3, <2>5 DEF Reporter
  <2>7. Client(c)'
    BY <1>1, <2>2, <2>3, <2>4, <2>5, <2>6 DEF Client, Points, Writing, Staging
  <2> QED
    BY <1>1, <2>5, <2>7, OneClientOnly DEF PgInv, Cuts
<1> QED
  BY <1>2, <1>3

\* The copy an outcome puts in: the row it picked, one version on.
LEMMA CreditedRow ==
  ASSUME NEW r, rows[r] \in Row, NEW claim \in Claims
  PROVE  /\ Credited(r, claim) \in Row
         /\ Credited(r, claim).branch = rows[r].branch
         /\ Credited(r, claim).key = rows[r].key
         /\ Credited(r, claim).ver = rows[r].ver + 1
         /\ Credited(r, claim).claim = rows[r].claim
         /\ Credited(r, claim).credit = rows[r].credit \cup {claim}
<1>1. rows[r].ver + 1 \in Nat /\ rows[r].credit \cup {claim} \in SUBSET Claims
  BY DEF Row
<1> DEFINE Up(row, v, e) == [row EXCEPT !.ver = v, !.live = TRUE, !.credit = e]
<1>2. \A row \in Row, v \in Nat, e \in SUBSET Claims :
        /\ Up(row, v, e) \in Row
        /\ Up(row, v, e).branch = row.branch /\ Up(row, v, e).key = row.key
        /\ Up(row, v, e).ver = v /\ Up(row, v, e).claim = row.claim /\ Up(row, v, e).credit = e
  BY DEF Row
<1>3. Credited(r, claim) = Up(rows[r], rows[r].ver + 1, rows[r].credit \cup {claim})
  BY DEF Credited
<1> HIDE DEF Up
<1> QED
  BY <1>1, <1>2, <1>3

\* An outcome that gets its row in.
Counted(c) ==
  /\ rows' = Applied(rows, [off |-> {cur[c]}, on |-> {}, new |-> <<Credited(cur[c], job[c].claim)>>])
  /\ ~Taken(rows, Credited(cur[c], job[c].claim))

LEMMA ApplyCounts ==
  ASSUME NEW c \in Clients, Apply(c)
  PROVE  /\ rows' = rows \/ Counted(c)
         /\ Return(c) /\ cut' = cut /\ clock' = clock /\ pc[c] = "apply"
BY DEF Apply, Counted

LEMMA CountedTable ==
  ASSUME PgInv, NEW c \in Clients, pc[c] = "apply", Counted(c)
  PROVE  /\ rows[cur[c]] \in Row /\ job[c].claim \in Claims
         /\ <<Credited(cur[c], job[c].claim)>> \in Seq(Row)
         /\ Extends(rows, rows', <<Credited(cur[c], job[c].claim)>>)
         /\ Sound'
<1> DEFINE row == Credited(cur[c], job[c].claim)
           s == [off |-> {cur[c]}, on |-> {}, new |-> <<row>>]
<1>1. rows \in Seq(Row) /\ Unbroken(rows) /\ Reporter(c)
  BY DEF PgInv, Table, Sound, Client
<1>2. cur[c] \in DOMAIN rows /\ rows[cur[c]] \in Row /\ cur[c] \in Nat /\ job[c].claim \in Claims
  BY <1>1 DEF Reporter, OutcomeJob
<1>3. row \in Row /\ row.branch = rows[cur[c]].branch /\ row.key = rows[cur[c]].key
      /\ row.ver = rows[cur[c]].ver + 1 /\ row.claim = rows[cur[c]].claim
      /\ row.credit = rows[cur[c]].credit \cup {job[c].claim}
  BY <1>2, CreditedRow
<1>4. rows' = Applied(rows, s)
  BY DEF Counted
<1> HIDE DEF row
<1>5. s \in Stages /\ s.new = <<row>>
  BY <1>2, <1>3 DEF Stages
<1> HIDE DEF s
<1>6. Extends(rows, rows', <<row>>)
  BY <1>1, <1>4, <1>5, AppliedExtends
<1>7. row.branch = Main => row.ver = 1 \/ \E i \in On(rows, Main, row.key) : row.ver = rows[i].ver + 1
  BY <1>2, <1>3 DEF On
<1>8. Unbroken(rows')
  BY <1>1, <1>3, <1>6, <1>7, OneMore
<1>9. Unbroken(rows)'
  BY <1>8 DEF Unbroken, Versions, On
<1>10. ASSUME Tenanted, Unbranched(row.key) PROVE row.credit \subseteq {row.claim}
  <2>1. row.key = job[c].key /\ rows[cur[c]].claim = job[c].claim
    BY <1>1, <1>3, <1>10 DEF Reporter
  <2>2. rows[cur[c]].credit \subseteq {rows[cur[c]].claim}
    BY <1>2, <1>3, <1>10 DEF PgInv, Table, Sound, CreditIsEarned, Unbranched
  <2> QED
    BY <1>3, <2>1, <2>2
<1>11. Sound'
  <2>1. ~Taken(rows, row)
    BY DEF Counted, row
  <2> QED
    BY <1>3, <1>6, <1>9, <1>10, <2>1, OneSound
<1> QED
  BY <1>2, <1>3, <1>6, <1>11 DEF row

LEMMA ApplyKeeps ==
  ASSUME PgInv, NEW c \in Clients, Apply(c)
  PROVE  PgInv'
<1>1. Frames' /\ Others(c) /\ Client(c)'
  BY ApplyCounts, Returned DEF PgInv
<1>2. Cuts'
  BY ApplyCounts DEF PgInv, Cuts
<1>3. CASE rows' = rows
  BY <1>1, <1>2, <1>3, OneClientOnly
<1>4. CASE Counted(c)
  BY <1>1, <1>2, <1>4, CountedTable, ApplyCounts, OneClient
<1> QED
  BY <1>3, <1>4, ApplyCounts

-----------------------------------------------------------------------------
(* Merges.                                                                 *)

LEMMA SeenTable ==
  ASSUME PgInv, NEW c \in Clients
  PROVE  /\ stage[c].new \in Seq(Row)
         /\ Extends(rows, Seen(c), stage[c].new)
         /\ Seen(c) \in Seq(Row)
         /\ \A k : Versions(Seen(c), k) = Versions(rows, k) \cup StagedVersions(stage[c].new, k)
<1>1. rows \in Seq(Row) /\ stage[c] \in Stages /\ stage[c].new \in Seq(Row)
  BY DEF PgInv, Table, Client, Stages
<1>2. Extends(rows, Seen(c), stage[c].new)
  BY <1>1, AppliedExtends DEF Seen
<1>3. Seen(c) \in Seq(Row)
  BY <1>2 DEF Extends
<1> QED
  BY <1>1, <1>2, <1>3, ExtendsVersions

LEMMA NoStagedVersions == \A k : StagedVersions(<<>>, k) = {}
BY DEF StagedVersions

LEMMA BeginMergeKeeps ==
  ASSUME PgInv, NEW c \in Clients, BeginMerge(c)
  PROVE  PgInv'
<1>1. PICK b \in Branches, s \in Strategies :
        /\ Start(c, "entry", [op |-> "merge", branch |-> b, strategy |-> s,
                              pair |-> <<NoRow, NoRow>>])
        /\ todo' = [todo EXCEPT ![c] = Pairs(b)]
        /\ UNCHANGED <<locks, stage, clash>>
  BY DEF BeginMerge
<1> DEFINE j == [op |-> "merge", branch |-> b, strategy |-> s, pair |-> <<NoRow, NoRow>>]
<1>2. /\ rows \in Seq(Row) /\ Unbroken(rows) /\ Frames /\ Client(c) /\ pc[c] = "idle"
      /\ Goto(c, "entry") /\ job' = [job EXCEPT ![c] = j]
      /\ rows' = rows /\ cut' = cut /\ clock' = clock /\ want' = want
      /\ cur' = cur /\ held' = held /\ stage' = stage
  BY <1>1 DEF PgInv, Table, Sound, Start, locks
<1>3. j \in MergeJob
  BY DEF MergeJob, NoRow
<1> HIDE DEF j
<1>4. /\ pc' \in [Clients -> Points] /\ pc'[c] = "entry"
      /\ \A d \in Clients \ {c} : pc'[d] = pc[d]
  BY <1>2, Moved DEF Points
<1>5. Frames' /\ Others(c) /\ job'[c] = j /\ todo'[c] = Pairs(b)
  BY <1>1, <1>2, <1>4 DEF Frames, Others, Still
<1>6. todo'[c] \subseteq Nat \X Nat /\ \A p \in todo'[c] : IsPair(p)
  <2>1. \A x \in Branches \cup {Main} : LiveOf(x) \subseteq DOMAIN rows
    BY DEF LiveOf
  <2>2. DOMAIN rows \subseteq Nat /\ NoRow \in Nat
    BY <1>2 DEF NoRow
  <2>3. Pairs(b) \subseteq LiveOf(b) \X (LiveOf(Main) \cup {NoRow})
    BY DEF Pairs
  <2> QED
    BY <1>5, <2>1, <2>2, <2>3 DEF IsPair
<1>7. Merger(c)'
  <2>1. stage[c].new = <<>>
    BY <1>2 DEF Client, Staging
  <2>2. \A k \in Keys : NoGap(Versions(rows, k) \cup StagedVersions(stage[c].new, k))
    BY <1>2, <2>1, NoStagedVersions DEF Unbroken
  <2>3. \A p : IsPair(p) => IsPair(p)'
    BY <1>2 DEF IsPair
  <2>4. \A k : Versions(rows', k) = Versions(rows, k)
    BY <1>2 DEF Versions, On
  <2> QED
    BY <1>2, <1>3, <1>4, <1>5, <1>6, <2>1, <2>2, <2>3, <2>4 DEF Merger
<1>8. Client(c)'
  BY <1>2, <1>4, <1>7 DEF Client, Points, Writing, Staging
<1> QED
  BY <1>2, <1>5, <1>8, OneClientOnly DEF PgInv, Cuts

LEMMA EntryKeeps ==
  ASSUME PgInv, NEW c \in Clients, Entry(c)
  PROVE  PgInv'
<1>1. PICK p \in todo[c] :
        /\ todo' = [todo EXCEPT ![c] = todo[c] \ {p}]
        /\ \/ UNCHANGED client
           \/ job' = [job EXCEPT ![c].pair = p] /\ Goto(c, "put")
  BY DEF Entry
<1>2. /\ rows \in Seq(Row) /\ Frames /\ Client(c) /\ pc[c] = "entry" /\ Merger(c)
      /\ rows' = rows /\ cut' = cut /\ clock' = clock /\ want' = want
      /\ cur' = cur /\ held' = held /\ stage' = stage
  BY DEF PgInv, Table, Entry, locks, Client, Staging
<1>3. p \in Nat \X Nat /\ IsPair(p) /\ todo'[c] \subseteq todo[c]
  BY <1>1, <1>2 DEF Merger, Frames
<1>4. /\ pc' \in [Clients -> Points] /\ pc'[c] \in {"entry", "put"}
      /\ \A d \in Clients \ {c} : pc'[d] = pc[d]
  <2>1. CASE UNCHANGED client
    BY <2>1, <1>2 DEF client, Frames
  <2>2. CASE Goto(c, "put")
    BY <2>2, <1>2, Moved DEF Points
  <2> QED
    BY <1>1, <2>1, <2>2
<1>5. /\ job'[c] \in MergeJob /\ DOMAIN job' = Clients
      /\ \A d \in Clients \ {c} : job'[d] = job[d]
      /\ pc'[c] = "put" => IsPair(job'[c].pair)
  <2>1. CASE UNCHANGED client
    BY <2>1, <1>2 DEF client, Frames, Merger
  <2>2. CASE job' = [job EXCEPT ![c].pair = p]
    <3>1. job'[c] = [job[c] EXCEPT !.pair = p] /\ job[c] \in MergeJob
      BY <2>2, <1>2 DEF Frames, Merger
    <3>2. job'[c] \in MergeJob /\ job'[c].pair = p
      BY <3>1, <1>3 DEF MergeJob
    <3> QED
      BY <2>2, <3>2, <1>2, <1>3 DEF Frames
  <2> QED
    BY <1>1, <2>1, <2>2
<1>6. Frames' /\ Others(c)
  BY <1>1, <1>2, <1>4, <1>5 DEF Frames, Others, Still
<1>7. Merger(c)'
  <2>1. \A q : IsPair(q) => IsPair(q)'
    BY <1>2 DEF IsPair
  <2>2. \A k : Versions(rows', k) = Versions(rows, k)
    BY <1>2 DEF Versions, On
  <2> QED
    BY <1>2, <1>3, <1>4, <1>5, <2>1, <2>2 DEF Merger
<1>8. Client(c)'
  BY <1>2, <1>4, <1>7 DEF Client, Points, Writing, Staging
<1> QED
  BY <1>2, <1>6, <1>8, OneClientOnly DEF PgInv, Cuts

LEMMA AppendStaged ==
  ASSUME NEW new \in Seq(Row), NEW row \in Row, NEW k
  PROVE  /\ Append(new, row) \in Seq(Row)
         /\ StagedVersions(Append(new, row), k) =
              StagedVersions(new, k) \cup {v \in {row.ver} : row.branch = Main /\ row.key = k}
<1> DEFINE more == Append(new, row)
<1>1. /\ more \in Seq(Row) /\ DOMAIN more = DOMAIN new \cup {Len(new) + 1}
      /\ more[Len(new) + 1] = row /\ \A n \in DOMAIN new : more[n] = new[n]
  OBVIOUS
<1> HIDE DEF more
<1>2. StagedVersions(more, k) =
        StagedVersions(new, k) \cup {v \in {row.ver} : row.branch = Main /\ row.key = k}
  BY <1>1 DEF StagedVersions
<1> QED
  BY <1>1, <1>2 DEF more

PutCopy(c) ==
  [rows[job[c].pair[1]] EXCEPT !.branch = Main,
                               !.ver = AfterAll(Seen(c), Main, rows[job[c].pair[1]].key),
                               !.credit = {}]

\* The row a merge stages for main.
LEMMA PutRow ==
  ASSUME PgInv, NEW c \in Clients, pc[c] = "put"
  PROVE  /\ PutCopy(c) \in Row /\ PutCopy(c).branch = Main /\ PutCopy(c).credit = {}
         /\ PutCopy(c).ver = AfterAll(Seen(c), Main, PutCopy(c).key)
<1>1. rows \in Seq(Row) /\ Merger(c)
  BY DEF PgInv, Table, Client, Staging
<1>2. job[c].pair[1] \in DOMAIN rows
  BY <1>1 DEF Merger, IsPair
<1> DEFINE be == rows[job[c].pair[1]]
           Up(row, v) == [row EXCEPT !.branch = Main, !.ver = v, !.credit = {}]
<1>3. be \in Row
  BY <1>1, <1>2
<1>4. AfterAll(Seen(c), Main, be.key) \in Nat
  <2>1. Seen(c) \in Seq(Row)
    BY SeenTable
  <2>2. \A i \in On(Seen(c), Main, be.key) : Seen(c)[i].ver \in Nat
    <3> SUFFICES ASSUME NEW i \in On(Seen(c), Main, be.key) PROVE Seen(c)[i].ver \in Nat
      OBVIOUS
    <3>1. Seen(c)[i] \in Row
      BY <2>1 DEF On
    <3> QED
      BY <3>1 DEF Row
  <2>3. \/ AfterAll(Seen(c), Main, be.key) = 1
        \/ \E i \in On(Seen(c), Main, be.key) : AfterAll(Seen(c), Main, be.key) = Seen(c)[i].ver + 1
    BY <2>1, AfterAllFollows
  <2> QED
    BY <2>2, <2>3
<1>5. \A row \in Row, v \in Nat :
        /\ Up(row, v) \in Row
        /\ Up(row, v).branch = Main /\ Up(row, v).key = row.key
        /\ Up(row, v).ver = v /\ Up(row, v).credit = {}
  BY DEF Row, AllBranches
<1>6. PutCopy(c) = Up(be, AfterAll(Seen(c), Main, be.key))
  BY DEF PutCopy
<1> HIDE DEF be, Up
<1> QED
  BY <1>3, <1>4, <1>5, <1>6

LEMMA PutMerges ==
  ASSUME PgInv, NEW c \in Clients, pc[c] = "put",
         stage'[c].new = Append(stage[c].new, PutCopy(c))
  PROVE  /\ \A n \in DOMAIN stage'[c].new :
              stage'[c].new[n].branch = Main /\ stage'[c].new[n].credit = {}
         /\ \A m, n \in DOMAIN stage'[c].new :
              m < n /\ stage'[c].new[m].key = stage'[c].new[n].key
              => stage'[c].new[m].ver < stage'[c].new[n].ver
         /\ \A k \in Keys : NoGap(Versions(rows, k) \cup StagedVersions(stage'[c].new, k))
<1> DEFINE new == stage[c].new
           row == PutCopy(c)
           more == Append(new, row)
<1>1. new \in Seq(Row) /\ Seen(c) \in Seq(Row) /\ Extends(rows, Seen(c), new) /\ Merger(c)
  BY SeenTable DEF PgInv, Client, Staging
<1>2. /\ row \in Row /\ row.branch = Main /\ row.credit = {}
      /\ row.ver = AfterAll(Seen(c), Main, row.key)
  BY PutRow
<1> HIDE DEF row
<1>3. /\ more \in Seq(Row) /\ DOMAIN more = DOMAIN new \cup {Len(new) + 1}
      /\ DOMAIN new = 1 .. Len(new) /\ Len(new) \in Nat
      /\ more[Len(new) + 1] = row /\ \A n \in DOMAIN new : more[n] = new[n]
  BY <1>1, <1>2
<1>4. \A n \in DOMAIN new : new[n].branch = Main /\ new[n].credit = {}
  BY <1>1 DEF Merger
<1>5. \/ On(Seen(c), Main, row.key) = {} /\ row.ver = 1
      \/ \E i \in On(Seen(c), Main, row.key) :
           /\ row.ver = Seen(c)[i].ver + 1
           /\ \A j \in On(Seen(c), Main, row.key) : Seen(c)[j].ver <= Seen(c)[i].ver
  BY <1>1, <1>2, AfterAllFollows
<1>6. \A i \in On(Seen(c), Main, row.key) : Seen(c)[i].ver \in Nat
  <2> SUFFICES ASSUME NEW i \in On(Seen(c), Main, row.key) PROVE Seen(c)[i].ver \in Nat
    OBVIOUS
  <2>1. Seen(c)[i] \in Row
    BY <1>1 DEF On
  <2> QED
    BY <2>1 DEF Row
<1>7. ASSUME NEW n \in DOMAIN new, new[n].key = row.key PROVE new[n].ver < row.ver
  <2>1. /\ rows \in Seq(Row) /\ Len(rows) + n \in DOMAIN Seen(c)
        /\ Seen(c)[Len(rows) + n] = new[n]
    BY <1>1, ExtendsRows DEF PgInv, Table, Extends
  <2>2. Len(rows) + n \in On(Seen(c), Main, row.key)
    BY <1>4, <1>7, <2>1 DEF On
  <2> QED
    BY <1>5, <1>6, <2>1, <2>2
<1>8. \A n \in DOMAIN more : more[n].branch = Main /\ more[n].credit = {}
  BY <1>2, <1>3, <1>4
<1>9. ASSUME NEW m \in DOMAIN more, NEW n \in DOMAIN more, m < n, more[m].key = more[n].key
      PROVE  more[m].ver < more[n].ver
  <2> HIDE DEF more
  <2>1. m \in DOMAIN new
    BY <1>3, <1>9
  <2>2. CASE n \in DOMAIN new
    BY <1>1, <1>3, <1>9, <2>1, <2>2 DEF Merger
  <2>3. CASE n = Len(new) + 1
    BY <1>3, <1>7, <1>9, <2>1, <2>3
  <2> QED
    BY <1>3, <2>2, <2>3
<1>10. ASSUME NEW k \in Keys PROVE NoGap(Versions(rows, k) \cup StagedVersions(more, k))
  <2> DEFINE V == Versions(rows, k) \cup StagedVersions(new, k)
  <2>1. /\ V = Versions(Seen(c), k) /\ NoGap(V)
    BY <1>1, SeenTable DEF Merger
  <2>2. StagedVersions(more, k) = StagedVersions(new, k) \cup {v \in {row.ver} : row.branch = Main /\ row.key = k}
    BY <1>1, <1>2, AppendStaged
  <2>3. CASE row.key # k
    BY <1>2, <2>1, <2>2, <2>3
  <2>4. CASE row.key = k
    <3>1. Versions(rows, k) \cup StagedVersions(more, k) = V \cup {row.ver}
      BY <1>2, <2>2, <2>4
    <3>2. row.ver = 1 \/ \E w \in V : w \in Nat /\ row.ver = w + 1
      <4>1. \A i \in On(Seen(c), Main, k) : Seen(c)[i].ver \in V
        BY <2>1 DEF Versions
      <4> HIDE DEF V
      <4> QED
        BY <1>5, <1>6, <2>4, <4>1
    <3>3. row.ver \in Nat
      BY <1>2 DEF Row
    <3> HIDE DEF V
    <3> QED
      BY <2>1, <3>1, <3>2, <3>3, NoGapGrows
  <2> QED
    BY <2>3, <2>4
<1>11. stage'[c].new = more
  BY DEF row
<1> HIDE DEF more
<1> QED
  BY <1>8, <1>9, <1>10, <1>11

LEMMA PutKeeps ==
  ASSUME PgInv, NEW c \in Clients, Put(c)
  PROVE  PgInv'
<1> DEFINE off == {job[c].pair[2]} \ {NoRow}
<1>1. /\ rows \in Seq(Row) /\ Frames /\ Client(c) /\ pc[c] = "put" /\ Merger(c)
      /\ Goto(c, "entry")
      /\ held' = [held EXCEPT ![c] = held[c] \cup off]
      /\ stage' = [stage EXCEPT ![c].off = stage[c].off \cup off,
                                ![c].new = Append(stage[c].new, PutCopy(c))]
      /\ rows' = rows /\ cut' = cut /\ clock' = clock /\ job' = job
      /\ want' = want /\ cur' = cur /\ todo' = todo
  BY DEF PgInv, Table, Put, PutCopy, Client, Staging
<1>2. off \subseteq DOMAIN rows /\ off \subseteq Nat
  BY <1>1 DEF Merger, IsPair
<1> HIDE DEF off
<1>3. /\ pc' \in [Clients -> Points] /\ pc'[c] = "entry"
      /\ \A d \in Clients \ {c} : pc'[d] = pc[d]
  BY <1>1, Moved DEF Points
<1>4. Frames' /\ Others(c)
  BY <1>1, <1>3 DEF Frames, Others, Still
<1>5. held'[c] \subseteq DOMAIN rows
  BY <1>1, <1>2 DEF Frames, Client
<1>6. /\ stage'[c] \in Stages /\ stage'[c].new = Append(stage[c].new, PutCopy(c))
  <2>1. stage[c] \in Stages /\ stage[c].off \cup off \in SUBSET Nat
    BY <1>1, <1>2 DEF Client, Stages
  <2>2. Append(stage[c].new, PutCopy(c)) \in Seq(Row)
    BY <1>1, PutRow, SeenTable, AppendStaged
  <2>3. stage'[c] = [stage[c] EXCEPT !.off = stage[c].off \cup off,
                                     !.new = Append(stage[c].new, PutCopy(c))]
    BY <1>1 DEF Frames
  <2> QED
    BY <2>1, <2>2, <2>3 DEF Stages
<1>7. Merger(c)'
  <2>1. \A q : IsPair(q) => IsPair(q)'
    BY <1>1 DEF IsPair
  <2>2. \A k : Versions(rows', k) = Versions(rows, k)
    BY <1>1 DEF Versions, On
  <2>3. /\ job'[c] \in MergeJob /\ todo'[c] \subseteq Nat \X Nat /\ \A q \in todo'[c] : IsPair(q)'
    BY <1>1, <2>1 DEF Merger
  <2> QED
    BY <1>1, <1>3, <1>6, <2>2, <2>3, PutMerges DEF Merger
<1>8. Client(c)'
  BY <1>1, <1>3, <1>5, <1>6, <1>7 DEF Client, Points, Writing, Staging
<1> QED
  BY <1>1, <1>4, <1>8, OneClientOnly DEF PgInv, Cuts

\* A merge whose rows get in.
Merged(c) == rows' = Seen(c) /\ ~Refused(c)

LEMMA CommitMergeKeeps ==
  ASSUME PgInv, NEW c \in Clients, CommitMerge(c)
  PROVE  PgInv'
<1>1. Frames' /\ Others(c) /\ Client(c)'
  BY Returned DEF PgInv, CommitMerge
<1>2. Merger(c) /\ clock' = clock
  BY DEF PgInv, Client, CommitMerge, Staging
<1>3. Cuts'
  <2>1. job[c].branch \in Branches
    BY <1>2 DEF Merger, MergeJob
  <2>2. cut' = cut \/ cut' = [cut EXCEPT ![job[c].branch].status = "merged"]
    BY DEF CommitMerge
  <2> QED
    BY <1>2, <2>1, <2>2 DEF PgInv, Cuts
<1>4. CASE rows' = rows
  BY <1>1, <1>3, <1>4, OneClientOnly
<1>5. CASE rows' = Seen(c) /\ ~Refused(c)
  <2>1. \A k \in Keys : NoGap(Versions(rows', k))
    BY <1>2, <1>5, SeenTable DEF Merger
  <2>2. Unbroken(rows)'
    BY <2>1 DEF Unbroken, Versions, On
  <2> DEFINE new == stage[c].new
  <2>3. new \in Seq(Row) /\ Extends(rows, rows', new)
    BY <1>5, SeenTable
  <2>4. \A n \in DOMAIN new : ~Taken(rows, new[n]) /\ new[n].credit = {} /\ new[n].ver \in Nat
    <3>1. \A n \in DOMAIN new : new[n] \in Row
      BY <2>3
    <3>2. \A row \in Row : row.ver \in Nat
      BY DEF Row
    <3> QED
      BY <1>2, <1>5, <3>1, <3>2 DEF Refused, Merger
  <2>5. \A m, n \in DOMAIN new : new[m].key = new[n].key /\ new[m].ver = new[n].ver => m = n
    <3>1. \A m, n \in DOMAIN new : m < n /\ new[m].key = new[n].key => new[m].ver < new[n].ver
      BY <1>2 DEF Merger
    <3>2. DOMAIN new \subseteq Nat
      BY <2>3
    <3> HIDE DEF new
    <3> SUFFICES ASSUME NEW m \in DOMAIN new, NEW n \in DOMAIN new, new[m].key = new[n].key,
                        new[m].ver = new[n].ver, m # n
                 PROVE  FALSE
      OBVIOUS
    <3>3. m \in Nat /\ n \in Nat /\ new[m].ver \in Nat
      BY <2>4, <3>2
    <3>4. m < n \/ n < m
      BY <3>3
    <3> QED
      BY <3>1, <3>3, <3>4
  <2> HIDE DEF new
  <2>6. Sound'
    BY <2>2, <2>3, <2>4, <2>5, SoundGrows
  <2> QED
    BY <1>1, <1>3, <2>3, <2>6, OneClient
<1> QED
  BY <1>4, <1>5 DEF CommitMerge

\* A step that is no client's.
LEMMA NoClient ==
  ASSUME PgInv, NEW new \in Seq(Row), Extends(rows, rows', new), Sound', Cuts',
         UNCHANGED <<client, locks, loop>>
  PROVE  PgInv'
<1>1. /\ pc' = pc /\ job' = job /\ want' = want /\ cur' = cur /\ held' = held
      /\ stage' = stage /\ todo' = todo
  BY DEF client, locks, loop
<1>2. Frames'
  BY <1>1 DEF PgInv, Frames
<1>3. \A d \in Clients : Still(d)
  BY <1>1 DEF Still
<1>4. \A d \in Clients : Client(d)'
  BY <1>3, Bystander DEF PgInv, Table, Sound
<1>5. Table'
  BY DEF Table, Extends
<1> QED
  BY <1>2, <1>4, <1>5 DEF PgInv

\* What a fork puts in.
ForkRows(order) == [n \in DOMAIN order |-> Forked(order[n])]

LEMMA ForkTable ==
  ASSUME PgInv, PgAssumption, NEW b \in AllBranches, NEW S \in SUBSET LiveOf(b),
         NEW order \in [1 .. Cardinality(S) -> S]
  PROVE  /\ IsFiniteSet(S)
         /\ ForkRows(order) \in Seq(Row)
         /\ DOMAIN ForkRows(order) = 1 .. Cardinality(S)
         /\ \A n \in 1 .. Cardinality(S) :
              /\ ForkRows(order)[n].branch = Main /\ ForkRows(order)[n].ver = 1
              /\ ForkRows(order)[n].key = rows[order[n]].key /\ ForkRows(order)[n].credit = {}
<1>1. rows \in Seq(Row) /\ clock \in Nat
  BY DEF PgInv, Table, Cuts, PgAssumption
<1>2. LiveOf(b) \subseteq 1 .. Len(rows) /\ Len(rows) \in Int
  BY <1>1 DEF LiveOf
<1>3. IsFiniteSet(S)
  <2>1. IsFiniteSet(1 .. Len(rows))
    BY <1>2, FS_Interval
  <2>2. S \subseteq 1 .. Len(rows)
    BY <1>2
  <2> QED
    BY <2>1, <2>2, FS_Subset
<1>4. Cardinality(S) \in Nat
  BY <1>3, FS_CardinalityType
<1> DEFINE Up(row) == [row EXCEPT !.branch = Main, !.ver = 1, !.at = clock, !.credit = {}]
<1>5. \A row \in Row :
        /\ Up(row) \in Row /\ Up(row).branch = Main /\ Up(row).ver = 1
        /\ Up(row).key = row.key /\ Up(row).credit = {}
  BY <1>1 DEF Row, AllBranches
<1>6. \A n \in 1 .. Cardinality(S) :
        order[n] \in DOMAIN rows /\ rows[order[n]] \in Row /\ ForkRows(order)[n] = Up(rows[order[n]])
  <2> SUFFICES ASSUME NEW n \in 1 .. Cardinality(S)
               PROVE  /\ order[n] \in DOMAIN rows /\ rows[order[n]] \in Row
                      /\ ForkRows(order)[n] = Up(rows[order[n]])
    OBVIOUS
  <2>1. order[n] \in S
    OBVIOUS
  <2>2. order[n] \in DOMAIN rows
    BY <2>1 DEF LiveOf
  <2> QED
    BY <1>1, <2>2 DEF ForkRows, Forked
<1> HIDE DEF Up
<1>7. DOMAIN ForkRows(order) = 1 .. Cardinality(S) /\ ForkRows(order) = [n \in 1 .. Cardinality(S) |-> Up(rows[order[n]])]
  BY <1>6 DEF ForkRows, Forked, Up
<1>8. ForkRows(order) \in [1 .. Cardinality(S) -> Row]
  BY <1>5, <1>6, <1>7
<1>9. ForkRows(order) \in Seq(Row)
  BY <1>4, <1>8
<1> QED
  BY <1>3, <1>5, <1>6, <1>7, <1>9

ForkBy(S, order) ==
  /\ rows' = rows \o ForkRows(order)
  /\ S = {order[n] : n \in DOMAIN order}
  /\ \A i \in S : ~Taken(rows, Forked(i))
  /\ Tenanted => \A i, j \in S : rows[i].key = rows[j].key => i = j
  /\ UNCHANGED <<cut, clock, client, locks, loop>>

LEMMA ForkAdds ==
  ASSUME Fork
  PROVE  \E b \in AllBranches :
           \E S \in SUBSET LiveOf(b) : \E order \in [1 .. Cardinality(S) -> S] : ForkBy(S, order)
<1>1. PICK b \in AllBranches :
        \E S \in SUBSET {i \in LiveOf(b) : ~Taken(rows, Forked(i))} :
          \E order \in [1 .. Cardinality(S) -> S] :
            /\ rows' = rows \o ForkRows(order)
            /\ S = {order[n] : n \in DOMAIN order}
            /\ Tenanted => \A i, j \in S : rows[i].key = rows[j].key => i = j
            /\ UNCHANGED <<cut, clock, client, locks, loop>>
  BY DEF Fork, ForkRows
<1>2. PICK S \in SUBSET {i \in LiveOf(b) : ~Taken(rows, Forked(i))} :
          \E order \in [1 .. Cardinality(S) -> S] :
            /\ rows' = rows \o ForkRows(order)
            /\ S = {order[n] : n \in DOMAIN order}
            /\ Tenanted => \A i, j \in S : rows[i].key = rows[j].key => i = j
            /\ UNCHANGED <<cut, clock, client, locks, loop>>
  BY <1>1
<1>3. S \in SUBSET LiveOf(b) /\ \A i \in S : ~Taken(rows, Forked(i))
  OBVIOUS
<1>4. \E order \in [1 .. Cardinality(S) -> S] : ForkBy(S, order)
  BY <1>2, <1>3 DEF ForkBy
<1> QED
  BY <1>3, <1>4

LEMMA ForkKeeps ==
  ASSUME PgInv, PgAssumption, Fork
  PROVE  PgInv'
<1>1. PICK b \in AllBranches :
        \E S \in SUBSET LiveOf(b) : \E order \in [1 .. Cardinality(S) -> S] : ForkBy(S, order)
  BY ForkAdds
<1>2. PICK S \in SUBSET LiveOf(b) : \E order \in [1 .. Cardinality(S) -> S] : ForkBy(S, order)
  BY <1>1
<1>3. PICK order \in [1 .. Cardinality(S) -> S] : ForkBy(S, order)
  BY <1>2
<1>4. /\ IsFiniteSet(S) /\ ForkRows(order) \in Seq(Row)
      /\ DOMAIN ForkRows(order) = 1 .. Cardinality(S)
      /\ \A n \in 1 .. Cardinality(S) :
           /\ ForkRows(order)[n].branch = Main /\ ForkRows(order)[n].ver = 1
           /\ ForkRows(order)[n].key = rows[order[n]].key /\ ForkRows(order)[n].credit = {}
  <2>1. b \in AllBranches /\ S \in SUBSET LiveOf(b) /\ order \in [1 .. Cardinality(S) -> S]
    OBVIOUS
  <2>2. IsFiniteSet(S) /\ ForkRows(order) \in Seq(Row) /\ DOMAIN ForkRows(order) = 1 .. Cardinality(S)
    BY <2>1, ForkTable
  <2>3. \A n \in 1 .. Cardinality(S) :
          /\ ForkRows(order)[n].branch = Main /\ ForkRows(order)[n].ver = 1
          /\ ForkRows(order)[n].key = rows[order[n]].key /\ ForkRows(order)[n].credit = {}
    BY <2>1, ForkTable
  <2> QED
    BY <2>2, <2>3
<1> DEFINE new == ForkRows(order)
           N == 1 .. Cardinality(S)
<1>5. order \in [N -> S] /\ \A n \in N : order[n] \in S /\ new[n] = Forked(order[n])
  BY <1>4 DEF ForkRows
<1>6. \A m, n \in N : order[m] = order[n] => m = n
  <2>1. Cardinality(S) \in Nat
    BY <1>4, FS_CardinalityType
  <2>2. IsFiniteSet(N) /\ Cardinality(N) = Cardinality(S)
    BY <2>1, FS_Interval
  <2> HIDE DEF N
  <2>3. order \in Surjection(N, S)
    <3>1. S = {order[n] : n \in N}
      BY <1>3, <1>5 DEF ForkBy
    <3> QED
      BY <3>1, <1>5 DEF Surjection
  <2>4. order \in Injection(N, S)
    BY <1>4, <2>2, <2>3, FS_SurjSameCardinalityImpliesInj
  <2> QED
    BY <2>4, <1>5 DEF Injection, IsInjective
<1> HIDE DEF new, N
<1>7. new \in Seq(Row) /\ DOMAIN new = N
  BY <1>4 DEF new, N
<1>8. rows \in Seq(Row) /\ Unbroken(rows) /\ rows' = rows \o new
  BY <1>3 DEF PgInv, Table, Sound, ForkBy, new
<1>9. Extends(rows, rows', new)
  BY <1>7, <1>8, AppendExtends
<1>10. ASSUME NEW k \in Keys PROVE NoGap(Versions(rows', k))
  <2>1. Versions(rows', k) = Versions(rows, k) \cup StagedVersions(new, k)
    BY <1>7, <1>8, <1>9, ExtendsVersions
  <2>2. StagedVersions(new, k) \subseteq {1}
    BY <1>4 DEF StagedVersions, new
  <2>3. NoGap(Versions(rows, k))
    BY <1>8 DEF Unbroken
  <2> QED
    BY <2>1, <2>2, <2>3 DEF NoGap
<1>11. Unbroken(rows)'
  BY <1>10 DEF Unbroken, Versions, On
<1>12. \A n \in N : ~Taken(rows, new[n])
  <2>1. \A i \in S : ~Taken(rows, Forked(i))
    BY <1>3 DEF ForkBy
  <2> QED
    BY <1>5, <2>1, Zenon
<1>13. Tenanted => \A m, n \in N : new[m].key = new[n].key => m = n
  <2>1. Tenanted => \A i, j \in S : rows[i].key = rows[j].key => i = j
    BY <1>3 DEF ForkBy
  <2> QED
    BY <1>4, <1>5, <1>6, <2>1 DEF new, N
<1>14. \A n \in N : new[n].credit = {}
  BY <1>4 DEF new, N
<1>15. Sound'
  BY <1>7, <1>9, <1>11, <1>12, <1>13, <1>14, SoundGrows
<1> QED
  BY <1>3, <1>7, <1>9, <1>15, NoClient DEF PgInv, Cuts, ForkBy

-----------------------------------------------------------------------------
(* Rollbacks.                                                              *)

LEMMA BeginRollbackKeeps ==
  ASSUME PgInv, PgAssumption, NEW c \in Clients, BeginRollback(c)
  PROVE  PgInv'
<1>1. PICK b \in AllBranches, t \in 0 .. MaxClock :
        LET since == {k \in Keys : \E i \in Live(rows, b, k) : rows[i].at > t}
        IN  /\ Start(c, "revert", [op |-> "rollback", branch |-> b, to |-> t, key |-> NoRow])
            /\ todo' = [todo EXCEPT ![c] = since]
            /\ UNCHANGED <<locks, stage, clash>>
  BY DEF BeginRollback
<1> DEFINE j == [op |-> "rollback", branch |-> b, to |-> t, key |-> NoRow]
<1>2. /\ rows \in Seq(Row) /\ Frames /\ Client(c) /\ pc[c] = "idle"
      /\ Goto(c, "revert") /\ job' = [job EXCEPT ![c] = j]
      /\ rows' = rows /\ cut' = cut /\ clock' = clock /\ want' = want
      /\ cur' = cur /\ held' = held /\ stage' = stage
  BY <1>1 DEF PgInv, Table, Start, locks
<1>3. j \in RollbackJob
  BY DEF RollbackJob, PgAssumption
<1> HIDE DEF j
<1>4. /\ pc' \in [Clients -> Points] /\ pc'[c] = "revert"
      /\ \A d \in Clients \ {c} : pc'[d] = pc[d]
  BY <1>2, Moved DEF Points
<1>5. Frames' /\ Others(c) /\ job'[c] = j
  BY <1>1, <1>2, <1>4 DEF Frames, Others, Still
<1>6. todo'[c] \subseteq Keys
  BY <1>1, <1>2 DEF Frames
<1>7. Client(c)'
  BY <1>2, <1>3, <1>4, <1>5, <1>6 DEF Client, Points, Writing, Staging
<1> QED
  BY <1>2, <1>5, <1>7, OneClientOnly DEF PgInv, Cuts

LEMMA RevertKeeps ==
  ASSUME PgInv, NEW c \in Clients, Revert(c)
  PROVE  PgInv'
<1>1. PICK k \in todo[c] :
        /\ job' = [job EXCEPT ![c].key = k]
        /\ want' = [want EXCEPT ![c] = Live(rows, job[c].branch, k)]
        /\ todo' = [todo EXCEPT ![c] = todo[c] \ {k}]
  BY DEF Revert
<1>2. /\ rows \in Seq(Row) /\ Frames /\ Client(c) /\ pc[c] = "revert" /\ Goto(c, "restore")
      /\ job[c] \in RollbackJob /\ todo[c] \subseteq Keys
      /\ rows' = rows /\ cut' = cut /\ clock' = clock
      /\ cur' = cur /\ held' = held /\ stage' = stage
  BY DEF PgInv, Table, Revert, Client
<1>3. /\ pc' \in [Clients -> Points] /\ pc'[c] = "restore"
      /\ \A d \in Clients \ {c} : pc'[d] = pc[d]
  BY <1>2, Moved DEF Points
<1>4. Frames' /\ Others(c)
  BY <1>1, <1>2, <1>3 DEF Frames, Others, Still
<1>5. /\ job'[c] = [job[c] EXCEPT !.key = k] /\ todo'[c] \subseteq Keys
      /\ want'[c] \subseteq DOMAIN rows
  BY <1>1, <1>2 DEF Frames, Live, On
<1>6. job'[c] \in RollbackJob
  BY <1>1, <1>2, <1>5 DEF RollbackJob
<1>7. Client(c)'
  BY <1>2, <1>3, <1>5, <1>6 DEF Client, Points, Writing, Staging
<1> QED
  BY <1>2, <1>4, <1>7, OneClientOnly DEF PgInv, Cuts

LEMMA RestoreKeeps ==
  ASSUME PgInv, NEW c \in Clients, Restore(c)
  PROVE  PgInv'
<1> DEFINE off == {i \in want[c] : rows[i].live}
<1>1. PICK r \in Newest(rows, {i \in On(rows, job[c].branch, job[c].key) : rows[i].at <= job[c].to}) :
        /\ held' = [held EXCEPT ![c] = held[c] \cup off \cup ({r} \ {NoRow})]
        /\ stage' = [stage EXCEPT ![c].off = stage[c].off \cup off,
                                  ![c].on = stage[c].on \cup ({r} \ {NoRow})]
  BY DEF Restore
<1>2. /\ rows \in Seq(Row) /\ Frames /\ Client(c) /\ pc[c] = "restore" /\ Goto(c, "revert")
      /\ rows' = rows /\ cut' = cut /\ clock' = clock /\ job' = job
      /\ want' = want /\ cur' = cur /\ todo' = todo
  BY DEF PgInv, Table, Restore
<1>3. off \subseteq DOMAIN rows /\ {r} \ {NoRow} \subseteq DOMAIN rows /\ DOMAIN rows \subseteq Nat
  BY <1>1, <1>2 DEF Newest, On, Client
<1> HIDE DEF off
<1> DEFINE on == {r} \ {NoRow}
<1> HIDE DEF on
<1>4. /\ pc' \in [Clients -> Points] /\ pc'[c] = "revert"
      /\ \A d \in Clients \ {c} : pc'[d] = pc[d]
  BY <1>2, Moved DEF Points
<1>5. Frames' /\ Others(c)
  BY <1>1, <1>2, <1>4 DEF Frames, Others, Still
<1>6. held'[c] \subseteq DOMAIN rows
  BY <1>1, <1>2, <1>3 DEF Frames, Client
<1>7. stage'[c] \in Stages /\ stage'[c].new = <<>>
  <2>1. stage[c] \in Stages /\ stage[c].new = <<>>
    BY <1>2 DEF Client, Staging
  <2>2. stage'[c] = [stage[c] EXCEPT !.off = stage[c].off \cup off, !.on = stage[c].on \cup on]
    BY <1>1, <1>2 DEF Frames, on
  <2>3. stage[c].off \cup off \in SUBSET Nat /\ stage[c].on \cup on \in SUBSET Nat
    BY <1>3, <2>1 DEF Stages, on
  <2> QED
    BY <2>1, <2>2, <2>3 DEF Stages
<1>8. Client(c)'
  BY <1>2, <1>4, <1>6, <1>7 DEF Client, Points, Writing, Staging
<1> QED
  BY <1>2, <1>5, <1>8, OneClientOnly DEF PgInv, Cuts

\* A rollback puts in no row.
LEMMA CommitRollbackKeeps ==
  ASSUME PgInv, NEW c \in Clients, CommitRollback(c)
  PROVE  PgInv'
<1>1. Frames' /\ Others(c) /\ Client(c)' /\ Cuts'
  BY Returned DEF PgInv, CommitRollback, Cuts
<1>2. stage[c].new = <<>>
  BY DEF PgInv, Client, CommitRollback, Staging
<1>3. /\ <<>> \in Seq(Row) /\ Extends(rows, rows', <<>>)
      /\ \A k : Versions(rows', k) = Versions(rows, k)
  BY <1>2, SeenTable, NoStagedVersions DEF CommitRollback
<1>4. Unbroken(rows)'
  BY <1>3 DEF PgInv, Table, Sound, Unbroken, Versions, On
<1>5. Sound'
  <2> DEFINE none == <<>>
  <2>1. none \in Seq(Row) /\ Extends(rows, rows', none) /\ DOMAIN none = {}
    BY <1>3
  <2> HIDE DEF none
  <2> QED
    BY <1>4, <2>1, SoundGrows
<1> QED
  BY <1>1, <1>3, <1>5, OneClient

-----------------------------------------------------------------------------
(* The invariant.                                                          *)

LEMMA LoseKeeps ==
  ASSUME PgInv, NEW c \in Clients, Lose(c)
  PROVE  PgInv'
<1>1. Frames' /\ Others(c) /\ Client(c)' /\ rows' = rows /\ Cuts'
  BY Failed DEF PgInv, Lose, Cuts
<1> QED
  BY <1>1, OneClientOnly

LEMMA InitKeeps ==
  ASSUME PgAssumption, Init
  PROVE  PgInv
<1>1. Frames /\ Cuts
  BY DEF Init, Frames, Cuts, Points, PgAssumption
<1>2. Table
  BY DEF Init, Table, Sound, Unbroken, Versions, On, NoGap, Apart, CreditIsEarned
<1>3. \A c \in Clients : Client(c)
  BY NothingStaged DEF Init, Client, Points, Writing, Staging
<1> QED
  BY <1>1, <1>2, <1>3 DEF PgInv

LEMMA NextKeeps ==
  ASSUME PgAssumption, PgInv, [Next]_vars
  PROVE  PgInv'
<1>1. ASSUME NEW c \in Clients, Begin(c) PROVE PgInv'
  BY <1>1, BeginWriteKeeps, BeginOutcomeKeeps, BeginMergeKeeps, BeginRollbackKeeps DEF Begin
<1>2. ASSUME NEW c \in Clients, Step(c) PROVE PgInv'
  BY <1>2, ReadAgainKeeps, SelectKeeps, LockRowKeeps, ReadParentKeeps, StoreKeeps, PickRowKeeps,
     ApplyKeeps, EntryKeeps, PutKeeps, CommitMergeKeeps, RevertKeeps, RestoreKeeps,
     CommitRollbackKeeps DEF Step
<1>3. ASSUME NEW c \in Clients, Lose(c) PROVE PgInv'
  BY <1>3, LoseKeeps
<1>4. ASSUME NEW b \in Branches, CreateBranch(b) PROVE PgInv'
  <2>1. Cuts'
    BY <1>4 DEF CreateBranch, PgInv, Cuts, PgAssumption
  <2> QED
    BY <1>4, <2>1, SameRows, NoClient DEF CreateBranch
<1>5. ASSUME NEW b \in Branches, CloseBranch(b) PROVE PgInv'
  <2>1. Cuts'
    BY <1>5 DEF CloseBranch, PgInv, Cuts
  <2> QED
    BY <1>5, <2>1, SameRows, NoClient DEF CloseBranch
<1>6. CASE Fork
  BY <1>6, ForkKeeps
<1>7. CASE Tick
  <2>1. Cuts'
    BY <1>7 DEF Tick, PgInv, Cuts, PgAssumption
  <2> QED
    BY <1>7, <2>1, SameRows, NoClient DEF Tick
<1>8. CASE UNCHANGED vars
  <2>1. Cuts' /\ rows' = rows /\ UNCHANGED <<client, locks, loop>>
    BY <1>8 DEF vars, PgInv, Cuts, client, locks, loop
  <2> QED
    BY <2>1, SameRows, NoClient
<1> QED
  BY <1>1, <1>2, <1>3, <1>4, <1>5, <1>6, <1>7, <1>8 DEF Next

\* Everything has its type, and a client at a given point knows what it relies
\* on there: the row it read is still of that key and that version, the row it
\* locked is its key's.
THEOREM PgInvariant == Spec => []PgInv
<1>1. Init => PgInv
  BY InitKeeps, PgAssumption
<1>2. PgInv /\ [Next]_vars => PgInv'
  BY NextKeeps, PgAssumption
<1> QED
  BY <1>1, <1>2, PTL DEF Spec

\* The type invariant of the table, the branches and the clients.
THEOREM PgTypes == Spec => []TypeOK
<1>1. PgInv => TypeOK
  <2> SUFFICES ASSUME PgInv PROVE TypeOK
    OBVIOUS
  <2>1. \A i \in DOMAIN rows : rows[i] \in Row
    BY DEF PgInv, Table
  <2>2. \A c \in Clients : \A n \in DOMAIN stage[c].new : stage[c].new[n] \in Row
    BY DEF PgInv, Client, Stages
  <2> QED
    BY <2>1, <2>2 DEF TypeOK, PgInv, Frames, Cuts, Client
<1> QED
  BY <1>1, PgInvariant, PTL

-----------------------------------------------------------------------------
(* With tenants.                                                           *)

\* With tenants, the versions of a key on main are 1, 2, ... with no gap and no
\* repetition, whatever writes, outcomes, merges, forks and rollbacks come in
\* between: the constraint keeps versions apart, and what each transaction puts
\* in follows on rows that are never taken away.
THEOREM PgMainDense ==
  ASSUME Tenanted
  PROVE  Spec => []MainDense
<1>1. PgInv => MainDense
  <2> SUFFICES ASSUME PgInv, NEW k \in Keys, NEW i \in On(rows, Main, k)
               PROVE  /\ \A j \in On(rows, Main, k) : rows[i].ver = rows[j].ver => i = j
                      /\ rows[i].ver = 1 \/ \E j \in On(rows, Main, k) : rows[j].ver + 1 = rows[i].ver
    BY DEF MainDense
  <2>1. Apart(rows) /\ NoGap(Versions(rows, k)) /\ rows \in Seq(Row)
    BY DEF PgInv, Table, Sound, Unbroken
  <2>2. \A j \in On(rows, Main, k) : rows[j].ver \in Nat
    <3> SUFFICES ASSUME NEW j \in On(rows, Main, k) PROVE rows[j].ver \in Nat
      OBVIOUS
    <3>1. rows[j] \in Row
      BY <2>1 DEF On
    <3> QED
      BY <3>1 DEF Row
  <2>3. \A j \in On(rows, Main, k) : rows[i].ver = rows[j].ver => i = j
    BY <2>1 DEF Apart, On
  <2>4. rows[i].ver = 1 \/ rows[i].ver - 1 \in Versions(rows, k)
    BY <2>1 DEF NoGap, Versions
  <2>5. ASSUME rows[i].ver - 1 \in Versions(rows, k)
        PROVE  \E j \in On(rows, Main, k) : rows[j].ver + 1 = rows[i].ver
    <3>1. PICK j \in On(rows, Main, k) : rows[j].ver = rows[i].ver - 1
      BY <2>5 DEF Versions
    <3> QED
      BY <3>1, <2>2
  <2> QED
    BY <2>3, <2>4, <2>5
<1> QED
  BY <1>1, PgInvariant, PTL

\* With tenants, a row of a key no branch has written carries the credit of no
\* claim but its own.
THEOREM PgCreditIsEarned ==
  ASSUME Tenanted
  PROVE  Spec => []CreditIsEarned
<1>1. PgInv => CreditIsEarned
  BY DEF PgInv, Table, Sound
<1> QED
  BY <1>1, PgInvariant, PTL

\* A write that is acknowledged has put its row in: nobody else's step ends it.
LEMMA WroteInserts ==
  ASSUME PgInv, [Next]_vars, NEW c \in Clients, Wrote(c)
  PROVE  Inserted(c)
<1>1. pc[c] = "store" /\ pc'[c] = "idle" /\ rows' # rows /\ Frames /\ \A d \in Clients : Client(d)
  BY DEF Wrote, PgInv
<1>2. ASSUME NEW d \in Clients, Others(d) PROVE d = c
  BY <1>1, <1>2 DEF Others, Still
<1>3. ASSUME NEW d \in Clients, Begin(d) PROVE FALSE
  <2>1. \A point, j : Start(d, point, j) => rows' = rows
    BY DEF Start
  <2>2. rows' = rows
    BY <1>3, <2>1 DEF Begin, BeginWrite, BeginOutcome, BeginMerge, BeginRollback
  <2> QED
    BY <1>1, <2>2
<1>4. ASSUME NEW d \in Clients, Step(d) PROVE Inserted(c)
  <2>1. CASE Store(d)
    <3>1. Others(d)
      BY <1>1, <2>1, StoreInserts, Returned, Failed
    <3> QED
      BY <1>1, <1>2, <2>1, <3>1, StoreInserts
  <2>2. CASE Apply(d)
    BY <1>1, <1>2, <2>2, ApplyCounts, Returned
  <2>3. CASE CommitMerge(d)
    BY <1>1, <1>2, <2>3, Returned DEF CommitMerge
  <2>4. CASE CommitRollback(d)
    BY <1>1, <1>2, <2>4, Returned DEF CommitRollback
  <2>5. CASE \/ ReadAgain(d) \/ Select(d) \/ LockRow(d) \/ ReadParent(d) \/ PickRow(d)
             \/ Entry(d) \/ Put(d) \/ Revert(d) \/ Restore(d)
    BY <1>1, <2>5 DEF ReadAgain, Select, LockRow, ReadParent, PickRow, Entry, Put, Revert, Restore
  <2> QED
    BY <1>4, <2>1, <2>2, <2>3, <2>4, <2>5 DEF Step
<1>5. ASSUME NEW d \in Clients, Lose(d) PROVE FALSE
  BY <1>1, <1>5 DEF Lose
<1>6. ASSUME NEW b \in Branches, CreateBranch(b) \/ CloseBranch(b) PROVE FALSE
  BY <1>1, <1>6 DEF CreateBranch, CloseBranch
<1>7. CASE Fork
  BY <1>1, <1>7, ForkAdds DEF ForkBy, client
<1>8. CASE Tick \/ UNCHANGED vars
  BY <1>1, <1>8 DEF Tick, vars
<1> QED
  BY <1>3, <1>4, <1>5, <1>6, <1>7, <1>8 DEF Next

\* After a write to main its row is the only live one of the key.
LEMMA WroteAlone ==
  ASSUME Tenanted, PgInv, [Next]_vars, NEW c \in Clients, Wrote(c), job[c].branch = Main
  PROVE  /\ rows' \in Seq(Row)
         /\ Live(rows', Main, job[c].key) = {Len(rows')}
<1> DEFINE k == job[c].key
           row == Stated(job[c], cur[c])
           new == <<row>>
<1>1. /\ pc[c] = "store" /\ Inserted(c) /\ Writer(c) /\ rows \in Seq(Row)
      /\ NoGap(Versions(rows, k))
  BY WroteInserts DEF Wrote, PgInv, Client, Writing, Table, Sound, Unbroken, Writer, WriteJob
<1>2. /\ row \in Row /\ row.branch = Main /\ row.key = k /\ row.live
      /\ row.ver = NextVersion(rows, cur[c])
  BY <1>1, StatedRow
<1>3. /\ Extends(rows, rows', new) /\ ~Taken(rows, row)
      /\ \A i \in DOMAIN rows : rows'[i].live = (rows[i].live /\ i \notin StoreOld(c))
  BY <1>1, InsertedTable DEF Inserted
<1> HIDE DEF row
<1>4. new \in Seq(Row) /\ DOMAIN new = {1} /\ new[1] = row /\ Len(new) = 1
  BY <1>2
<1> HIDE DEF new
<1>5. /\ rows' \in Seq(Row) /\ Len(rows') = Len(rows) + 1
      /\ rows'[Len(rows')] = row /\ Len(rows') \in DOMAIN rows'
      /\ \A i \in DOMAIN rows' : i \in DOMAIN rows \/ i = Len(rows')
  <2>1. rows' \in Seq(Row) /\ Len(rows') = Len(rows) + 1 /\ rows'[Len(rows) + 1] = row
    BY <1>3, <1>4 DEF Extends
  <2> QED
    BY <1>1, <2>1
<1>6. Len(rows') \in Live(rows', Main, k)
  BY <1>2, <1>5 DEF Live, On
<1>7. ASSUME NEW i \in Live(rows', Main, k), i # Len(rows') PROVE FALSE
  <2>1. i \in DOMAIN rows
    BY <1>5, <1>7 DEF Live, On
  <2>2. i \in Live(rows, Main, k) /\ i \notin StoreOld(c)
    <3>1. rows'[i].branch = rows[i].branch /\ rows'[i].key = rows[i].key
      BY <1>3, <2>1 DEF Extends
    <3> QED
      BY <1>3, <2>1, <3>1 DEF Live, On
  <2>3. cur[c] = NoRow
    BY <1>1, <2>2 DEF StoreOld, Writer
  <2>4. 1 \in Versions(rows, k)
    BY <1>1, <2>2 DEF Versions, Live, NoGap
  <2>5. row.ver = 1
    BY <1>2, <2>3 DEF NextVersion
  <2> QED
    BY <1>2, <1>3, <2>4, <2>5 DEF Taken, Versions
<1> QED
  BY <1>5, <1>6, <1>7

\* With tenants, a write to main that is acknowledged is what the next reader
\* finds: either it has superseded every live row of the key, or it had found
\* none, and then the constraint lets its version 1 in only if there is none.
THEOREM PgWriteIsRead ==
  ASSUME Tenanted
  PROVE  Spec => WriteIsRead
<1>1. ASSUME PgInv, [Next]_vars, NEW c \in Clients, NEW k \in Keys, Wrote(c),
             job[c].branch = Main, job[c].key = k
      PROVE  Answers(Main, k)' = {Len(rows')}
  <2>1. rows' \in Seq(Row) /\ Live(rows', Main, k) = {Len(rows')}
    BY <1>1, WroteAlone
  <2>2. Newest(rows', {Len(rows')}) = {Len(rows')}
    <3>1. Len(rows') \in On(rows', Main, k)
      BY <2>1 DEF Live
    <3>2. rows'[Len(rows')] \in Row
      BY <2>1, <3>1 DEF On
    <3>3. rows'[Len(rows')].ver <= rows'[Len(rows')].ver
      BY <3>2 DEF Row
    <3> QED
      BY <3>3 DEF Newest
  <2>3. ~HasRecord(Main)'
    BY DEF HasRecord
  <2>4. Answers(Main, k)' = Newest(rows', Live(rows', Main, k))
    BY <2>3 DEF Answers, Newest, Live, On
  <2> QED
    BY <2>1, <2>2, <2>4
<1>2. PgInv /\ [Next]_vars =>
        \A c \in Clients, k \in Keys :
          Wrote(c) /\ job[c].branch = Main /\ job[c].key = k => Answers(Main, k)' = {Len(rows')}
  BY <1>1
<1> QED
  BY <1>2, PgInvariant, PTL DEF Spec, WriteIsRead

\* With tenants, a write through the engine that is acknowledged supersedes the
\* very row its author had read: versions of a key are never used twice, so the
\* version it states names that row and no other.
THEOREM PgReadWritesExtend ==
  ASSUME Tenanted
  PROVE  Spec => ReadWritesExtend
<1>1. ASSUME PgInv, [Next]_vars, NEW c \in Clients, Wrote(c), job[c].branch = Main, ~job[c].hot,
             job[c].base # NoRow
      PROVE  cur[c] = job[c].base
  <2> DEFINE k == job[c].key
  <2>1. /\ pc[c] = "store" /\ Writer(c) /\ rows \in Seq(Row) /\ Apart(rows)
        /\ NoGap(Versions(rows, k)) /\ ~Conflict(job[c], cur[c])
    BY <1>1, WroteInserts
       DEF Inserted, Wrote, PgInv, Client, Writing, Table, Sound, Unbroken, Writer, WriteJob
  <2>2. job[c].base \in On(rows, Main, k) /\ job[c].expect = rows[job[c].base].ver + 1
    BY <1>1, <2>1 DEF Writer
  <2>3. cur[c] \in On(rows, Main, k) \cup {NoRow}
    BY <1>1, <2>1 DEF Writer
  <2>4. \A i \in On(rows, Main, k) : rows[i].ver \in Nat
    <3> SUFFICES ASSUME NEW i \in On(rows, Main, k) PROVE rows[i].ver \in Nat
      OBVIOUS
    <3>1. rows[i] \in Row
      BY <2>1 DEF On
    <3> QED
      BY <3>1 DEF Row
  <2>5. rows[job[c].base].ver # 0
    <3>1. ASSUME rows[job[c].base].ver = 0 PROVE 0 - 1 \in Versions(rows, k)
      <4>1. 0 \in Versions(rows, k)
        BY <2>2, <3>1 DEF Versions
      <4>2. \A V : NoGap(V) /\ 0 \in V => 0 - 1 \in V
        <5> SUFFICES ASSUME NEW V, NoGap(V), 0 \in V PROVE 0 - 1 \in V
          OBVIOUS
        <5>1. 0 = 1 \/ 0 - 1 \in V
          BY Zenon DEF NoGap
        <5> QED
          BY <5>1
      <4> QED
        BY <2>1, <4>1, <4>2
    <3>2. \A v \in Versions(rows, k) : v \in Nat
      BY <2>4 DEF Versions
    <3> QED
      BY <3>1, <3>2
  <2>6. job[c].expect > 1 /\ job[c].expect = NextVersion(rows, cur[c])
    BY <2>1, <2>2, <2>4, <2>5 DEF Conflict
  <2>7. cur[c] # NoRow /\ rows[cur[c]].ver = rows[job[c].base].ver
    <3>1. cur[c] # NoRow
      BY <2>6 DEF NextVersion
    <3> QED
      BY <2>2, <2>3, <2>4, <2>6, <3>1 DEF NextVersion
  <2> QED
    BY <2>1, <2>2, <2>3, <2>7 DEF Apart, On
<1>2. PgInv /\ [Next]_vars =>
        \A c \in Clients :
          Wrote(c) /\ job[c].branch = Main /\ ~job[c].hot /\ job[c].base # NoRow =>
            cur[c] = job[c].base
  BY <1>1
<1> QED
  BY <1>2, PgInvariant, PTL DEF Spec, ReadWritesExtend

=============================================================================
