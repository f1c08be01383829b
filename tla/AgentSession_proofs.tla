------------------------- MODULE AgentSession_proofs -------------------------
(***************************************************************************)
(* For any agents, keys and claims, and for any number of attempts,        *)
(* sessions, failures and retries:                                         *)
(*                                                                         *)
(* The tracker and the reads of a session say the same.  A step of an      *)
(* outcome names what was read in its own attempt, at the version read     *)
(* last, and an outcome carries the covariates of no run but its own.      *)
(*                                                                         *)
(* In the table of a tenant, what a session has read is charged where it   *)
(* still holds.  A charge is put on a key once, by the outcome that still  *)
(* had the key to do; the copy it lands with is of the current version, or *)
(* is refused, and a write that leaves the claim as it was takes it along. *)
(***************************************************************************)
EXTENDS AgentSession, TLAPS

Steps ==
  UNION {[keys : {S}, versions : [S -> Nat], named : BOOLEAN] : S \in SUBSET Keys}

Trackers ==
  [seq : [Keys -> Nat], version : [Keys -> Nat], counter : Nat, boundary : Nat,
   attempts : Seq(Steps)]

ReadRecords == [key : Keys, version : Nat \ {0}, window : Nat \ {0}, run : Nat]

ChargeRecords == [agent : Agents, task : Nat, step : Nat]

ChargeBags == UNION {[S -> Nat \ {0}] : S \in SUBSET ChargeRecords}

Versions == [claim : Claims, by : Agents, charges : ChargeBags]

Writes == [kind : {"write"}, key : Keys, claim : Claims]

Outcomes == [kind : {"outcome"}, steps : Seq(Steps), cov : Nat, todo : SUBSET Keys]

Looks == [key : Keys, version : Nat \ {0}]

TypeOK ==
  /\ history \in [Keys -> Seq(Versions)]
  /\ tracker \in [Agents -> Trackers]
  /\ cov \in [Agents -> Nat]
  /\ pc \in [Agents -> {"idle", "store", "apply"}]
  /\ op \in [Agents -> {NoOp} \cup Writes \cup Outcomes]
  /\ \A a \in Agents : /\ pc[a] = "store" => op[a] \in Writes
                       /\ pc[a] = "apply" => op[a] \in Outcomes
  /\ look \in [Agents -> {NoLook} \cup Looks]
  /\ run \in [Agents -> Nat]
  /\ task \in [Agents -> Nat]
  /\ reads \in [Agents -> Seq(ReadRecords)]
  /\ raised \in [Agents -> Nat]

-----------------------------------------------------------------------------
(* The inductive invariant, part by part.                                  *)

\* An outcome has in hand a version of a key it has yet to do.
InHand ==
  \A a \in Agents : look[a] # NoLook =>
    /\ pc[a] = "apply" /\ look[a].key \in op[a].todo
    /\ look[a].version \in DOMAIN history[look[a].key]

\* The covariates are those of the run the agent is in.
CovOK(a) ==
  /\ cov[a] \in {0, run[a]}
  /\ pc[a] = "apply" => op[a].cov \in {0, run[a]}

\* What reads r have read of window n.
ReadIn(r, n) == {k \in Keys : \E i \in DOMAIN r : r[i].key = k /\ r[i].window = n}

\* v is the version of key k that reads r saw last, up to window n; 0 if none.
LastRead(r, k, n, v) ==
  \/ v = 0 /\ \A j \in DOMAIN r : ~(r[j].key = k /\ r[j].window <= n)
  \/ \E i \in DOMAIN r :
       /\ r[i].key = k /\ r[i].window <= n /\ r[i].version = v
       /\ \A j \in DOMAIN r : r[j].key = k /\ r[j].window <= n => j <= i

\* Step s, of window n, names what was read in it at the version read last.
StepOK(s, n, r) ==
  /\ ~s.named => s.keys = ReadIn(r, n)
  /\ ~Undated => \A k \in s.keys : LastRead(r, k, n, s.versions[k])

\* Tracker t tells the reads r apart by attempt.
TrackerOK(t, r) ==
  LET now == Len(t.attempts) + 1 IN
  /\ t.boundary <= t.counter
  /\ t.attempts = <<>> => t.boundary = 0
  /\ \A k \in Keys : t.seq[k] <= t.counter
  /\ \A k \in Keys : t.seq[k] > t.boundary <=> k \in ReadIn(r, now)
  /\ \A i \in DOMAIN r : r[i].window <= now
  /\ \A i, j \in DOMAIN r : i <= j => r[i].window <= r[j].window
  /\ \A n \in DOMAIN t.attempts : StepOK(t.attempts[n], n, r)
  /\ ~Undated => \A k \in Keys : LastRead(r, k, now, t.version[k])

OutcomeOK(o, r) == \A n \in DOMAIN o.steps : StepOK(o.steps[n], n, r)

WindowOK(a) ==
  /\ TrackerOK(tracker[a], reads[a])
  /\ pc[a] = "apply" => OutcomeOK(op[a], reads[a])

\* What was read is in the history.
KnownOK ==
  \A a \in Agents : \A i \in DOMAIN reads[a] :
    reads[a][i].version <= Len(history[reads[a][i].key])

\* A charge was made by an outcome of a session that is over, by one that
\* has failed since, or by one that is done with the key.
ChargeOK(k, x) ==
  LET a == x.agent IN
  /\ x.task <= task[a]
  /\ x.task = task[a] => raised[a] > 0 \/ (pc[a] = "apply" /\ k \notin op[a].todo)

ChargesOK ==
  \A k \in Keys : \A w \in DOMAIN history[k] :
    \A x \in DOMAIN history[k][w].charges : ChargeOK(k, x)

\* Versions v and later of h claim the same.
Held(h, v) == \A w \in v .. Len(h) : h[w].claim = h[v].claim

\* A key that an outcome is done with counts the steps that cite it.
ChargedOK(a) ==
  pc[a] = "apply" /\ raised[a] = 0 =>
    \A n \in DOMAIN op[a].steps : \A k \in op[a].steps[n].keys \ op[a].todo :
      LET v == op[a].steps[n].versions[k]
      IN  v # 0 /\ Held(history[k], v) =>
            Count(Charge(a, n), Last(history[k]).charges) = 1

SessionInv ==
  /\ TypeOK
  /\ InHand
  /\ \A a \in Agents : CovOK(a) /\ WindowOK(a)
  /\ KnownOK
  /\ ChargesOK
  /\ Checked /\ ~Undated => \A a \in Agents : ChargedOK(a)

-----------------------------------------------------------------------------
(* The values.                                                             *)

LEMMA CitedStep ==
  ASSUME NEW t \in Trackers, NEW S \in SUBSET Keys, NEW named \in BOOLEAN
  PROVE  /\ Cited(t, S, named) \in Steps
         /\ Cited(t, S, named).keys = S
         /\ Cited(t, S, named).named = named
         /\ \A k \in S : Cited(t, S, named).versions[k] = t.version[k]
<1>1. t.version \in [Keys -> Nat]
  BY DEF Trackers
<1>2. VersionsFor(t, S) \in [S -> Nat]
  BY <1>1 DEF VersionsFor
<1>3. Cited(t, S, named) \in [keys : {S}, versions : [S -> Nat], named : BOOLEAN]
  BY <1>2 DEF Cited
<1> QED
  BY <1>3 DEF Steps, Cited, VersionsFor

LEMMA StepFields ==
  ASSUME NEW s \in Steps
  PROVE  s.keys \in SUBSET Keys /\ s.named \in BOOLEAN /\ s.versions \in [s.keys -> Nat]
  BY DEF Steps

LEMMA FreshTracker == Fresh \in Trackers
  BY DEF Fresh, Trackers

LEMMA RecordedTracker ==
  ASSUME NEW t \in Trackers, NEW k \in Keys, NEW v \in Nat
  PROVE  /\ Recorded(t, k, v) \in Trackers
         /\ Recorded(t, k, v).seq = [t.seq EXCEPT ![k] = t.counter + 1]
         /\ Recorded(t, k, v).version = [t.version EXCEPT ![k] = v]
         /\ Recorded(t, k, v).counter = t.counter + 1
         /\ Recorded(t, k, v).boundary = t.boundary
         /\ Recorded(t, k, v).attempts = t.attempts
<1>1. t.counter + 1 \in Nat /\ [t.version EXCEPT ![k] = v] \in [Keys -> Nat]
  BY DEF Trackers
<1>2. [t.seq EXCEPT ![k] = t.counter + 1] \in [Keys -> Nat]
  BY <1>1 DEF Trackers
<1> DEFINE f == [t.seq EXCEPT ![k] = t.counter + 1]
           g == [t.version EXCEPT ![k] = v]
           n == t.counter + 1
<1>3. Recorded(t, k, v) = [t EXCEPT !.seq = f, !.version = g, !.counter = n]
  BY DEF Recorded, Trackers
<1> HIDE DEF f, g, n
<1> QED
  BY <1>1, <1>2, <1>3 DEF Trackers, f, g, n

LEMMA ClosedTracker ==
  ASSUME NEW t \in Trackers, NEW s \in Steps
  PROVE  /\ Closed(t, s) \in Trackers
         /\ Closed(t, s).seq = t.seq
         /\ Closed(t, s).version = t.version
         /\ Closed(t, s).counter = t.counter
         /\ Closed(t, s).boundary = t.counter
         /\ Closed(t, s).attempts = Append(t.attempts, s)
<1>1. t.counter \in Nat /\ Append(t.attempts, s) \in Seq(Steps)
  BY DEF Trackers
<1> DEFINE more == Append(t.attempts, s)
<1>2. Closed(t, s) = [t EXCEPT !.attempts = more, !.boundary = t.counter]
  BY DEF Closed
<1> HIDE DEF more
<1> QED
  BY <1>1, <1>2 DEF Trackers, more

\* What the charges of one step add.
LEMMA ChargesAdded ==
  ASSUME NEW B \in ChargeBags, NEW S \in SUBSET ChargeRecords
  PROVE  /\ B (+) SetToBag(S) \in ChargeBags
         /\ DOMAIN (B (+) SetToBag(S)) = (DOMAIN B) \cup S
         /\ \A x \in S : x \notin DOMAIN B => Count(x, B (+) SetToBag(S)) = 1
         /\ \A x : x \notin S => Count(x, B (+) SetToBag(S)) = Count(x, B)
<1>1. PICK D \in SUBSET ChargeRecords : B \in [D -> Nat \ {0}]
  BY DEF ChargeBags
<1>2. DOMAIN SetToBag(S) = S /\ \A x \in S : SetToBag(S)[x] = 1
  BY DEF SetToBag
<1> DEFINE C == B (+) SetToBag(S)
<1>3. C = [e \in D \cup S |-> (IF e \in D THEN B[e] ELSE 0) + (IF e \in S THEN SetToBag(S)[e] ELSE 0)]
  BY <1>1, <1>2 DEF (+)
<1>4. \A e \in D : B[e] \in Nat \ {0}
  BY <1>1
<1>5. \A e \in D \cup S : /\ C[e] \in Nat \ {0}
                          /\ e \notin S => C[e] = B[e]
                          /\ e \notin D => C[e] = 1
  <2> SUFFICES ASSUME NEW e \in D \cup S
               PROVE  /\ C[e] \in Nat \ {0}
                      /\ e \notin S => C[e] = B[e]
                      /\ e \notin D => C[e] = 1
    OBVIOUS
  <2>1. C[e] = (IF e \in D THEN B[e] ELSE 0) + (IF e \in S THEN SetToBag(S)[e] ELSE 0)
    BY <1>3
  <2> HIDE DEF C
  <2> QED
    BY <2>1, <1>2, <1>4
<1>6. DOMAIN C = D \cup S /\ DOMAIN B = D
  BY <1>1, <1>3
<1>7. C \in [D \cup S -> Nat \ {0}]
  BY <1>3, <1>5
<1>8. C \in ChargeBags
  BY <1>7 DEF ChargeBags
<1> HIDE DEF C
<1>9. \A x \in S : x \notin DOMAIN B => Count(x, C) = 1
  BY <1>5, <1>6 DEF Count, BagIn, BagToSet
<1>10. \A x : x \notin S => Count(x, C) = Count(x, B)
  BY <1>5, <1>6 DEF Count, BagIn, BagToSet
<1> QED
  BY <1>6, <1>8, <1>9, <1>10 DEF C

LEMMA LastVersion ==
  ASSUME NEW h \in Seq(Versions), h # <<>>
  PROVE  Last(h) \in Versions /\ Last(h) = h[Len(h)] /\ Len(h) \in DOMAIN h
  BY DEF Last

LEMMA ChargeRecord ==
  ASSUME TypeOK, NEW a \in Agents, pc[a] = "apply", NEW k, NEW w
  PROVE  /\ {Charge(a, n) : n \in Reached(a, k, w)} \in SUBSET ChargeRecords
         /\ \A n \in Nat : Charge(a, n) \in ChargeRecords
<1>1. op[a] \in Outcomes
  BY DEF TypeOK
<1>2. DOMAIN op[a].steps \subseteq Nat
  <2>1. op[a].steps \in Seq(Steps)
    BY <1>1 DEF Outcomes
  <2> QED
    BY <2>1
<1>3. \A n \in Nat : Charge(a, n) \in ChargeRecords
  BY DEF TypeOK, Charge, ChargeRecords
<1> QED
  BY <1>2, <1>3 DEF Reached

\* The version an outcome adds to a key.
LEMMA LandedVersion ==
  ASSUME TypeOK, NEW a \in Agents, pc[a] = "apply", NEW k \in Keys,
         NEW w \in DOMAIN history[k]
  PROVE  LET e == [history[k][w] EXCEPT !.charges = @ (+) Charges(a, k, w)]
         IN  /\ e \in Versions
             /\ e.claim = history[k][w].claim
             /\ e.charges = history[k][w].charges (+) Charges(a, k, w)
<1>1. history[k][w] \in Versions
  BY DEF TypeOK
<1>2. history[k][w].charges \in ChargeBags
  BY <1>1 DEF Versions
<1>3. history[k][w].charges (+) Charges(a, k, w) \in ChargeBags
  BY <1>2, ChargeRecord, ChargesAdded DEF Charges
<1> QED
  BY <1>1, <1>3 DEF Versions

-----------------------------------------------------------------------------
(* Type correctness.                                                       *)

\* The operation and the place of one agent change.
LEMMA OperationType ==
  ASSUME TypeOK, NEW a \in Agents, NEW p \in {"idle", "store", "apply"},
         NEW o \in {NoOp} \cup Writes \cup Outcomes,
         p = "store" => o \in Writes, p = "apply" => o \in Outcomes,
         pc' = [pc EXCEPT ![a] = p], op' = [op EXCEPT ![a] = o]
  PROVE  /\ pc' \in [Agents -> {"idle", "store", "apply"}]
         /\ op' \in [Agents -> {NoOp} \cup Writes \cup Outcomes]
         /\ \A b \in Agents : /\ pc'[b] = "store" => op'[b] \in Writes
                              /\ pc'[b] = "apply" => op'[b] \in Outcomes
  BY DEF TypeOK

LEMMA TypeInit == Init => TypeOK
  BY FreshTracker DEF Init, TypeOK

LEMMA ReadType ==
  ASSUME TypeOK, NEW a \in Agents, Read(a)
  PROVE  TypeOK'
<1>1. PICK k \in Keys : \E v \in DOMAIN history[k] :
        /\ \E dated \in {v} \cup (IF Undated /\ v # Len(history[k]) THEN {1} ELSE {}) :
             tracker' = [tracker EXCEPT ![a] = Recorded(tracker[a], k, dated)]
        /\ reads' = [reads EXCEPT ![a] = Append(@, [key |-> k, version |-> v,
                                            window |-> Window(a), run |-> run[a]])]
        /\ UNCHANGED <<history, pc, op, look, cov, run, task, raised>>
  BY DEF Read
<1>2. PICK v \in DOMAIN history[k] :
        /\ \E dated \in {v} \cup (IF Undated /\ v # Len(history[k]) THEN {1} ELSE {}) :
             tracker' = [tracker EXCEPT ![a] = Recorded(tracker[a], k, dated)]
        /\ reads' = [reads EXCEPT ![a] = Append(@, [key |-> k, version |-> v,
                                            window |-> Window(a), run |-> run[a]])]
        /\ UNCHANGED <<history, pc, op, look, cov, run, task, raised>>
  BY <1>1
<1>3. PICK dated \in Nat : tracker' = [tracker EXCEPT ![a] = Recorded(tracker[a], k, dated)]
  <2>1. history[k] \in Seq(Versions)
    BY DEF TypeOK
  <2>2. v \in Nat
    BY <2>1
  <2> QED
    BY <1>2, <2>2
<1>4. v \in Nat \ {0}
  <2>1. history[k] \in Seq(Versions)
    BY DEF TypeOK
  <2> QED
    BY <2>1
<1>5. tracker[a] \in Trackers /\ reads[a] \in Seq(ReadRecords) /\ run[a] \in Nat
  BY DEF TypeOK
<1>6. Recorded(tracker[a], k, dated) \in Trackers
  BY <1>5, RecordedTracker
<1>7. Window(a) \in Nat \ {0}
  BY <1>5 DEF Window, Trackers
<1> DEFINE rd == [key |-> k, version |-> v, window |-> Window(a), run |-> run[a]]
<1>8. rd \in ReadRecords
  BY <1>4, <1>5, <1>7 DEF ReadRecords
<1>9. reads' = [reads EXCEPT ![a] = Append(reads[a], rd)]
  BY <1>2
<1> HIDE DEF rd
<1>10. reads' \in [Agents -> Seq(ReadRecords)]
  <2>1. Append(reads[a], rd) \in Seq(ReadRecords)
    BY <1>5, <1>8
  <2> QED
    BY <2>1, <1>9 DEF TypeOK
<1>11. tracker' \in [Agents -> Trackers]
  BY <1>3, <1>6 DEF TypeOK
<1> QED
  BY <1>2, <1>10, <1>11 DEF TypeOK

LEMMA BeginWriteType ==
  ASSUME TypeOK, NEW a \in Agents, BeginWrite(a)
  PROVE  TypeOK'
<1>1. PICK k \in Keys, c \in Claims :
        /\ Goto(a, "store")
        /\ op' = [op EXCEPT ![a] = [kind |-> "write", key |-> k, claim |-> c]]
        /\ UNCHANGED <<history, look, session>>
  BY DEF BeginWrite
<1> DEFINE o == [kind |-> "write", key |-> k, claim |-> c]
<1>2. o \in Writes
  BY DEF Writes
<1>3. op' = [op EXCEPT ![a] = o] /\ pc' = [pc EXCEPT ![a] = "store"]
  BY <1>1 DEF Goto
<1> HIDE DEF o
<1>4. /\ pc' \in [Agents -> {"idle", "store", "apply"}]
      /\ op' \in [Agents -> {NoOp} \cup Writes \cup Outcomes]
      /\ \A b \in Agents : /\ pc'[b] = "store" => op'[b] \in Writes
                           /\ pc'[b] = "apply" => op'[b] \in Outcomes
  BY <1>2, <1>3, OperationType
<1> QED
  BY <1>1, <1>4 DEF TypeOK, session

LEMMA ReturnType ==
  ASSUME TypeOK, NEW a \in Agents, Return(a)
  PROVE  /\ pc' \in [Agents -> {"idle", "store", "apply"}]
         /\ op' \in [Agents -> {NoOp} \cup Writes \cup Outcomes]
         /\ \A b \in Agents : /\ pc'[b] = "store" => op'[b] \in Writes
                              /\ pc'[b] = "apply" => op'[b] \in Outcomes
  BY OperationType DEF Return, Goto

\* The charges B that a write of claim c takes over from h: those of the claim
\* it restates, which the table never fails to find.
Written(h, c, B) ==
  \/ B = EmptyBag /\ (Checked => ~(h # <<>> /\ Last(h).claim = c))
  \/ h # <<>> /\ Last(h).claim = c /\ B = Last(h).charges

LEMMA WrittenVersion ==
  ASSUME NEW h \in Seq(Versions), NEW c \in Claims, NEW a \in Agents, NEW B, Written(h, c, B)
  PROVE  [claim |-> c, by |-> a, charges |-> B] \in Versions
<1>1. EmptyBag \in ChargeBags
  <2>1. EmptyBag \in [{} -> Nat \ {0}]
    BY DEF EmptyBag, SetToBag
  <2> QED
    BY <2>1 DEF ChargeBags
<1>2. h # <<>> => Last(h).charges \in ChargeBags
  BY LastVersion DEF Versions
<1> QED
  BY <1>1, <1>2 DEF Written, Versions

LEMMA StoreIs ==
  ASSUME TypeOK, NEW a \in Agents, Store(a)
  PROVE  /\ pc[a] = "store" /\ Return(a) /\ UNCHANGED <<look, session>>
         /\ \E k \in Keys, c \in Claims : \E B :
              /\ Written(history[k], c, B)
              /\ history' = [history EXCEPT ![k] =
                   Append(history[k], [claim |-> c, by |-> a, charges |-> B])]
<1> DEFINE k == op[a].key
           c == op[a].claim
           bare == [claim |-> c, by |-> a, charges |-> EmptyBag]
<1>1. op[a] \in Writes
  BY DEF Store, TypeOK
<1>2. k \in Keys /\ c \in Claims
  BY <1>1 DEF Writes
<1>3. \/ /\ Absent(a, k) \/ ~Claimed(k, c)
         /\ history' = [history EXCEPT ![k] = Append(history[k], bare)]
      \/ /\ Claimed(k, c)
         /\ history' = [history EXCEPT ![k] =
              Append(history[k], [bare EXCEPT !.charges = Last(history[k]).charges])]
  BY DEF Store
<1>4. CASE /\ Absent(a, k) \/ ~Claimed(k, c)
           /\ history' = [history EXCEPT ![k] = Append(history[k], bare)]
  <2>1. Written(history[k], c, EmptyBag)
    BY <1>4 DEF Written, Absent, Claimed
  <2> QED
    BY <1>2, <1>4, <2>1 DEF Store
<1>5. CASE /\ Claimed(k, c)
           /\ history' = [history EXCEPT ![k] =
                Append(history[k], [bare EXCEPT !.charges = Last(history[k]).charges])]
  <2>1. Written(history[k], c, Last(history[k]).charges)
    BY <1>5 DEF Written, Claimed
  <2>2. [bare EXCEPT !.charges = Last(history[k]).charges]
          = [claim |-> c, by |-> a, charges |-> Last(history[k]).charges]
    OBVIOUS
  <2> QED
    BY <1>2, <1>5, <2>1, <2>2 DEF Store
<1> QED
  BY <1>3, <1>4, <1>5

LEMMA StoreType ==
  ASSUME TypeOK, NEW a \in Agents, Store(a)
  PROVE  TypeOK'
<1>1. PICK k \in Keys, c \in Claims :
        \E B : /\ Written(history[k], c, B)
               /\ history' = [history EXCEPT ![k] =
                    Append(history[k], [claim |-> c, by |-> a, charges |-> B])]
  BY StoreIs
<1>2. PICK B : /\ Written(history[k], c, B)
               /\ history' = [history EXCEPT ![k] =
                    Append(history[k], [claim |-> c, by |-> a, charges |-> B])]
  BY <1>1
<1> DEFINE e == [claim |-> c, by |-> a, charges |-> B]
<1>3. history[k] \in Seq(Versions)
  BY DEF TypeOK
<1>4. e \in Versions
  BY <1>2, <1>3, WrittenVersion
<1>5. history' = [history EXCEPT ![k] = Append(history[k], e)]
  BY <1>2
<1> HIDE DEF e
<1>6. history' \in [Keys -> Seq(Versions)]
  <2>1. Append(history[k], e) \in Seq(Versions)
    BY <1>3, <1>4
  <2> QED
    BY <1>5, <2>1 DEF TypeOK
<1>7. Return(a) /\ UNCHANGED <<look, session>>
  BY StoreIs
<1> QED
  BY <1>6, <1>7, ReturnType DEF TypeOK, session

LEMMA BeginRunType ==
  ASSUME TypeOK, NEW a \in Agents, BeginRun(a) \/ Observe(a)
  PROVE  TypeOK'
<1>1. run[a] + 1 \in Nat /\ run[a] \in Nat
  BY DEF TypeOK
<1>2. run' \in [Agents -> Nat] /\ cov' \in [Agents -> Nat]
  <2>1. CASE BeginRun(a)
    BY <1>1, <2>1 DEF BeginRun, TypeOK
  <2>2. CASE Observe(a)
    BY <1>1, <2>2 DEF Observe, TypeOK
  <2> QED
    BY <2>1, <2>2
<1>3. UNCHANGED <<history, pc, op, look, tracker, task, reads, raised>>
  BY DEF BeginRun, Observe
<1> QED
  BY <1>2, <1>3 DEF TypeOK

LEMMA AttemptFailedType ==
  ASSUME TypeOK, NEW a \in Agents, AttemptFailed(a)
  PROVE  TypeOK'
<1>1. PICK S \in SUBSET Keys, named \in BOOLEAN :
        /\ tracker' = [tracker EXCEPT ![a] = Closed(tracker[a], Cited(tracker[a], S, named))]
        /\ UNCHANGED <<history, pc, op, look, cov, run, task, reads, raised>>
  BY DEF AttemptFailed
<1>2. tracker[a] \in Trackers
  BY DEF TypeOK
<1>3. Closed(tracker[a], Cited(tracker[a], S, named)) \in Trackers
  BY <1>2, CitedStep, ClosedTracker
<1> QED
  BY <1>1, <1>3 DEF TypeOK

\* The outcome an agent begins.
LEMMA BeginOutcomeIs ==
  ASSUME TypeOK, NEW a \in Agents, BeginOutcome(a)
  PROVE  \E S \in SUBSET Keys, named \in BOOLEAN, o \in Outcomes :
           /\ pc[a] = "idle"
           /\ named \/ S = TerminalKeys(tracker[a])
           /\ o.steps = Append(tracker[a].attempts, Cited(tracker[a], S, named))
           /\ o.cov = cov[a]
           /\ o.todo = UNION {o.steps[n].keys : n \in DOMAIN o.steps}
           /\ pc' = [pc EXCEPT ![a] = "apply"] /\ op' = [op EXCEPT ![a] = o]
           /\ UNCHANGED <<history, look, session>>
<1> DEFINE T(S, named) == Append(tracker[a].attempts, Cited(tracker[a], S, named))
           O(S, named) == [kind |-> "outcome", steps |-> T(S, named), cov |-> cov[a],
                           todo |-> UNION {T(S, named)[n].keys : n \in DOMAIN T(S, named)}]
<1>1. PICK S \in SUBSET Keys, named \in BOOLEAN :
        /\ pc[a] = "idle"
        /\ named \/ S = TerminalKeys(tracker[a])
        /\ pc' = [pc EXCEPT ![a] = "apply"]
        /\ op' = [op EXCEPT ![a] = O(S, named)]
        /\ UNCHANGED <<history, look, session>>
  BY DEF BeginOutcome, Goto, Active
<1>2. tracker[a] \in Trackers /\ cov[a] \in Nat
  BY DEF TypeOK
<1>3. tracker[a].attempts \in Seq(Steps)
  BY <1>2 DEF Trackers
<1>4. Cited(tracker[a], S, named) \in Steps
  BY <1>2, CitedStep
<1>5. T(S, named) \in Seq(Steps)
  BY <1>3, <1>4
<1> HIDE DEF T
<1>6. UNION {T(S, named)[n].keys : n \in DOMAIN T(S, named)} \in SUBSET Keys
  <2>1. \A n \in DOMAIN T(S, named) : T(S, named)[n].keys \in SUBSET Keys
    BY <1>5, StepFields
  <2> QED
    BY <2>1
<1>7. O(S, named) \in Outcomes
  BY <1>2, <1>5, <1>6 DEF Outcomes
<1> QED
  BY <1>1, <1>7 DEF T

LEMMA BeginOutcomeType ==
  ASSUME TypeOK, NEW a \in Agents, BeginOutcome(a)
  PROVE  TypeOK'
<1>1. PICK o \in Outcomes :
        /\ pc' = [pc EXCEPT ![a] = "apply"] /\ op' = [op EXCEPT ![a] = o]
        /\ UNCHANGED <<history, look, session>>
  BY BeginOutcomeIs
<1> QED
  BY <1>1, OperationType DEF TypeOK, session

\* A key is struck off an outcome.
LEMMA DoneIs ==
  ASSUME TypeOK, NEW a \in Agents, pc[a] = "apply", NEW k, Done(a, k)
  PROVE  /\ op' = [op EXCEPT ![a] = op'[a]]
         /\ op'[a] \in Outcomes
         /\ op'[a].steps = op[a].steps /\ op'[a].cov = op[a].cov
         /\ op'[a].todo = op[a].todo \ {k}
<1>1. op[a] \in Outcomes
  BY DEF TypeOK
<1>2. op' = [op EXCEPT ![a] = [op[a] EXCEPT !.todo = op[a].todo \ {k}]]
  BY DEF Done
<1>3. op'[a] = [op[a] EXCEPT !.todo = op[a].todo \ {k}]
  BY <1>2 DEF TypeOK
<1>4. op[a].todo \ {k} \in SUBSET Keys
  BY <1>1 DEF Outcomes
<1>5. /\ op'[a] \in Outcomes
      /\ op'[a].steps = op[a].steps /\ op'[a].cov = op[a].cov
      /\ op'[a].todo = op[a].todo \ {k}
  BY <1>1, <1>3, <1>4 DEF Outcomes
<1> QED
  BY <1>2, <1>3, <1>5

\* What an outcome looks at, and what it strikes off.
LEMMA LookIs ==
  ASSUME TypeOK, NEW a \in Agents, Look(a)
  PROVE  /\ pc[a] = "apply" /\ look[a] = NoLook /\ UNCHANGED <<history, pc, session>>
         /\ \E k \in op[a].todo :
              /\ k \in Keys
              /\ \/ /\ Absent(a, k) \/ Reached(a, k, Len(history[k])) = {}
                    /\ Done(a, k) /\ look' = look
                 \/ /\ history[k] # <<>> /\ op' = op
                    /\ look' = [look EXCEPT ![a] = [key |-> k, version |-> Len(history[k])]]
<1>1. pc[a] = "apply" /\ op[a] \in Outcomes
  BY DEF Look, TypeOK
<1>2. op[a].todo \subseteq Keys
  BY <1>1 DEF Outcomes
<1> QED
  BY <1>1, <1>2 DEF Look

\* Where an outcome lands.
LEMMA LandIs ==
  ASSUME TypeOK, InHand, NEW a \in Agents, Land(a)
  PROVE  /\ pc[a] = "apply" /\ UNCHANGED <<pc, session>>
         /\ look' = [look EXCEPT ![a] = NoLook]
         /\ \E k \in op[a].todo : \E w \in DOMAIN history[k] :
              /\ k \in Keys /\ Done(a, k)
              /\ Checked => w = Len(history[k])
              /\ history' = [history EXCEPT ![k] =
                   Append(history[k], [history[k][w] EXCEPT !.charges = @ (+) Charges(a, k, w)])]
<1> DEFINE k == look[a].key
           w == look[a].version
<1>1. pc[a] = "apply" /\ op[a] \in Outcomes /\ look[a] # NoLook
  BY DEF Land, TypeOK
<1>2. op[a].todo \subseteq Keys
  BY <1>1 DEF Outcomes
<1>3. k \in op[a].todo /\ w \in DOMAIN history[k]
  BY <1>1 DEF InHand
<1>4. /\ Done(a, k) /\ UNCHANGED <<pc, session>>
      /\ look' = [look EXCEPT ![a] = NoLook]
      /\ Checked => w = Len(history[k])
  BY DEF Land
<1>5. history' = [history EXCEPT ![k] =
        Append(history[k], [history[k][w] EXCEPT !.charges = @ (+) Charges(a, k, w)])]
  BY DEF Land, Charged
<1> HIDE DEF k, w
<1> QED
  BY <1>1, <1>2, <1>3, <1>4, <1>5

\* Either way the outcome goes on.
LEMMA OutcomeGoesOn ==
  ASSUME TypeOK, NEW a \in Agents, Look(a) \/ Land(a)
  PROVE  /\ pc[a] = "apply" /\ UNCHANGED <<pc, session>>
         /\ op' = [op EXCEPT ![a] = op'[a]]
         /\ op'[a] \in Outcomes
         /\ op'[a].steps = op[a].steps /\ op'[a].cov = op[a].cov
         /\ op'[a].todo \subseteq op[a].todo
         /\ \E l \in {NoLook} \cup Looks : look' = [look EXCEPT ![a] = l]
<1>1. CASE Look(a)
  <2>1. /\ pc[a] = "apply" /\ look[a] = NoLook /\ UNCHANGED <<history, pc, session>>
    BY <1>1, LookIs
  <2>2. op[a] \in Outcomes
    BY <2>1 DEF TypeOK
  <2>3. PICK k \in op[a].todo :
          /\ k \in Keys
          /\ \/ Done(a, k) /\ look' = look
             \/ /\ history[k] # <<>> /\ op' = op
                /\ look' = [look EXCEPT ![a] = [key |-> k, version |-> Len(history[k])]]
    BY <1>1, LookIs
  <2>4. CASE Done(a, k) /\ look' = look
    <3>1. look' = [look EXCEPT ![a] = NoLook]
      BY <2>1, <2>4 DEF TypeOK
    <3> QED
      BY <2>1, <2>4, <3>1, DoneIs
  <2>5. CASE /\ history[k] # <<>> /\ op' = op
             /\ look' = [look EXCEPT ![a] = [key |-> k, version |-> Len(history[k])]]
    <3>1. Len(history[k]) \in Nat \ {0}
      BY <2>3, <2>5 DEF TypeOK
    <3>2. [key |-> k, version |-> Len(history[k])] \in Looks
      BY <2>3, <3>1 DEF Looks
    <3>3. op' = [op EXCEPT ![a] = op'[a]]
      BY <2>5 DEF TypeOK
    <3> QED
      BY <2>1, <2>2, <2>5, <3>2, <3>3
  <2> QED
    BY <2>3, <2>4, <2>5
<1>2. CASE Land(a)
  <2>1. /\ pc[a] = "apply" /\ UNCHANGED <<pc, session>> /\ Done(a, look[a].key)
        /\ look' = [look EXCEPT ![a] = NoLook]
    BY <1>2 DEF Land
  <2> QED
    BY <2>1, DoneIs
<1> QED
  BY <1>1, <1>2

LEMMA OutcomeType ==
  ASSUME TypeOK, InHand, NEW a \in Agents, Look(a) \/ Land(a)
  PROVE  TypeOK'
<1>1. /\ pc[a] = "apply" /\ UNCHANGED <<pc, session>>
      /\ op' = [op EXCEPT ![a] = op'[a]] /\ op'[a] \in Outcomes
      /\ \E l \in {NoLook} \cup Looks : look' = [look EXCEPT ![a] = l]
  BY OutcomeGoesOn
<1>2. op' \in [Agents -> {NoOp} \cup Writes \cup Outcomes]
  <2> DEFINE o == op'[a]
  <2>1. op' = [op EXCEPT ![a] = o] /\ o \in Outcomes
    BY <1>1
  <2> HIDE DEF o
  <2> QED
    BY <2>1 DEF TypeOK
<1>3. \A b \in Agents : /\ pc'[b] = "store" => op'[b] \in Writes
                        /\ pc'[b] = "apply" => op'[b] \in Outcomes
  <2> SUFFICES ASSUME NEW b \in Agents
               PROVE  /\ pc'[b] = "store" => op'[b] \in Writes
                      /\ pc'[b] = "apply" => op'[b] \in Outcomes
    OBVIOUS
  <2>1. b # a => op'[b] = op[b]
    BY <1>1 DEF TypeOK
  <2> QED
    BY <1>1, <2>1 DEF TypeOK
<1>4. look' \in [Agents -> {NoLook} \cup Looks]
  BY <1>1 DEF TypeOK
<1>5. history' \in [Keys -> Seq(Versions)]
  <2>1. CASE Look(a)
    BY <2>1, LookIs DEF TypeOK
  <2>2. CASE Land(a)
    <3>1. PICK k \in op[a].todo : \E w \in DOMAIN history[k] :
            /\ k \in Keys
            /\ history' = [history EXCEPT ![k] =
                 Append(history[k], [history[k][w] EXCEPT !.charges = @ (+) Charges(a, k, w)])]
      BY <2>2, LandIs
    <3>2. PICK w \in DOMAIN history[k] :
            history' = [history EXCEPT ![k] =
              Append(history[k], [history[k][w] EXCEPT !.charges = @ (+) Charges(a, k, w)])]
      BY <3>1
    <3> DEFINE e == [history[k][w] EXCEPT !.charges = @ (+) Charges(a, k, w)]
    <3>3. k \in Keys
      BY <3>1
    <3>4. e \in Versions
      BY <1>1, <3>3, LandedVersion
    <3>5. history' = [history EXCEPT ![k] = Append(history[k], e)]
      BY <3>2
    <3> HIDE DEF e
    <3>6. Append(history[k], e) \in Seq(Versions)
      BY <3>3, <3>4 DEF TypeOK
    <3> QED
      BY <3>5, <3>6 DEF TypeOK
  <2> QED
    BY <2>1, <2>2
<1> QED
  BY <1>1, <1>2, <1>3, <1>4, <1>5 DEF TypeOK, session

LEMMA ClearType ==
  ASSUME TypeOK, NEW a \in Agents, Clear(a)
  PROVE  /\ tracker' \in [Agents -> Trackers]
         /\ task' \in [Agents -> Nat]
         /\ reads' \in [Agents -> Seq(ReadRecords)]
         /\ raised' \in [Agents -> Nat]
         /\ run' \in [Agents -> Nat]
<1>1. task[a] + 1 \in Nat
  BY DEF TypeOK
<1>2. <<>> \in Seq(ReadRecords)
  OBVIOUS
<1> QED
  BY <1>1, <1>2, FreshTracker DEF TypeOK, Clear, Cleared

LEMMA EndType ==
  ASSUME TypeOK, NEW a \in Agents, Raise(a) \/ FinishOutcome(a) \/ ClearReadLog(a)
  PROVE  TypeOK'
<1>1. CASE Raise(a)
  <2>1. raised[a] + 1 \in Nat
    BY DEF TypeOK
  <2>2. raised' \in [Agents -> Nat]
    BY <1>1, <2>1 DEF Raise, TypeOK
  <2> QED
    BY <1>1, <2>2, ReturnType DEF Raise, TypeOK
<1>2. CASE FinishOutcome(a)
  <2>1. cov' \in [Agents -> Nat]
    BY <1>2 DEF FinishOutcome, TypeOK
  <2> QED
    BY <1>2, <2>1, ReturnType, ClearType DEF FinishOutcome, TypeOK
<1>3. CASE ClearReadLog(a)
  BY <1>3, ClearType DEF ClearReadLog, TypeOK
<1> QED
  BY <1>1, <1>2, <1>3

LEMMA TypeStep ==
  ASSUME TypeOK, InHand, [Next]_vars
  PROVE  TypeOK'
<1>1. CASE UNCHANGED vars
  BY <1>1 DEF vars, session, TypeOK
<1>2. ASSUME NEW a \in Agents, BeginWrite(a) \/ Store(a) \/ Outcome(a)
      PROVE  TypeOK'
  BY <1>2, BeginWriteType, StoreType, BeginOutcomeType, OutcomeType, EndType DEF Outcome
<1>3. ASSUME NEW a \in Actors,
             \/ Read(a) \/ BeginRun(a) \/ Observe(a) \/ AttemptFailed(a)
             \/ Raise(a) \/ ClearReadLog(a)
      PROVE  TypeOK'
  <2>1. a \in Agents
    BY SessionAssumption
  <2> QED
    BY <1>3, <2>1, ReadType, BeginRunType, AttemptFailedType, EndType
<1> QED
  BY <1>1, <1>2, <1>3 DEF Next

-----------------------------------------------------------------------------
(* The steps of one agent.                                                 *)

Same(a) ==
  /\ tracker'[a] = tracker[a] /\ reads'[a] = reads[a]
  /\ cov'[a] = cov[a] /\ run'[a] = run[a]
  /\ pc'[a] = pc[a] /\ op'[a] = op[a] /\ look'[a] = look[a]
  /\ task'[a] = task[a] /\ raised'[a] = raised[a]

Moves(a) ==
  \/ BeginWrite(a) \/ Store(a) \/ Read(a) \/ BeginRun(a) \/ Observe(a)
  \/ AttemptFailed(a) \/ BeginOutcome(a) \/ Look(a) \/ Land(a) \/ Raise(a)
  \/ FinishOutcome(a) \/ ClearReadLog(a)

\* A step of one agent leaves the session of another alone.
LEMMA OtherAgents ==
  ASSUME TypeOK, NEW b \in Agents, Moves(b), NEW a \in Agents, a # b
  PROVE  Same(a)
<1>1. CASE BeginWrite(b)
  BY <1>1 DEF BeginWrite, Goto, session, Same, TypeOK
<1>2. CASE Store(b)
  BY <1>2 DEF Store, Return, Goto, session, Same, TypeOK
<1>3. CASE Read(b)
  BY <1>3 DEF Read, Same, TypeOK
<1>4. CASE BeginRun(b) \/ Observe(b)
  BY <1>4 DEF BeginRun, Observe, Same, TypeOK
<1>5. CASE AttemptFailed(b)
  BY <1>5 DEF AttemptFailed, Same, TypeOK
<1>6. CASE BeginOutcome(b)
  <2>1. PICK o : /\ pc' = [pc EXCEPT ![b] = "apply"] /\ op' = [op EXCEPT ![b] = o]
                 /\ UNCHANGED <<history, look, session>>
    BY <1>6, BeginOutcomeIs
  <2> QED
    BY <2>1 DEF session, Same, TypeOK
<1>7. CASE Look(b) \/ Land(b)
  <2>1. /\ op' = [op EXCEPT ![b] = op'[b]] /\ UNCHANGED <<pc, session>>
        /\ \E l : look' = [look EXCEPT ![b] = l]
    BY <1>7, OutcomeGoesOn
  <2>2. op'[a] = op[a] /\ look'[a] = look[a]
    BY <2>1 DEF TypeOK
  <2> QED
    BY <2>1, <2>2 DEF session, Same
<1>8. CASE Raise(b)
  BY <1>8 DEF Raise, Return, Goto, Same, TypeOK
<1>9. CASE FinishOutcome(b) \/ ClearReadLog(b)
  BY <1>9 DEF FinishOutcome, ClearReadLog, Clear, Return, Goto, Same, TypeOK
<1> QED
  BY <1>1, <1>2, <1>3, <1>4, <1>5, <1>6, <1>7, <1>8, <1>9 DEF Moves

LEMMA SomeoneMoves ==
  ASSUME [Next]_vars
  PROVE  UNCHANGED vars \/ \E b \in Agents : Moves(b)
<1>1. ASSUME NEW a \in Actors,
             \/ Read(a) \/ BeginRun(a) \/ Observe(a) \/ AttemptFailed(a)
             \/ Raise(a) \/ ClearReadLog(a)
      PROVE  a \in Agents /\ Moves(a)
  BY <1>1, SessionAssumption DEF Moves
<1>2. ASSUME NEW a \in Agents, BeginWrite(a) \/ Store(a) \/ Outcome(a)
      PROVE  Moves(a)
  BY <1>2 DEF Moves, Outcome
<1> QED
  BY <1>1, <1>2 DEF Next

LEMMA LocalStep ==
  ASSUME TypeOK, [Next]_vars, NEW a \in Agents
  PROVE  Same(a) \/ Moves(a)
<1>1. CASE UNCHANGED vars
  BY <1>1 DEF vars, session, Same
<1> QED
  BY <1>1, SomeoneMoves, OtherAgents

LEMMA CovStep ==
  ASSUME TypeOK, [Next]_vars, NEW a \in Agents, CovOK(a)
  PROVE  CovOK(a)'
<1>1. CASE Same(a)
  BY <1>1 DEF Same, CovOK
<1>2. CASE BeginWrite(a)
  BY <1>2 DEF BeginWrite, Goto, session, CovOK, TypeOK
<1>3. CASE Store(a)
  BY <1>3 DEF Store, Return, Goto, session, CovOK, TypeOK
<1>4. CASE Read(a)
  BY <1>4 DEF Read, CovOK
<1>5. CASE BeginRun(a)
  <2>1. pc[a] = "idle" /\ pc' = pc /\ cov'[a] = 0
    BY <1>5 DEF BeginRun, Active, TypeOK
  <2> QED
    BY <2>1 DEF CovOK
<1>6. CASE Observe(a)
  <2>1. pc[a] = "idle" /\ pc' = pc /\ cov'[a] = run[a] /\ run' = run
    BY <1>6 DEF Observe, Active, TypeOK
  <2> QED
    BY <2>1 DEF CovOK
<1>7. CASE AttemptFailed(a)
  BY <1>7 DEF AttemptFailed, CovOK
<1>8. CASE BeginOutcome(a)
  <2>1. PICK o \in Outcomes : /\ o.cov = cov[a]
                              /\ op' = [op EXCEPT ![a] = o]
                              /\ UNCHANGED <<history, look, session>>
    BY <1>8, BeginOutcomeIs
  <2>2. op'[a] = o
    BY <2>1 DEF TypeOK
  <2> QED
    BY <2>1, <2>2 DEF session, CovOK
<1>9. CASE Look(a) \/ Land(a)
  <2>1. op'[a].cov = op[a].cov /\ UNCHANGED <<pc, session>>
    BY <1>9, OutcomeGoesOn
  <2> QED
    BY <2>1 DEF session, CovOK
<1>10. CASE Raise(a)
  BY <1>10 DEF Raise, Return, Goto, CovOK, TypeOK
<1>11. CASE FinishOutcome(a) \/ ClearReadLog(a)
  <2>1. run' = run /\ cov'[a] \in {0, cov[a]} /\ pc'[a] = "idle"
    BY <1>11 DEF FinishOutcome, ClearReadLog, Clear, Return, Goto, Active, TypeOK
  <2> QED
    BY <2>1 DEF CovOK
<1> QED
  BY <1>1, <1>2, <1>3, <1>4, <1>5, <1>6, <1>7, <1>8, <1>9, <1>10, <1>11, LocalStep DEF Moves

-----------------------------------------------------------------------------
(* The reads of a session.                                                 *)

LEMMA AppendedRead ==
  ASSUME NEW r \in Seq(ReadRecords), NEW rd \in ReadRecords
  PROVE  LET r2 == Append(r, rd) IN
         /\ Len(r) \in Nat
         /\ DOMAIN r = 1 .. Len(r) /\ DOMAIN r2 = 1 .. Len(r) + 1
         /\ r2[Len(r) + 1] = rd
         /\ \A i \in 1 .. Len(r) : r2[i] = r[i]
  OBVIOUS

LEMMA AppendedReadIn ==
  ASSUME NEW r \in Seq(ReadRecords), NEW rd \in ReadRecords, NEW n
  PROVE  ReadIn(Append(r, rd), n) = ReadIn(r, n) \cup (IF rd.window = n THEN {rd.key} ELSE {})
<1> DEFINE r2 == Append(r, rd)
<1>1. /\ Len(r) \in Nat
      /\ DOMAIN r = 1 .. Len(r) /\ DOMAIN r2 = 1 .. Len(r) + 1
      /\ r2[Len(r) + 1] = rd
      /\ \A i \in 1 .. Len(r) : r2[i] = r[i]
  BY AppendedRead
<1>2. rd.key \in Keys
  BY DEF ReadRecords
<1> HIDE DEF r2
<1>3. 1 .. Len(r) + 1 = (1 .. Len(r)) \cup {Len(r) + 1}
  BY <1>1
<1>4. ReadIn(r2, n) = ReadIn(r, n) \cup (IF rd.window = n THEN {rd.key} ELSE {})
  BY <1>1, <1>2, <1>3 DEF ReadIn
<1> QED
  BY <1>4 DEF r2

\* A read of another key, or of a later window.
LEMMA LastReadKept ==
  ASSUME NEW r \in Seq(ReadRecords), NEW rd \in ReadRecords, NEW k, NEW n, NEW v,
         LastRead(r, k, n, v), ~(rd.key = k /\ rd.window <= n)
  PROVE  LastRead(Append(r, rd), k, n, v)
<1> DEFINE r2 == Append(r, rd)
<1>1. /\ Len(r) \in Nat
      /\ DOMAIN r = 1 .. Len(r) /\ DOMAIN r2 = 1 .. Len(r) + 1
      /\ r2[Len(r) + 1] = rd
      /\ \A i \in 1 .. Len(r) : r2[i] = r[i]
  BY AppendedRead
<1> HIDE DEF r2
<1>2. 1 .. Len(r) + 1 = (1 .. Len(r)) \cup {Len(r) + 1}
  BY <1>1
<1>3. \A j \in DOMAIN r2 : r2[j].key = k /\ r2[j].window <= n => j \in DOMAIN r /\ r2[j] = r[j]
  BY <1>1, <1>2
<1>4. DOMAIN r \subseteq DOMAIN r2
  BY <1>1, <1>2
<1>5. LastRead(r2, k, n, v)
  BY <1>1, <1>3, <1>4 DEF LastRead
<1> QED
  BY <1>5 DEF r2

LEMMA LastReadNew ==
  ASSUME NEW r \in Seq(ReadRecords), NEW rd \in ReadRecords, NEW n, rd.window <= n
  PROVE  LastRead(Append(r, rd), rd.key, n, rd.version)
<1> DEFINE r2 == Append(r, rd)
<1>1. /\ Len(r) \in Nat
      /\ DOMAIN r = 1 .. Len(r) /\ DOMAIN r2 = 1 .. Len(r) + 1
      /\ r2[Len(r) + 1] = rd
      /\ \A i \in 1 .. Len(r) : r2[i] = r[i]
  BY AppendedRead
<1> HIDE DEF r2
<1>2. Len(r) + 1 \in DOMAIN r2 /\ \A j \in DOMAIN r2 : j <= Len(r) + 1
  BY <1>1
<1>3. LastRead(r2, rd.key, n, rd.version)
  BY <1>1, <1>2 DEF LastRead
<1> QED
  BY <1>3 DEF r2

LEMMA FreshOK == TrackerOK(Fresh, <<>>)
<1>1. Len(<<>>) = 0 /\ DOMAIN <<>> = {} /\ 0 \in Int
  OBVIOUS
<1>2. /\ Fresh.attempts = <<>> /\ Fresh.boundary = 0 /\ Fresh.counter = 0
      /\ \A k \in Keys : Fresh.seq[k] = 0 /\ Fresh.version[k] = 0
  BY DEF Fresh
<1>3. \A k \in Keys : k \notin ReadIn(<<>>, Len(Fresh.attempts) + 1)
  BY <1>1 DEF ReadIn
<1>4. \A k \in Keys : LastRead(<<>>, k, Len(Fresh.attempts) + 1, Fresh.version[k])
  BY <1>1, <1>2 DEF LastRead
<1>5. DOMAIN Fresh.attempts = {}
  BY <1>1, <1>2
<1> QED
  BY <1>1, <1>2, <1>3, <1>4, <1>5 DEF TrackerOK

\* A read of a later window leaves a step as it was.
LEMMA StepKept ==
  ASSUME NEW r \in Seq(ReadRecords), NEW rd \in ReadRecords, NEW s \in Steps, NEW n \in Nat,
         StepOK(s, n, r), n < rd.window
  PROVE  StepOK(s, n, Append(r, rd))
<1>1. rd.window \in Nat /\ rd.window # n /\ ~(rd.window <= n)
  BY DEF ReadRecords
<1>2. ReadIn(Append(r, rd), n) = ReadIn(r, n)
  <2>1. ReadIn(Append(r, rd), n) = ReadIn(r, n) \cup {}
    BY <1>1, AppendedReadIn
  <2> QED
    BY <2>1
<1>3. ~Undated => \A k \in s.keys : LastRead(Append(r, rd), k, n, s.versions[k])
  BY <1>1, LastReadKept DEF StepOK
<1> QED
  BY <1>2, <1>3 DEF StepOK

LEMMA RecordedOK ==
  ASSUME NEW t \in Trackers, NEW r \in Seq(ReadRecords), TrackerOK(t, r),
         NEW rd \in ReadRecords, rd.window = Len(t.attempts) + 1,
         NEW d \in Nat, ~Undated => d = rd.version
  PROVE  TrackerOK(Recorded(t, rd.key, d), Append(r, rd))
<1> DEFINE u == Recorded(t, rd.key, d)
           r2 == Append(r, rd)
           now == Len(t.attempts) + 1
<1>1. /\ u \in Trackers
      /\ u.seq = [t.seq EXCEPT ![rd.key] = t.counter + 1]
      /\ u.version = [t.version EXCEPT ![rd.key] = d]
      /\ u.counter = t.counter + 1
      /\ u.boundary = t.boundary
      /\ u.attempts = t.attempts
  <2>1. rd.key \in Keys
    BY DEF ReadRecords
  <2> QED
    BY <2>1, RecordedTracker
<1>2. /\ Len(r) \in Nat
      /\ DOMAIN r = 1 .. Len(r) /\ DOMAIN r2 = 1 .. Len(r) + 1
      /\ r2[Len(r) + 1] = rd
      /\ \A i \in 1 .. Len(r) : r2[i] = r[i]
  BY AppendedRead
<1>3. /\ t.seq \in [Keys -> Nat] /\ t.version \in [Keys -> Nat]
      /\ t.counter \in Nat /\ t.boundary \in Nat /\ t.attempts \in Seq(Steps)
      /\ rd.key \in Keys
  BY DEF Trackers, ReadRecords
<1>4. now \in Nat /\ now = Len(t.attempts) + 1
  BY <1>3
<1>5. \A k \in Keys : k \in ReadIn(r2, now) <=> (k \in ReadIn(r, now) \/ k = rd.key)
  BY AppendedReadIn
<1>6. ~Undated => \A k \in Keys : LastRead(r2, k, now, u.version[k])
  <2> SUFFICES ASSUME ~Undated, NEW k \in Keys PROVE LastRead(r2, k, now, u.version[k])
    OBVIOUS
  <2>1. CASE k = rd.key
    <3>1. u.version[k] = rd.version
      BY <1>1, <1>3, <2>1
    <3>2. rd.window <= now
      BY <1>4
    <3> QED
      BY <2>1, <3>1, <3>2, LastReadNew
  <2>2. CASE k # rd.key
    <3>1. u.version[k] = t.version[k]
      BY <1>1, <1>3, <2>2
    <3>2. LastRead(r, k, now, t.version[k])
      BY DEF TrackerOK
    <3> QED
      BY <2>2, <3>1, <3>2, LastReadKept
  <2> QED
    BY <2>1, <2>2
<1>7. \A n \in DOMAIN t.attempts : StepOK(t.attempts[n], n, r2)
  <2> SUFFICES ASSUME NEW n \in DOMAIN t.attempts PROVE StepOK(t.attempts[n], n, r2)
    OBVIOUS
  <2>1. n \in Nat /\ n < rd.window /\ t.attempts[n] \in Steps
    BY <1>3
  <2>2. StepOK(t.attempts[n], n, r)
    BY DEF TrackerOK
  <2> QED
    BY <2>1, <2>2, StepKept
<1> HIDE DEF u, r2, now
<1>8. /\ t.boundary <= t.counter
      /\ t.attempts = <<>> => t.boundary = 0
      /\ \A k \in Keys : t.seq[k] <= t.counter
      /\ \A k \in Keys : t.seq[k] > t.boundary <=> k \in ReadIn(r, now)
      /\ \A i \in DOMAIN r : r[i].window <= now
      /\ \A i, j \in DOMAIN r : i <= j => r[i].window <= r[j].window
  BY DEF TrackerOK, now
<1>9. u.boundary <= u.counter /\ (u.attempts = <<>> => u.boundary = 0)
  BY <1>1, <1>3, <1>8
<1>10. \A k \in Keys : u.seq[k] = IF k = rd.key THEN t.counter + 1 ELSE t.seq[k]
  BY <1>1, <1>3
<1>11. \A k \in Keys : t.seq[k] \in Nat
  BY <1>3
<1>12. \A k \in Keys : u.seq[k] <= u.counter
  BY <1>1, <1>3, <1>8, <1>10, <1>11
<1>13. \A k \in Keys : u.seq[k] > u.boundary <=> k \in ReadIn(r2, now)
  BY <1>1, <1>3, <1>5, <1>8, <1>10, <1>11
<1>14. \A i \in DOMAIN r2 : \/ i \in DOMAIN r /\ r2[i] = r[i]
                            \/ i = Len(r) + 1 /\ r2[i] = rd
  BY <1>2
<1>15. rd.window = now /\ now <= now
  BY <1>4
<1>16. \A i \in DOMAIN r2 : r2[i].window <= now
  BY <1>8, <1>14, <1>15
<1>17. \A i, j \in DOMAIN r2 : i <= j => r2[i].window <= r2[j].window
  <2> SUFFICES ASSUME NEW i \in DOMAIN r2, NEW j \in DOMAIN r2, i <= j
               PROVE  r2[i].window <= r2[j].window
    OBVIOUS
  <2>1. CASE j = Len(r) + 1 /\ r2[j] = rd
    BY <1>15, <1>16, <2>1
  <2>2. CASE j \in DOMAIN r /\ r2[j] = r[j]
    <3>1. i \in DOMAIN r /\ r2[i] = r[i]
      BY <1>2, <2>2
    <3> QED
      BY <1>8, <2>2, <3>1
  <2> QED
    BY <1>14, <2>1, <2>2
<1> QED
  BY <1>1, <1>4, <1>6, <1>7, <1>9, <1>12, <1>13, <1>16, <1>17 DEF TrackerOK, u, r2, now

\* The window in progress is a step of its own.
LEMMA CitedOK ==
  ASSUME NEW t \in Trackers, NEW r \in Seq(ReadRecords), TrackerOK(t, r),
         NEW S \in SUBSET Keys, NEW named \in BOOLEAN,
         named \/ S = KeysSince(t, t.boundary)
  PROVE  StepOK(Cited(t, S, named), Len(t.attempts) + 1, r)
<1>1. KeysSince(t, t.boundary) = ReadIn(r, Len(t.attempts) + 1)
  BY DEF KeysSince, TrackerOK, ReadIn
<1>2. ~Undated => \A k \in S : LastRead(r, k, Len(t.attempts) + 1, Cited(t, S, named).versions[k])
  BY CitedStep DEF TrackerOK
<1> QED
  BY <1>1, <1>2, CitedStep DEF StepOK

LEMMA TerminalIsWindow ==
  ASSUME NEW t \in Trackers, NEW r, TrackerOK(t, r)
  PROVE  TerminalKeys(t) = KeysSince(t, t.boundary)
  BY DEF TerminalKeys, TrackerOK

\* A session at the end of a window has the steps it had, and one more.
LEMMA StepsOK ==
  ASSUME NEW t \in Trackers, NEW r \in Seq(ReadRecords), TrackerOK(t, r),
         NEW s \in Steps, StepOK(s, Len(t.attempts) + 1, r)
  PROVE  LET steps == Append(t.attempts, s) IN
         /\ Len(steps) = Len(t.attempts) + 1
         /\ \A n \in DOMAIN steps : StepOK(steps[n], n, r)
<1>1. t.attempts \in Seq(Steps)
  BY DEF Trackers
<1> DEFINE steps == Append(t.attempts, s)
<1>2. /\ Len(steps) = Len(t.attempts) + 1
      /\ \A n \in DOMAIN steps : \/ n \in DOMAIN t.attempts /\ steps[n] = t.attempts[n]
                                 \/ n = Len(t.attempts) + 1 /\ steps[n] = s
  BY <1>1
<1> HIDE DEF steps
<1>3. \A n \in DOMAIN steps : StepOK(steps[n], n, r)
  BY <1>2 DEF TrackerOK
<1> QED
  BY <1>2, <1>3 DEF steps

LEMMA ClosedOK ==
  ASSUME NEW t \in Trackers, NEW r \in Seq(ReadRecords), TrackerOK(t, r),
         NEW s \in Steps, StepOK(s, Len(t.attempts) + 1, r)
  PROVE  TrackerOK(Closed(t, s), r)
<1> DEFINE u == Closed(t, s)
           now == Len(t.attempts) + 1
<1>1. /\ u \in Trackers
      /\ u.seq = t.seq /\ u.version = t.version /\ u.counter = t.counter
      /\ u.boundary = t.counter
      /\ u.attempts = Append(t.attempts, s)
  BY ClosedTracker
<1>2. Len(u.attempts) = now /\ \A n \in DOMAIN u.attempts : StepOK(u.attempts[n], n, r)
  BY <1>1, StepsOK
<1>3. /\ t.seq \in [Keys -> Nat] /\ t.counter \in Nat /\ t.attempts \in Seq(Steps)
  BY DEF Trackers
<1>4. now \in Nat /\ now >= 1
  BY <1>3
<1>5. \A i \in DOMAIN r : r[i].window \in Nat
  <2>1. \A i \in DOMAIN r : r[i] \in ReadRecords
    OBVIOUS
  <2> QED
    BY <2>1 DEF ReadRecords
<1> HIDE DEF u
<1>6. /\ \A k \in Keys : t.seq[k] <= t.counter
      /\ \A i \in DOMAIN r : r[i].window <= now
      /\ \A i, j \in DOMAIN r : i <= j => r[i].window <= r[j].window
      /\ ~Undated => \A k \in Keys : LastRead(r, k, now, t.version[k])
  BY DEF TrackerOK
<1> HIDE DEF now
<1>7. u.attempts # <<>>
  <2>1. Len(<<>>) = 0
    OBVIOUS
  <2> QED
    BY <1>2, <1>4, <2>1
<1>8. \A k \in Keys : k \notin ReadIn(r, now + 1)
  <2>1. \A i \in DOMAIN r : r[i].window # now + 1
    BY <1>4, <1>5, <1>6
  <2> QED
    BY <2>1 DEF ReadIn
<1>9. \A k \in Keys : ~(t.seq[k] > t.counter)
  BY <1>3, <1>6
<1>10. \A i \in DOMAIN r : r[i].window <= now + 1
  BY <1>4, <1>5, <1>6
<1>11. ~Undated => \A k \in Keys : LastRead(r, k, now + 1, t.version[k])
  <2>1. \A i \in DOMAIN r : r[i].window <= now /\ r[i].window <= now + 1
    BY <1>6, <1>10
  <2> QED
    BY <1>6, <2>1 DEF LastRead
<1>12. u.boundary <= u.counter
  BY <1>1, <1>3
<1>13. \A k \in Keys : u.seq[k] > u.boundary <=> k \in ReadIn(r, Len(u.attempts) + 1)
  BY <1>1, <1>2, <1>8, <1>9
<1>14. /\ u.attempts = <<>> => u.boundary = 0
       /\ \A k \in Keys : u.seq[k] <= u.counter
       /\ \A i, j \in DOMAIN r : i <= j => r[i].window <= r[j].window
       /\ \A i \in DOMAIN r : r[i].window <= Len(u.attempts) + 1
       /\ ~Undated => \A k \in Keys : LastRead(r, k, Len(u.attempts) + 1, u.version[k])
  BY <1>1, <1>2, <1>6, <1>7, <1>10, <1>11
<1> QED
  BY <1>2, <1>12, <1>13, <1>14, Zenon DEF TrackerOK, u

LEMMA WindowStep ==
  ASSUME TypeOK, [Next]_vars, NEW a \in Agents, WindowOK(a)
  PROVE  WindowOK(a)'
<1>1. tracker[a] \in Trackers /\ reads[a] \in Seq(ReadRecords) /\ TrackerOK(tracker[a], reads[a])
  BY DEF TypeOK, WindowOK
<1>2. CASE Same(a)
  BY <1>2 DEF Same, WindowOK
<1>3. CASE BeginWrite(a) \/ BeginRun(a) \/ Observe(a)
  <2>1. /\ tracker' = tracker /\ reads' = reads
        /\ pc'[a] # "apply" \/ (pc'[a] = pc[a] /\ op' = op)
    BY <1>3 DEF BeginWrite, BeginRun, Observe, Goto, session, TypeOK
  <2> QED
    BY <2>1 DEF WindowOK
<1>4. CASE Store(a) \/ Raise(a)
  <2>1. tracker' = tracker /\ reads' = reads /\ pc'[a] = "idle"
    BY <1>4 DEF Store, Raise, Return, Goto, session, TypeOK
  <2> QED
    BY <2>1 DEF WindowOK
<1>5. CASE Read(a)
  <2>1. PICK k \in Keys : \E v \in DOMAIN history[k] :
          /\ \E dated \in {v} \cup (IF Undated /\ v # Len(history[k]) THEN {1} ELSE {}) :
               tracker' = [tracker EXCEPT ![a] = Recorded(tracker[a], k, dated)]
          /\ reads' = [reads EXCEPT ![a] = Append(@, [key |-> k, version |-> v,
                                              window |-> Window(a), run |-> run[a]])]
    BY <1>5 DEF Read
  <2>2. PICK v \in DOMAIN history[k] :
          /\ \E dated \in {v} \cup (IF Undated /\ v # Len(history[k]) THEN {1} ELSE {}) :
               tracker' = [tracker EXCEPT ![a] = Recorded(tracker[a], k, dated)]
          /\ reads' = [reads EXCEPT ![a] = Append(@, [key |-> k, version |-> v,
                                              window |-> Window(a), run |-> run[a]])]
    BY <2>1
  <2>3. v \in Nat \ {0}
    <3>1. history[k] \in Seq(Versions)
      BY DEF TypeOK
    <3> QED
      BY <3>1
  <2>4. PICK d \in Nat : /\ ~Undated => d = v
                         /\ tracker' = [tracker EXCEPT ![a] = Recorded(tracker[a], k, d)]
    BY <2>2, <2>3
  <2> DEFINE rd == [key |-> k, version |-> v, window |-> Window(a), run |-> run[a]]
  <2>5. rd \in ReadRecords /\ rd.window = Len(tracker[a].attempts) + 1
    <3>1. run[a] \in Nat
      BY DEF TypeOK
    <3>2. Window(a) \in Nat \ {0}
      BY <1>1 DEF Window, Trackers
    <3> QED
      BY <2>3, <3>1, <3>2 DEF ReadRecords, Window
  <2>6. rd.key = k /\ rd.version = v
    OBVIOUS
  <2>7. reads'[a] = Append(reads[a], rd)
    BY <2>2 DEF TypeOK
  <2>8. tracker'[a] = Recorded(tracker[a], k, d)
    BY <2>4 DEF TypeOK
  <2> HIDE DEF rd
  <2>9. TrackerOK(Recorded(tracker[a], k, d), Append(reads[a], rd))
    BY <1>1, <2>4, <2>5, <2>6, RecordedOK
  <2>10. pc'[a] = "idle"
    BY <1>5 DEF Read, Active
  <2> QED
    BY <2>7, <2>8, <2>9, <2>10 DEF WindowOK
<1>6. CASE AttemptFailed(a)
  <2>1. PICK S \in SUBSET Keys, named \in BOOLEAN :
          /\ named \/ S = KeysSince(tracker[a], tracker[a].boundary)
          /\ tracker' = [tracker EXCEPT ![a] = Closed(tracker[a], Cited(tracker[a], S, named))]
          /\ pc[a] = "idle"
          /\ UNCHANGED <<history, pc, op, look, cov, run, task, reads, raised>>
    BY <1>6 DEF AttemptFailed, Active
  <2>2. tracker'[a] = Closed(tracker[a], Cited(tracker[a], S, named))
    BY <2>1 DEF TypeOK
  <2>3. StepOK(Cited(tracker[a], S, named), Len(tracker[a].attempts) + 1, reads[a])
    BY <1>1, <2>1, CitedOK
  <2>4. Cited(tracker[a], S, named) \in Steps
    BY <1>1, CitedStep
  <2>5. TrackerOK(tracker'[a], reads[a])
    BY <1>1, <2>2, <2>3, <2>4, ClosedOK
  <2> QED
    BY <2>1, <2>5 DEF WindowOK
<1>7. CASE BeginOutcome(a)
  <2>1. PICK S \in SUBSET Keys, named \in BOOLEAN, o \in Outcomes :
          /\ named \/ S = TerminalKeys(tracker[a])
          /\ o.steps = Append(tracker[a].attempts, Cited(tracker[a], S, named))
          /\ op' = [op EXCEPT ![a] = o]
          /\ UNCHANGED <<history, look, session>>
    BY <1>7, BeginOutcomeIs
  <2>2. op'[a] = o
    BY <2>1 DEF TypeOK
  <2>3. named \/ S = KeysSince(tracker[a], tracker[a].boundary)
    BY <1>1, <2>1, TerminalIsWindow
  <2>4. StepOK(Cited(tracker[a], S, named), Len(tracker[a].attempts) + 1, reads[a])
    BY <1>1, <2>3, CitedOK
  <2>5. Cited(tracker[a], S, named) \in Steps
    BY <1>1, CitedStep
  <2>6. \A n \in DOMAIN o.steps : StepOK(o.steps[n], n, reads[a])
    BY <1>1, <2>1, <2>4, <2>5, StepsOK
  <2> QED
    BY <1>1, <2>1, <2>2, <2>6 DEF session, WindowOK, OutcomeOK
<1>8. CASE Look(a) \/ Land(a)
  <2>1. op'[a].steps = op[a].steps /\ UNCHANGED <<pc, session>>
    BY <1>8, OutcomeGoesOn
  <2> QED
    BY <2>1 DEF session, WindowOK, OutcomeOK
<1>9. CASE FinishOutcome(a) \/ ClearReadLog(a)
  <2>1. tracker'[a] = Fresh /\ reads'[a] = <<>> /\ pc'[a] = "idle"
    BY <1>9 DEF FinishOutcome, ClearReadLog, Clear, Cleared, Return, Goto, Active, TypeOK
  <2> QED
    BY <2>1, FreshOK DEF WindowOK
<1> QED
  BY <1>2, <1>3, <1>4, <1>5, <1>6, <1>7, <1>8, <1>9, LocalStep DEF Moves

-----------------------------------------------------------------------------
(* The history of a key.                                                   *)

\* What a step does to the history of a key: nothing, a write or a charge.
LEMMA HistoryStep ==
  ASSUME TypeOK, InHand, [Next]_vars, NEW k \in Keys
  PROVE  \/ history'[k] = history[k]
         \/ \E b \in Agents, c \in Claims : \E B :
              /\ Written(history[k], c, B)
              /\ history'[k] = Append(history[k], [claim |-> c, by |-> b, charges |-> B])
         \/ \E b \in Agents, w \in DOMAIN history[k] :
              /\ Land(b) /\ Done(b, k) /\ k \in op[b].todo
              /\ Checked => w = Len(history[k])
              /\ history'[k] = Append(history[k],
                   [history[k][w] EXCEPT !.charges = @ (+) Charges(b, k, w)])
<1>1. CASE history' = history
  BY <1>1
<1>2. ASSUME NEW b \in Agents, Store(b)
      PROVE  \/ history'[k] = history[k]
             \/ \E c \in Claims : \E B :
                  /\ Written(history[k], c, B)
                  /\ history'[k] = Append(history[k], [claim |-> c, by |-> b, charges |-> B])
  <2>1. PICK j \in Keys, c \in Claims :
          \E B : /\ Written(history[j], c, B)
                 /\ history' = [history EXCEPT ![j] =
                      Append(history[j], [claim |-> c, by |-> b, charges |-> B])]
    BY <1>2, StoreIs
  <2>2. PICK B : /\ Written(history[j], c, B)
                 /\ history' = [history EXCEPT ![j] =
                      Append(history[j], [claim |-> c, by |-> b, charges |-> B])]
    BY <2>1
  <2> QED
    BY <2>2 DEF TypeOK
<1>3. ASSUME NEW b \in Agents, Land(b)
      PROVE  \/ history'[k] = history[k]
             \/ \E w \in DOMAIN history[k] :
                  /\ Done(b, k) /\ k \in op[b].todo
                  /\ Checked => w = Len(history[k])
                  /\ history'[k] = Append(history[k],
                       [history[k][w] EXCEPT !.charges = @ (+) Charges(b, k, w)])
  <2>1. PICK j \in op[b].todo : \E w \in DOMAIN history[j] :
          /\ j \in Keys /\ Done(b, j)
          /\ Checked => w = Len(history[j])
          /\ history' = [history EXCEPT ![j] =
               Append(history[j], [history[j][w] EXCEPT !.charges = @ (+) Charges(b, j, w)])]
    BY <1>3, LandIs
  <2>2. PICK w \in DOMAIN history[j] :
          /\ j \in Keys /\ Done(b, j)
          /\ Checked => w = Len(history[j])
          /\ history' = [history EXCEPT ![j] =
               Append(history[j], [history[j][w] EXCEPT !.charges = @ (+) Charges(b, j, w)])]
    BY <2>1
  <2> DEFINE e == [history[j][w] EXCEPT !.charges = @ (+) Charges(b, j, w)]
  <2>3. history' = [history EXCEPT ![j] = Append(history[j], e)]
    BY <2>2
  <2> HIDE DEF e
  <2>4. j # k => history'[k] = history[k]
    BY <2>3 DEF TypeOK
  <2>5. history'[j] = Append(history[j], e)
    BY <2>2, <2>3 DEF TypeOK
  <2> QED
    BY <2>2, <2>4, <2>5 DEF e
<1>4. CASE UNCHANGED vars
  BY <1>4 DEF vars
<1>5. ASSUME NEW b \in Agents, Moves(b), ~Store(b), ~Land(b)
      PROVE  history' = history
  BY <1>5, BeginOutcomeIs
     DEF Moves, BeginWrite, Read, BeginRun, Observe, AttemptFailed, Look, Raise,
         FinishOutcome, ClearReadLog
<1> QED
  BY <1>1, <1>2, <1>3, <1>4, <1>5, SomeoneMoves

LEMMA HistoryGrows ==
  ASSUME TypeOK, InHand, [Next]_vars, NEW k \in Keys
  PROVE  /\ Len(history[k]) <= Len(history'[k])
         /\ \A w \in DOMAIN history[k] : w \in DOMAIN history'[k] /\ history'[k][w] = history[k][w]
<1>1. history[k] \in Seq(Versions)
  BY DEF TypeOK
<1>2. history'[k] = history[k] \/ \E e : history'[k] = Append(history[k], e)
  BY HistoryStep
<1> QED
  BY <1>1, <1>2

\* What is in hand is let go of before the outcome ends.
LEMMA InHandStep ==
  ASSUME TypeOK, InHand, [Next]_vars
  PROVE  InHand'
<1> SUFFICES ASSUME NEW a \in Agents, look'[a] # NoLook
             PROVE  /\ pc'[a] = "apply" /\ look'[a].key \in op'[a].todo
                    /\ look'[a].version \in DOMAIN history'[look'[a].key]
  BY DEF InHand
<1>1. ASSUME look'[a] = look[a], pc'[a] = pc[a], op'[a] = op[a]
      PROVE  /\ pc'[a] = "apply" /\ look'[a].key \in op'[a].todo
             /\ look'[a].version \in DOMAIN history'[look'[a].key]
  <2>1. look[a] \in Looks
    BY <1>1 DEF TypeOK
  <2>2. look[a].key \in Keys
    BY <2>1 DEF Looks
  <2> QED
    BY <1>1, <2>2, HistoryGrows DEF InHand
<1>2. CASE Same(a)
  BY <1>1, <1>2 DEF Same
<1>3. CASE \/ BeginWrite(a) \/ Store(a) \/ Read(a) \/ BeginRun(a) \/ Observe(a)
           \/ AttemptFailed(a) \/ BeginOutcome(a) \/ ClearReadLog(a)
  <2>1. pc[a] # "apply" /\ look' = look
    BY <1>3, BeginOutcomeIs DEF BeginWrite, Store, Read, BeginRun, Observe, AttemptFailed,
                                ClearReadLog, Active
  <2> QED
    BY <2>1 DEF InHand
<1>4. CASE Raise(a) \/ Land(a)
  BY <1>4 DEF Raise, Land, TypeOK
<1>5. CASE FinishOutcome(a)
  BY <1>5 DEF FinishOutcome, InHand
<1>6. CASE Look(a)
  <2>1. /\ pc[a] = "apply" /\ look[a] = NoLook /\ UNCHANGED <<history, pc, session>>
    BY <1>6, LookIs
  <2>2. PICK k \in op[a].todo :
          /\ k \in Keys
          /\ \/ look' = look
             \/ /\ history[k] # <<>> /\ op' = op
                /\ look' = [look EXCEPT ![a] = [key |-> k, version |-> Len(history[k])]]
    BY <1>6, LookIs
  <2>3. look'[a] = [key |-> k, version |-> Len(history[k])] /\ history[k] # <<>> /\ op' = op
    BY <2>1, <2>2 DEF TypeOK
  <2>4. Len(history[k]) \in DOMAIN history[k]
    BY <2>2, <2>3, LastVersion DEF TypeOK
  <2> QED
    BY <2>1, <2>2, <2>3, <2>4
<1> QED
  BY <1>2, <1>3, <1>4, <1>5, <1>6, LocalStep DEF Moves

LEMMA KnownStep ==
  ASSUME TypeOK, InHand, [Next]_vars, KnownOK
  PROVE  KnownOK'
<1> SUFFICES ASSUME NEW a \in Agents, NEW i \in DOMAIN reads'[a]
             PROVE  reads'[a][i].version <= Len(history'[reads'[a][i].key])
  BY DEF KnownOK
<1>1. reads[a] \in Seq(ReadRecords) /\ reads'[a] \in Seq(ReadRecords)
  BY TypeStep DEF TypeOK
<1>2. \A k \in Keys : Len(history[k]) \in Nat /\ Len(history'[k]) \in Nat
  BY TypeStep DEF TypeOK
<1>3. reads'[a][i] \in ReadRecords
  BY <1>1
<1>4. reads'[a][i].version \in Nat /\ reads'[a][i].key \in Keys
  BY <1>3 DEF ReadRecords
<1>5. CASE i \in DOMAIN reads[a] /\ reads'[a][i] = reads[a][i]
  <2>1. reads'[a][i].version <= Len(history[reads'[a][i].key])
    BY <1>5 DEF KnownOK
  <2> QED
    BY <1>2, <1>4, <2>1, HistoryGrows
<1>6. CASE Read(a)
  <2>1. PICK k \in Keys : \E v \in DOMAIN history[k] :
          /\ reads' = [reads EXCEPT ![a] = Append(@, [key |-> k, version |-> v,
                                              window |-> Window(a), run |-> run[a]])]
          /\ UNCHANGED history
    BY <1>6 DEF Read
  <2>2. PICK v \in DOMAIN history[k] :
          /\ reads' = [reads EXCEPT ![a] = Append(@, [key |-> k, version |-> v,
                                              window |-> Window(a), run |-> run[a]])]
          /\ UNCHANGED history
    BY <2>1
  <2> DEFINE rd == [key |-> k, version |-> v, window |-> Window(a), run |-> run[a]]
  <2>3. reads'[a] = Append(reads[a], rd)
    BY <2>2 DEF TypeOK
  <2>4. rd.key = k /\ rd.version = v
    OBVIOUS
  <2> HIDE DEF rd
  <2>5. \/ i \in DOMAIN reads[a] /\ reads'[a][i] = reads[a][i]
        \/ reads'[a][i] = rd
    BY <1>1, <2>3
  <2>6. v <= Len(history[k])
    <3>1. history[k] \in Seq(Versions)
      BY DEF TypeOK
    <3> QED
      BY <3>1
  <2> QED
    BY <1>5, <2>2, <2>4, <2>5, <2>6
<1>7. CASE ~Read(a)
  <2>1. reads'[a] = reads[a] \/ reads'[a] = <<>>
    <3>1. CASE Same(a)
      BY <3>1 DEF Same
    <3>2. CASE Moves(a)
      BY <1>7, <3>2, BeginOutcomeIs, OutcomeGoesOn
         DEF Moves, BeginWrite, Store, BeginRun, Observe, AttemptFailed, Raise,
             FinishOutcome, ClearReadLog, Clear, session, TypeOK
    <3> QED
      BY <3>1, <3>2, LocalStep
  <2> QED
    BY <1>5, <2>1
<1> QED
  BY <1>6, <1>7

-----------------------------------------------------------------------------
(* The charges.                                                            *)

\* What counts for a key goes on counting.
LEMMA ChargeKept ==
  ASSUME TypeOK, InHand, [Next]_vars, NEW k \in Keys, NEW x \in ChargeRecords, ChargeOK(k, x)
  PROVE  ChargeOK(k, x)'
<1> DEFINE a == x.agent
<1>1. a \in Agents /\ x.task \in Nat
  BY DEF ChargeRecords
<1>2. task[a] \in Nat /\ raised[a] \in Nat /\ task'[a] \in Nat
  BY <1>1, TypeStep DEF TypeOK
<1>3. /\ x.task <= task[a]
      /\ x.task = task[a] => raised[a] > 0 \/ (pc[a] = "apply" /\ k \notin op[a].todo)
  BY DEF ChargeOK
<1> SUFFICES /\ x.task <= task'[a]
             /\ x.task = task'[a] => raised'[a] > 0 \/ (pc'[a] = "apply" /\ k \notin op'[a].todo)
  BY DEF ChargeOK
<1> HIDE DEF a
<1>4. CASE Same(a)
  BY <1>3, <1>4 DEF Same
<1>5. CASE BeginWrite(a) \/ Store(a) \/ Read(a) \/ BeginRun(a) \/ Observe(a) \/ AttemptFailed(a)
  <2>1. pc[a] # "apply" /\ task' = task /\ raised' = raised
    BY <1>5 DEF BeginWrite, Store, Read, BeginRun, Observe, AttemptFailed, Active, session
  <2> QED
    BY <1>3, <2>1
<1>6. CASE BeginOutcome(a)
  <2>1. pc[a] = "idle" /\ UNCHANGED session
    BY <1>1, <1>6, BeginOutcomeIs
  <2> QED
    BY <1>3, <2>1 DEF session
<1>7. CASE Look(a) \/ Land(a)
  <2>1. op'[a].todo \subseteq op[a].todo /\ UNCHANGED <<pc, session>>
    BY <1>1, <1>7, OutcomeGoesOn
  <2> QED
    BY <1>3, <2>1 DEF session
<1>8. CASE Raise(a)
  <2>1. task' = task /\ raised'[a] = raised[a] + 1
    BY <1>1, <1>8 DEF Raise, TypeOK
  <2> QED
    BY <1>2, <1>3, <2>1
<1>9. CASE FinishOutcome(a) \/ ClearReadLog(a)
  <2>1. task'[a] = task[a] + 1
    BY <1>1, <1>9 DEF FinishOutcome, ClearReadLog, Clear, TypeOK
  <2> QED
    BY <1>1, <1>2, <1>3, <2>1
<1> QED
  BY <1>1, <1>4, <1>5, <1>6, <1>7, <1>8, <1>9, LocalStep DEF Moves

LEMMA ChargeNew ==
  ASSUME TypeOK, NEW a \in Agents, pc[a] = "apply", UNCHANGED <<pc, session>>,
         NEW k \in Keys, k \notin op'[a].todo, NEW n \in Nat
  PROVE  ChargeOK(k, Charge(a, n))'
<1>1. task[a] \in Nat
  BY DEF TypeOK
<1>2. Charge(a, n).agent = a /\ Charge(a, n).task = task[a] /\ Charge(a, n)' = Charge(a, n)
  BY DEF Charge, session
<1> QED
  BY <1>1, <1>2 DEF ChargeOK, session

LEMMA ChargesStep ==
  ASSUME TypeOK, InHand, [Next]_vars, ChargesOK
  PROVE  ChargesOK'
<1> SUFFICES ASSUME NEW k \in Keys, NEW w \in DOMAIN history'[k],
                    NEW x \in DOMAIN history'[k][w].charges
             PROVE  ChargeOK(k, x)'
  BY DEF ChargesOK
<1>1. history[k] \in Seq(Versions) /\ history'[k] \in Seq(Versions)
  BY TypeStep DEF TypeOK
<1>2. x \in ChargeRecords
  <2>1. history'[k][w] \in Versions
    BY <1>1
  <2>2. history'[k][w].charges \in ChargeBags
    BY <2>1 DEF Versions
  <2> QED
    BY <2>2 DEF ChargeBags
<1>3. ASSUME NEW u \in DOMAIN history[k], x \in DOMAIN history[k][u].charges
      PROVE  ChargeOK(k, x)'
  <2>1. ChargeOK(k, x)
    BY <1>3 DEF ChargesOK
  <2> QED
    BY <1>2, <2>1, ChargeKept
<1>4. CASE w \in DOMAIN history[k] /\ history'[k][w] = history[k][w]
  BY <1>3, <1>4
<1>5. history[k] # <<>> => Last(history[k]) = history[k][Len(history[k])] /\ Len(history[k]) \in DOMAIN history[k]
  BY <1>1, LastVersion
<1>6. ASSUME NEW b \in Agents, NEW c \in Claims, NEW B, Written(history[k], c, B),
             history'[k] = Append(history[k], [claim |-> c, by |-> b, charges |-> B])
      PROVE  ChargeOK(k, x)'
  <2> DEFINE e == [claim |-> c, by |-> b, charges |-> B]
  <2>1. e.charges = B /\ history'[k] = Append(history[k], e)
    BY <1>6
  <2> HIDE DEF e
  <2>2. \/ w \in DOMAIN history[k] /\ history'[k][w] = history[k][w]
        \/ history'[k][w] = e
    BY <1>1, <2>1
  <2>3. CASE history'[k][w] = e
    <3>1. DOMAIN EmptyBag = {}
      BY DEF EmptyBag, SetToBag
    <3>2. history[k] # <<>> /\ x \in DOMAIN Last(history[k]).charges
      BY <1>6, <2>1, <2>3, <3>1 DEF Written
    <3> QED
      BY <1>3, <1>5, <3>2
  <2> QED
    BY <1>4, <2>2, <2>3
<1>7. ASSUME NEW b \in Agents, NEW u \in DOMAIN history[k], Land(b), Done(b, k),
             history'[k] = Append(history[k],
               [history[k][u] EXCEPT !.charges = @ (+) Charges(b, k, u)])
      PROVE  ChargeOK(k, x)'
  <2> DEFINE e == [history[k][u] EXCEPT !.charges = @ (+) Charges(b, k, u)]
             S == {Charge(b, n) : n \in Reached(b, k, u)}
  <2>1. pc[b] = "apply" /\ op[b] \in Outcomes /\ UNCHANGED <<pc, session>>
    BY <1>7, LandIs DEF TypeOK
  <2>2. e \in Versions /\ e.charges = history[k][u].charges (+) SetToBag(S)
    BY <1>7, <2>1, LandedVersion DEF Charges
  <2>3. S \in SUBSET ChargeRecords
    BY <2>1, ChargeRecord
  <2>4. history'[k] = Append(history[k], e)
    BY <1>7
  <2>5. \A y \in S : \E n \in Nat : y = Charge(b, n)
    <3>1. op[b].steps \in Seq(Steps)
      BY <2>1 DEF Outcomes
    <3>2. DOMAIN op[b].steps \subseteq Nat
      BY <3>1
    <3> QED
      BY <3>2 DEF Reached
  <2> HIDE DEF e, S
  <2>6. \/ w \in DOMAIN history[k] /\ history'[k][w] = history[k][w]
        \/ history'[k][w] = e
    BY <1>1, <2>4
  <2>7. CASE history'[k][w] = e
    <3>1. history[k][u].charges \in ChargeBags
      BY <1>1, <1>7 DEF Versions
    <3>2. x \in DOMAIN history[k][u].charges \/ x \in S
      BY <2>2, <2>3, <2>7, <3>1, ChargesAdded
    <3>3. CASE x \in DOMAIN history[k][u].charges
      BY <1>3, <1>7, <3>3
    <3>4. CASE x \in S
      <4>1. PICK n \in Nat : x = Charge(b, n)
        BY <2>5, <3>4
      <4>2. k \notin op'[b].todo
        BY <1>7, <2>1, DoneIs
      <4>3. ChargeOK(k, Charge(b, n))'
        BY <2>1, <4>2, ChargeNew
      <4>4. Charge(b, n)' = Charge(b, n)
        BY <2>1 DEF Charge, session
      <4> QED
        BY <4>1, <4>3, <4>4 DEF ChargeOK
    <3> QED
      BY <3>2, <3>3, <3>4
  <2> QED
    BY <1>4, <2>6, <2>7
<1> QED
  BY <1>4, <1>6, <1>7, HistoryStep

\* A version that an outcome cites has been read, so the history has it.
LEMMA CitedIsKnown ==
  ASSUME TypeOK, KnownOK, ~Undated, NEW a \in Agents, WindowOK(a), pc[a] = "apply",
         NEW n \in DOMAIN op[a].steps, NEW k \in op[a].steps[n].keys
  PROVE  /\ k \in Keys
         /\ op[a].steps[n].versions[k] \in 0 .. Len(history[k])
<1>1. op[a].steps \in Seq(Steps)
  BY DEF TypeOK, Outcomes
<1>2. op[a].steps[n] \in Steps
  BY <1>1
<1>3. k \in Keys /\ op[a].steps[n].versions[k] \in Nat
  BY <1>2, StepFields
<1> DEFINE v == op[a].steps[n].versions[k]
<1>4. LastRead(reads[a], k, n, v)
  BY DEF WindowOK, OutcomeOK, StepOK
<1>5. history[k] \in Seq(Versions)
  BY <1>3 DEF TypeOK
<1>6. Len(history[k]) \in Nat /\ v \in Nat
  BY <1>3, <1>5
<1>7. v = 0 \/ v <= Len(history[k])
  BY <1>4 DEF LastRead, KnownOK
<1> HIDE DEF v
<1>8. v \in 0 .. Len(history[k])
  BY <1>6, <1>7
<1> QED
  BY <1>3, <1>8 DEF v

\* What still holds after one more version held before it.
LEMMA HeldBefore ==
  ASSUME NEW h \in Seq(Versions), NEW e \in Versions, NEW v \in 1 .. Len(h),
         Held(Append(h, e), v)
  PROVE  /\ Held(h, v) /\ h # <<>>
         /\ e.claim = h[v].claim /\ Last(h).claim = h[v].claim
         /\ Last(Append(h, e)) = e
<1> DEFINE g == Append(h, e)
<1>1. /\ Len(h) \in Nat /\ Len(g) = Len(h) + 1 /\ g[Len(h) + 1] = e
      /\ \A i \in 1 .. Len(h) : g[i] = h[i]
      /\ Last(g) = g[Len(g)]
  BY DEF Last
<1> HIDE DEF g
<1>2. \A w \in v .. Len(h) + 1 : g[w].claim = g[v].claim
  BY <1>1 DEF Held, g
<1>3. \A w \in v .. Len(h) : h[w].claim = h[v].claim
  <2> SUFFICES ASSUME NEW w \in v .. Len(h) PROVE h[w].claim = h[v].claim
    OBVIOUS
  <2>1. w \in 1 .. Len(h) /\ w \in v .. Len(h) + 1
    BY <1>1
  <2> QED
    BY <1>1, <1>2, <2>1
<1>4. h # <<>>
  <2>1. Len(<<>>) = 0
    OBVIOUS
  <2> QED
    BY <1>1, <2>1
<1>5. e.claim = h[v].claim
  <2>1. Len(h) + 1 \in v .. Len(h) + 1
    BY <1>1
  <2> QED
    BY <1>1, <1>2, <2>1
<1>6. Last(h).claim = h[v].claim
  <2>1. Len(h) \in v .. Len(h)
    BY <1>1
  <2> QED
    BY <1>3, <2>1 DEF Last
<1> QED
  BY <1>1, <1>3, <1>4, <1>5, <1>6 DEF Held, g

\* A key that is done with, under the steps of others: in the table the copy of
\* another outcome is one of the current version.
LEMMA ChargedKept ==
  ASSUME TypeOK, InHand, [Next]_vars, Checked, NEW a \in Agents, ~Land(a), NEW n \in Nat,
         NEW k \in Keys, NEW v \in 1 .. Len(history[k]),
         Held(history'[k], v), Held(history[k], v) =>
           Count(Charge(a, n), Last(history[k]).charges) = 1
  PROVE  Count(Charge(a, n), Last(history'[k]).charges) = 1
<1>1. history[k] \in Seq(Versions)
  BY DEF TypeOK
<1>2. CASE history'[k] = history[k]
  BY <1>2
<1>3. ASSUME NEW b \in Agents, NEW c \in Claims, NEW B, Written(history[k], c, B),
             history'[k] = Append(history[k], [claim |-> c, by |-> b, charges |-> B])
      PROVE  Count(Charge(a, n), Last(history'[k]).charges) = 1
  <2> DEFINE e == [claim |-> c, by |-> b, charges |-> B]
  <2>1. e \in Versions
    BY <1>1, <1>3, WrittenVersion
  <2>2. e.claim = c /\ e.charges = B /\ history'[k] = Append(history[k], e)
    BY <1>3
  <2> HIDE DEF e
  <2>3. /\ Held(history[k], v) /\ history[k] # <<>>
        /\ e.claim = Last(history[k]).claim
        /\ Last(history'[k]) = e
    BY <1>1, <2>1, <2>2, HeldBefore
  <2>4. e.charges = Last(history[k]).charges
    BY <1>3, <2>2, <2>3 DEF Written
  <2> QED
    BY <2>3, <2>4
<1>4. ASSUME NEW b \in Agents, NEW w \in DOMAIN history[k], Land(b), w = Len(history[k]),
             history'[k] = Append(history[k],
               [history[k][w] EXCEPT !.charges = @ (+) Charges(b, k, w)])
      PROVE  Count(Charge(a, n), Last(history'[k]).charges) = 1
  <2> DEFINE e == [history[k][w] EXCEPT !.charges = @ (+) Charges(b, k, w)]
             S == {Charge(b, m) : m \in Reached(b, k, w)}
  <2>1. pc[b] = "apply" /\ a # b
    BY <1>4, LandIs
  <2>2. e \in Versions /\ e.charges = history[k][w].charges (+) SetToBag(S)
    BY <1>4, <2>1, LandedVersion DEF Charges
  <2>3. S \in SUBSET ChargeRecords
    BY <2>1, ChargeRecord
  <2>4. history'[k] = Append(history[k], e)
    BY <1>4
  <2>5. Charge(a, n) \notin S
    BY <2>1 DEF Charge
  <2>6. history[k][w].charges \in ChargeBags /\ Last(history[k]) = history[k][w]
    <3>1. history[k][w] \in Versions
      BY <1>1
    <3> QED
      BY <1>4, <3>1 DEF Versions, Last
  <2> HIDE DEF e, S
  <2>7. Held(history[k], v) /\ Last(history'[k]) = e
    BY <1>1, <2>2, <2>4, HeldBefore
  <2>8. Count(Charge(a, n), e.charges) = Count(Charge(a, n), history[k][w].charges)
    <3>1. Count(Charge(a, n), history[k][w].charges (+) SetToBag(S))
            = Count(Charge(a, n), history[k][w].charges)
      BY <2>3, <2>5, <2>6, ChargesAdded, Zenon
    <3> QED
      BY <2>2, <3>1
  <2> QED
    BY <2>6, <2>7, <2>8
<1> QED
  BY <1>2, <1>3, <1>4, HistoryStep

\* While a key holds since version v, an outcome that cites v reaches it.
LEMMA HeldIsReached ==
  ASSUME TypeOK, NEW a \in Agents, NEW n \in DOMAIN op[a].steps,
         NEW k \in op[a].steps[n].keys, k \in Keys,
         op[a].steps[n].versions[k] \in 1 .. Len(history[k]),
         Held(history[k], op[a].steps[n].versions[k])
  PROVE  /\ history[k] # <<>>
         /\ n \in Reached(a, k, Len(history[k]))
<1> DEFINE v == op[a].steps[n].versions[k]
<1>1. history[k] \in Seq(Versions)
  BY DEF TypeOK
<1>2. Len(history[k]) \in v .. Len(history[k]) /\ Len(history[k]) # 0
  BY <1>1
<1>3. history[k][Len(history[k])].claim = history[k][v].claim
  BY <1>2 DEF Held
<1>4. Len(<<>>) = 0
  OBVIOUS
<1> QED
  BY <1>2, <1>3, <1>4 DEF Reached, StillHeld

\* A key that the outcome reaches now: it counts the step for the first time.
LEMMA ChargedNow ==
  ASSUME TypeOK, ChargesOK, NEW a \in Agents, pc[a] = "apply", raised[a] = 0,
         NEW n \in DOMAIN op[a].steps, NEW k \in op[a].steps[n].keys \cap op[a].todo,
         k \in Keys, op[a].steps[n].versions[k] \in 1 .. Len(history[k]),
         NEW w \in DOMAIN history[k], w = Len(history[k]),
         history'[k] = Append(history[k],
           [history[k][w] EXCEPT !.charges = @ (+) Charges(a, k, w)]),
         Held(history'[k], op[a].steps[n].versions[k])
  PROVE  Count(Charge(a, n), Last(history'[k]).charges) = 1
<1> DEFINE v == op[a].steps[n].versions[k]
           e == [history[k][w] EXCEPT !.charges = @ (+) Charges(a, k, w)]
           S == {Charge(a, m) : m \in Reached(a, k, w)}
<1>1. history[k] \in Seq(Versions) /\ v \in 1 .. Len(history[k])
  BY DEF TypeOK
<1>2. e \in Versions /\ e.charges = history[k][w].charges (+) SetToBag(S)
  BY LandedVersion DEF Charges
<1>3. S \in SUBSET ChargeRecords
  BY ChargeRecord
<1>4. history'[k] = Append(history[k], e)
  OBVIOUS
<1> HIDE DEF e, S
<1>5. Held(history[k], v) /\ Last(history'[k]) = e
  BY <1>1, <1>2, <1>4, HeldBefore
<1>6. n \in Reached(a, k, w)
  BY <1>5, HeldIsReached
<1>7. Charge(a, n) \in S
  BY <1>6 DEF S
<1>8. Charge(a, n) \notin DOMAIN history[k][w].charges
  <2>1. Charge(a, n).agent = a /\ Charge(a, n).task = task[a]
    BY DEF Charge
  <2>2. ~ChargeOK(k, Charge(a, n))
    <3>1. ~(0 > 0)
      OBVIOUS
    <3> QED
      BY <2>1, <3>1 DEF ChargeOK
  <2> QED
    BY <2>2 DEF ChargesOK
<1> HIDE DEF v
<1>9. history[k][w].charges \in ChargeBags
  <2>1. history[k][w] \in Versions
    BY <1>1
  <2> QED
    BY <2>1 DEF Versions
<1> DEFINE x == Charge(a, n)
           B == history[k][w].charges
<1>10. x \in S /\ x \notin DOMAIN B /\ B \in ChargeBags
  BY <1>7, <1>8, <1>9
<1> HIDE DEF x, B
<1>11. Count(x, B (+) SetToBag(S)) = 1
  BY <1>3, <1>10, ChargesAdded
<1> QED
  BY <1>2, <1>5, <1>11 DEF x, B

LEMMA ChargedStep ==
  ASSUME TypeOK, InHand, [Next]_vars, Checked, ~Undated, KnownOK, ChargesOK,
         NEW a \in Agents, WindowOK(a), ChargedOK(a)
  PROVE  ChargedOK(a)'
<1> SUFFICES ASSUME pc'[a] = "apply", raised'[a] = 0,
                    NEW n \in DOMAIN op'[a].steps,
                    NEW k \in op'[a].steps[n].keys \ op'[a].todo,
                    op'[a].steps[n].versions[k] # 0,
                    Held(history'[k], op'[a].steps[n].versions[k])
             PROVE  Count(Charge(a, n)', Last(history'[k]).charges) = 1
  BY DEF ChargedOK, Charge
<1>1. CASE BeginOutcome(a)
  <2>1. PICK o \in Outcomes : /\ o.todo = UNION {o.steps[m].keys : m \in DOMAIN o.steps}
                              /\ op' = [op EXCEPT ![a] = o]
    BY <1>1, BeginOutcomeIs
  <2>2. op'[a] = o
    BY <2>1 DEF TypeOK
  <2> QED
    BY <2>1, <2>2
<1>2. CASE Moves(a) /\ ~BeginOutcome(a) /\ ~Look(a) /\ ~Land(a)
  <2>1. pc'[a] # "apply"
    BY <1>2 DEF Moves, BeginWrite, Store, Read, BeginRun, Observe, AttemptFailed, Raise,
                FinishOutcome, ClearReadLog, Return, Goto, Active, TypeOK
  <2> QED
    BY <2>1
<1>3. ASSUME pc[a] = "apply", raised[a] = 0, op'[a].steps = op[a].steps, Charge(a, n)' = Charge(a, n)
      PROVE  /\ n \in Nat /\ k \in Keys /\ n \in DOMAIN op[a].steps
             /\ op[a].steps[n].versions[k] \in 1 .. Len(history[k])
             /\ k \notin op[a].todo /\ Held(history[k], op[a].steps[n].versions[k]) =>
                  Count(Charge(a, n), Last(history[k]).charges) = 1
  <2>1. op[a].steps \in Seq(Steps)
    BY <1>3 DEF TypeOK, Outcomes
  <2>2. n \in Nat /\ n \in DOMAIN op[a].steps
    BY <1>3, <2>1
  <2>3. k \in Keys /\ op[a].steps[n].versions[k] \in 0 .. Len(history[k])
    BY <1>3, <2>2, CitedIsKnown
  <2>4. op[a].steps[n].versions[k] \in 1 .. Len(history[k])
    <3>1. Len(history[k]) \in Nat
      BY <2>3 DEF TypeOK
    <3> QED
      BY <1>3, <2>3, <3>1
  <2>5. k \notin op[a].todo /\ Held(history[k], op[a].steps[n].versions[k]) =>
          Count(Charge(a, n), Last(history[k]).charges) = 1
    BY <1>3, <2>2 DEF ChargedOK
  <2> QED
    BY <2>2, <2>3, <2>4, <2>5
<1>4. CASE Look(a) \/ Land(a)
  <2>1. UNCHANGED <<pc, session>> /\ pc[a] = "apply" /\ op'[a].steps = op[a].steps
    BY <1>4, OutcomeGoesOn
  <2>2. raised[a] = 0 /\ Charge(a, n)' = Charge(a, n)
    BY <2>1 DEF session, Charge
  <2>3. /\ n \in Nat /\ k \in Keys /\ n \in DOMAIN op[a].steps
        /\ op[a].steps[n].versions[k] \in 1 .. Len(history[k])
        /\ k \notin op[a].todo /\ Held(history[k], op[a].steps[n].versions[k]) =>
             Count(Charge(a, n), Last(history[k]).charges) = 1
    BY <1>3, <2>1, <2>2
  <2>4. CASE Look(a)
    <3>1. PICK j \in op[a].todo :
            \/ /\ Absent(a, j) \/ Reached(a, j, Len(history[j])) = {}
               /\ Done(a, j)
            \/ op' = op
      BY <2>4, LookIs
    <3>2. history' = history
      BY <2>4, LookIs
    <3>3. Held(history[k], op[a].steps[n].versions[k]) /\ k \in op[a].steps[n].keys
      BY <2>1, <3>2
    <3>4. history[k] # <<>> /\ n \in Reached(a, k, Len(history[k]))
      BY <2>3, <3>3, HeldIsReached
    <3>5. ~(Absent(a, k) \/ Reached(a, k, Len(history[k])) = {})
      BY <3>4 DEF Absent
    <3>6. k \notin op[a].todo
      <4>1. CASE op' = op
        BY <4>1
      <4>2. CASE Done(a, j) /\ j # k
        <5>1. op'[a].todo = op[a].todo \ {j}
          BY <2>1, <4>2, DoneIs
        <5> QED
          BY <4>2, <5>1
      <4> QED
        BY <3>1, <3>5, <4>1, <4>2
    <3> QED
      BY <2>2, <2>3, <3>2, <3>3, <3>6
  <2>5. CASE Land(a)
    <3>1. PICK j \in op[a].todo : \E w \in DOMAIN history[j] :
            /\ j \in Keys /\ Done(a, j)
            /\ Checked => w = Len(history[j])
            /\ history' = [history EXCEPT ![j] =
                 Append(history[j], [history[j][w] EXCEPT !.charges = @ (+) Charges(a, j, w)])]
      BY <2>5, LandIs
    <3>2. PICK w \in DOMAIN history[j] :
            /\ w = Len(history[j])
            /\ history' = [history EXCEPT ![j] =
                 Append(history[j], [history[j][w] EXCEPT !.charges = @ (+) Charges(a, j, w)])]
      BY <3>1
    <3> DEFINE e == [history[j][w] EXCEPT !.charges = @ (+) Charges(a, j, w)]
    <3>3. history' = [history EXCEPT ![j] = Append(history[j], e)]
      BY <3>2
    <3>4. op'[a].todo = op[a].todo \ {j}
      BY <2>1, <3>1, DoneIs
    <3> HIDE DEF e
    <3>5. CASE j # k
      <4>1. history'[k] = history[k] /\ k \notin op[a].todo
        BY <2>3, <3>3, <3>4, <3>5 DEF TypeOK
      <4> QED
        BY <2>1, <2>2, <2>3, <4>1
    <3>6. CASE j = k
      <4>1. history'[k] = Append(history[k], e)
        BY <2>3, <3>3, <3>6 DEF TypeOK
      <4>2. history'[k] = Append(history[k],
              [history[k][w] EXCEPT !.charges = @ (+) Charges(a, k, w)])
        BY <3>6, <4>1 DEF e
      <4>3. k \in op[a].steps[n].keys \cap op[a].todo
        BY <2>1, <3>6
      <4>4. Held(history'[k], op[a].steps[n].versions[k])
        BY <2>1
      <4>5. w \in DOMAIN history[k] /\ w = Len(history[k])
        BY <3>2, <3>6
      <4>6. Count(Charge(a, n), Last(history'[k]).charges) = 1
        BY <2>1, <2>2, <2>3, <4>2, <4>3, <4>4, <4>5, ChargedNow
      <4> QED
        BY <2>2, <4>6
    <3> QED
      BY <3>5, <3>6
  <2> QED
    BY <1>4, <2>4, <2>5
<1>5. CASE Same(a) /\ ~Land(a)
  <2>1. pc[a] = "apply" /\ raised[a] = 0 /\ op'[a] = op[a] /\ Charge(a, n)' = Charge(a, n)
    BY <1>5 DEF Same, Charge
  <2>2. /\ n \in Nat /\ k \in Keys
        /\ op[a].steps[n].versions[k] \in 1 .. Len(history[k])
        /\ k \notin op[a].todo /\ Held(history[k], op[a].steps[n].versions[k]) =>
             Count(Charge(a, n), Last(history[k]).charges) = 1
    BY <1>3, <2>1
  <2>3. Count(Charge(a, n), Last(history'[k]).charges) = 1
    BY <1>5, <2>1, <2>2, ChargedKept
  <2> QED
    BY <2>1, <2>3
<1> QED
  BY <1>1, <1>2, <1>4, <1>5, LocalStep

-----------------------------------------------------------------------------
(* The theorems.                                                           *)

LEMMA SessionInvariant == Spec => []SessionInv
<1>1. Init => SessionInv
  <2> SUFFICES ASSUME Init PROVE SessionInv
    OBVIOUS
  <2>1. TypeOK
    BY TypeInit
  <2>2. \A a \in Agents : CovOK(a)
    BY DEF Init, CovOK
  <2>3. \A a \in Agents : WindowOK(a)
    BY FreshOK DEF Init, WindowOK
  <2>4. KnownOK /\ ChargesOK
    <3>1. DOMAIN <<>> = {}
      OBVIOUS
    <3> QED
      BY <3>1 DEF Init, KnownOK, ChargesOK
  <2>5. \A a \in Agents : ChargedOK(a)
    BY DEF Init, ChargedOK
  <2>6. InHand
    BY DEF Init, InHand
  <2> QED
    BY <2>1, <2>2, <2>3, <2>4, <2>5, <2>6 DEF SessionInv
<1>2. SessionInv /\ [Next]_vars => SessionInv'
  <2> SUFFICES ASSUME SessionInv, [Next]_vars PROVE SessionInv'
    OBVIOUS
  <2>1. TypeOK /\ InHand /\ KnownOK /\ ChargesOK
    BY DEF SessionInv
  <2>2. TypeOK' /\ InHand'
    BY <2>1, TypeStep, InHandStep
  <2>3. \A a \in Agents : CovOK(a)'
    BY <2>1, CovStep DEF SessionInv
  <2>4. \A a \in Agents : WindowOK(a)'
    BY <2>1, WindowStep DEF SessionInv
  <2>5. KnownOK' /\ ChargesOK'
    BY <2>1, KnownStep, ChargesStep
  <2>6. Checked /\ ~Undated => \A a \in Agents : ChargedOK(a)'
    BY <2>1, ChargedStep DEF SessionInv
  <2> QED
    BY <2>2, <2>3, <2>4, <2>5, <2>6 DEF SessionInv
<1> QED
  BY <1>1, <1>2, PTL DEF Spec

\* CovariatesAreOfTheRun: an outcome carries the covariates of the run that
\* ends with it, or none.  Only an idle agent begins a run, and that run
\* starts without covariates.
THEOREM CovariatesStayInTheirRun == Spec => []CovariatesAreOfTheRun
<1>1. SessionInv => CovariatesAreOfTheRun
  BY DEF SessionInv, CovOK, CovariatesAreOfTheRun
<1> QED
  BY <1>1, SessionInvariant, PTL

\* AttemptsAreApart: an attempt is charged to what was read during it.  The
\* boundary parts what the window in progress has read from all that came
\* before, and a key read again moves to the window that read it last.
THEOREM AttemptsStayApart == Spec => []AttemptsAreApart
<1>1. SessionInv => AttemptsAreApart
  BY DEF SessionInv, WindowOK, OutcomeOK, StepOK, ReadIn, AttemptsAreApart
<1> QED
  BY <1>1, SessionInvariant, PTL

LEMMA LastIs ==
  ASSUME NEW S \in SUBSET Nat, NEW i \in S, \A j \in S : j <= i
  PROVE  LastOf(S) = i
<1>1. LastOf(S) \in S /\ \A j \in S : j <= LastOf(S)
  BY DEF LastOf
<1>2. i <= LastOf(S) /\ LastOf(S) <= i /\ i \in Nat /\ LastOf(S) \in Nat
  BY <1>1
<1> QED
  BY <1>2

\* The version cited is that of the last read, if there is one.
LEMMA CitedIsLastRead ==
  ASSUME SessionInv, ~Undated, NEW a \in Agents, pc[a] = "apply",
         NEW n \in DOMAIN op[a].steps, NEW k \in op[a].steps[n].keys,
         ReadsOf(a, k, n) # {}
  PROVE  LET i == LastOf(ReadsOf(a, k, n)) IN
         /\ i \in ReadsOf(a, k, n)
         /\ \A j \in ReadsOf(a, k, n) : j <= i
         /\ op[a].steps[n].versions[k] = reads[a][i].version
         /\ reads[a][i].version # 0
<1> DEFINE R == ReadsOf(a, k, n)
           v == op[a].steps[n].versions[k]
<1>1. reads[a] \in Seq(ReadRecords)
  BY DEF SessionInv, TypeOK
<1>2. R \in SUBSET Nat
  <2>1. DOMAIN reads[a] \subseteq Nat
    BY <1>1
  <2> QED
    BY <2>1 DEF ReadsOf
<1>3. LastRead(reads[a], k, n, v)
  BY DEF SessionInv, WindowOK, OutcomeOK, StepOK
<1>4. PICK i \in R : v = reads[a][i].version /\ \A j \in R : j <= i
  BY <1>3 DEF LastRead, ReadsOf
<1>5. reads[a][i].version # 0
  <2>1. i \in DOMAIN reads[a]
    BY <1>4 DEF ReadsOf
  <2>2. reads[a][i] \in ReadRecords
    BY <1>1, <2>1
  <2> QED
    BY <2>2 DEF ReadRecords
<1> HIDE DEF R, v
<1>6. LastOf(R) = i
  BY <1>2, <1>4, LastIs
<1> QED
  BY <1>4, <1>5, <1>6 DEF R, v

\* ChargesWhatWasRead: an outcome reaches a version only if it claims what was
\* last read of the key.  The step cites the version of the last read, which
\* claim_still_held compares with the version in hand.
THEOREM ChargesFollowTheReads ==
  ASSUME ~Undated
  PROVE  Spec => []ChargesWhatWasRead
<1>1. SessionInv => ChargesWhatWasRead
  <2> SUFFICES ASSUME SessionInv, NEW a \in Agents, look[a] # NoLook,
                      NEW k, k = look[a].key, NEW w, w = look[a].version,
                      NEW n \in Reached(a, k, w), ReadsOf(a, k, n) # {}
               PROVE  LET read == reads[a][LastOf(ReadsOf(a, k, n))]
                      IN  history[k][read.version].claim = history[k][w].claim
    BY DEF ChargesWhatWasRead
  <2>1. pc[a] = "apply"
    BY DEF SessionInv, InHand
  <2>2. /\ n \in DOMAIN op[a].steps /\ k \in op[a].steps[n].keys
        /\ StillHeld(k, op[a].steps[n].versions[k], w)
    BY DEF Reached
  <2> QED
    BY <2>1, <2>2, CitedIsLastRead DEF StillHeld
<1> QED
  BY <1>1, SessionInvariant, PTL

\* EveryReadIsCharged: an outcome that did not fail has charged every read of
\* the session once, where the key was not rewritten, in the table of a tenant.
\* A key is charged when the outcome is done with it, never before: what it
\* looked at is what it lands on, and the writes and the outcomes of others, which
\* land in the same way, keep the charge as long as the claim stands.  The files
\* do not promise it.
THEOREM ReadsAreCharged ==
  ASSUME Checked, ~Undated
  PROVE  Spec => []EveryReadIsCharged
<1>1. SessionInv => EveryReadIsCharged
  <2> SUFFICES ASSUME SessionInv, NEW a \in Agents,
                      pc[a] = "apply", op[a].todo = {}, raised[a] = 0,
                      NEW n \in DOMAIN op[a].steps, NEW k \in Keys,
                      NEW in, in = {i \in ReadsOf(a, k, n) : reads[a][i].window = n},
                      ~op[a].steps[n].named, in # {},
                      Unchanged(k, reads[a][LastOf(in)].version)
               PROVE  Count(Charge(a, n), Last(history[k]).charges) = 1
    BY DEF EveryReadIsCharged
  <2>1. op[a].steps[n].keys = ReadIn(reads[a], n)
    BY DEF SessionInv, WindowOK, OutcomeOK, StepOK
  <2>2. k \in op[a].steps[n].keys
    BY <2>1 DEF ReadIn, ReadsOf
  <2> DEFINE R == ReadsOf(a, k, n)
             v == op[a].steps[n].versions[k]
  <2>3. PICK i \in R : /\ i = LastOf(R)
                       /\ \A j \in R : j <= i
                       /\ v = reads[a][i].version
                       /\ reads[a][i].version # 0
    BY <2>2, CitedIsLastRead
  <2>4. reads[a] \in Seq(ReadRecords) /\ op[a].steps \in Seq(Steps)
    BY DEF SessionInv, TypeOK, Outcomes
  <2>5. \A j \in DOMAIN reads[a] : j \in Nat /\ reads[a][j].window \in Nat
    <3>1. \A j \in DOMAIN reads[a] : j \in Nat /\ reads[a][j] \in ReadRecords
      BY <2>4
    <3> QED
      BY <3>1 DEF ReadRecords
  <2>6. n \in Nat
    BY <2>4
  <2>7. \A j \in R : j \in DOMAIN reads[a] /\ reads[a][j].window <= n
    BY DEF ReadsOf
  <2> HIDE DEF R, v
  <2>8. in = {j \in R : reads[a][j].window = n}
    BY DEF R
  <2>9. reads[a][i].window = n
    <3>1. PICK j \in in : TRUE
      OBVIOUS
    <3>2. j \in R /\ j <= i /\ reads[a][j].window = n
      BY <2>3, <2>8, <3>1
    <3>3. reads[a][j].window <= reads[a][i].window
      BY <2>3, <2>7, <3>2 DEF SessionInv, WindowOK, TrackerOK
    <3> QED
      BY <2>3, <2>5, <2>6, <2>7, <3>2, <3>3
  <2>10. LastOf(in) = i
    <3>1. in \in SUBSET Nat /\ i \in in /\ \A j \in in : j <= i
      BY <2>3, <2>5, <2>7, <2>8, <2>9
    <3> QED
      BY <3>1, LastIs
  <2>11. v # 0 /\ Held(history[k], v)
    BY <2>3, <2>10 DEF Unchanged, Held
  <2>12. k \in op[a].steps[n].keys \ op[a].todo
    BY <2>2
  <2> QED
    BY <2>11, <2>12 DEF SessionInv, ChargedOK, v
<1> QED
  BY <1>1, SessionInvariant, PTL

=============================================================================
