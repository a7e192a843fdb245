---------------------------- MODULE LabelsProofs ----------------------------
(***************************************************************************)
(* Proofs about Labels and Analytics, for any transactions, services,      *)
(* windows, settings, configurations and things said: the dashboard's      *)
(* figures agree, adjacent windows add up, and labels follow the rules.    *)
(***************************************************************************)
EXTENDS Labels, FiniteSetTheorems, FunctionTheorems, TLAPS

-----------------------------------------------------------------------------
(***************************************************************************)
(* Counting.                                                               *)
(***************************************************************************)

(* A set that f maps onto another one, injectively, is as large.           *)
LEMMA SameSize ==
    ASSUME NEW S, IsFiniteSet(S), NEW T, NEW f \in [S -> T],
           \A t \in T : \E s \in S : f[s] = t,
           \A s, u \in S : f[s] = f[u] => s = u
    PROVE  IsFiniteSet(T) /\ Cardinality(T) = Cardinality(S)
<1>1. f \in Bijection(S, T)
  BY DEF Bijection, Injection, Surjection, IsInjective
<1> QED
  BY <1>1, FS_Bijection DEF ExistsBijection

LEMMA SubsetSize ==
    ASSUME NEW S, IsFiniteSet(S), NEW T, T \subseteq S
    PROVE  /\ IsFiniteSet(T)
           /\ Cardinality(T) \in Nat
           /\ Cardinality(T) <= Cardinality(S)
BY FS_Subset, FS_CardinalityType

LEMMA DisjointSizes ==
    ASSUME NEW S, NEW A, NEW C, IsFiniteSet(S), S = A \cup C, A \cap C = {}
    PROVE  /\ Cardinality(A) \in Nat
           /\ Cardinality(C) \in Nat
           /\ Cardinality(S) = Cardinality(A) + Cardinality(C)
<1>1. IsFiniteSet(A) /\ IsFiniteSet(C)
  BY FS_Subset
<1>2. Cardinality(A \cap C) = 0
  BY FS_EmptySet
<1>3. Cardinality(A \cup C) = Cardinality(A) + Cardinality(C) - Cardinality(A \cap C)
  BY <1>1, FS_Union
<1> QED
  BY <1>1, <1>2, <1>3, FS_CardinalityType

(* No two rows are of one transaction.                                     *)
OnePerTrx(rows) == \A r, q \in rows : r.trx = q.trx => r = q

LEMMA TrxOfSize ==
    ASSUME NEW rows, IsFiniteSet(rows), OnePerTrx(rows)
    PROVE  /\ IsFiniteSet(TrxOf(rows))
           /\ Cardinality(TrxOf(rows)) = Cardinality(rows)
<1> DEFINE f == [r \in rows |-> r.trx]
<1>1. f \in [rows -> TrxOf(rows)]
  BY DEF TrxOf
<1>2. \A t \in TrxOf(rows) : \E r \in rows : f[r] = t
  BY DEF TrxOf
<1>3. \A r, q \in rows : f[r] = f[q] => r = q
  BY DEF OnePerTrx
<1> HIDE DEF f
<1> QED
  BY <1>1, <1>2, <1>3, SameSize

(* The rows of a set, counted by a key, add up to the set.                 *)
LEMMA SumOfClasses ==
    ASSUME NEW S, IsFiniteSet(S), NEW K, NEW key, \A s \in S : key[s] \in K
    PROVE  SumOf([k \in K |-> Cardinality({s \in S : key[s] = k})]) = Cardinality(S)
<1> DEFINE class(k) == {s \in S : key[s] = k}
           f == [k \in K |-> Cardinality(class(k))]
           units == UNION {{k} \X (1..f[k]) : k \in DOMAIN f}
           (* an enumeration of each class *)
           enum == [k \in K |-> CHOOSE b : b \in Bijection(1..Cardinality(class(k)), class(k))]
           at == [u \in units |-> enum[u[1]][u[2]]]
<1>1. ASSUME NEW k \in K
      PROVE  /\ Cardinality(class(k)) \in Nat
             /\ enum[k] \in Bijection(1..f[k], class(k))
  <2>1. IsFiniteSet(class(k))
    BY FS_Subset
  <2>2. /\ Cardinality(class(k)) \in Nat
        /\ \E b : b \in Bijection(1..Cardinality(class(k)), class(k))
    BY <2>1, FS_CardinalityType DEF ExistsBijection
  <2> QED
    BY <2>2
<1>2. \A u : u \in units <=> \E k \in K : \E i \in 1..f[k] : u = <<k, i>>
  <2>1. DOMAIN f = K
    OBVIOUS
  <2> HIDE DEF f
  <2> QED
    BY <2>1
<1> HIDE DEF enum, f, units
<1>3. ASSUME NEW k \in K
      PROVE  /\ enum[k] \in [1..f[k] -> class(k)]
             /\ \A i, j \in 1..f[k] : enum[k][i] = enum[k][j] => i = j
             /\ \A s \in class(k) : \E i \in 1..f[k] : enum[k][i] = s
  BY <1>1 DEF Bijection, Injection, Surjection, IsInjective
<1>4. ASSUME NEW k \in K, NEW i \in 1..f[k]
      PROVE  at[<<k, i>>] = enum[k][i] /\ at[<<k, i>>] \in class(k)
  <2>1. <<k, i>> \in units
    BY <1>2
  <2>2. at[<<k, i>>] = enum[k][i]
    BY <2>1
  <2>3. enum[k] \in [1..f[k] -> class(k)]
    BY <1>3
  <2> HIDE DEF at, class
  <2>4. enum[k][i] \in class(k)
    BY <2>3
  <2> QED
    BY <2>2, <2>4
<1>5. at \in [units -> S]
  <2>1. ASSUME NEW u \in units PROVE enum[u[1]][u[2]] \in S
    <3>1. PICK k \in K : \E i \in 1..f[k] : u = <<k, i>>
      BY <1>2
    <3>2. PICK i \in 1..f[k] : u = <<k, i>>
      BY <3>1
    <3> QED
      BY <3>2, <1>3
  <2> QED
    BY <2>1
<1>6. \A s \in S : \E u \in units : at[u] = s
  <2> TAKE s \in S
  <2>1. s \in class(key[s]) /\ key[s] \in K
    OBVIOUS
  <2>2. PICK i \in 1..f[key[s]] : enum[key[s]][i] = s
    BY <2>1, <1>3
  <2>3. <<key[s], i>> \in units
    BY <2>1, <1>2
  <2> QED
    BY <2>1, <2>2, <2>3, <1>4
<1>7. \A u, v \in units : at[u] = at[v] => u = v
  <2> SUFFICES ASSUME NEW u \in units, NEW v \in units, at[u] = at[v] PROVE u = v
    OBVIOUS
  <2>1. PICK k \in K : \E i \in 1..f[k] : u = <<k, i>>
    BY <1>2
  <2>2. PICK i \in 1..f[k] : u = <<k, i>>
    BY <2>1
  <2>3. PICK l \in K : \E j \in 1..f[l] : v = <<l, j>>
    BY <1>2
  <2>4. PICK j \in 1..f[l] : v = <<l, j>>
    BY <2>3
  <2>5. at[u] \in class(k) /\ at[v] \in class(l)
    BY <2>2, <2>4, <1>4
  <2>6. k = l
    BY <2>5
  <2>7. enum[k][i] = enum[k][j] /\ j \in 1..f[k]
    BY <2>2, <2>4, <2>6, <1>4
  <2> QED
    BY <2>2, <2>4, <2>6, <2>7, <1>3
<1>8. at \in Bijection(units, S)
  <2> HIDE DEF at
  <2> QED
    BY <1>5, <1>6, <1>7 DEF Bijection, Injection, Surjection, IsInjective
<1>9. Cardinality(units) = Cardinality(S)
  <2>1. PICK inv : inv \in Bijection(S, units)
    BY <1>8, Fun_BijInverse
  <2> QED
    BY <2>1, FS_Bijection DEF ExistsBijection
<1>10. SumOf([k \in K |-> Cardinality({s \in S : key[s] = k})]) = Cardinality(units)
  BY DEF SumOf, f, units
<1> QED
  BY <1>9, <1>10

-----------------------------------------------------------------------------
(***************************************************************************)
(* What the stores hold: one outcome of a kind for a transaction, which    *)
(* billing did say; copies of stored outcomes, written no earlier, at most *)
(* one of an outcome with a time of its own and none yet while the mirror  *)
(* is to write it; one event of a transaction, and only of one that is     *)
(* decided.                                                                *)
(***************************************************************************)
TypeOK ==
    /\ now \in Nat
    /\ decisions \in [Trx -> {NULL} \cup [at : Nat, decision : {"allow", "block"}]]
    /\ maturation \in Days
    /\ config \in Config

Said(o) ==
    \E k \in Says :
      o = [trx |-> k[1], type |-> k[2], status |-> k[3], reason |-> k[4], at |-> o.at]

OutcomesOnce ==
    /\ IsFiniteSet(outcomes)
    /\ \A o \in outcomes : Said(o) /\ o.at \in 0..now
    /\ \A o, p \in outcomes : SameOutcome(o, p) => o = p
    /\ unsent \subseteq outcomes

Copy(r, o) ==
    SameOutcome(r, o) /\ r.status = o.status /\ r.reason = o.reason /\ r.at \in o.at..now

CopiesOnce ==
    /\ \A r \in outcomeLog : \E o \in outcomes : Copy(r, o)
    /\ \A r, q \in outcomeLog \ outcomes : SameOutcome(r, q) => r = q
    /\ \A r \in outcomeLog, o \in unsent : SameOutcome(r, o) => r = o

Event(e) ==
    /\ e.trx \in Trx
    /\ e.ts \in 0..now
    /\ e.decision \in {"allow", "block"}
    /\ e.features \in Observation

EventsOnce ==
    /\ IsFiniteSet(traffic)
    /\ \A e \in traffic : Event(e) /\ decisions[e.trx] # NULL
    /\ OnePerTrx(traffic)

LInv == TypeOK /\ OutcomesOnce /\ CopiesOnce /\ EventsOnce

LEMMA InitLInv == Init => LInv
BY FS_EmptySet DEF Init, LInv, TypeOK, OutcomesOnce, CopiesOnce, EventsOnce, OnePerTrx, Event

(* Time passes, and what was written in time was written in time.          *)
LEMMA CopiesStay ==
    ASSUME LInv, now' \in Nat, now <= now',
           UNCHANGED <<outcomes, unsent, outcomeLog>>
    PROVE  OutcomesOnce' /\ CopiesOnce'
<1>1. now \in Nat /\ \A o \in outcomes : o.at \in 0..now
  BY DEF LInv, TypeOK, OutcomesOnce
<1>2. \A n \in 0..now : n \in 0..now'
  BY <1>1
<1>3. OutcomesOnce'
  BY <1>2 DEF LInv, OutcomesOnce, Said, SameOutcome
<1>4. ASSUME NEW r, NEW o \in outcomes, Copy(r, o) PROVE Copy(r, o)'
  <2>1. r.at \in o.at..now /\ o.at \in Nat
    BY <1>1, <1>4 DEF Copy
  <2>2. r.at \in o.at..now'
    BY <1>1, <2>1
  <2> QED
    BY <1>4, <2>2 DEF Copy, SameOutcome
<1>5. CopiesOnce'
  BY <1>4 DEF LInv, CopiesOnce, SameOutcome
<1> QED
  BY <1>3, <1>5

LEMMA TickKeeps == ASSUME LInv, Tick PROVE LInv'
<1> USE DEF LInv, Tick, olap
<1>1. now' \in Nat /\ now <= now' /\ \A n \in 0..now : n \in 0..now'
  BY DEF TypeOK
<1>2. TypeOK'
  BY DEF TypeOK
<1>3. OutcomesOnce' /\ CopiesOnce'
  BY <1>1, CopiesStay
<1>4. EventsOnce'
  BY <1>1 DEF EventsOnce, Event, OnePerTrx
<1> QED
  BY <1>2, <1>3, <1>4

LEMMA DecideKeeps ==
    ASSUME LInv, NEW t \in Trx, NEW d \in {"allow", "block"}, NEW status,
           NEW f \in Observation, Decide(t, d, status, f)
    PROVE  LInv'
<1> USE DEF LInv, Decide
<1> DEFINE row == [at |-> now, decision |-> d]
           e == [trx |-> t, ts |-> now, decision |-> d, status |-> status, features |-> f]
<1>1. row \in [at : Nat, decision : {"allow", "block"}] /\ row # NULL
  <2>1. row \in [at : Nat, decision : {"allow", "block"}]
    BY DEF TypeOK
  <2> QED
    BY <2>1, AbsentAssumption
<1>2. TypeOK'
  BY <1>1 DEF TypeOK
<1>3. OutcomesOnce' /\ CopiesOnce'
  <2>1. now' \in Nat /\ now <= now'
    BY DEF TypeOK
  <2> QED
    BY <2>1, CopiesStay
<1>4. \A u \in Trx : decisions[u] # NULL => decisions'[u] # NULL
  BY DEF TypeOK
<1>5. decisions'[t] # NULL
  BY <1>1 DEF TypeOK
<1>6. \A g \in traffic : g.trx # t
  BY DEF EventsOnce, Event
<1>7. CASE UNCHANGED traffic
  <2>1. EventsOnce'
    BY <1>7, <1>4 DEF EventsOnce, Event, OnePerTrx
  <2> QED
    BY <1>2, <1>3, <2>1
<1>8. CASE traffic' = traffic \cup {e}
  <2>1. IsFiniteSet(traffic')
    BY <1>8, FS_AddElement DEF EventsOnce
  <2>2. Event(e)' /\ e.trx = t
    BY DEF Event, TypeOK
  <2>3. \A g \in traffic : Event(g)' /\ decisions'[g.trx] # NULL
    BY <1>4 DEF EventsOnce, Event
  <2>4. \A g \in traffic' : Event(g)' /\ decisions'[g.trx] # NULL
    BY <1>8, <1>5, <2>2, <2>3
  <2>5. OnePerTrx(traffic')
    BY <1>6, <1>8, <2>2 DEF EventsOnce, OnePerTrx
  <2> QED
    BY <1>2, <1>3, <2>1, <2>4, <2>5 DEF EventsOnce
<1> QED
  BY <1>2, <1>3, <1>7, <1>8

LEMMA CallbackKeeps ==
    ASSUME LInv, NEW k \in Says, Callback(k[1], k[2], k[3], k[4])
    PROVE  LInv'
<1> USE DEF LInv, Callback, olap
<1> DEFINE o == [trx |-> k[1], type |-> k[2], status |-> k[3], reason |-> k[4], at |-> now]
<1>1. TypeOK'
  BY DEF TypeOK
<1>2. EventsOnce'
  BY DEF EventsOnce, Event, OnePerTrx
<1>3. /\ outcomes' = outcomes \cup {o} /\ unsent' = unsent \cup {o}
      /\ now' = now /\ outcomeLog' = outcomeLog
      /\ \A p \in outcomes : ~ SameOutcome(p, o)
  BY DEF SameOutcome
<1>4. Said(o) /\ o.at \in 0..now
  BY DEF Said, TypeOK
<1> HIDE DEF o
<1>5. IsFiniteSet(outcomes')
  BY <1>3, FS_AddElement DEF OutcomesOnce
<1>6. \A p, q \in outcomes' : SameOutcome(p, q) => p = q
  BY <1>3 DEF OutcomesOnce, SameOutcome
<1>7. \A p \in outcomes' : Said(p) /\ p.at \in 0..now
  BY <1>3, <1>4 DEF OutcomesOnce
<1>8. OutcomesOnce'
  BY <1>3, <1>5, <1>6, <1>7 DEF OutcomesOnce, Said, SameOutcome
<1>9. \A r \in outcomeLog : \E p \in outcomes : Copy(r, p)
  BY DEF CopiesOnce
<1>10. \A r \in outcomeLog : ~ SameOutcome(r, o)
  BY <1>3, <1>9 DEF Copy, SameOutcome
<1>11. CopiesOnce'
  BY <1>3, <1>9, <1>10 DEF CopiesOnce, Copy, SameOutcome
<1> QED
  BY <1>1, <1>2, <1>8, <1>11

LEMMA MirrorOutcomeKeeps == ASSUME LInv, NEW o \in outcomes, MirrorOutcome(o) PROVE LInv'
<1> USE DEF LInv, MirrorOutcome
<1> DEFINE r == [o EXCEPT !.at = now]
<1>1. TypeOK'
  BY DEF TypeOK
<1>2. EventsOnce'
  BY DEF EventsOnce, Event, OnePerTrx
<1>3. OutcomesOnce'
  BY DEF OutcomesOnce, Said, SameOutcome
<1>4. Copy(r, o)
  <2>1. PICK k \in Says :
          o = [trx |-> k[1], type |-> k[2], status |-> k[3], reason |-> k[4], at |-> o.at]
    BY DEF OutcomesOnce, Said
  <2>2. r = [trx |-> k[1], type |-> k[2], status |-> k[3], reason |-> k[4], at |-> now]
    BY <2>1
  <2>3. /\ r.trx = k[1] /\ r.type = k[2] /\ r.status = k[3] /\ r.reason = k[4] /\ r.at = now
        /\ o.trx = k[1] /\ o.type = k[2] /\ o.status = k[3] /\ o.reason = k[4]
    BY <2>1, <2>2
  <2>4. now \in o.at..now
    BY DEF TypeOK, OutcomesOnce
  <2> HIDE DEF r
  <2> QED
    BY <2>3, <2>4 DEF Copy, SameOutcome
<1>5. /\ outcomeLog' = outcomeLog \cup {r} /\ outcomes' = outcomes
      /\ unsent' = unsent \ {o} /\ now' = now /\ o \in unsent
  OBVIOUS
<1> HIDE DEF r
<1>6. \A q \in outcomeLog : SameOutcome(q, r) => q = o
  BY <1>4, <1>5 DEF CopiesOnce, Copy, SameOutcome
<1>7. \A q \in outcomeLog' : \E p \in outcomes' : Copy(q, p)'
  <2>1. \A q \in outcomeLog' : \E p \in outcomes : Copy(q, p)
    BY <1>4, <1>5 DEF CopiesOnce
  <2> QED
    BY <1>5, <2>1 DEF Copy, SameOutcome
<1>8. \A q, u \in outcomeLog' \ outcomes' : SameOutcome(q, u) => q = u
  BY <1>5, <1>6 DEF CopiesOnce, SameOutcome
<1>9. \A q \in outcomeLog', p \in unsent' : SameOutcome(q, p) => q = p
  <2>1. \A p \in unsent' : ~ SameOutcome(r, p)
    BY <1>4, <1>5 DEF OutcomesOnce, Copy, SameOutcome
  <2> QED
    BY <1>5, <2>1 DEF CopiesOnce
<1>10. CopiesOnce'
  BY <1>7, <1>8, <1>9 DEF CopiesOnce, SameOutcome
<1> QED
  BY <1>1, <1>2, <1>3, <1>10

LEMMA BackfillOutcomeKeeps == ASSUME LInv, NEW o \in outcomes, BackfillOutcome(o) PROVE LInv'
<1> USE DEF LInv, BackfillOutcome
<1>1. TypeOK' /\ EventsOnce' /\ OutcomesOnce'
  BY DEF TypeOK, EventsOnce, Event, OnePerTrx, OutcomesOnce, Said, SameOutcome
<1>2. Copy(o, o)
  BY DEF TypeOK, OutcomesOnce, Copy, SameOutcome
<1>3. \A q \in outcomeLog' : \E p \in outcomes : Copy(q, p)
  BY <1>2 DEF CopiesOnce
<1>4. \A p \in unsent : SameOutcome(o, p) => o = p
  BY DEF OutcomesOnce
<1>5. CopiesOnce'
  BY <1>3, <1>4 DEF CopiesOnce, Copy, SameOutcome
<1> QED
  BY <1>1, <1>5

(* A row less, or an outcome the mirror will not write.                    *)
LEMMA FewerKeep ==
    ASSUME LInv, outcomeLog' \subseteq outcomeLog, unsent' \subseteq unsent,
           UNCHANGED <<now, decisions, outcomes, maturation, config, traffic>>
    PROVE  LInv'
<1> USE DEF LInv
<1>1. TypeOK' /\ EventsOnce'
  BY DEF TypeOK, EventsOnce, Event, OnePerTrx
<1>2. OutcomesOnce'
  BY DEF OutcomesOnce, Said, SameOutcome
<1>3. CopiesOnce'
  BY DEF CopiesOnce, Copy, SameOutcome
<1> QED
  BY <1>1, <1>2, <1>3

LEMMA AdministrationKeeps == ASSUME LInv, Administration PROVE LInv'
<1>1. /\ UNCHANGED <<now, decisions, outcomes, unsent, traffic, outcomeLog>>
      /\ maturation' \in Days /\ config' \in Config
  BY DEF LInv, TypeOK, Administration, Review, PutSetting, PutConfig, olap
<1>2. TypeOK' /\ EventsOnce'
  BY <1>1 DEF LInv, TypeOK, EventsOnce, Event, OnePerTrx
<1>3. OutcomesOnce' /\ CopiesOnce'
  <2>1. now' \in Nat /\ now <= now'
    BY <1>1 DEF LInv, TypeOK
  <2> QED
    BY <1>1, <2>1, CopiesStay
<1> QED
  BY <1>2, <1>3 DEF LInv

LEMMA StepLInv == LInv /\ [Next]_vars => LInv'
<1> SUFFICES ASSUME LInv, [Next]_vars PROVE LInv'
  OBVIOUS
<1>1. CASE Tick
  BY <1>1, TickKeeps
<1>2. ASSUME NEW t \in Trx, NEW f \in Observation, Decisions(t, f)
      PROVE  LInv'
  BY <1>2, DecideKeeps DEF Decisions
<1>3. ASSUME NEW k \in Says, Callback(k[1], k[2], k[3], k[4]) PROVE LInv'
  BY <1>3, CallbackKeeps
<1>4. CASE Mirroring
  <2>1. ASSUME NEW o \in unsent, MirrorOutcome(o) PROVE LInv'
    BY <2>1, MirrorOutcomeKeeps DEF LInv, OutcomesOnce
  <2>2. ASSUME NEW o \in unsent, OutcomeLost(o) PROVE LInv'
    BY <2>2, FewerKeep DEF OutcomeLost, olap
  <2>3. ASSUME NEW o \in outcomes, BackfillOutcome(o) PROVE LInv'
    BY <2>3, BackfillOutcomeKeeps
  <2>4. ASSUME NEW o \in outcomeLog, Merge(o) PROVE LInv'
    BY <2>4, FewerKeep DEF Merge
  <2> QED
    BY <1>4, <2>1, <2>2, <2>3, <2>4 DEF Mirroring
<1>5. CASE Administration
  BY <1>5, AdministrationKeeps
<1>6. CASE UNCHANGED vars
  BY <1>6, FewerKeep DEF vars, olap
<1> QED
  BY <1>1, <1>2, <1>3, <1>4, <1>5, <1>6 DEF Next

(* What the stores hold is well formed in every reachable state.           *)
THEOREM StoresAreOnce == Spec => []LInv
<1> QED
  BY InitLInv, StepLInv, PTL DEF Spec

-----------------------------------------------------------------------------
(***************************************************************************)
(* The figures of one page.                                                *)
(***************************************************************************)
LEMMA EventsFinite ==
    ASSUME LInv, NEW lo, NEW hi, NEW scope
    PROVE  /\ IsFiniteSet(Events(lo, hi, scope))
           /\ OnePerTrx(Events(lo, hi, scope))
           /\ \A e \in Events(lo, hi, scope) : Event(e)
<1>1. Events(lo, hi, scope) \subseteq traffic
  BY DEF Events
<1> QED
  BY <1>1, FS_Subset DEF LInv, EventsOnce, OnePerTrx

(* The rows of one kind are of finitely many transactions.                 *)
LEMMA KindFinite ==
    ASSUME LInv, NEW kind, NEW rows,
           \A o \in rows : o \in outcomeLog /\ o.type = kind
    PROVE  IsFiniteSet(TrxOf(rows)) /\ Cardinality(TrxOf(rows)) \in Nat
<1> DEFINE stored == {o \in outcomes : o.type = kind}
<1>1. IsFiniteSet(stored) /\ OnePerTrx(stored)
  BY FS_Subset DEF LInv, OutcomesOnce, OnePerTrx, SameOutcome
<1>2. \A r \in rows : \E o \in stored : r.trx = o.trx
  BY DEF LInv, CopiesOnce, Copy, SameOutcome
<1>3. TrxOf(rows) \subseteq TrxOf(stored)
  BY <1>2 DEF TrxOf
<1> HIDE DEF stored
<1>4. IsFiniteSet(TrxOf(stored))
  BY <1>1, TrxOfSize
<1> QED
  BY <1>3, <1>4, FS_Subset, FS_CardinalityType

(* The rows of one outcome say the same.                                   *)
LEMMA RowsAgree ==
    ASSUME LInv, NEW r \in outcomeLog, NEW q \in outcomeLog, SameOutcome(r, q)
    PROVE  r.status = q.status /\ r.reason = q.reason
<1>1. PICK o \in outcomes : Copy(r, o)
  BY DEF LInv, CopiesOnce
<1>2. PICK p \in outcomes : Copy(q, p)
  BY DEF LInv, CopiesOnce
<1>3. o = p
  BY <1>1, <1>2 DEF Copy, SameOutcome, LInv, OutcomesOnce
<1> QED
  BY <1>1, <1>2, <1>3 DEF Copy

SubsIn(lo, hi, scope) == {o \in Outcomes(lo, hi, scope) : o.type = "subscription"}

Charged(rows) == {o \in rows : o.status = "success"}
Refused(rows) == {o \in rows : o.status = "failed"}
RefusedFor(rows, reason) == {o \in rows : o.status = "failed" /\ o.reason = reason}
RefusedOtherwise(rows) == {o \in rows : IsOther(o)}

LEMMA FunnelIs ==
    ASSUME NEW lo, NEW hi, NEW scope,
           NEW subs, subs = SubsIn(lo, hi, scope),
           NEW f, f = ChargingFunnel(lo, hi, scope)
    PROVE  /\ f.registration_success = Cardinality(TrxOf(subs))
           /\ f.charging_success = Cardinality(TrxOf(Charged(subs)))
           /\ f.charging_failed = Cardinality(TrxOf(Refused(subs)))
           /\ f.insufficient_balance = Cardinality(TrxOf(RefusedFor(subs, "insufficient_balance")))
           /\ f.daily_limit_reached = Cardinality(TrxOf(RefusedFor(subs, "daily_limit_reached")))
           /\ f.other = Cardinality(TrxOf(RefusedOtherwise(subs)))
           /\ f.complaints = Complaints(lo, hi, scope)
BY DEF ChargingFunnel, SubsIn, Charged, Refused, RefusedFor, RefusedOtherwise

LEMMA SummaryAddsUp ==
    ASSUME LInv, NEW lo, NEW hi, NEW scope
    PROVE  LET s == Summary(lo, hi, scope)
           IN s.total = s.allow + s.block /\ s.fraud_est <= s.allow
<1> DEFINE events == Events(lo, hi, scope)
           allowed == {e \in events : e.decision = "allow"}
           blocked == {e \in events : e.decision = "block"}
           s == Summary(lo, hi, scope)
<1>1. IsFiniteSet(events) /\ OnePerTrx(events) /\ \A e \in events : Event(e)
  BY EventsFinite
<1>2. /\ s.total = Cardinality(events)
      /\ s.allow = Cardinality(allowed)
      /\ s.block = Cardinality(blocked)
      /\ s.fraud_est = Cardinality(FraudAmong(lo, hi, scope))
  BY DEF Summary, Count, Metric, FraudEst
<1>3. events = allowed \cup blocked /\ allowed \cap blocked = {}
  BY <1>1 DEF Event
<1>4. Cardinality(events) = Cardinality(allowed) + Cardinality(blocked)
  <2> HIDE DEF events, allowed, blocked
  <2> QED
    BY <1>1, <1>3, DisjointSizes
<1>5. IsFiniteSet(allowed) /\ OnePerTrx(allowed)
  BY <1>1, FS_Subset DEF OnePerTrx
<1>6. IsFiniteSet(TrxOf(allowed)) /\ Cardinality(TrxOf(allowed)) = Cardinality(allowed)
  <2> HIDE DEF allowed
  <2> QED
    BY <1>5, TrxOfSize
<1>7. FraudAmong(lo, hi, scope) \subseteq TrxOf(allowed)
  BY DEF FraudAmong
<1>8. Cardinality(FraudAmong(lo, hi, scope)) <= Cardinality(TrxOf(allowed))
  BY <1>6, <1>7, SubsetSize
<1> HIDE DEF events, allowed, blocked, s
<1>9. s.total = s.allow + s.block /\ s.fraud_est <= s.allow
  BY <1>2, <1>4, <1>6, <1>8
<1> QED
  BY <1>9 DEF s

LEMMA SeriesAddsUp ==
    ASSUME LInv, NEW lo, NEW hi, NEW scope, NEW m \in {"total", "block"}
    PROVE  SumOf(Timeseries(m, lo, hi, scope)) = Summary(lo, hi, scope)[m]
<1> DEFINE events == Events(lo, hi, scope)
           S == {e \in events : Metric(m, e)}
           K == {e.ts : e \in events}
           key == [e \in S |-> e.ts]
<1>1. IsFiniteSet(S)
  BY EventsFinite, FS_Subset
<1>2. \A e \in S : key[e] \in K
  OBVIOUS
<1>3. \A b \in K : {e \in S : key[e] = b} = {e \in {d \in events : d.ts = b} : Metric(m, e)}
  OBVIOUS
<1>4. Timeseries(m, lo, hi, scope) = [b \in K |-> Cardinality({e \in S : key[e] = b})]
  BY <1>3 DEF Timeseries, Count
<1>5. Summary(lo, hi, scope)[m] = Cardinality(S)
  BY DEF Summary, Count
<1> HIDE DEF S, K, key
<1> QED
  BY <1>1, <1>2, <1>4, <1>5, SumOfClasses

LEMMA BreakdownAddsUp ==
    ASSUME LInv, NEW lo, NEW hi, NEW scope, NEW dim
    PROVE  SumOf(Breakdown(dim, lo, hi, scope)) = Summary(lo, hi, scope).total
<1> DEFINE S == Events(lo, hi, scope)
           K == {DimensionKey(dim, e) : e \in S}
           key == [e \in S |-> DimensionKey(dim, e)]
<1>1. IsFiniteSet(S)
  BY EventsFinite
<1>2. \A e \in S : key[e] \in K
  OBVIOUS
<1>3. \A k \in K : {e \in S : key[e] = k} = {e \in S : DimensionKey(dim, e) = k}
  OBVIOUS
<1>4. Breakdown(dim, lo, hi, scope) = [k \in K |-> Cardinality({e \in S : key[e] = k})]
  BY <1>3 DEF Breakdown
<1>5. Summary(lo, hi, scope).total = Cardinality(S)
  BY DEF Summary, Count, Metric
<1> HIDE DEF S, K, key
<1> QED
  BY <1>1, <1>2, <1>4, <1>5, SumOfClasses

LEMMA SearchFindsAllowed ==
    ASSUME LInv, NEW lo, NEW hi, NEW scope
    PROVE  Cardinality(Search(lo, hi, scope, "allow", FALSE, NULL, NULL)) =
           Summary(lo, hi, scope).allow
<1>1. Search(lo, hi, scope, "allow", FALSE, NULL, NULL) =
      {e \in Events(lo, hi, scope) : e.decision = "allow"}
  BY AbsentAssumption DEF Search
<1>2. Summary(lo, hi, scope).allow = Cardinality({e \in Events(lo, hi, scope) : e.decision = "allow"})
  BY DEF Summary, Count, Metric
<1> QED
  BY <1>1, <1>2

(* Failed charges are of subscriptions: a complaint has no charge status.  *)
LEMMA FailedIsSubscription ==
    ASSUME LInv, NEW o \in outcomeLog
    PROVE  /\ o.type = "subscription" => o.status \in {"success", "failed"}
           /\ o.type # "subscription" => o.type = "complaint" /\ o.status = ""
           /\ o.trx \in Trx
<1>1. PICK p \in outcomes : Copy(o, p)
  BY DEF LInv, CopiesOnce
<1>2. PICK k \in Says :
        p = [trx |-> k[1], type |-> k[2], status |-> k[3], reason |-> k[4], at |-> p.at]
  BY DEF LInv, OutcomesOnce, Said
<1>3. o.trx = k[1] /\ o.type = k[2] /\ o.status = k[3]
  BY <1>1, <1>2 DEF Copy, SameOutcome
<1> QED
  BY <1>3, SaysAssumption

LEMMA FunnelAddsUp ==
    ASSUME LInv, NEW lo, NEW hi, NEW scope
    PROVE  LET f == ChargingFunnel(lo, hi, scope)
           IN /\ f.charging_success + f.charging_failed = f.registration_success
              /\ f.insufficient_balance + f.daily_limit_reached + f.other = f.charging_failed
              /\ f.charging_failed =
                   Cardinality(TrxOf({o \in Outcomes(lo, hi, scope) : o.status = "failed"}))
<1> DEFINE subs == SubsIn(lo, hi, scope)
           f == ChargingFunnel(lo, hi, scope)
           good == Charged(subs)
           bad == Refused(subs)
           poor == RefusedFor(subs, "insufficient_balance")
           limit == RefusedFor(subs, "daily_limit_reached")
           rest == RefusedOtherwise(subs)
<1>1. \A o \in subs : o \in outcomeLog /\ o.type = "subscription"
  BY DEF SubsIn, Outcomes
<1>2. ASSUME NEW rows, rows \subseteq subs
      PROVE  IsFiniteSet(TrxOf(rows)) /\ Cardinality(TrxOf(rows)) \in Nat
  BY <1>1, <1>2, KindFinite
<1>3. \A r, q \in subs : r.trx = q.trx => r.status = q.status /\ r.reason = q.reason
  BY <1>1, RowsAgree DEF SameOutcome
<1>4. subs = good \cup bad
  BY <1>1, FailedIsSubscription DEF Charged, Refused
<1>5. bad = poor \cup (limit \cup rest)
  BY DEF IsOther, Refused, RefusedFor, RefusedOtherwise
<1>6. /\ f.registration_success = Cardinality(TrxOf(subs))
      /\ f.charging_success = Cardinality(TrxOf(good))
      /\ f.charging_failed = Cardinality(TrxOf(bad))
      /\ f.insufficient_balance = Cardinality(TrxOf(poor))
      /\ f.daily_limit_reached = Cardinality(TrxOf(limit))
      /\ f.other = Cardinality(TrxOf(rest))
  <2>1. subs = SubsIn(lo, hi, scope) /\ f = ChargingFunnel(lo, hi, scope)
    OBVIOUS
  <2> HIDE DEF subs, f
  <2> QED
    BY <2>1, FunnelIs
<1>7. bad = {o \in Outcomes(lo, hi, scope) : o.status = "failed"}
  <2>1. \A o \in Outcomes(lo, hi, scope) : o.status = "failed" => o.type = "subscription"
    BY FailedIsSubscription DEF Outcomes
  <2> QED
    BY <2>1 DEF SubsIn, Refused
<1>8. good \subseteq subs /\ bad \subseteq subs /\ poor \subseteq subs /\ limit \cup rest \subseteq subs
  BY DEF Charged, Refused, RefusedFor, RefusedOtherwise
<1>9. TrxOf(subs) = TrxOf(good) \cup TrxOf(bad)
  <2> HIDE DEF subs, good, bad
  <2> QED
    BY <1>4 DEF TrxOf
<1>10. TrxOf(good) \cap TrxOf(bad) = {}
  <2>1. \A r \in good, q \in bad : r.trx # q.trx
    BY <1>3 DEF Charged, Refused
  <2> HIDE DEF good, bad
  <2> QED
    BY <2>1 DEF TrxOf
<1>11. /\ TrxOf(bad) = TrxOf(poor) \cup TrxOf(limit \cup rest)
       /\ TrxOf(limit \cup rest) = TrxOf(limit) \cup TrxOf(rest)
  <2> HIDE DEF bad, poor, limit, rest
  <2> QED
    BY <1>5 DEF TrxOf
<1>12. /\ TrxOf(poor) \cap TrxOf(limit \cup rest) = {}
       /\ TrxOf(limit) \cap TrxOf(rest) = {}
  <2>1. /\ \A r \in poor, q \in limit \cup rest : r.trx # q.trx
        /\ \A r \in limit, q \in rest : r.trx # q.trx
    BY <1>3 DEF RefusedFor, RefusedOtherwise, IsOther
  <2> HIDE DEF poor, limit, rest
  <2> QED
    BY <2>1 DEF TrxOf
<1> HIDE DEF subs, f, good, bad, poor, limit, rest
<1>13. Cardinality(TrxOf(subs)) = Cardinality(TrxOf(good)) + Cardinality(TrxOf(bad))
  <2>1. IsFiniteSet(TrxOf(subs))
    BY <1>2
  <2> QED
    BY ONLY <2>1, <1>9, <1>10, DisjointSizes
<1>14. Cardinality(TrxOf(bad)) = Cardinality(TrxOf(poor)) + Cardinality(TrxOf(limit \cup rest))
  <2>1. IsFiniteSet(TrxOf(bad))
    BY <1>2, <1>8
  <2> DEFINE A == TrxOf(poor)
             C == TrxOf(limit \cup rest)
  <2>2. TrxOf(bad) = A \cup C /\ A \cap C = {}
    BY <1>11, <1>12
  <2> HIDE DEF A, C
  <2>3. Cardinality(TrxOf(bad)) = Cardinality(A) + Cardinality(C)
    BY <2>1, <2>2, DisjointSizes
  <2> QED
    BY <2>3 DEF A, C
<1>15. /\ Cardinality(TrxOf(limit \cup rest)) = Cardinality(TrxOf(limit)) + Cardinality(TrxOf(rest))
       /\ Cardinality(TrxOf(limit)) \in Nat /\ Cardinality(TrxOf(rest)) \in Nat
  <2>1. IsFiniteSet(TrxOf(limit \cup rest))
    BY <1>2, <1>8
  <2> DEFINE S == TrxOf(limit \cup rest)
             A == TrxOf(limit)
             C == TrxOf(rest)
  <2>2. S = A \cup C /\ A \cap C = {} /\ IsFiniteSet(S)
    BY <2>1, <1>11, <1>12
  <2> HIDE DEF S, A, C
  <2>3. /\ Cardinality(S) = Cardinality(A) + Cardinality(C)
        /\ Cardinality(A) \in Nat /\ Cardinality(C) \in Nat
    BY <2>2, DisjointSizes
  <2> QED
    BY <2>3 DEF S, A, C
<1>16. Cardinality(TrxOf(poor)) \in Nat
  BY <1>2, <1>8
<1>17. /\ f.charging_success + f.charging_failed = f.registration_success
       /\ f.insufficient_balance + f.daily_limit_reached + f.other = f.charging_failed
       /\ f.charging_failed = Cardinality(TrxOf(bad))
  BY <1>6, <1>13, <1>14, <1>15, <1>16
<1> QED
  BY <1>7, <1>17 DEF f

Reason(o) == IF o.reason = "" THEN "unknown" ELSE o.reason

LEMMA ReasonsAddUp ==
    ASSUME LInv, NEW lo, NEW hi, NEW scope
    PROVE  SumOf(Summary(lo, hi, scope).charging_fail_breakdown) =
           Cardinality(TrxOf({o \in Outcomes(lo, hi, scope) : o.status = "failed"}))
<1> DEFINE failed == {o \in Outcomes(lo, hi, scope) : o.status = "failed"}
           S == TrxOf(failed)
           K == {Reason(o) : o \in failed}
           key == [t \in S |-> Reason(CHOOSE o \in failed : o.trx = t)]
<1>1. \A o \in failed : o \in outcomeLog /\ o.type = "subscription"
  BY FailedIsSubscription DEF Outcomes
<1>2. \A r, q \in failed : r.trx = q.trx => Reason(r) = Reason(q)
  BY <1>1, RowsAgree DEF SameOutcome, Reason
<1>3. ChargingFailBreakdown(lo, hi, scope) = [r \in K |-> Cardinality(TrxOf({o \in failed : r = Reason(o)}))]
  BY DEF ChargingFailBreakdown, Reason
<1>4. Summary(lo, hi, scope).charging_fail_breakdown = ChargingFailBreakdown(lo, hi, scope)
  BY DEF Summary
<1> HIDE DEF failed
<1>5. IsFiniteSet(S)
  BY <1>1, KindFinite
<1>6. ASSUME NEW o \in failed PROVE o.trx \in S /\ key[o.trx] = Reason(o)
  <2>1. o.trx \in S
    BY DEF TrxOf
  <2>2. (CHOOSE p \in failed : p.trx = o.trx) \in failed
        /\ (CHOOSE p \in failed : p.trx = o.trx).trx = o.trx
    OBVIOUS
  <2> QED
    BY <2>1, <2>2, <1>2
<1>7. \A t \in S : \E o \in failed : t = o.trx
  BY DEF TrxOf
<1> HIDE DEF S, key
<1>8. \A t \in S : key[t] \in K
  BY <1>6, <1>7
<1>9. ASSUME NEW r \in K PROVE TrxOf({o \in failed : r = Reason(o)}) = {t \in S : key[t] = r}
  BY <1>6, <1>7 DEF TrxOf
<1> HIDE DEF K
<1>10. Summary(lo, hi, scope).charging_fail_breakdown = [r \in K |-> Cardinality({t \in S : key[t] = r})]
  BY <1>3, <1>4, <1>9
<1>11. SumOf([r \in K |-> Cardinality({t \in S : key[t] = r})]) = Cardinality(S)
  BY <1>5, <1>8, SumOfClasses
<1> QED
  BY <1>10, <1>11 DEF S, failed

(* On every page of the dashboard the figures agree.                       *)
THEOREM FiguresOfAPageAgree == Spec => []FiguresAgree
<1>1. ASSUME LInv, NEW w \in Window, NEW scope \in Scopes
      PROVE  LET s == Summary(w[1], w[2], scope)
                 f == ChargingFunnel(w[1], w[2], scope)
             IN /\ s.total = s.allow + s.block
                /\ s.fraud_est <= s.allow
                /\ \A m \in {"total", "block"} : SumOf(Timeseries(m, w[1], w[2], scope)) = s[m]
                /\ SumOf(Breakdown("decision", w[1], w[2], scope)) = s.total
                /\ f.charging_success + f.charging_failed = f.registration_success
                /\ f.insufficient_balance + f.daily_limit_reached + f.other = f.charging_failed
                /\ SumOf(s.charging_fail_breakdown) = f.charging_failed
                /\ Cardinality(Search(w[1], w[2], scope, "allow", FALSE, NULL, NULL)) = s.allow
  <2> DEFINE s == Summary(w[1], w[2], scope)
             f == ChargingFunnel(w[1], w[2], scope)
  <2>1. s.total = s.allow + s.block /\ s.fraud_est <= s.allow
    BY <1>1, SummaryAddsUp
  <2>2. \A m \in {"total", "block"} : SumOf(Timeseries(m, w[1], w[2], scope)) = s[m]
    BY <1>1, SeriesAddsUp
  <2>3. SumOf(Breakdown("decision", w[1], w[2], scope)) = s.total
    BY <1>1, BreakdownAddsUp
  <2>4. /\ f.charging_success + f.charging_failed = f.registration_success
        /\ f.insufficient_balance + f.daily_limit_reached + f.other = f.charging_failed
        /\ f.charging_failed =
             Cardinality(TrxOf({o \in Outcomes(w[1], w[2], scope) : o.status = "failed"}))
    BY <1>1, FunnelAddsUp
  <2>5. SumOf(s.charging_fail_breakdown) = f.charging_failed
    BY <1>1, <2>4, ReasonsAddUp
  <2>6. Cardinality(Search(w[1], w[2], scope, "allow", FALSE, NULL, NULL)) = s.allow
    BY <1>1, SearchFindsAllowed
  <2> HIDE DEF s, f
  <2>7. /\ s.total = s.allow + s.block
        /\ s.fraud_est <= s.allow
        /\ \A m \in {"total", "block"} : SumOf(Timeseries(m, w[1], w[2], scope)) = s[m]
        /\ SumOf(Breakdown("decision", w[1], w[2], scope)) = s.total
        /\ f.charging_success + f.charging_failed = f.registration_success
        /\ f.insufficient_balance + f.daily_limit_reached + f.other = f.charging_failed
        /\ SumOf(s.charging_fail_breakdown) = f.charging_failed
        /\ Cardinality(Search(w[1], w[2], scope, "allow", FALSE, NULL, NULL)) = s.allow
    BY <2>1, <2>2, <2>3, <2>4, <2>5, <2>6
  <2> QED
    BY <2>7 DEF s, f
<1>2. LInv => FiguresAgree
  BY <1>1 DEF FiguresAgree
<1> QED
  BY <1>2, StoresAreOnce, PTL

-----------------------------------------------------------------------------
(***************************************************************************)
(* Adjacent windows.  When billing answers within the horizon, a window    *)
(* counts the rows written in it of the transactions ever seen; a          *)
(* transaction two windows count has a row in either, and the earlier one  *)
(* is the stored outcome itself.                                           *)
(***************************************************************************)
LEMMA RowsInTime == ASSUME LInv, NEW r \in outcomeLog PROVE r.at \in Nat
BY DEF LInv, TypeOK, OutcomesOnce, CopiesOnce, Copy

LEMMA OutcomesOfSeen ==
    ASSUME LInv, AnsweredInTime, NEW lo \in Nat, NEW hi \in Nat, NEW scope
    PROVE  Outcomes(lo, hi, scope) =
           {o \in outcomeLog : InWindow(o.at, lo, hi) /\ o.trx \in Seen(scope)}
<1> SUFFICES ASSUME NEW o \in outcomeLog, InWindow(o.at, lo, hi)
             PROVE  o.trx \in KnownTrx(lo, hi, scope) <=> o.trx \in Seen(scope)
  BY DEF Outcomes
<1>1. Horizon \in Nat
  BY TimesAssumption
<1>2. o.at \in Nat /\ lo <= o.at /\ o.at < hi
  BY RowsInTime DEF InWindow
<1>3. ASSUME NEW e \in traffic, e.trx = o.trx PROVE InWindow(e.ts, lo - Horizon, hi)
  <2>1. e.ts \in Nat
    BY DEF LInv, TypeOK, EventsOnce, Event
  <2>2. o.at - e.ts \in 0..Horizon
    BY <1>3 DEF AnsweredInTime
  <2> QED
    BY <1>1, <1>2, <2>1, <2>2 DEF InWindow
<1>4. o.trx \in KnownTrx(lo, hi, scope) => o.trx \in Seen(scope)
  BY DEF KnownTrx, Events, Seen
<1>5. o.trx \in Seen(scope) => o.trx \in KnownTrx(lo, hi, scope)
  <2> SUFFICES ASSUME NEW e \in traffic, InScope(e.trx, scope), e.trx = o.trx
               PROVE  o.trx \in KnownTrx(lo, hi, scope)
    BY DEF Seen
  <2>1. e \in Events(lo - Horizon, hi, scope)
    BY <1>3 DEF Events
  <2> QED
    BY <2>1 DEF KnownTrx
<1> QED
  BY <1>4, <1>5

Counted(k, rows) == {o \in rows : CountedAs(k, o)}

LEMMA CountIs ==
    ASSUME NEW lo, NEW hi, NEW scope, NEW k \in {"registration_success", "other", "complaints"}
    PROVE  ChargingFunnel(lo, hi, scope)[k] = Cardinality(TrxOf(Counted(k, Outcomes(lo, hi, scope))))
<1> DEFINE rows == Outcomes(lo, hi, scope)
           f == ChargingFunnel(lo, hi, scope)
<1>1. /\ f.registration_success = Cardinality(TrxOf(SubsIn(lo, hi, scope)))
      /\ f.other = Cardinality(TrxOf(RefusedOtherwise(SubsIn(lo, hi, scope))))
      /\ f.complaints = Complaints(lo, hi, scope)
  BY FunnelIs
<1>2. /\ Counted("registration_success", rows) = SubsIn(lo, hi, scope)
      /\ Counted("other", rows) = RefusedOtherwise(SubsIn(lo, hi, scope))
      /\ Counted("complaints", rows) = {o \in rows : o.type = "complaint"}
  BY DEF Counted, CountedAs, SubsIn, RefusedOtherwise
<1>3. Complaints(lo, hi, scope) = Cardinality(TrxOf({o \in rows : o.type = "complaint"}))
  BY DEF Complaints
<1> HIDE DEF rows, f
<1>4. f[k] = Cardinality(TrxOf(Counted(k, rows)))
  BY <1>1, <1>2, <1>3
<1> QED
  BY <1>4 DEF rows, f

(* Rows of one transaction that are counted alike are of one outcome, and  *)
(* the rows of one outcome are counted alike.                              *)
LEMMA CountedAlike ==
    ASSUME LInv, NEW k \in {"registration_success", "other", "complaints"},
           NEW r \in outcomeLog, NEW q \in outcomeLog, CountedAs(k, r)
    PROVE  /\ SameOutcome(r, q) => CountedAs(k, q)
           /\ CountedAs(k, q) /\ r.trx = q.trx => SameOutcome(r, q)
<1>1. SameOutcome(r, q) => r.status = q.status /\ r.reason = q.reason
  BY RowsAgree
<1> QED
  BY <1>1 DEF CountedAs, IsOther, SameOutcome

LEMMA FunnelSplits ==
    ASSUME LInv, AnsweredInTime, NEW a \in Nat, NEW b \in Nat, NEW c \in Nat, a < b, b < c, NEW scope,
           NEW k \in {"registration_success", "other", "complaints"},
           NEW twice, twice = {o \in Straddling(a, b, c) : o.trx \in Seen(scope) /\ CountedAs(k, o)}
    PROVE  ChargingFunnel(a, b, scope)[k] + ChargingFunnel(b, c, scope)[k] =
           ChargingFunnel(a, c, scope)[k] + Cardinality(TrxOf(twice))
<1> DEFINE all == Counted(k, Outcomes(a, c, scope))
           first == Counted(k, Outcomes(a, b, scope))
           second == Counted(k, Outcomes(b, c, scope))
           Rows(lo, hi) == {o \in outcomeLog :
                              InWindow(o.at, lo, hi) /\ o.trx \in Seen(scope) /\ CountedAs(k, o)}
<1>1. all = Rows(a, c) /\ first = Rows(a, b) /\ second = Rows(b, c)
  BY OutcomesOfSeen DEF Counted
<1>2. all = first \cup second
  <2>1. \A o \in outcomeLog : InWindow(o.at, a, c) <=> InWindow(o.at, a, b) \/ InWindow(o.at, b, c)
    BY RowsInTime DEF InWindow
  <2> QED
    BY <1>1, <2>1
<1>3. ASSUME NEW o \in twice PROVE o \in first /\ \E p \in second : p.trx = o.trx
  <2>1. /\ o \in outcomeLog /\ InWindow(o.at, a, b)
        /\ o.trx \in Seen(scope) /\ CountedAs(k, o)
    BY DEF Straddling
  <2>2. PICK p \in outcomeLog : SameOutcome(o, p) /\ InWindow(p.at, b, c)
    BY DEF Straddling
  <2>3. p.trx = o.trx /\ CountedAs(k, p)
    BY <2>1, <2>2, CountedAlike DEF SameOutcome
  <2> QED
    BY <1>1, <2>1, <2>2, <2>3
<1>4. ASSUME NEW r \in first, NEW q \in second, r.trx = q.trx PROVE r \in twice
  <2>1. /\ r \in outcomeLog /\ InWindow(r.at, a, b) /\ r.trx \in Seen(scope) /\ CountedAs(k, r)
        /\ q \in outcomeLog /\ InWindow(q.at, b, c) /\ CountedAs(k, q)
    BY <1>1
  <2>2. SameOutcome(r, q)
    BY <1>4, <2>1, CountedAlike
  <2>3. r.at < q.at /\ r # q
    BY <2>1, RowsInTime DEF InWindow
  <2>4. PICK o \in outcomes : Copy(r, o)
    BY <2>1 DEF LInv, CopiesOnce
  <2>5. r \in outcomes
    <3>1. SUFFICES ASSUME r \notin outcomes PROVE FALSE
      OBVIOUS
    <3>2. q \in outcomes
      BY <2>1, <2>2, <2>3, <3>1 DEF LInv, CopiesOnce
    <3>3. q = o
      BY <2>2, <2>4, <3>2 DEF LInv, OutcomesOnce, Copy, SameOutcome
    <3>4. o.at <= r.at
      BY <2>4 DEF Copy, LInv, TypeOK, OutcomesOnce
    <3> QED
      BY <2>1, <2>3, <3>3, <3>4, RowsInTime
  <2> QED
    BY <2>1, <2>2, <2>5 DEF Straddling
<1>5. \A o \in all : o \in outcomeLog
                      /\ o.type = IF k = "complaints" THEN "complaint" ELSE "subscription"
  BY <1>1 DEF CountedAs
<1>6. ChargingFunnel(a, b, scope)[k] = Cardinality(TrxOf(first))
      /\ ChargingFunnel(b, c, scope)[k] = Cardinality(TrxOf(second))
      /\ ChargingFunnel(a, c, scope)[k] = Cardinality(TrxOf(all))
  BY CountIs
<1> HIDE DEF all, first, second, Rows
<1>7. /\ IsFiniteSet(TrxOf(first)) /\ IsFiniteSet(TrxOf(second))
      /\ Cardinality(TrxOf(first)) \in Nat /\ Cardinality(TrxOf(second)) \in Nat
  BY <1>2, <1>5, KindFinite
<1>8. TrxOf(all) = TrxOf(first) \cup TrxOf(second)
  BY <1>2 DEF TrxOf
<1>9. TrxOf(twice) = TrxOf(first) \cap TrxOf(second)
  <2>1. TrxOf(twice) \subseteq TrxOf(first) \cap TrxOf(second)
    BY <1>3 DEF TrxOf
  <2>2. TrxOf(first) \cap TrxOf(second) \subseteq TrxOf(twice)
    <3> SUFFICES ASSUME NEW t \in TrxOf(first), t \in TrxOf(second) PROVE t \in TrxOf(twice)
      OBVIOUS
    <3>1. PICK r \in first : r.trx = t
      BY DEF TrxOf
    <3>2. PICK q \in second : q.trx = t
      BY DEF TrxOf
    <3>3. r \in twice
      BY <1>4, <3>1, <3>2
    <3> QED
      BY <3>1, <3>3 DEF TrxOf
  <2> QED
    BY <2>1, <2>2
<1>10. Cardinality(TrxOf(all)) =
       Cardinality(TrxOf(first)) + Cardinality(TrxOf(second)) - Cardinality(TrxOf(twice))
  BY <1>7, <1>8, <1>9, FS_Union
<1>11. Cardinality(TrxOf(twice)) \in Nat
  BY <1>7, <1>9, FS_Subset, FS_CardinalityType
<1> QED
  BY <1>6, <1>7, <1>10, <1>11

(* However late within the look-back an outcome is written, two adjacent   *)
(* windows count what their union counts, and once more only the           *)
(* transactions whose backfilled row lies before the border.               *)
THEOREM AdjacentWindowsAddUp == Spec => []WindowsAddUp
<1>1. LInv => WindowsAddUp
  <2> SUFFICES ASSUME LInv, NEW a \in 0..MaxTime, NEW c \in 2..(MaxTime + 1), NEW b \in (a + 1)..(c - 1),
                      AnsweredInTime, NEW scope \in Scopes,
                      NEW k \in {"registration_success", "other", "complaints"}
               PROVE  LET twice == {o \in Straddling(a, b, c) : o.trx \in Seen(scope) /\ CountedAs(k, o)}
                      IN ChargingFunnel(a, b, scope)[k] + ChargingFunnel(b, c, scope)[k]
                         = ChargingFunnel(a, c, scope)[k] + Cardinality(TrxOf(twice))
    BY DEF WindowsAddUp
  <2>1. a \in Nat /\ b \in Nat /\ c \in Nat /\ a < b /\ b < c
    BY TimesAssumption
  <2> QED
    BY <2>1, FunnelSplits
<1> QED
  BY <1>1, StoresAreOnce, PTL

-----------------------------------------------------------------------------
(***************************************************************************)
(* What becomes of a label.                                                *)
(***************************************************************************)
ReportsOf(t) == {f.label : f \in {g \in feedback : g.trx = t}}

(* When the labelling says robot: it never depends on time or settings.    *)
Robot(t) == HasComplaint(t) \/ (~ SubscriptionSuccess(t) /\ LimitReached(t))

LEMMA HumanLabelIs ==
    ASSUME NEW t
    PROVE  /\ Robot(t) => IsHumanLabel(t) = FALSE
           /\ IsHumanLabel(t) # NULL /\ ~ Robot(t) =>
                /\ IsHumanLabel(t) = TRUE
                /\ ~ HasComplaint(t) /\ SubscriptionSuccess(t) /\ Matured(t)
BY DEF IsHumanLabel, Robot

LEMMA LabelsAre ==
    ASSUME NEW t, ReportsOf(t) = {}
    PROVE  /\ LabelsOf(t) = {"robot"} <=> t \in Candidates /\ Robot(t)
           /\ "human" \in LabelsOf(t) =>
                ~ HasComplaint(t) /\ SubscriptionSuccess(t) /\ Matured(t)
<1>1. NULL # FALSE
  BY AbsentAssumption
<1>2. CASE t \notin Candidates \/ IsHumanLabel(t) = NULL
  <2>1. LabelsOf(t) = {}
    BY <1>2 DEF LabelsOf, ReportsOf
  <2>2. t \in Candidates => ~ Robot(t)
    BY <1>1, <1>2, HumanLabelIs
  <2> QED
    BY <2>1, <2>2
<1>3. CASE t \in Candidates /\ IsHumanLabel(t) # NULL
  <2>1. LabelsOf(t) = {IF IsHumanLabel(t) THEN "human" ELSE "robot"}
    BY <1>3 DEF LabelsOf, ReportsOf
  <2>2. CASE Robot(t)
    <3>1. IsHumanLabel(t) = FALSE
      BY <2>2, HumanLabelIs
    <3>2. LabelsOf(t) = {"robot"}
      BY <2>1, <3>1
    <3> QED
      BY <1>3, <2>2, <3>2
  <2>3. CASE ~ Robot(t)
    <3>1. /\ IsHumanLabel(t) = TRUE
          /\ ~ HasComplaint(t) /\ SubscriptionSuccess(t) /\ Matured(t)
      BY <1>3, <2>3, HumanLabelIs
    <3>2. LabelsOf(t) = {"human"}
      BY <2>1, <3>1
    <3> QED
      BY <2>3, <3>1, <3>2
  <2> QED
    BY <2>2, <2>3
<1> QED
  BY <1>2, <1>3

(* Nothing is forgotten: a decision stays, and so does an outcome.         *)
LEMMA StoresGrow ==
    ASSUME LInv, [Next]_vars
    PROVE  outcomes \subseteq outcomes' /\ \A t \in Trx : decisions[t] # NULL => decisions'[t] # NULL
<1>1. ASSUME NEW t \in Trx, NEW d, NEW status, NEW f, Decide(t, d, status, f)
      PROVE  outcomes' = outcomes /\ \A u \in Trx : decisions[u] # NULL => decisions'[u] = decisions[u]
  BY <1>1 DEF Decide, LInv, TypeOK
<1> QED
  BY <1>1 DEF Next, Decisions, Tick, Callback, Mirroring, MirrorOutcome, OutcomeLost, BackfillOutcome,
             Merge, Administration, Review, PutSetting, PutConfig, vars

LEMMA RobotRemains ==
    ASSUME LInv, LInv', [Next]_vars, NEW t \in Trx, t \in Candidates, Robot(t)
    PROVE  t \in Candidates' /\ Robot(t)'
<1>1. outcomes \subseteq outcomes' /\ (decisions[t] # NULL => decisions'[t] # NULL)
  BY StoresGrow
<1>2. t \in Candidates'
  BY <1>1 DEF Candidates, OutcomesOf
<1>3. CASE HasComplaint(t)
  BY <1>1, <1>2, <1>3 DEF Robot, HasComplaint, OutcomesOf
<1>4. CASE LimitReached(t)
  <2>1. PICK o \in outcomes : /\ o.trx = t /\ o.type = "subscription"
                             /\ o.status # "success" /\ o.reason = "daily_limit_reached"
    BY <1>4 DEF LimitReached, SubscriptionsOf, OutcomesOf
  <2>2. \A p \in outcomes' : p.trx = t /\ p.type = "subscription" => p = o
    BY <1>1, <2>1 DEF LInv, OutcomesOnce, SameOutcome
  <2>3. LimitReached(t)'
    BY <1>1, <2>1 DEF LimitReached, SubscriptionsOf, OutcomesOf
  <2>4. ~ SubscriptionSuccess(t)'
    BY <2>1, <2>2 DEF SubscriptionSuccess, SubscriptionsOf, OutcomesOf
  <2> QED
    BY <1>2, <2>3, <2>4 DEF Robot
<1> QED
  BY <1>3, <1>4 DEF Robot

RobotLabels == \A t : ReportsOf(t) = {} => (LabelsOf(t) = {"robot"} <=> t \in Candidates /\ Robot(t))

LEMMA RobotLabelsNow == RobotLabels
BY LabelsAre DEF RobotLabels

LEMMA RobotLabelsThen == RobotLabels'
BY RobotLabelsNow, PTL

(* A robot stays a robot: without a new report nothing relabels it.        *)
THEOREM RobotsStay == Spec => RobotStays
<1>1. LInv /\ LInv' /\ [Next]_vars =>
        [\A t \in Trx : LabelsOf(t) = {"robot"} /\ feedback' = feedback => LabelsOf(t)' = {"robot"}]_vars
  <2> SUFFICES ASSUME LInv, LInv', [Next]_vars, NEW t \in Trx, LabelsOf(t) = {"robot"}, feedback' = feedback
               PROVE  LabelsOf(t)' = {"robot"}
    OBVIOUS
  <2>1. CASE ReportsOf(t) # {}
    BY <2>1 DEF LabelsOf, ReportsOf
  <2>2. CASE ReportsOf(t) = {}
    <3>1. t \in Candidates' /\ Robot(t)'
      BY <2>2, RobotLabelsNow, RobotRemains DEF RobotLabels
    <3>2. ReportsOf(t)' = {}
      BY <2>2 DEF ReportsOf
    <3> QED
      BY <3>1, <3>2, RobotLabelsThen DEF RobotLabels
  <2> QED
    BY <2>1, <2>2
<1> QED
  BY <1>1, StoresAreOnce, PTL DEF Spec, RobotStays

-----------------------------------------------------------------------------
(* A subscription is one row: its instant is the reference.                *)
LEMMA ReferenceIs ==
    ASSUME LInv, NEW t, NEW o \in SubscriptionsOf(t)
    PROVE  RefTime(t) = o.at /\ o.at \in Nat
<1>1. SubscriptionsOf(t) = {o} /\ o.at \in Nat
  BY DEF SubscriptionsOf, OutcomesOf, LInv, TypeOK, OutcomesOnce, SameOutcome
<1>2. {p.at : p \in SubscriptionsOf(t)} = {o.at}
  BY <1>1
<1>3. Min({o.at}) = o.at
  BY <1>1 DEF Min
<1> QED
  BY <1>1, <1>2, <1>3 DEF RefTime

(* What the examination lets through.                                      *)
LEMMA Undisqualified ==
    ASSUME LInv, NEW f \in Observation, f # NULL, ~ HumanLabelDisqualified(f)
    PROVE  /\ SoftScore(f) < config.threshold
           /\ "webdriver" \in EnabledHardRules(config.params) => f["auto_webdriver"] = 0
<1>1. SoftScore(f) \in Int /\ config.threshold \in Int
  BY ConfigAssumption DEF LInv, TypeOK, SoftScore, Clamp
<1>2. f["auto_webdriver"] \in Nat
  BY ObservationAssumption
<1>3. 1 \in DOMAIN HardOrder /\ HardOrder[1] = "webdriver" /\ HardFeature["webdriver"] = "auto_webdriver"
  BY DEF HardOrder, HardFeature
<1>4. SoftScore(f) < config.threshold
  BY <1>1 DEF HumanLabelDisqualified
<1>5. "webdriver" \in EnabledHardRules(config.params) => ~ (f["auto_webdriver"] > 0)
  BY <1>3 DEF HumanLabelDisqualified, HardTriggers
<1> QED
  BY <1>2, <1>4, <1>5

(* Whom a retraining learns as human by the charge was charged, has not    *)
(* complained, has matured and would pass the active rules.                *)
THEOREM HumansLearntAreClean == Spec => []HumansAreClean
<1>1. ASSUME LInv, NEW unread \in SUBSET Trx, NEW x \in TrainingSet(unread),
             x.label = "human", ~ (\E f \in feedback : f.trx = x.trx)
      PROVE  /\ ~\E o \in outcomes : o.trx = x.trx /\ o.type = "complaint"
             /\ \E o \in outcomes : o.trx = x.trx /\ o.status = "success" /\ o.at + maturation <= now
             /\ x.trx \notin unread =>
                  \E e \in traffic :
                     /\ e.trx = x.trx
                     /\ SoftScore(e.features) < config.threshold
                     /\ "webdriver" \in EnabledHardRules(config.params) => e.features["auto_webdriver"] = 0
  <2> DEFINE labelled == {t \in Trx : LabelsOf(t) # {}}
             features == FeaturesByTrx(labelled)
             excluded(t, l) == l = "human" /\ t \notin unread /\ HumanLabelDisqualified(features[t])
             rows == {e \in traffic : e.trx \in labelled /\ e.features # NULL}
  <2>1. /\ x.trx \in DOMAIN features
        /\ "human" \in LabelsOf(x.trx)
        /\ ~ excluded(x.trx, "human")
    BY <1>1 DEF TrainingSet
  <2>2. ReportsOf(x.trx) = {}
    BY <1>1 DEF ReportsOf
  <2>3. ~ HasComplaint(x.trx) /\ SubscriptionSuccess(x.trx) /\ Matured(x.trx)
    BY <2>1, <2>2, LabelsAre
  <2>4. ~\E o \in outcomes : o.trx = x.trx /\ o.type = "complaint"
    BY <2>3 DEF HasComplaint, OutcomesOf
  <2>5. PICK o \in SubscriptionsOf(x.trx) : o.status = "success"
    BY <2>3 DEF SubscriptionSuccess
  <2>6. o \in outcomes /\ o.trx = x.trx
    BY DEF SubscriptionsOf, OutcomesOf
  <2>7. o.at + maturation <= now
    <3>1. now - o.at >= maturation /\ o.at \in Nat
      BY <1>1, <2>3, ReferenceIs DEF Matured
    <3>2. now \in Nat /\ maturation \in Nat
      BY <1>1, TimesAssumption DEF LInv, TypeOK
    <3> QED
      BY <3>1, <3>2
  <2>8. PICK e \in rows : e.trx = x.trx /\ features[x.trx] = e.features
    <3>1. /\ DOMAIN features = TrxOf(rows)
          /\ \A t \in TrxOf(rows) : features[t] = (CHOOSE e \in rows : e.trx = t).features
      BY DEF FeaturesByTrx
    <3>2. \E e \in rows : e.trx = x.trx
      BY <2>1, <3>1 DEF TrxOf
    <3> HIDE DEF features, rows
    <3> QED
      BY <2>1, <3>1, <3>2
  <2>9. e \in traffic /\ e.features \in Observation /\ e.features # NULL
    BY <1>1 DEF LInv, EventsOnce, Event
  <2>10. x.trx \notin unread => ~ HumanLabelDisqualified(e.features)
    BY <2>1, <2>8
  <2> QED
    BY <1>1, <2>4, <2>5, <2>6, <2>7, <2>8, <2>9, <2>10, Undisqualified
<1>2. LInv => HumansAreClean
  BY <1>1 DEF HumansAreClean
<1> QED
  BY <1>2, StoresAreOnce, PTL
=============================================================================
