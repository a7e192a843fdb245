------------------------ MODULE ConfigVersionsProofs ------------------------
(***************************************************************************)
(* Proofs about ConfigVersions: however PUTs race, the versions stored are *)
(* 1 .. n and get_active returns n, so that they implement ConfigInForce.  *)
(***************************************************************************)
EXTENDS ConfigVersions, TLAPS

\* What Newest chooses, from a set with a greatest element and from 1 .. n.
LEMMA NewestIs ==
    ASSUME NEW S \in SUBSET Nat, NEW n \in S, \A u \in S : u <= n
    PROVE  Newest(S) = n
<1>1. \E v \in S : \A u \in S : u <= v
  OBVIOUS
<1>2. Newest(S) \in S /\ \A u \in S : u <= Newest(S)
  BY <1>1, Zenon DEF Newest
<1>3. n <= Newest(S) /\ Newest(S) <= n
  BY <1>2
<1>4. n \in Nat /\ Newest(S) \in Nat
  BY <1>2
<1> QED
  BY <1>3, <1>4

LEMMA NewestOfRange ==
    ASSUME NEW n \in Nat \ {0}
    PROVE  Newest(1 .. n) = n
<1>1. n \in 1 .. n /\ (\A u \in 1 .. n : u <= n) /\ 1 .. n \in SUBSET Nat
  OBVIOUS
<1> QED
  BY <1>1, NewestIs

\* Under the invariant the table is 1 .. n for some n, the next version n + 1.
LEMMA Numbering ==
    ASSUME TypeOK, NoGaps, Newest(versions) \in active
    PROVE  /\ Newest(versions) \in Nat \ {0}
           /\ versions = 1 .. Newest(versions)
           /\ NextVersion = Newest(versions) + 1
BY DEF TypeOK, NoGaps, NextVersion

LEMMA InitIndInv == Init => IndInv
<1> SUFFICES ASSUME Init PROVE IndInv
  OBVIOUS
<1>1. versions = 1 .. 1
  BY DEF Init
<1>2. Newest(versions) = 1
  BY <1>1, NewestOfRange
<1>3. TypeOK
  BY DEF Init, TypeOK, PC
<1>4. NoGaps /\ Newest(versions) \in active
  BY <1>1, <1>2 DEF Init, NoGaps
<1>5. LocksHeld /\ Numbered
  BY DEF Init, LocksHeld, Numbered
<1> QED
  BY <1>3, <1>4, <1>5 DEF IndInv

\* A step that leaves the table alone keeps what the invariant says of it.
LEMMA TableKept ==
    ASSUME IndInv, UNCHANGED <<versions, active>>
    PROVE  NoGaps' /\ (Newest(versions) \in active)'
BY DEF IndInv, NoGaps

\* A transaction that ends without a commit gives its locks and number back.
LEMMA ReleaseKeeps ==
    ASSUME IndInv, NEW a \in Admin, Release(a), UNCHANGED <<versions, active>>
    PROVE  IndInv'
<1>1. TypeOK'
  BY DEF IndInv, TypeOK, PC, Release
<1>2. LocksHeld'
  BY DEF IndInv, TypeOK, LocksHeld, Release
<1>3. Numbered'
  BY DEF IndInv, TypeOK, Numbered, Release
<1> QED
  BY <1>1, <1>2, <1>3, TableKept DEF IndInv

\* The committed version is the next one, so the table stays 1 .. n and its
\* newest version is active.
LEMMA CommitKeeps ==
    ASSUME IndInv, NEW a \in Admin, Commit(a)
    PROVE  IndInv'
<1> DEFINE n == Newest(versions)
<1>1. n \in Nat \ {0} /\ versions = 1 .. n /\ new[a] = n + 1
  BY Numbering DEF IndInv, Numbered, Commit
<1> HIDE DEF n
<1>2. versions' = 1 .. (n + 1)
  BY <1>1 DEF Commit
<1>3. Newest(1 .. (n + 1)) = n + 1
  BY <1>1, NewestOfRange
<1>4. NoGaps' /\ (Newest(versions) \in active)'
  BY <1>1, <1>2, <1>3 DEF NoGaps, Commit, Outcome
<1>5. TypeOK'
  <2>1. versions' \subseteq Nat \ {0}
    BY <1>1, <1>2
  <2>2. active' \subseteq versions'
    BY DEF IndInv, TypeOK, Commit, Outcome
  <2>3. pc' \in [Admin -> PC] /\ new' \in [Admin -> Nat]
    BY DEF IndInv, TypeOK, PC, Commit, Release
  <2>4. versions \subseteq versions'
    BY DEF Commit
  <2>5. todo' \in [Admin -> SUBSET versions'] /\ off' \in [Admin -> SUBSET versions']
    BY <2>4 DEF IndInv, TypeOK, Commit, Release
  <2> QED
    BY <2>1, <2>2, <2>3, <2>5 DEF TypeOK
<1>6. LocksHeld'
  BY DEF IndInv, TypeOK, LocksHeld, Commit, Outcome, Release
<1>7. Numbered'
  <2>1. \A o \in Admin : pc[o] = "commit" => o = a
    BY DEF IndInv, Numbered, Commit
  <2>2. \A o \in Admin : pc'[o] # "commit"
    BY <2>1 DEF IndInv, TypeOK, Commit, Release
  <2>3. \A o \in Admin : pc'[o] = "insert" => pc[o] = "insert" /\ new'[o] = new[o]
    BY DEF IndInv, TypeOK, Commit, Release
  <2>4. \A o \in Admin : pc[o] = "insert" => new[o] \in 1 .. (n + 1)
    BY DEF IndInv, Numbered, n
  <2>5. Newest(versions') = n + 1
    BY <1>2, <1>3
  <2> QED
    BY <1>1, <2>2, <2>3, <2>4, <2>5 DEF Numbered
<1> QED
  BY <1>4, <1>5, <1>6, <1>7 DEF IndInv

LEMMA NextIndInv ==
    ASSUME IndInv, [Next]_vars
    PROVE  IndInv'
<1>1. CASE UNCHANGED vars
  BY <1>1 DEF IndInv, vars, TypeOK, NoGaps, LocksHeld, Numbered
<1>2. ASSUME NEW a \in Admin, Begin(a) PROVE IndInv'
  <2>1. TypeOK'
    BY <1>2 DEF IndInv, TypeOK, PC, Begin
  <2>2. LocksHeld'
    BY <1>2 DEF IndInv, LocksHeld, Begin
  <2>3. Numbered'
    BY <1>2 DEF IndInv, TypeOK, Numbered, Begin
  <2> QED
    BY <1>2, <2>1, <2>2, <2>3, TableKept DEF IndInv, Begin
<1>3. ASSUME NEW a \in Admin, NEW v \in todo[a], Deactivate(a, v) PROVE IndInv'
  <2>1. TypeOK'
    BY <1>3 DEF IndInv, TypeOK, PC, Deactivate
  <2>2. LocksHeld'
    BY <1>3 DEF IndInv, TypeOK, LocksHeld, Deactivate, Locked
  <2>3. Numbered'
    BY <1>3 DEF IndInv, TypeOK, Numbered, Deactivate
  <2> QED
    BY <1>3, <2>1, <2>2, <2>3, TableKept DEF IndInv, Deactivate
<1>4. ASSUME NEW a \in Admin, Number(a) PROVE IndInv'
  <2>1. NextVersion = Newest(versions) + 1 /\ Newest(versions) \in Nat \ {0}
    BY Numbering DEF IndInv
  <2>2. TypeOK'
    BY <1>4, <2>1 DEF IndInv, TypeOK, PC, Number
  <2>3. LocksHeld'
    BY <1>4 DEF IndInv, LocksHeld, Number
  <2>4. Numbered'
    BY <1>4, <2>1 DEF IndInv, TypeOK, Numbered, Number
  <2> QED
    BY <1>4, <2>2, <2>3, <2>4, TableKept DEF IndInv, Number
<1>5. ASSUME NEW a \in Admin, Insert(a) PROVE IndInv'
  <2>1. new[a] = Newest(versions) + 1
    BY <1>5, Numbering DEF IndInv, Numbered, Insert, Taken
  <2>2. TypeOK'
    BY <1>5 DEF IndInv, TypeOK, PC, Insert
  <2>3. LocksHeld'
    BY <1>5 DEF IndInv, LocksHeld, Insert
  <2>4. \A o \in Admin : pc[o] # "commit"
    BY <1>5, <2>1 DEF IndInv, Numbered, Insert
  <2>5. Numbered'
    BY <1>5, <2>1, <2>4 DEF IndInv, TypeOK, Numbered, Insert
  <2> QED
    BY <1>5, <2>2, <2>3, <2>5, TableKept DEF IndInv, Insert
<1>6. ASSUME NEW a \in Admin, InsertRefused(a) \/ Rollback(a) PROVE IndInv'
  BY <1>6, ReleaseKeeps DEF InsertRefused, Rollback
<1>7. ASSUME NEW a \in Admin, Commit(a) PROVE IndInv'
  BY <1>7, CommitKeeps
<1> QED
  BY <1>1, <1>2, <1>3, <1>4, <1>5, <1>6, <1>7 DEF Next, Put

\* The inductive invariant, type correctness included.
THEOREM Inductive == Spec => []IndInv
BY InitIndInv, NextIndInv, PTL DEF Spec

\* No PUT leaves a gap in the numbering or reuses a number.
THEOREM VersionsWithoutGaps == Spec => []NoGaps
<1>1. IndInv => NoGaps
  BY DEF IndInv
<1> QED
  BY Inductive, <1>1, PTL

\* Of the active rows, and there may be two, the newest is the newest stored.
LEMMA InForceIsNewest ==
    ASSUME IndInv
    PROVE  NewestInForce /\ Newest(versions) \in Nat
<1>1. versions = 1 .. Newest(versions) /\ Newest(versions) \in Nat
  BY Numbering DEF IndInv
<1>2. active \in SUBSET Nat /\ \A u \in active : u <= Newest(versions)
  BY <1>1 DEF IndInv, TypeOK
<1>3. Newest(active) = Newest(versions)
  BY <1>1, <1>2, NewestIs DEF IndInv
<1> QED
  BY <1>1, <1>3 DEF IndInv, NewestInForce, Effective

\* get_active returns the newest version: two rows may be active, the last
\* accepted PUT is in force all the same.
THEOREM LastPutInForce == Spec => []NewestInForce
<1>1. IndInv => NewestInForce
  BY InForceIsNewest
<1> QED
  BY Inductive, <1>1, PTL

\* A version once superseded never becomes active again.
THEOREM SupersededForGood == Spec => NeverReactivated
<1>1. ASSUME IndInv, [Next]_vars PROVE [active' \cap versions \subseteq active]_vars
  <2>1. ASSUME NEW a \in Admin, Commit(a) PROVE active' \cap versions \subseteq active
    <3>1. versions = 1 .. Newest(versions) /\ Newest(versions) \in Nat
      BY <1>1, Numbering DEF IndInv
    <3>2. new[a] \notin versions
      BY <1>1, <2>1, <3>1 DEF IndInv, Numbered, Commit
    <3> QED
      BY <2>1, <3>2 DEF Commit, Outcome
  <2>2. ASSUME UNCHANGED active PROVE active' \cap versions \subseteq active
    BY <2>2
  <2> QED
    BY <1>1, <2>1, <2>2 DEF Next, Put, Begin, Deactivate, Number, Insert,
       InsertRefused, Rollback, vars
<1> QED
  BY Inductive, <1>1, PTL DEF Spec, NeverReactivated
\* A commit is the register's step; any other step of a PUT leaves both its
\* variables alone.
LEMMA StepAccepts ==
    ASSUME IndInv, IndInv', [Next]_vars
    PROVE  [Register!Accept]_(Register!vars)
<1>1. Effective = Newest(versions) /\ Effective' = Newest(versions)'
  <2>1. (IndInv => NewestInForce)'
    BY InForceIsNewest, PTL
  <2> QED
    BY <2>1, InForceIsNewest DEF NewestInForce
<1>2. ASSUME UNCHANGED <<versions, active>> PROVE UNCHANGED Register!vars
  BY <1>2 DEF Register!vars, Effective
<1>3. ASSUME NEW a \in Admin, Commit(a) PROVE Register!Accept
  <2> DEFINE n == Newest(versions)
  <2>1. n \in Nat \ {0} /\ versions = 1 .. n /\ new[a] = n + 1
    BY <1>3, Numbering DEF IndInv, Numbered, Commit
  <2>2. versions' = versions \cup {n + 1}
    BY <1>3, <2>1 DEF Commit
  <2> HIDE DEF n
  <2>3. versions' = 1 .. (n + 1)
    BY <2>1, <2>2
  <2>4. Newest(versions)' = n + 1
    BY <2>1, <2>3, NewestOfRange DEF Newest
  <2> QED
    BY <1>1, <2>2, <2>4 DEF Register!Accept, n
<1> QED
  BY <1>2, <1>3 DEF Next, Put, Begin, Deactivate, Number, Insert, InsertRefused, Rollback, vars

\* PUTs that race, wait for each other, fail or are rolled back are as good
\* as PUTs made in turn: the table and the version in force implement the
\* register of ConfigInForce.
THEOREM PutsAreInTurn == Spec => PutsInTurn
<1>1. Init => Register!Init
  <2> SUFFICES ASSUME Init PROVE Register!Init
    OBVIOUS
  <2>1. versions = 1 .. 1
    BY DEF Init
  <2>2. Newest(versions) = 1
    BY <2>1, NewestOfRange
  <2>3. Effective = 1
    BY <2>2, InitIndInv, InForceIsNewest DEF NewestInForce
  <2> QED
    BY <2>3 DEF Init, Register!Init
<1> QED
  BY <1>1, Inductive, StepAccepts, PTL DEF Spec, PutsInTurn, Register!Spec
=============================================================================
