-------------------------- MODULE DialCacheProofs --------------------------
(***************************************************************************)
(* The two components whose goroutines share memory outside of any         *)
(* connection.                                                             *)
(*                                                                         *)
(* First, dialling: the closer of DialSqlConnection collects all that is   *)
(* left, and the caller's outcome is true, for any number of addresses.    *)
(* Then the key cache, for any number of callers, keys and paths.          *)
(***************************************************************************)
EXTENDS Dial, CekCache, FiniteSetTheorems, TLAPS

\* The outcomes not received are those the waiting caller still counts, and
\* then those the closer counts.
CollectInv == Cardinality(Pending) = IF pc = "wait" THEN N - i ELSE n

\* Where the dials are, by what the caller does.
CallerInv ==
    /\ pc = "done" <=> result # "none"
    /\ pc # "done" => n = 0
    /\ pc = "start" => i = 0 /\ \A ip \in Ips : at[ip] = "new"
    /\ pc = "try" => \A ip \in Ips : at[ip] \in {"new", "seen"}
    /\ pc = "wait" => \A ip \in Ips : at[ip] \in {"dial", "conn", "err", "seen"}
    /\ result = "conn" => ~err
    /\ result = "err" => \/ \A ip \in Ips : at[ip] = "new"
                         \/ err /\ \A ip \in Ips : at[ip] = "seen"

\* Only one connection is the caller's.
OneWins == \A a, b \in Ips : at[a] = "won" /\ at[b] = "won" => a = b

IInv == TypeOK /\ CollectInv /\ CallerInv /\ OneWins

\* The sets that are counted are finite.
LEMMA Counts ==
    /\ N \in Nat \ {0}
    /\ IsFiniteSet(Pending) /\ Cardinality(Pending) \in Nat
  <1>1. N \in Nat \ {0}
    BY IpsAssumption, FS_CardinalityType, FS_EmptySet, Zenon DEF N
  <1>2. IsFiniteSet(Pending)
    BY IpsAssumption, FS_Subset, Zenon DEF Pending, In
  <1>. QED  BY <1>1, <1>2, FS_CardinalityType, Zenon

\* One outcome is received.
LEMMA Received ==
    ASSUME TypeOK, NEW ip \in Ips, NEW p \in {"won", "seen", "closed"},
           at[ip] \in {"conn", "err"}, at' = [at EXCEPT ![ip] = p]
    PROVE  Cardinality(Pending') = Cardinality(Pending) - 1
  <1>1. Pending' = Pending \ {ip} /\ ip \in Pending
    BY Zenon DEF TypeOK, Pending, In
  <1>. QED  BY <1>1, Counts, FS_RemoveElement, Zenon

\* Every step keeps the types.
LEMMA TypeStep == IInv /\ Next => TypeOK'
  <1>. SUFFICES ASSUME IInv, Next
                PROVE  TypeOK'
    BY Zenon
  <1>. USE Counts DEF IInv, TypeOK, Places
  <1>1. CASE NoAddress
    BY <1>1, Zenon DEF NoAddress
  <1>2. CASE StartInTurn \/ StartAll
    BY <1>2, Zenon DEF StartInTurn, StartAll
  <1>3. ASSUME NEW ip \in Ips, Try(ip)
        PROVE  TypeOK'
    BY <1>3, Zenon DEF Try
  <1>4. ASSUME NEW ip \in Ips, Dialled(ip)
        PROVE  TypeOK'
    BY <1>4, Zenon DEF Dialled
  <1>5. ASSUME NEW ip \in Ips, TakeConn(ip)
        PROVE  TypeOK'
    <2>1. Cardinality(Pending') = N - i - 1
      BY <1>5, Received, Zenon DEF TakeConn, CollectInv
    <2>2. Cardinality(Pending') \in Nat
      <3>1. IsFiniteSet(Pending')
        BY IpsAssumption, FS_Subset, Zenon DEF Pending, In
      <3>. QED  BY <3>1, FS_CardinalityType, Zenon
    <2>3. N - i - 1 \in 0..N
      BY <2>1, <2>2
    <2>. QED  BY <1>5, <2>3, Zenon DEF TakeConn
  <1>6. ASSUME NEW ip \in Ips, TakeErr(ip)
        PROVE  TypeOK'
    <2>1. Cardinality(Pending') = N - i - 1
      BY <1>6, Received, Zenon DEF TakeErr, CollectInv
    <2>2. Cardinality(Pending') \in Nat
      <3>1. IsFiniteSet(Pending')
        BY IpsAssumption, FS_Subset, Zenon DEF Pending, In
      <3>. QED  BY <3>1, FS_CardinalityType, Zenon
    <2>3. i + 1 \in 0..N
      BY <2>1, <2>2
    <2>. QED  BY <1>6, <2>3, Zenon DEF TakeErr
  <1>7. ASSUME NEW ip \in Ips, Close(ip)
        PROVE  TypeOK'
    BY <1>7 DEF Close
  <1>. QED
    BY <1>1, <1>2, <1>3, <1>4, <1>5, <1>6, <1>7, Zenon DEF Next, Caller

\* Every step keeps the count.
LEMMA CollectStep == IInv /\ Next => CollectInv'
  <1>. SUFFICES ASSUME IInv, Next
                PROVE  CollectInv'
    BY Zenon
  <1>. N' = N
    BY Zenon DEF N
  <1>. USE Counts DEF IInv
  <1>1. ASSUME Pending' = Pending, UNCHANGED <<i, n>>,
               pc = "wait" <=> pc' = "wait"
        PROVE  CollectInv'
    BY <1>1, Zenon DEF CollectInv
  <1>2. CASE NoAddress
    BY <1>1, <1>2, Zenon DEF NoAddress, Pending, In
  <1>3. CASE StartInTurn
    BY <1>1, <1>3, Zenon DEF StartInTurn, Pending, In
  <1>4. CASE StartAll
    <2>1. Pending' = Ips
      BY <1>4, Zenon DEF StartAll, Pending, In
    <2>2. i = 0
      BY <1>4, Zenon DEF StartAll, CallerInv
    <2>. QED  BY <1>4, <2>1, <2>2 DEF StartAll, CollectInv, N
  <1>5. ASSUME NEW ip \in Ips, Try(ip)
        PROVE  CollectInv'
    <2>1. Pending' = Pending
      BY <1>5, Zenon DEF Try, Pending, In, TypeOK
    <2>. QED  BY <1>1, <1>5, <2>1, Zenon DEF Try
  <1>6. ASSUME NEW ip \in Ips, Dialled(ip)
        PROVE  CollectInv'
    <2>1. Pending' = Pending
      BY <1>6, Zenon DEF Dialled, Pending, In, TypeOK
    <2>. QED  BY <1>1, <1>6, <2>1, Zenon DEF Dialled
  <1>7. ASSUME NEW ip \in Ips, TakeConn(ip)
        PROVE  CollectInv'
    BY <1>7, Received, Zenon DEF TakeConn, CollectInv
  <1>8. ASSUME NEW ip \in Ips, TakeErr(ip)
        PROVE  CollectInv'
    <2>1. Cardinality(Pending') = N - (i + 1) /\ n = 0
      <3>1. Cardinality(Pending') = Cardinality(Pending) - 1
        BY <1>8, Received, Zenon DEF TakeErr
      <3>. QED  BY <1>8, <3>1 DEF TakeErr, CollectInv, CallerInv, TypeOK
    <2>2. i' = i + 1 /\ n' = n /\ (i + 1 = N => pc' = "done")
          /\ (i + 1 # N => pc' = "wait")
      BY <1>8, Zenon DEF TakeErr
    <2>. QED  BY <2>1, <2>2 DEF CollectInv, TypeOK
  <1>9. ASSUME NEW ip \in Ips, Close(ip)
        PROVE  CollectInv'
    BY <1>9, Received DEF Close, CollectInv, CallerInv, TypeOK
  <1>. QED
    BY <1>2, <1>3, <1>4, <1>5, <1>6, <1>7, <1>8, <1>9, Zenon DEF Next, Caller

\* Every step keeps what is known of the caller.
LEMMA CallerStep == IInv /\ Next => CallerInv' /\ OneWins'
  <1>. SUFFICES ASSUME IInv, Next
                PROVE  CallerInv' /\ OneWins'
    BY Zenon
  <1>. USE DEF IInv, TypeOK, CallerInv, OneWins
  <1>1. CASE NoAddress
    BY <1>1, Zenon DEF NoAddress
  <1>2. CASE StartInTurn \/ StartAll
    BY <1>2, Zenon DEF StartInTurn, StartAll
  <1>3. ASSUME NEW ip \in Ips, Try(ip)
        PROVE  CallerInv' /\ OneWins'
    BY <1>3, Zenon DEF Try, In
  <1>4. ASSUME NEW ip \in Ips, Dialled(ip)
        PROVE  CallerInv' /\ OneWins'
    BY <1>4, Zenon DEF Dialled
  <1>5. ASSUME NEW ip \in Ips, TakeConn(ip)
        PROVE  CallerInv' /\ OneWins'
    BY <1>5, Zenon DEF TakeConn
  <1>6. ASSUME NEW ip \in Ips, TakeErr(ip)
        PROVE  CallerInv' /\ OneWins'
    <2>1. CASE i + 1 # N
      BY <1>6, <2>1, Zenon DEF TakeErr
    <2>2. CASE i + 1 = N
      <3>1. Cardinality(Pending') = 0
        <4>1. Cardinality(Pending') = Cardinality(Pending) - 1
          BY <1>6, Received, Zenon DEF TakeErr
        <4>. QED  BY <1>6, <2>2, <4>1, Counts DEF TakeErr, CollectInv
      <3>2. IsFiniteSet(Pending')
        BY IpsAssumption, FS_Subset, Zenon DEF Pending, In
      <3>3. Pending' = {}
        BY <3>1, <3>2, FS_EmptySet, Zenon
      <3>4. \A a \in Ips : at'[a] = "seen"
        BY <1>6, <3>3, Zenon DEF TakeErr, Pending, In
      <3>. QED  BY <1>6, <2>2, <3>4, Zenon DEF TakeErr
    <2>. QED  BY <2>1, <2>2, Zenon
  <1>7. ASSUME NEW ip \in Ips, Close(ip)
        PROVE  CallerInv' /\ OneWins'
    BY <1>7 DEF Close
  <1>. QED
    BY <1>1, <1>2, <1>3, <1>4, <1>5, <1>6, <1>7, Zenon DEF Next, Caller

\* The inductive invariant holds.
LEMMA InductiveInvariant == Spec => []IInv
  <1>1. Init => IInv
    <2>. SUFFICES ASSUME Init
                  PROVE  IInv
      BY Zenon
    <2>1. Pending = {}
      BY Zenon DEF Init, Pending, In
    <2>2. CollectInv
      BY <2>1, FS_EmptySet, Zenon DEF Init, CollectInv
    <2>3. TypeOK
      <3>1. err \in BOOLEAN /\ at \in [Ips -> Places]
        BY Zenon DEF Init, Places
      <3>2. i \in 0..N /\ n \in 0..N
        BY Counts DEF Init
      <3>. QED  BY <3>1, <3>2, Zenon DEF Init, TypeOK
    <2>4. CallerInv /\ OneWins
      BY Zenon DEF Init, CallerInv, OneWins
    <2>. QED
      BY <2>2, <2>3, <2>4, Zenon DEF IInv
  <1>2. IInv /\ [Next]_vars => IInv'
    <2>1. IInv /\ Next => IInv'
      BY TypeStep, CollectStep, CallerStep, Zenon DEF IInv
    <2>2. IInv /\ UNCHANGED vars => IInv'
      BY DEF IInv, vars, TypeOK, CollectInv, CallerInv, OneWins, Pending, In, N
    <2>. QED  BY <2>1, <2>2, Zenon
  <1>. QED  BY <1>1, <1>2, PTL DEF Spec

\* Every variable has its type.
THEOREM TypeCorrect == Spec => []TypeOK
  BY InductiveInvariant, PTL DEF IInv

\* The closer counts right for any number of addresses and any order in which
\* dials end (the goroutine with len(ips) - i - 1).
THEOREM CloserCollectsAll == Spec => []CloserCounts
  <1>1. IInv => CloserCounts
    BY Zenon DEF IInv, CollectInv, CloserCounts
  <1>. QED  BY <1>1, InductiveInvariant, PTL

\* DialSqlConnection fails only when all addresses failed, and succeeds with
\* one connection and no error.
THEOREM DialTellsTheTruth == Spec => []OutcomeIsTrue
  <1>1. IInv => OutcomeIsTrue
    <2>. SUFFICES ASSUME IInv
                  PROVE  OutcomeIsTrue
      BY Zenon
    <2>1. Cardinality(In({"won"})) <= 1
      <3>1. CASE In({"won"}) = {}
        BY <3>1, FS_EmptySet
      <3>2. CASE \E a \in Ips : In({"won"}) = {a}
        BY <3>2, FS_Singleton
      <3>. QED  BY <3>1, <3>2 DEF IInv, OneWins, In
    <2>. QED  BY <2>1, Zenon DEF IInv, CallerInv, OutcomeIsTrue, In
  <1>. QED  BY <1>1, InductiveInvariant, PTL

\* What is still to happen: the caller's start, and for each address that it
\* is dialled, that the dial ends and that the outcome is received.
Rank ==
    (IF pc = "start" THEN 1 ELSE 0) + Cardinality(In({"new"}))
      + Cardinality(In({"new", "dial"})) + Cardinality(In({"new", "dial", "conn", "err"}))

\* The addresses at some places are finitely many, before and after a step.
LEMMA InFinite ==
    ASSUME NEW S
    PROVE  /\ IsFiniteSet(In(S)) /\ Cardinality(In(S)) \in Nat
           /\ IsFiniteSet(In(S)') /\ Cardinality(In(S)') \in Nat
  <1>1. In(S) \subseteq Ips /\ In(S)' \subseteq Ips
    BY Zenon DEF In
  <1>2. IsFiniteSet(In(S)) /\ IsFiniteSet(In(S)')
    BY <1>1, IpsAssumption, FS_Subset, Zenon
  <1>. QED  BY <1>2, FS_CardinalityType, Zenon

\* Places that an address does not come to have no more of them than before,
\* and fewer if it leaves.
LEMMA Moved ==
    ASSUME TypeOK, NEW S, NEW ip \in Ips, NEW p \in Places \ S,
           at' = [at EXCEPT ![ip] = p]
    PROVE  /\ Cardinality(In(S)') <= Cardinality(In(S))
           /\ at[ip] \in S => Cardinality(In(S)') < Cardinality(In(S))
  <1>1. In(S)' = In(S) \ {ip}
    BY Zenon DEF TypeOK, In
  <1>2. IsFiniteSet(In(S)) /\ Cardinality(In(S)) \in Nat /\ Cardinality(In(S)') \in Nat
    BY InFinite, Zenon
  <1>3. CASE at[ip] \in S
    <2>1. ip \in In(S)
      BY <1>3, Zenon DEF In
    <2>2. Cardinality(In(S)') = Cardinality(In(S)) - 1
      BY <1>1, <1>2, <2>1, FS_RemoveElement, Zenon
    <2>. QED  BY <1>2, <2>2
  <1>4. CASE at[ip] \notin S
    <2>1. In(S)' = In(S)
      BY <1>1, <1>4, Zenon DEF In
    <2>. QED  BY <1>2, <1>4, <2>1
  <1>. QED  BY <1>3, <1>4

\* No dial goes on for ever, for any number of addresses: every step of the
\* caller, of a goroutine that dials and of the closer decreases a natural
\* number.  With CloserCollectsAll, the steps end with nothing left open.
THEOREM DialAdvances == Spec => [](Rank \in Nat) /\ [][Rank' < Rank]_vars
  <1>. DEFINE a == IF pc = "start" THEN 1 ELSE 0
              b == Cardinality(In({"new"}))
              c == Cardinality(In({"new", "dial"}))
              d == Cardinality(In({"new", "dial", "conn", "err"}))
  <1>1. /\ a \in Nat /\ b \in Nat /\ c \in Nat /\ d \in Nat
        /\ a' \in Nat /\ b' \in Nat /\ c' \in Nat /\ d' \in Nat
    BY InFinite
  <1>2. Rank = a + b + c + d /\ Rank' = a' + b' + c' + d'
    BY DEF Rank
  <1>3. Rank \in Nat
    BY <1>1, <1>2
  <1>4. IInv /\ Next => a' <= a /\ b' <= b /\ c' <= c /\ d' <= d
                        /\ (a' < a \/ b' < b \/ c' < c \/ d' < d)
    <2>. SUFFICES ASSUME IInv, Next
                  PROVE  a' <= a /\ b' <= b /\ c' <= c /\ d' <= d
                         /\ (a' < a \/ b' < b \/ c' < c \/ d' < d)
      OBVIOUS
    <2>0. TypeOK
      BY DEF IInv
    <2>1. CASE NoAddress \/ StartInTurn
      <3>1. a' = 0 /\ a = 1
        BY <2>1 DEF NoAddress, StartInTurn
      <3>2. at' = at
        BY <2>1 DEF NoAddress, StartInTurn
      <3>3. b' = b /\ c' = c /\ d' = d
        BY <3>2, Zenon DEF In
      <3>. HIDE DEF a, b, c, d
      <3>. QED  BY <1>1, <3>1, <3>3
    <2>2. CASE StartAll
      <3>1. a' = 0 /\ a = 1
        BY <2>2 DEF StartAll
      <3>2. In({"new"})' \subseteq In({"new"})
        BY <2>2, Zenon DEF StartAll, In
      <3>3. b' <= b
        BY <3>2, InFinite, FS_Subset, Zenon
      <3>4. \A ip \in Ips : at[ip] = "new" /\ at'[ip] = "dial"
        BY <2>2 DEF StartAll, IInv, CallerInv
      <3>5. In({"new", "dial"})' = In({"new", "dial"})
            /\ In({"new", "dial", "conn", "err"})' = In({"new", "dial", "conn", "err"})
        BY <3>4 DEF In
      <3>6. c' = c /\ d' = d
        BY <3>5, Zenon
      <3>. HIDE DEF a, b, c, d
      <3>. QED  BY <1>1, <3>1, <3>3, <3>6
    <2>3. ASSUME NEW ip \in Ips, Caller(ip) \/ Dialled(ip) \/ Close(ip)
          PROVE  a' <= a /\ b' <= b /\ c' <= c /\ d' <= d
                 /\ (a' < a \/ b' < b \/ c' < c \/ d' < d)
      <3>1. a' <= a
        BY <2>3 DEF Caller, Try, TakeConn, TakeErr, Dialled, Close
      <3>2. CASE Dialled(ip)
        <4>1. PICK r \in {"conn", "err"} : at' = [at EXCEPT ![ip] = r]
          BY <3>2 DEF Dialled
        <4>2. at[ip] = "dial" /\ r \in Places \ {"new"} /\ r \in Places \ {"new", "dial"}
          BY <3>2 DEF Dialled, Places
        <4>3. b' <= b
          BY <2>0, <4>1, <4>2, Moved
        <4>4. c' <= c /\ c' < c
          BY <2>0, <4>1, <4>2, Moved
        <4>5. In({"new", "dial", "conn", "err"})' = In({"new", "dial", "conn", "err"})
          BY <2>0, <4>1, <4>2, Zenon DEF TypeOK, In
        <4>6. d' = d
          BY <4>5, Zenon
        <4>. HIDE DEF a, b, c, d
        <4>. QED  BY <1>1, <3>1, <4>3, <4>4, <4>6
      <3>3. CASE Caller(ip) \/ Close(ip)
        <4>1. PICK r \in {"won", "seen", "closed"} : at' = [at EXCEPT ![ip] = r]
          BY <3>3 DEF Caller, Try, TakeConn, TakeErr, Close
        <4>2. at[ip] \in {"new", "dial", "conn", "err"}
          BY <3>3 DEF Caller, Try, TakeConn, TakeErr, Close
        <4>3. r \in Places \ {"new"} /\ r \in Places \ {"new", "dial"}
              /\ r \in Places \ {"new", "dial", "conn", "err"}
          BY DEF Places
        <4>4. b' <= b
          BY <2>0, <4>1, <4>3, Moved
        <4>5. c' <= c
          BY <2>0, <4>1, <4>3, Moved
        <4>6. d' <= d /\ d' < d
          BY <2>0, <4>1, <4>2, <4>3, Moved
        <4>. HIDE DEF a, b, c, d
        <4>. QED  BY <1>1, <3>1, <4>4, <4>5, <4>6
      <3>. HIDE DEF a, b, c, d
      <3>. QED  BY <2>3, <3>2, <3>3
    <2>. HIDE DEF a, b, c, d
    <2>. QED  BY <2>1, <2>2, <2>3 DEF Next
  <1>5. IInv /\ [Next]_vars => [Rank' < Rank]_vars
    <2>. HIDE DEF a, b, c, d
    <2>. SUFFICES ASSUME IInv, Next
                  PROVE  Rank' < Rank
      OBVIOUS
    <2>1. \A w, x, y, z, ww, xx, yy, zz \in Nat :
             /\ ww <= w /\ xx <= x /\ yy <= y /\ zz <= z
             /\ ww < w \/ xx < x \/ yy < y \/ zz < z
             => ww + xx + yy + zz < w + x + y + z
      OBVIOUS
    <2>2. a' + b' + c' + d' < a + b + c + d
      BY <1>1, <1>4, <2>1
    <2>. QED  BY <1>2, <2>2, Zenon
  <1>. HIDE DEF a, b, c, d
  <1>. QED  BY <1>3, <1>5, InductiveInvariant, PTL DEF Spec

-----------------------------------------------------------------------------
\* An entry is under the path of its key and, like what a caller is about to
\* store, expires Lifetime after its key was decrypted.
EntryInv ==
    /\ \A p \in Paths : \A e \in decryptedKeys[p] :
          PathOf[e.key] = p /\ e.expiry = e.since + Lifetime
    /\ \A c \in Callers : expiry[c] = since[c] + Lifetime

CacheInv == CacheTypeOK /\ EntryInv /\ KeyIsFresh /\ KeyOfItsPath

USE PathOfAssumption, LifetimeAssumption, MaxTimeAssumption

\* Every step keeps the invariant.
LEMMA CacheStep == CacheInv /\ [CacheNext]_cacheVars => CacheInv'
  <1>. SUFFICES ASSUME CacheInv, [CacheNext]_cacheVars
                PROVE  CacheInv'
    OBVIOUS
  <1>. USE DEF CacheInv, CacheTypeOK, EntryInv, KeyIsFresh, KeyOfItsPath
  <1>1. CASE Tick
    BY <1>1 DEF Tick
  <1>2. ASSUME NEW c \in Callers, Decrypt(c)
        PROVE  CacheInv'
    BY <1>2 DEF Decrypt
  <1>3. ASSUME NEW c \in Callers, Store(c)
        PROVE  CacheInv'
    BY <1>3 DEF Store, StoreUntil, Entry
  <1>4. ASSUME NEW c \in Callers, NEW k \in Keys, LookUp(c, k)
        PROVE  CacheInv'
    <2>1. CacheTypeOK' /\ EntryInv'
      <3>1. answer' \subseteq [asked : Keys, got : Keys, age : Int, cached : BOOLEAN]
        <4>. SUFFICES ASSUME NEW e \in decryptedKeys[PathOf[k]]
                      PROVE  Cached(k, e) \in
                               [asked : Keys, got : Keys, age : Int, cached : BOOLEAN]
          BY <1>4 DEF LookUp
        <4>1. e.key \in Keys /\ now - e.since \in Int
          BY DEF Entry
        <4>. QED  BY <4>1 DEF Cached
      <3>2. /\ decryptedKeys' \in [Paths -> SUBSET Entry]
            /\ \A p \in Paths : decryptedKeys'[p] \subseteq decryptedKeys[p]
        BY <1>4 DEF LookUp
      <3>3. key' \in [Callers -> Keys]
            /\ stage' \in [Callers -> {"idle", "decrypt", "store"}]
        BY <1>4 DEF LookUp
      <3>. QED  BY <1>4, <3>1, <3>2, <3>3 DEF LookUp
    <2>2. ASSUME NEW a \in answer'
          PROVE  /\ a.cached => a.age <= Lifetime
                 /\ a.cached /\ PathOf[a.got] = PathOf[a.asked]
      <3>1. PICK e \in decryptedKeys[PathOf[k]] : e.expiry >= now /\ a = Cached(k, e)
        BY <1>4 DEF LookUp
      <3>2. /\ e.expiry \in Int /\ e.since \in Int /\ e.expiry = e.since + Lifetime
            /\ PathOf[e.key] = PathOf[k]
        BY DEF Entry
      <3>. QED  BY <3>1, <3>2 DEF Cached
    <2>. QED  BY <2>1, <2>2
  <1>5. CASE UNCHANGED cacheVars
    BY <1>5 DEF cacheVars
  <1>. QED  BY <1>1, <1>2, <1>3, <1>4, <1>5 DEF CacheNext

\* The invariant holds.
LEMMA CacheInductive == CacheSpec => []CacheInv
  <1>1. CacheInit => CacheInv
    BY DEF CacheInit, CacheInv, CacheTypeOK, EntryInv, KeyIsFresh, KeyOfItsPath
  <1>. QED  BY <1>1, CacheStep, PTL DEF CacheSpec

\* Every variable has its type, and a path has at most one entry.
THEOREM CacheTypeCorrect == CacheSpec => []CacheTypeOK
  BY CacheInductive, PTL DEF CacheInv

\* No key comes from the cache more than its lifetime after it was decrypted,
\* however late the callers of GetDecryptedKey store and what they overwrite.
THEOREM NoStaleKey == CacheSpec => []KeyIsFresh
  BY CacheInductive, PTL DEF CacheInv

\* Keys of different master keys do not mix, whichever keys share one and
\* however the callers of GetDecryptedKey race.
THEOREM MasterKeysDoNotMix == CacheSpec => []KeyOfItsPath
  BY CacheInductive, PTL DEF CacheInv

\* A lookup never deletes an entry that has not expired (the mutex is held
\* from the test of Expiry to the delete).
THEOREM NoFreshDelete == CacheSpec => FreshStays
  <1>. DEFINE A == \A p \in Paths : \A e \in decryptedKeys[p] :
                      e.expiry >= now => decryptedKeys'[p] # {}
  <1>1. CacheInv /\ [CacheNext]_cacheVars => [A]_cacheVars
    <2>. SUFFICES ASSUME CacheInv, CacheNext, NEW p \in Paths,
                         NEW e \in decryptedKeys[p], e.expiry >= now
                  PROVE  decryptedKeys'[p] # {}
      OBVIOUS
    <2>. USE DEF CacheInv, CacheTypeOK
    <2>1. CASE Tick
      BY <2>1 DEF Tick
    <2>2. ASSUME NEW c \in Callers, Decrypt(c)
          PROVE  decryptedKeys'[p] # {}
      BY <2>2 DEF Decrypt
    <2>3. ASSUME NEW c \in Callers, Store(c)
          PROVE  decryptedKeys'[p] # {}
      BY <2>3, Zenon DEF Store, StoreUntil
    <2>4. ASSUME NEW c \in Callers, NEW k \in Keys, LookUp(c, k)
          PROVE  decryptedKeys'[p] # {}
      BY <2>4 DEF LookUp
    <2>. QED  BY <2>1, <2>2, <2>3, <2>4 DEF CacheNext
  <1>. QED  BY <1>1, CacheInductive, PTL DEF CacheSpec, FreshStays
=============================================================================
