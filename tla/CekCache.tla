------------------------------ MODULE CekCache ------------------------------
(***************************************************************************)
(* CekProvider.GetDecryptedKey: a cache of decrypted column encryption     *)
(* keys, shared by all connections.  Callers look a key up under the       *)
(* mutex, decrypt it outside of it and take the mutex again to store it:   *)
(* several may decrypt the same key, and their stores come in any order    *)
(* and as late as it happens.                                              *)
(*                                                                         *)
(* The cache is keyed by the path of the master key; what is decrypted is  *)
(* the encrypted key that the caller passes with it.  A decrypted key is   *)
(* named by the encrypted one it comes from.                               *)
(***************************************************************************)
EXTENDS Integers

CONSTANTS
    Callers,  \* the goroutines that call GetDecryptedKey
    Keys,     \* encrypted column encryption keys
    Paths,    \* paths of column master keys
    PathOf,   \* the master key that each key is encrypted with
    Lifetime, \* Provider.KeyLifetime, or the default
    MaxTime   \* bound: the clock

ASSUME PathOfAssumption == PathOf \in [Keys -> Paths]
ASSUME LifetimeAssumption == Lifetime \in Nat
ASSUME MaxTimeAssumption == MaxTime \in Nat

VARIABLES
    now,           \* the clock
    decryptedKeys, \* the cache: the entries under each path, one or none
    stage,         \* each caller: "idle", "decrypt" or "store"
    key,           \* the encrypted key each caller asks for
    expiry,        \* what each caller that has decrypted is to store
    since,         \* history: when the provider gave each caller its key
    answer         \* history: what the last call returned, how old it was, and
                   \* whether it came from the cache; empty at first

cacheVars == <<now, decryptedKeys, stage, key, expiry, since, answer>>

\* An entry; since is history, the code has the key and the expiry only.
Entry == [key : Keys, expiry : Lifetime..(MaxTime + Lifetime), since : 0..MaxTime]

\* Every variable has its type, and a path has at most one entry.
CacheTypeOK ==
    /\ now \in 0..MaxTime
    /\ decryptedKeys \in [Paths -> SUBSET Entry]
    /\ \A p \in Paths : \A d, e \in decryptedKeys[p] : d = e
    /\ stage \in [Callers -> {"idle", "decrypt", "store"}]
    /\ key \in [Callers -> Keys]
    /\ expiry \in [Callers -> Lifetime..(MaxTime + Lifetime)]
    /\ since \in [Callers -> 0..MaxTime]
    /\ answer \subseteq [asked : Keys, got : Keys, age : Int, cached : BOOLEAN]

CacheInit ==
    /\ now = 0
    /\ decryptedKeys = [p \in Paths |-> {}]
    /\ stage = [c \in Callers |-> "idle"]
    /\ key \in [Callers -> Keys]
    /\ expiry = [c \in Callers |-> Lifetime]
    /\ since = [c \in Callers |-> 0]
    /\ answer = {}

Tick == now < MaxTime /\ now' = now + 1
        /\ UNCHANGED <<decryptedKeys, stage, key, expiry, since, answer>>

\* What a call for k returns that finds the entry e.
Cached(k, e) == [asked |-> k, got |-> e.key, age |-> now - e.since, cached |-> TRUE]

\* Mutant: the lookup does not distinguish paths.
LookUpAnyPath(c, k) ==
    LET live == {e \in UNION {decryptedKeys[p] : p \in Paths} : e.expiry >= now}
    IN  /\ stage[c] = "idle"
        /\ key' = [key EXCEPT ![c] = k]
        /\ answer' = {Cached(k, e) : e \in live}
        /\ stage' = [stage EXCEPT ![c] = IF live = {} THEN "decrypt" ELSE "idle"]
        /\ UNCHANGED <<now, decryptedKeys, expiry, since>>

\* GetDecryptedKey up to the first Unlock: an expired entry is deleted, another
\* one is the answer, whichever key was encrypted with this master key.
LookUp(c, k) ==
    LET p == PathOf[k]
        live == {e \in decryptedKeys[p] : e.expiry >= now}
    IN  /\ stage[c] = "idle"
        /\ key' = [key EXCEPT ![c] = k]
        /\ decryptedKeys' = [decryptedKeys EXCEPT ![p] = live]
        /\ answer' = {Cached(k, e) : e \in live}
        /\ stage' = [stage EXCEPT ![c] = IF live = {} THEN "decrypt" ELSE "idle"]
        /\ UNCHANGED <<now, expiry, since>>

\* The provider fails, or has the key: then its expiry is computed.
Decrypt(c) ==
    /\ stage[c] = "decrypt"
    /\ \/ stage' = [stage EXCEPT ![c] = "idle"] /\ UNCHANGED <<expiry, since>>
       \/ /\ stage' = [stage EXCEPT ![c] = "store"]
          /\ expiry' = [expiry EXCEPT ![c] = now + Lifetime]
          /\ since' = [since EXCEPT ![c] = now]
    /\ UNCHANGED <<now, decryptedKeys, key, answer>>

\* Store with an expiry given: the second part under the mutex, and the
\* return of the decrypted key.
StoreUntil(c, until) ==
    LET k == key[c]
    IN  /\ stage[c] = "store"
        /\ decryptedKeys' = [decryptedKeys EXCEPT
             ![PathOf[k]] = {[key |-> k, expiry |-> until, since |-> since[c]]}]
        /\ answer' =
             {[asked |-> k, got |-> k, age |-> now - since[c], cached |-> FALSE]}
        /\ stage' = [stage EXCEPT ![c] = "idle"]
        /\ UNCHANGED <<now, key, expiry, since>>

\* Mutant: the expiry is computed when the mutex has been taken.
StoreFromNow(c) == StoreUntil(c, now + Lifetime)

Store(c) == StoreUntil(c, expiry[c])

CacheNext ==
    \/ Tick
    \/ \E c \in Callers : Decrypt(c) \/ Store(c) \/ \E k \in Keys : LookUp(c, k)

CacheSpec == CacheInit /\ [][CacheNext]_cacheVars

-----------------------------------------------------------------------------
(* Properties.                                                              *)

\* A caller gets the decryption of the key it asked for, as the README says of
\* encrypted cells ("decryption of encrypted cells happens automatically").
\* GetDecryptedKey looks up the path of the master key alone, so of two keys
\* with one master key the second caller gets the first one's.
RightKey == \A a \in answer : a.got = a.asked

\* A call whose own decryption succeeds returns the key it asked for, and one
\* that is served from the cache a key that was encrypted with the same master
\* key: keys of different master keys are never mixed up, however the callers
\* race.
KeyOfItsPath ==
    \A a \in answer :
        IF a.cached THEN PathOf[a.got] = PathOf[a.asked] ELSE a.got = a.asked

\* A key that is served from the cache was decrypted no longer than its
\* lifetime ago, however late the caller that decrypted it came to store it and
\* whatever it overwrote: GetDecryptedKey takes the expiry before the mutex.
KeyIsFresh == \A a \in answer : a.cached => a.age <= Lifetime

\* A lookup that deletes does not delete what another caller has just stored.
FreshStays ==
    [][\A p \in Paths : \A e \in decryptedKeys[p] :
          e.expiry >= now => decryptedKeys'[p] # {}]_cacheVars
=============================================================================
