------------------------------ MODULE KeyCache ------------------------------
(***************************************************************************)
(* The signing keys the APIs verify tokens with (go-auth jwt.go): a cache  *)
(* of Keycloak's JWKS document, refreshed when it is stale or a key id is  *)
(* unknown.  The write lock is held over the fetch, so readers wait for it.*)
(* Time passes in ticks.                                                   *)
(***************************************************************************)
EXTENDS Integers, FiniteSets

CONSTANTS
  Keys,         \* key ids
  Verifiers,    \* concurrent requests of an API process
  StaleAfter,   \* age from which the document is fetched again (5 min)
  Throttle,     \* age up to which a fetch is skipped (10 s)
  FetchTime,    \* timeout of a fetch
  MaxRotations, \* bound on the changes of the realm's keys
  NotVerifying

ASSUME KeyCacheAssumption ==
  /\ StaleAfter \in Nat /\ Throttle \in Nat /\ FetchTime \in Nat /\ MaxRotations \in Nat
  /\ Keys # {}

VARIABLES
  realm,      \* the usable RSA keys Keycloak publishes
  gone,       \* ticks since a key was withdrawn, up to the bound
  keys,       \* the cached document
  age,        \* ticks since fetchedAt, up to the bound
  verifier,   \* what every request does
  rotations,
  accepted    \* the last key a request was verified with, and how

keyVars == <<realm, gone, keys, age, verifier, rotations, accepted>>

(* the longest a withdrawn key is accepted while Keycloak answers *)
KeyLag == StaleAfter + FetchTime

NoKey == [kid |-> "none"]
KeyCacheInit ==
  /\ realm = Keys
  /\ gone = [k \in Keys |-> 0]
  /\ keys = {}
  /\ age = KeyLag + 1
  /\ verifier = [v \in Verifiers |-> NotVerifying]
  /\ rotations = 0
  /\ accepted = NoKey

Doing(v, pc) == verifier[v] # NotVerifying /\ verifier[v].pc = pc
Turns(v, task) == verifier' = [verifier EXCEPT ![v] = task]
WriteLocked == \E v \in Verifiers : Doing(v, "fetch")
NeverStale == FALSE
Stale == age > StaleAfter
Accepts(v, kid, how) ==
  /\ accepted' = [kid |-> kid, how |-> how, gone |-> IF kid \in realm THEN 0 ELSE gone[kid]]
  /\ Turns(v, NotVerifying)
Rejects(v) == Turns(v, NotVerifying) /\ UNCHANGED accepted
-----------------------------------------------------------------------------
(* publicKey, first read *)
publicKey(v, kid) ==
  /\ verifier[v] = NotVerifying
  /\ ~WriteLocked
  /\ IF kid \in keys /\ ~Stale
     THEN Accepts(v, kid, "fresh")
     ELSE /\ Turns(v, [pc |-> "refresh", kid |-> kid, known |-> kid \in keys, doc |-> {}, age |-> 0])
          /\ UNCHANGED accepted
  /\ UNCHANGED <<realm, gone, keys, age, rotations>>

(* refreshJWKS: the lock, the throttle, and the GET that Keycloak answers now.
   A reader the last writer kept waiting goes before the next writer. *)
Recent == age < Throttle
ReaderWaits == \E v \in Verifiers : Doing(v, "reread") /\ verifier[v].age > 0

refreshJWKS(v) ==
  /\ Doing(v, "refresh")
  /\ ~WriteLocked /\ ~ReaderWaits
  /\ Turns(v, IF Recent THEN [verifier[v] EXCEPT !.pc = "reread", !.age = 0]
              ELSE [verifier[v] EXCEPT !.pc = "fetch", !.doc = realm, !.age = 0])
  /\ UNCHANGED <<realm, gone, keys, age, rotations, accepted>>

StoreKeys(v) ==
  /\ Doing(v, "fetch")
  /\ verifier[v].doc # {}
  /\ keys' = verifier[v].doc
  /\ age' = 0
  /\ Turns(v, [verifier[v] EXCEPT !.pc = "reread", !.age = 0])
  /\ UNCHANGED <<realm, gone, rotations, accepted>>

(* An unreachable Keycloak, a status other than 200 or no usable key: a known
   key is served although it is stale. *)
RefreshFails(v) ==
  /\ Doing(v, "fetch")
  /\ \/ verifier[v].known /\ Accepts(v, verifier[v].kid, "outage")
     \/ ~verifier[v].known /\ Rejects(v)
  /\ UNCHANGED <<realm, gone, keys, age, rotations>>

Reread(v) ==
  /\ Doing(v, "reread")
  /\ ~WriteLocked
  /\ LET kid == verifier[v].kid
     IN  \/ kid \in keys /\ Accepts(v, kid, "refreshed")
         \/ kid \notin keys /\ Rejects(v)
  /\ UNCHANGED <<realm, gone, keys, age, rotations>>

(* Keycloak rotates its keys. *)
Rotate(published) ==
  /\ rotations < MaxRotations
  /\ rotations' = rotations + 1
  /\ published # realm
  /\ realm' = published
  /\ gone' = [k \in Keys |-> IF k \in realm \ published THEN 0 ELSE gone[k]]
  /\ UNCHANGED <<keys, age, verifier, accepted>>

(* A tick passes only while every request waits: for the fetch, which has a
   timeout, or for the lock held over it. *)
KeyTick ==
  /\ \A v \in Verifiers :
       \/ verifier[v] = NotVerifying
       \/ Doing(v, "fetch") /\ verifier[v].age < FetchTime
       \/ ~Doing(v, "fetch") /\ WriteLocked
  /\ gone' = [k \in Keys |-> IF k \in realm \/ gone[k] > KeyLag THEN gone[k] ELSE gone[k] + 1]
  /\ age' = IF age > KeyLag THEN age ELSE age + 1
  /\ verifier' = [v \in Verifiers |->
       IF verifier[v] = NotVerifying THEN NotVerifying
       ELSE [verifier[v] EXCEPT !.age = IF @ > FetchTime THEN @ ELSE @ + 1]]
  /\ UNCHANGED <<realm, keys, rotations, accepted>>

KeysNext ==
  \/ \E v \in Verifiers :
       \/ \E kid \in Keys : publicKey(v, kid)
       \/ refreshJWKS(v) \/ StoreKeys(v) \/ RefreshFails(v) \/ Reread(v)
  \/ \E published \in SUBSET Keys : Rotate(published)
  \/ KeyTick
-----------------------------------------------------------------------------
(* A key Keycloak withdrew is accepted for KeyLag at most, whatever requests
   were waiting for the lock, unless the refresh of that very request failed
   (publicKey, refreshJWKS). *)
WithdrawnKeyLapses ==
  accepted # NoKey /\ accepted.how # "outage" => accepted.gone <= KeyLag
=============================================================================
