------------------------- MODULE CatalogCacheProofs --------------------------
(***************************************************************************)
(* For any number of listings, readers and writers: a listing that no       *)
(* request will delete any more is current, save for the named exceptions. *)
(***************************************************************************)
EXTENDS CatalogCache, TLAPS

\* No listing has changed more often than there were writes.
Counted == \A k \in Keys : version[k] <= writes

\* The rows a reader holds are the current ones unless they changed since.
Loaded ==
    \A r \in Readers :
        /\ rpc[r] # "idle" => rkey[r] \in Keys
        /\ rpc[r] = "set" => rval[r] \in Versions
        /\ (rpc[r] = "set" /\ r \notin overtaken) => rval[r] = version[rkey[r]]

CacheInv == TypeOK /\ Counted /\ Loaded /\ FreshUnlessExcused

LEMMA CacheInit == Init => CacheInv
  BY CacheAssumption DEF Init, CacheInv, TypeOK, Counted, Loaded, FreshUnlessExcused, Versions

\* What a write does to the rows, for the writes that are followed by a deletion and
\* for those that are not.
LEMMA ChangeStep ==
    ASSUME CacheInv, NEW changed \in SUBSET Keys, Change(changed),
           UNCHANGED <<cache, rpc, rkey, rval>>
    PROVE  /\ version' \in [Keys -> Versions] /\ writes' \in Versions
           /\ overtaken' \subseteq Readers
           /\ Counted' /\ Loaded'
           /\ \A k \in Keys \ changed : version'[k] = version[k]
  <1> USE CacheAssumption DEF CacheInv, TypeOK, Counted, Loaded, Versions
  <1>1. writes' \in Versions /\ writes' = writes + 1 /\ overtaken' \subseteq Readers
    BY DEF Change
  <1>2. \A k \in Keys : version'[k] \in {version[k], version[k] + 1}
    BY DEF Change
  <1>3. version' \in [Keys -> Versions] /\ Counted'
    BY <1>1, <1>2 DEF Change
  <1>4. \A k \in Keys \ changed : version'[k] = version[k]
    BY DEF Change
  <1>5. ASSUME NEW r \in Readers, rpc'[r] = "set", r \notin overtaken'
        PROVE  rval'[r] = version'[rkey'[r]]
    <2>1. r \notin overtaken /\ rkey[r] \in Keys \ changed
      BY <1>5 DEF Change
    <2> QED BY <1>4, <1>5, <2>1
  <1> QED BY <1>1, <1>3, <1>4, <1>5

LEMMA CacheStep == CacheInv /\ [Next]_vars => CacheInv'
  <1> SUFFICES ASSUME CacheInv, [Next]_vars
               PROVE  CacheInv'
    OBVIOUS
  <1> USE CacheAssumption DEF CacheInv, TypeOK, Counted, Loaded, FreshUnlessExcused
  <1>1. ASSUME NEW r \in Readers, NEW k \in Keys, Miss(r, k)
        PROVE  CacheInv'
    BY <1>1 DEF Miss, writer
  <1>2. ASSUME NEW r \in Readers, Load(r)
        PROVE  CacheInv'
    BY <1>2 DEF Load, writer
  <1>3. ASSUME NEW r \in Readers, Store(r)
        PROVE  CacheInv'
    <2>1. /\ rpc[r] = "set" /\ rkey[r] \in Keys /\ rval[r] \in Versions
          /\ cache' = [cache EXCEPT ![rkey[r]] = rval[r]]
          /\ excused' = IF r \in overtaken THEN excused \cup {rkey[r]}
                                           ELSE excused \ {rkey[r]}
          /\ Answer(r)
          /\ UNCHANGED <<version, writes, wpc, todo, overtaken>>
      BY <1>3 DEF Store, writer
    <2>2. TypeOK' /\ Counted' /\ Loaded'
      BY <2>1 DEF Answer
    <2>3. FreshUnlessExcused'
      BY <2>1
    <2> QED BY <2>2, <2>3
  <1>4. ASSUME NEW r \in Readers, LeaveOut(r)
        PROVE  CacheInv'
    BY <1>4 DEF LeaveOut, Answer, writer
  <1>5. ASSUME NEW changed \in SUBSET Keys, NEW w \in Writers, Write(w, changed)
        PROVE  CacheInv'
    <2>1. /\ Change(changed) /\ wpc[w] = "idle"
          /\ wpc' = [wpc EXCEPT ![w] = "written"]
          /\ UNCHANGED <<cache, rpc, rkey, rval, todo, excused>>
      BY <1>5 DEF Write, reader
    <2>2. /\ version' \in [Keys -> Versions] /\ writes' \in Versions
          /\ overtaken' \subseteq Readers
          /\ Counted' /\ Loaded'
      BY <2>1, ChangeStep
    <2>3. TypeOK'
      BY <2>1, <2>2
    <2>4. FreshUnlessExcused'
      BY <2>1
    <2> QED BY <2>2, <2>3, <2>4
  <1>6. ASSUME NEW changed \in SUBSET Keys, WriteUnseen(changed)
        PROVE  CacheInv'
    <2>1. /\ Change(changed) /\ excused' = excused \cup changed
          /\ UNCHANGED <<cache, rpc, rkey, rval, wpc, todo>>
      BY <1>6 DEF WriteUnseen, reader, writer
    <2>2. /\ version' \in [Keys -> Versions] /\ writes' \in Versions
          /\ overtaken' \subseteq Readers
          /\ Counted' /\ Loaded'
          /\ \A k \in Keys \ changed : version'[k] = version[k]
      BY <2>1, ChangeStep
    <2>3. TypeOK'
      BY <2>1, <2>2
    <2>4. FreshUnlessExcused'
      BY <2>1, <2>2
    <2> QED BY <2>2, <2>3, <2>4
  <1>7. ASSUME NEW w \in Writers, Scan(w)
        PROVE  CacheInv'
    BY <1>7 DEF Scan, reader
  <1>8. ASSUME NEW w \in Writers, NEW k \in Keys, Drop(w, k)
        PROVE  CacheInv'
    BY <1>8 DEF Drop, reader
  <1>9. ASSUME NEW w \in Writers, GiveUp(w)
        PROVE  CacheInv'
    BY <1>9 DEF GiveUp, reader
  <1>10. ASSUME NEW k \in Keys, Expire(k)
         PROVE  CacheInv'
    BY <1>10 DEF Expire, reader, writer
  <1>11. CASE UNCHANGED vars
    BY <1>11 DEF vars, reader, writer
  <1> QED
    BY <1>1, <1>2, <1>3, <1>4, <1>5, <1>6, <1>7, <1>8, <1>9, <1>10, <1>11 DEF Next

LEMMA CacheInvariant == Spec => []CacheInv
  <1> QED BY CacheInit, CacheStep, PTL DEF Spec

\* The state keeps its type.
THEOREM TypeCorrect == Spec => []TypeOK
  <1>1. CacheInv => TypeOK
    BY DEF CacheInv
  <1> QED BY <1>1, CacheInvariant, PTL

\* The only stale listings are those a request is about to delete, and those left by a
\* reader that was overtaken, an abandoned deletion or a write that deletes nothing.
THEOREM ListingsAreFresh == Spec => []FreshUnlessExcused
  <1>1. CacheInv => FreshUnlessExcused
    BY DEF CacheInv
  <1> QED BY <1>1, CacheInvariant, PTL

\* A listing is current, and no reader is about to store older rows of it.
Settled(k) ==
    /\ cache[k] \in {Empty, version[k]}
    /\ \A r \in Readers : rpc[r] = "set" /\ rkey[r] = k => r \notin overtaken

LEMMA SettledStep ==
    ASSUME CacheInv, Next, NEW k \in Keys, Settled(k), version'[k] = version[k]
    PROVE  Settled(k)'
  <1> USE CacheAssumption DEF CacheInv, TypeOK, Loaded, Settled, Versions
  <1>1. ASSUME NEW r \in Readers, NEW l \in Keys, Miss(r, l)
        PROVE  Settled(k)'
    BY <1>1 DEF Miss
  <1>2. ASSUME NEW r \in Readers, Load(r)
        PROVE  Settled(k)'
    BY <1>2 DEF Load
  <1>3. ASSUME NEW r \in Readers, Store(r)
        PROVE  Settled(k)'
    <2>1. cache'[k] = cache[k] \/ (rkey[r] = k /\ cache'[k] = version[k])
      BY <1>3 DEF Store
    <2> QED BY <1>3, <2>1 DEF Store, Answer
  <1>4. ASSUME NEW r \in Readers, LeaveOut(r)
        PROVE  Settled(k)'
    BY <1>4 DEF LeaveOut, Answer
  <1>5. ASSUME NEW changed \in SUBSET Keys, Change(changed),
               UNCHANGED <<cache, rpc, rkey>>
        PROVE  Settled(k)'
    <2>1. k \notin changed
      BY <1>5 DEF Change
    <2>2. \A r \in Readers : r \in overtaken' /\ r \notin overtaken => rkey[r] # k
      BY <1>5, <2>1 DEF Change
    <2> QED BY <1>5, <2>2
  <1>6. ASSUME NEW w \in Writers, Scan(w) \/ GiveUp(w) \/ \E l \in Keys : Drop(w, l)
        PROVE  Settled(k)'
    BY <1>6 DEF Scan, GiveUp, Drop, reader
  <1>7. ASSUME NEW l \in Keys, Expire(l)
        PROVE  Settled(k)'
    BY <1>7 DEF Expire, reader
  <1>8. \A changed \in SUBSET Keys :
          /\ WriteUnseen(changed) => Change(changed) /\ UNCHANGED <<cache, rpc, rkey>>
          /\ \A w \in Writers : Write(w, changed) => Change(changed) /\ UNCHANGED <<cache, rpc, rkey>>
    BY DEF WriteUnseen, Write, reader
  <1> QED BY <1>1, <1>2, <1>3, <1>4, <1>5, <1>6, <1>7, <1>8 DEF Next

\* While the rows of a listing stay as they are, a listing that is current, with no reader
\* about to store older rows, stays so, whatever readers, deletions, failures and
\* expiries come (setCatalog and invalidateAll in catalog-cache.service.ts; that it
\* becomes so is what EventuallyFresh adds).
THEOREM FreshnessLasts ==
    Spec => [][\A k \in Keys : Settled(k) /\ version'[k] = version[k] => Settled(k)']_vars
  <1>1. CacheInv /\ [Next]_vars =>
          [\A k \in Keys : Settled(k) /\ version'[k] = version[k] => Settled(k)']_vars
    BY SettledStep
  <1> QED BY <1>1, CacheInvariant, PTL DEF Spec
=============================================================================
