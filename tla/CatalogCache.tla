---------------------------- MODULE CatalogCache -----------------------------
(***************************************************************************)
(* The listings kept in Redis (catalog-cache.service.ts, redis.service.ts):*)
(* one for the master, one per set of institutions, one per teacher, one   *)
(* of the categories.  A reader that misses loads the rows and stores them *)
(* with a TTL; a request that changes courses, links, teachers or          *)
(* categories deletes every listing after its write.  A listing is reduced *)
(* to a version: how often the rows it is made of have changed.            *)
(***************************************************************************)
EXTENDS Integers, FiniteSets

CONSTANTS
    Keys,       \* the listings
    Readers, Writers,
    MaxWrites,  \* bound on the writes
    Empty

ASSUME CacheAssumption == MaxWrites \in Nat /\ Empty \notin Int

VARIABLES
    version,    \* the rows in Postgres
    writes,
    cache,      \* the listings in Redis
    rpc, rkey, rval,    \* a reader: where it is, the listing, the rows it loaded
    wpc, todo,          \* a writer: where it is, the listings it has yet to delete
    overtaken,  \* readers whose rows changed after they loaded them
    excused     \* listings that nobody is going to delete although their rows changed

reader == <<rpc, rkey, rval>>
writer == <<wpc, todo>>
vars == <<version, writes, cache, reader, writer, overtaken, excused>>

Versions == 0..MaxWrites

TypeOK ==
    /\ version \in [Keys -> Versions] /\ writes \in Versions
    /\ cache \in [Keys -> Versions \cup {Empty}]
    /\ rpc \in [Readers -> {"idle", "load", "set"}]
    /\ rkey \in [Readers -> Keys \cup {Empty}]
    /\ rval \in [Readers -> Versions \cup {Empty}]
    /\ wpc \in [Writers -> {"idle", "written", "scan"}]
    /\ todo \in [Writers -> SUBSET Keys]
    /\ overtaken \subseteq Readers
    /\ excused \subseteq Keys

Init ==
    /\ version = [k \in Keys |-> 0] /\ writes = 0
    /\ cache = [k \in Keys |-> Empty]
    /\ rpc = [r \in Readers |-> "idle"]
    /\ rkey = [r \in Readers |-> Empty]
    /\ rval = [r \in Readers |-> Empty]
    /\ wpc = [w \in Writers |-> "idle"]
    /\ todo = [w \in Writers |-> {}]
    /\ overtaken = {} /\ excused = {}

-----------------------------------------------------------------------------
\* getJson finds nothing, or Redis does not answer.  (A hit changes nothing.)
Miss(r, k) ==
    /\ rpc[r] = "idle"
    /\ rpc' = [rpc EXCEPT ![r] = "load"]
    /\ rkey' = [rkey EXCEPT ![r] = k]
    /\ UNCHANGED <<version, writes, cache, rval, writer, overtaken, excused>>

Load(r) ==
    /\ rpc[r] = "load"
    /\ rpc' = [rpc EXCEPT ![r] = "set"]
    /\ rval' = [rval EXCEPT ![r] = version[rkey[r]]]
    /\ overtaken' = overtaken \ {r}
    /\ UNCHANGED <<version, writes, cache, rkey, writer, excused>>

Answer(r) ==
    /\ rpc' = [rpc EXCEPT ![r] = "idle"]
    /\ rkey' = [rkey EXCEPT ![r] = Empty]
    /\ rval' = [rval EXCEPT ![r] = Empty]

\* A plausible bug: key and value are swapped.
StoreSwapped(r) ==
    /\ rpc[r] = "set"
    /\ cache' = [cache EXCEPT ![rkey[r]] = rkey[r]]
    /\ Answer(r)
    /\ UNCHANGED <<version, writes, writer, overtaken, excused>>

\* setJson with the TTL, whatever has been written since.
Store(r) ==
    /\ rpc[r] = "set"
    /\ cache' = [cache EXCEPT ![rkey[r]] = rval[r]]
    /\ excused' = IF r \in overtaken THEN excused \cup {rkey[r]} ELSE excused \ {rkey[r]}
    /\ Answer(r)
    /\ UNCHANGED <<version, writes, writer, overtaken>>

\* The request dies, or setJson fails and the rows are answered all the same.
LeaveOut(r) ==
    /\ rpc[r] # "idle"
    /\ Answer(r)
    /\ UNCHANGED <<version, writes, cache, writer, overtaken, excused>>

-----------------------------------------------------------------------------
\* The rows behind some listings change; readers may have loaded the old ones.
Change(changed) ==
    /\ writes < MaxWrites /\ writes' = writes + 1
    /\ version' = [k \in Keys |-> IF k \in changed THEN version[k] + 1 ELSE version[k]]
    /\ overtaken' = overtaken \cup {r \in Readers : rpc[r] = "set" /\ rkey[r] \in changed}

\* The write of a course, of its status, teachers and links, or of a category.
Write(w, changed) ==
    /\ wpc[w] = "idle"
    /\ Change(changed)
    /\ wpc' = [wpc EXCEPT ![w] = "written"]
    /\ UNCHANGED <<cache, reader, todo, excused>>

\* Writes that leave the cache alone: deleting an institution, renaming a teacher.
WriteUnseen(changed) ==
    /\ Change(changed)
    /\ excused' = excused \cup changed
    /\ UNCHANGED <<cache, reader, writer>>

\* A plausible bug: the scan looks for the listing of one user instead of the prefix.
ScanOne(w) ==
    /\ wpc[w] = "written"
    /\ wpc' = [wpc EXCEPT ![w] = "scan"]
    /\ \E k \in Keys : todo' = [todo EXCEPT ![w] = {k}]
    /\ UNCHANGED <<version, writes, cache, reader, overtaken, excused>>

\* invalidateAll: SCAN visits every listing that is there throughout, batch by batch.
Scan(w) ==
    /\ wpc[w] = "written"
    /\ wpc' = [wpc EXCEPT ![w] = "scan"]
    /\ todo' = [todo EXCEPT ![w] = Keys]
    /\ UNCHANGED <<version, writes, cache, reader, overtaken, excused>>

Drop(w, k) ==
    /\ wpc[w] = "scan" /\ k \in todo[w]
    /\ cache' = [cache EXCEPT ![k] = Empty]
    /\ todo' = [todo EXCEPT ![w] = @ \ {k}]
    /\ wpc' = [wpc EXCEPT ![w] = IF todo[w] = {k} THEN "idle" ELSE "scan"]
    /\ excused' = excused \ {k}
    /\ UNCHANGED <<version, writes, reader, overtaken>>

\* Redis fails in the middle of the scan (the error is swallowed), or the process
\* dies after its write.
GiveUp(w) ==
    /\ wpc[w] # "idle"
    /\ excused' = excused \cup (IF wpc[w] = "written" THEN Keys ELSE todo[w])
    /\ wpc' = [wpc EXCEPT ![w] = "idle"]
    /\ todo' = [todo EXCEPT ![w] = {}]
    /\ UNCHANGED <<version, writes, cache, reader, overtaken>>

\* A plausible bug: the TTL is left out, so only a deletion removes a listing.
ExpireNever(k) ==
    /\ cache[k] = Empty /\ k \in excused
    /\ excused' = excused \ {k}
    /\ UNCHANGED <<version, writes, cache, reader, writer, overtaken>>

\* The TTL is over.
Expire(k) ==
    /\ cache[k] # Empty
    /\ cache' = [cache EXCEPT ![k] = Empty]
    /\ excused' = excused \ {k}
    /\ UNCHANGED <<version, writes, reader, writer, overtaken>>

Next ==
    \/ \E r \in Readers, k \in Keys : Miss(r, k)
    \/ \E r \in Readers : Load(r) \/ Store(r) \/ LeaveOut(r)
    \/ \E changed \in (SUBSET Keys) \ {{}} :
          \/ \E w \in Writers : Write(w, changed)
          \/ WriteUnseen(changed)
    \/ \E w \in Writers : Scan(w) \/ GiveUp(w) \/ \E k \in Keys : Drop(w, k)
    \/ \E k \in Keys : Expire(k)

Spec == Init /\ [][Next]_vars

\* Requests end and keys expire.
Fairness ==
    /\ \A r \in Readers : WF_vars(Load(r) \/ Store(r) \/ LeaveOut(r))
    /\ \A w \in Writers : WF_vars(Scan(w) \/ GiveUp(w) \/ \E k \in Keys : Drop(w, k))
    /\ \A k \in Keys : WF_vars(Expire(k))

FairSpec == Spec /\ Fairness

-----------------------------------------------------------------------------
\* A listing in Redis shows the rows as they are, unless a request is still going to
\* delete it, or a reader stored rows that had changed under it, or the deletion was
\* given up, or the write was one that deletes nothing.
FreshUnlessExcused ==
    \A k \in Keys \ excused :
        \/ cache[k] \in {Empty, version[k]}
        \/ \E w \in Writers : wpc[w] = "written" \/ k \in todo[w]

\* Whatever was missed, the TTL puts it right: once the writes are over, every listing
\* that is answered is the current one, for good.
EventuallyFresh == <>[](\A k \in Keys : cache[k] \in {Empty, version[k]})
=============================================================================
