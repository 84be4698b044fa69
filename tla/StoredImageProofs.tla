-------------------------- MODULE StoredImageProofs --------------------------
(***************************************************************************)
(* For any number of requests that upload, remove or stream one image: the *)
(* row never names a deleted object, a reader that finds nothing was        *)
(* overtaken, and requests that do not overlap leave nothing behind.       *)
(***************************************************************************)
EXTENDS StoredImage, TLAPS

\* An object that is about to be named is stored, nobody else holds its name, and no
\* request is going to delete it.
Reserved ==
    \A w \in Writers : pc[w] = "update" =>
        /\ new[w] \in objects
        /\ new[w] # row
        /\ \A x \in Writers : old[x] # new[w] /\ (x # w => new[x] # new[w])

\* Every name a request holds has been drawn, and a request deletes what the row has
\* stopped naming.
Drawn == \A w \in Writers : {old[w], new[w]} \subseteq used \cup {NoKey}
Retired == \A w \in Writers : pc[w] = "delete" => (row = NoKey \/ old[w] # row)

Reading == \A r \in Readers : rpc[r] = "read" => rkey[r] # NoKey

StoreInv == TypeOK /\ RowIsStored /\ Reserved /\ Drawn /\ Retired /\ Reading

\* While requests do not overlap there is one at work, and it knows every object.
Single ==
    alone => \A w, x \in Writers : (pc[w] # "idle" /\ pc[x] # "idle") => w = x
Known ==
    alone => \A w \in Writers :
        /\ pc[w] \in {"put", "clear"} => old[w] = row /\ objects \subseteq {row}
        /\ pc[w] = "update" => old[w] = row /\ objects \subseteq {row, new[w]}
        /\ pc[w] = "delete" => objects \subseteq {row, old[w]}

AloneInv == Single /\ Known /\ NoOrphans

-----------------------------------------------------------------------------
LEMMA StoreInit == Init => StoreInv
  BY KeyAssumption DEF Init, StoreInv, TypeOK, RowIsStored, Reserved, Drawn, Retired, Reading

LEMMA StoreStep == StoreInv /\ [Next]_vars => StoreInv'
  <1> SUFFICES ASSUME StoreInv, [Next]_vars
               PROVE  StoreInv'
    OBVIOUS
  <1> USE KeyAssumption DEF StoreInv, TypeOK, RowIsStored, Reserved, Drawn, Retired, Reading
  <1>1. ASSUME NEW w \in Writers, StartUpload(w)
        PROVE  StoreInv'
    BY <1>1 DEF StartUpload, Begin, reader
  <1>2. ASSUME NEW w \in Writers, StartRemove(w)
        PROVE  StoreInv'
    BY <1>2 DEF StartRemove, Begin, reader
  <1>3. ASSUME NEW w \in Writers, Put(w)
        PROVE  StoreInv'
    <2>1. PICK k \in Keys \ used :
             /\ new' = [new EXCEPT ![w] = k]
             /\ objects' = objects \cup {k}
             /\ used' = used \cup {k}
      BY <1>3 DEF Put
    <2>2. /\ pc[w] = "put" /\ pc' = [pc EXCEPT ![w] = "update"]
          /\ UNCHANGED <<row, old, rpc, rkey, alone>>
      BY <1>3 DEF Put, reader
    <2>3. TypeOK' /\ RowIsStored' /\ Drawn' /\ Retired' /\ Reading'
      BY <2>1, <2>2
    <2>4. Reserved'
      BY <2>1, <2>2
    <2> QED BY <2>3, <2>4
  <1>4. ASSUME NEW w \in Writers, Update(w)
        PROVE  StoreInv'
    BY <1>4 DEF Update, End, reader
  <1>5. ASSUME NEW w \in Writers, Clear(w)
        PROVE  StoreInv'
    BY <1>5 DEF Clear, reader
  <1>6. ASSUME NEW w \in Writers, Delete(w)
        PROVE  StoreInv'
    BY <1>6 DEF Delete, End, reader
  <1>7. ASSUME NEW w \in Writers, Fail(w)
        PROVE  StoreInv'
    BY <1>7 DEF Fail, End, reader
  <1>8. ASSUME NEW r \in Readers, Read(r) \/ Fetch(r) \/ Retry(r)
        PROVE  StoreInv'
    BY <1>8 DEF Read, Fetch, Retry, writer
  <1>9. CASE UNCHANGED vars
    BY <1>9 DEF vars, writer, reader
  <1> QED
    BY <1>1, <1>2, <1>3, <1>4, <1>5, <1>6, <1>7, <1>8, <1>9 DEF Next

LEMMA StoreInvariant == Spec => []StoreInv
  <1> QED BY StoreInit, StoreStep, PTL DEF Spec

\* However uploads and removals of one image overlap and wherever they die, the row
\* never names an object that has been deleted.
THEOREM RowsAreStored == Spec => []RowIsStored
  <1>1. StoreInv => RowIsStored
    BY DEF StoreInv
  <1> QED BY <1>1, StoreInvariant, PTL

\* The state keeps its type.
THEOREM TypeCorrect == Spec => []TypeOK
  <1>1. StoreInv => TypeOK
    BY DEF StoreInv
  <1> QED BY <1>1, StoreInvariant, PTL

\* A reader that misses the object holds a name the row has dropped.
THEOREM OnlyStaleReadersMiss == Spec => MissingIsStale
  <1> DEFINE Missed == \A r \in Readers :
                         (rpc[r] = "read" /\ rpc'[r] = "missing") => rkey[r] # row
  <1>1. ASSUME StoreInv, [Next]_vars, NEW r \in Readers, rpc[r] = "read", rpc'[r] = "missing"
        PROVE  rkey[r] # row
    <2>1. PICK q \in Readers : Fetch(q)
      BY <1>1 DEF Next, StartUpload, StartRemove, Begin, Put, Update, Clear, Delete,
                  Fail, Read, Retry, reader, vars, StoreInv, TypeOK
    <2>2. q = r /\ rkey[r] \notin objects
      BY <1>1, <2>1 DEF Fetch, StoreInv, TypeOK
    <2> QED BY <1>1, <2>2 DEF StoreInv, RowIsStored, Reading
  <1>2. StoreInv /\ [Next]_vars => [Missed]_vars
    BY <1>1
  <1>3. MissingIsStale <=> [][Missed]_vars
    BY PTL DEF MissingIsStale
  <1> QED BY <1>2, <1>3, StoreInvariant, PTL DEF Spec

-----------------------------------------------------------------------------
LEMMA AloneStep == StoreInv /\ AloneInv /\ [Next]_vars => AloneInv'
  <1> SUFFICES ASSUME StoreInv, AloneInv, [Next]_vars
               PROVE  AloneInv'
    OBVIOUS
  <1> USE KeyAssumption DEF StoreInv, TypeOK, AloneInv, Single, Known, NoOrphans
  <1>1. ASSUME NEW w \in Writers, StartUpload(w)
        PROVE  AloneInv'
    BY <1>1 DEF StartUpload, Begin, reader
  <1>2. ASSUME NEW w \in Writers, StartRemove(w)
        PROVE  AloneInv'
    BY <1>2 DEF StartRemove, Begin, reader
  <1>3. ASSUME NEW w \in Writers, Put(w)
        PROVE  AloneInv'
    BY <1>3 DEF Put, reader
  <1>4. ASSUME NEW w \in Writers, Update(w)
        PROVE  AloneInv'
    BY <1>4 DEF Update, End, reader, Reserved
  <1>5. ASSUME NEW w \in Writers, Clear(w)
        PROVE  AloneInv'
    BY <1>5 DEF Clear, reader
  <1>6. ASSUME NEW w \in Writers, Delete(w)
        PROVE  AloneInv'
    BY <1>6 DEF Delete, End, reader
  <1>7. ASSUME NEW w \in Writers, Fail(w)
        PROVE  AloneInv'
    BY <1>7 DEF Fail, End, reader
  <1>8. ASSUME NEW r \in Readers, Read(r) \/ Fetch(r) \/ Retry(r)
        PROVE  AloneInv'
    BY <1>8 DEF Read, Fetch, Retry, writer
  <1>9. CASE UNCHANGED vars
    BY <1>9 DEF vars, writer, reader
  <1> QED
    BY <1>1, <1>2, <1>3, <1>4, <1>5, <1>6, <1>7, <1>8, <1>9 DEF Next

\* Uploads and removals that follow one another leave only the named object stored.
THEOREM NothingLeftBehind == Spec => []NoOrphans
  <1>1. Init => AloneInv
    BY DEF Init, AloneInv, Single, Known, NoOrphans
  <1>2. AloneInv => NoOrphans
    BY DEF AloneInv
  <1> QED BY <1>1, <1>2, AloneStep, StoreInvariant, PTL DEF Spec
=============================================================================
