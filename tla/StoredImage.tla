----------------------------- MODULE StoredImage -----------------------------
(***************************************************************************)
(* One image kept in MinIO and named by a row: the avatar of a user        *)
(* (uploadAvatar, removeAvatar, streamAvatar) or the cover of a course     *)
(* (uploadCourseCover, removeCourseCover, streamCourseCover), which follow *)
(* the same steps.  An upload stores the new object, points the row at it  *)
(* and deletes the object it had read from the row before; nothing ties    *)
(* these steps together.                                                   *)
(***************************************************************************)
EXTENDS FiniteSets

CONSTANTS
    Keys,       \* object names: each upload draws one nobody used (randomUUID)
    Writers,    \* requests that upload or remove
    Readers,    \* requests that stream the image
    NoKey

ASSUME KeyAssumption == NoKey \notin Keys

VARIABLES
    row,       \* avatarKey or coverKey
    objects,   \* what MinIO holds
    used,      \* names drawn so far
    pc, old, new,   \* a writer: where it is, the key it read, the key it stores
    rpc, rkey,      \* a reader: where it is, the key it read
    alone      \* no two writers have overlapped and nothing failed, so far

writer == <<pc, old, new>>
reader == <<rpc, rkey>>
vars == <<row, objects, used, writer, reader, alone>>

TypeOK ==
    /\ row \in Keys \cup {NoKey}
    /\ objects \subseteq used /\ used \subseteq Keys
    /\ pc \in [Writers -> {"idle", "put", "update", "clear", "delete"}]
    /\ old \in [Writers -> Keys \cup {NoKey}]
    /\ new \in [Writers -> Keys \cup {NoKey}]
    /\ rpc \in [Readers -> {"idle", "read", "missing"}]
    /\ rkey \in [Readers -> Keys \cup {NoKey}]
    /\ alone \in BOOLEAN

Init ==
    /\ row = NoKey
    /\ objects = {} /\ used = {}
    /\ pc = [w \in Writers |-> "idle"]
    /\ old = [w \in Writers |-> NoKey]
    /\ new = [w \in Writers |-> NoKey]
    /\ rpc = [r \in Readers |-> "idle"]
    /\ rkey = [r \in Readers |-> NoKey]
    /\ alone = TRUE

Begin(w, to) ==
    /\ pc[w] = "idle"
    /\ pc' = [pc EXCEPT ![w] = to]
    /\ old' = [old EXCEPT ![w] = row]
    /\ alone' = (alone /\ \A x \in Writers \ {w} : pc[x] = "idle")
    /\ UNCHANGED <<row, objects, used, new, reader>>

\* The image is of an allowed type and size; the row is read.
StartUpload(w) == Begin(w, "put")

\* Removing needs a key in the row.
StartRemove(w) == row # NoKey /\ Begin(w, "clear")

End(w) ==
    /\ pc' = [pc EXCEPT ![w] = "idle"]
    /\ old' = [old EXCEPT ![w] = NoKey]
    /\ new' = [new EXCEPT ![w] = NoKey]

\* A plausible bug: every upload is stored under the same name.
PutSameName(w) ==
    /\ pc[w] = "put"
    /\ \E k \in Keys :
          /\ new' = [new EXCEPT ![w] = k]
          /\ objects' = objects \cup {k}
    /\ pc' = [pc EXCEPT ![w] = "update"]
    /\ UNCHANGED <<row, used, old, reader, alone>>

\* putObject under a fresh name.
Put(w) ==
    /\ pc[w] = "put"
    /\ \E k \in Keys \ used :
          /\ new' = [new EXCEPT ![w] = k]
          /\ objects' = objects \cup {k}
          /\ used' = used \cup {k}
    /\ pc' = [pc EXCEPT ![w] = "update"]
    /\ UNCHANGED <<row, old, reader, alone>>

\* A plausible bug: the old object is deleted before the row stops naming it.
UpdateLate(w) ==
    /\ pc[w] = "update"
    /\ IF old[w] \in objects
         THEN /\ objects' = objects \ {old[w]}
              /\ UNCHANGED <<row, writer>>
         ELSE row' = new[w] /\ End(w) /\ UNCHANGED objects
    /\ UNCHANGED <<used, reader, alone>>

\* The row is pointed at the new object; nothing to delete if there was none.
Update(w) ==
    /\ pc[w] = "update"
    /\ row' = new[w]
    /\ IF old[w] = NoKey
         THEN End(w)
         ELSE /\ pc' = [pc EXCEPT ![w] = "delete"]
              /\ new' = [new EXCEPT ![w] = NoKey]
              /\ UNCHANGED old
    /\ UNCHANGED <<objects, used, reader, alone>>

\* A plausible bug: the object of a removed image is forgotten.
ClearOnly(w) ==
    /\ pc[w] = "clear"
    /\ row' = NoKey
    /\ End(w)
    /\ UNCHANGED <<objects, used, reader, alone>>

\* removeAvatar, removeCourseCover: the row is cleared, whatever it names by now.
Clear(w) ==
    /\ pc[w] = "clear"
    /\ row' = NoKey
    /\ pc' = [pc EXCEPT ![w] = "delete"]
    /\ UNCHANGED <<objects, used, old, new, reader, alone>>

\* A plausible bug: what the row names now is deleted, not what was read from it.
DeleteCurrent(w) ==
    /\ pc[w] = "delete"
    /\ objects' = objects \ {row}
    /\ End(w)
    /\ UNCHANGED <<row, used, reader, alone>>

Delete(w) ==
    /\ pc[w] = "delete"
    /\ objects' = objects \ {old[w]}
    /\ End(w)
    /\ UNCHANGED <<row, used, reader, alone>>

\* MinIO or the database refuses, or the process dies: what was done stays done.
Fail(w) ==
    /\ pc[w] # "idle"
    /\ End(w)
    /\ alone' = FALSE
    /\ UNCHANGED <<row, objects, used, reader>>

\* streamAvatar, streamCourseCover: the row first, then the object.
Read(r) ==
    /\ rpc[r] = "idle" /\ row # NoKey
    /\ rpc' = [rpc EXCEPT ![r] = "read"]
    /\ rkey' = [rkey EXCEPT ![r] = row]
    /\ UNCHANGED <<row, objects, used, writer, alone>>

Fetch(r) ==
    /\ rpc[r] = "read"
    /\ rpc' = [rpc EXCEPT ![r] = IF rkey[r] \in objects THEN "idle" ELSE "missing"]
    /\ rkey' = IF rkey[r] \in objects THEN [rkey EXCEPT ![r] = NoKey] ELSE rkey
    /\ UNCHANGED <<row, objects, used, writer, alone>>

Retry(r) ==
    /\ rpc[r] = "missing"
    /\ rpc' = [rpc EXCEPT ![r] = "idle"]
    /\ rkey' = [rkey EXCEPT ![r] = NoKey]
    /\ UNCHANGED <<row, objects, used, writer, alone>>

Next ==
    \/ \E w \in Writers : \/ StartUpload(w) \/ StartRemove(w)
                          \/ Put(w) \/ Update(w) \/ Clear(w) \/ Delete(w) \/ Fail(w)
    \/ \E r \in Readers : Read(r) \/ Fetch(r) \/ Retry(r)

Spec == Init /\ [][Next]_vars

-----------------------------------------------------------------------------
\* The row never names an object that is gone: however uploads and removals of the
\* same image overlap, each deletes only what no row will name again.
RowIsStored == row # NoKey => row \in objects

\* A reader that finds the object missing has been overtaken by a new image: asking
\* again is enough.
MissingIsStale ==
    [][\A r \in Readers : (rpc[r] = "read" /\ rpc'[r] = "missing") => rkey[r] # row]_vars

\* Uploads and removals that do not overlap leave nothing behind in the storage.
NoOrphans ==
    (alone /\ \A w \in Writers : pc[w] = "idle") => objects \subseteq {row}
=============================================================================
