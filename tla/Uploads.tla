------------------------------ MODULE Uploads ------------------------------
(***************************************************************************)
(* The uploads of pixio/services/uploads.py: browsers that upload one and  *)
(* the same file name and size (two browsers, or one that starts again),   *)
(* the chunks in UPLOAD_TMP_DIR/<id>, the state UPLOAD_TMP_DIR/<id>.json,  *)
(* the assembly into the library under the lock of the module, and the     *)
(* cleanup that runs inside init and, without that lock, in the background *)
(* thread.                                                                 *)
(*                                                                         *)
(* A call is the sequence of the steps it has left; a step is what happens *)
(* between two points where another thread may run.  Contents, sizes and   *)
(* names are left out, a chunk is its index: put_chunk gives it its final  *)
(* name once all its bytes are there, so that a short one never shows.     *)
(***************************************************************************)
EXTENDS Naturals, FiniteSets, SequencesExt

CONSTANTS
    Clients,     \* the request threads
    Bg,          \* the background thread
    Nobody,      \* the owner of a free lock
    MaxUploads,  \* bound: no init is called once so many ids are drawn
    Chunks,      \* how many chunks the file has
    MaxCalls,    \* bound: how many calls the browsers make
    MaxCleanups, \* bound: how often the background thread cleans up
    MaxCrashes,  \* bound: how often the process dies
    Expiring     \* whether an upload may go without a call for MAX_AGE

Ids     == 1..MaxUploads
NoId    == 0
Indices == 1..Chunks
Threads == Clients \cup {Bg}

ASSUME UploadsAssumption ==
    /\ Bg \notin Clients
    /\ Nobody \notin Threads
    /\ IsFiniteSet(Clients)
    /\ MaxUploads \in Nat /\ MaxCalls \in Nat
    /\ MaxCleanups \in Nat /\ MaxCrashes \in Nat
    /\ Chunks \in Nat \ {0}
    /\ Expiring \in BOOLEAN

VARIABLES
    state,    \* <id>.json: "none", "live", or "zombie" without its fields
    dir,      \* the ids whose chunk directory exists
    chunks,   \* the chunks in it
    tmps,     \* the threads whose temporary chunk is in a directory
    old,      \* the ids whose state was last written MAX_AGE ago
    dest,     \* the file in the library: "absent", "empty" or "whole"
    part,     \* the chunks in the .part file beside it
    lock,     \* who holds _lock
    todo,     \* the steps a thread has left
    drawn,    \* how many ids have been drawn
    revived,  \* history: the ids whose state was written again once discarded
    kept,     \* history: a reserved name could not be removed
    calls, cleanups, crashes

disk == <<state, dir, chunks, tmps, old, dest, part>>
history == <<revived, kept>>
bounds == <<calls, cleanups, crashes>>
vars == <<disk, lock, todo, drawn, history, bounds>>

Do(op, id, n) == [op |-> op, id |-> id, n |-> n]
Plain(op)     == Do(op, NoId, 0)

Init ==
    /\ state = [i \in Ids |-> "none"]
    /\ dir = {}
    /\ chunks = [i \in Ids |-> {}]
    /\ tmps = [i \in Ids |-> {}]
    /\ old = {}
    /\ dest = "absent"
    /\ part = {}
    /\ lock = Nobody
    /\ todo = [t \in Threads |-> <<>>]
    /\ drawn = 0
    /\ revived = {}
    /\ kept = FALSE
    /\ calls = 0 /\ cleanups = 0 /\ crashes = 0

-----------------------------------------------------------------------------
(* The calls, as the steps they take.                                      *)

InitCall == <<Plain("lock"), Plain("list"), Plain("resume"), Plain("unlock")>>

PutCall(i, n) == <<Do("known", i, 0), Do("open", i, n), Do("put", i, n),
                   Do("touch", i, n)>>

Discard(i) == <<Do("rmtree", i, 0), Do("forget", i, 0)>>

FinishCall(i) ==
    <<Plain("lock"), Do("known", i, 0), Do("received", i, 0),
      Do("create", i, 0)>>
      \o [n \in Indices |-> Do("copy", i, n)]
      \o <<Do("rename", i, 0)>> \o Discard(i) \o <<Plain("unlock")>>

DiscardCall(i) == <<Do("known", i, 0)>> \o Discard(i)

Call(c, steps) ==
    /\ todo[c] = <<>>
    /\ calls < MaxCalls
    /\ calls' = calls + 1
    /\ todo' = [todo EXCEPT ![c] = steps]
    /\ UNCHANGED <<disk, lock, drawn, history, cleanups, crashes>>

\* The calls of init that may still draw an id.
Drawing == {c \in Clients : \E k \in 1..Len(todo[c]) : todo[c][k].op = "resume"}

\* A browser knows the ids that init has returned.
Browser(c) ==
    \/ drawn + Cardinality(Drawing) < MaxUploads /\ Call(c, InitCall)
    \/ \E i \in 1..drawn :
         \/ \E n \in Indices : Call(c, PutCall(i, n))
         \/ Call(c, FinishCall(i))
         \/ Call(c, DiscardCall(i))

Cleanup ==
    /\ todo[Bg] = <<>>
    /\ cleanups < MaxCleanups
    /\ cleanups' = cleanups + 1
    /\ todo' = [todo EXCEPT ![Bg] = <<Plain("list")>>]
    /\ UNCHANGED <<disk, lock, drawn, history, calls, crashes>>

-----------------------------------------------------------------------------
Step(t, op) == todo[t] # <<>> /\ Head(todo[t]).op = op
Id(t)       == Head(todo[t]).id
Index(t)    == Head(todo[t]).n

Go(t, more) == todo' = [todo EXCEPT ![t] = more \o Tail(@)]
Proceed(t)  == Go(t, <<>>)

\* Mutant: an exception leaves the lock taken.
RaiseLocked(t) ==
    /\ todo' = [todo EXCEPT ![t] = <<>>]
    /\ UNCHANGED lock

\* An exception leaves the call and its lock.
Raise(t) ==
    /\ todo' = [todo EXCEPT ![t] = <<>>]
    /\ lock' = IF lock = t THEN Nobody ELSE lock

\* Mutant: init and finish run without excluding each other.
LockNothing(t) ==
    /\ Step(t, "lock")
    /\ lock' = t
    /\ Proceed(t)
    /\ UNCHANGED <<disk, drawn, history, bounds>>

Lock(t) ==
    /\ Step(t, "lock")
    /\ lock = Nobody
    /\ lock' = t
    /\ Proceed(t)
    /\ UNCHANGED <<disk, drawn, history, bounds>>

Unlock(t) ==
    /\ Step(t, "unlock")
    /\ lock' = Nobody
    /\ Proceed(t)
    /\ UNCHANGED <<disk, drawn, history, bounds>>

\* _load: the upload must exist and its state must name it.
Known(t) ==
    /\ Step(t, "known")
    /\ IF state[Id(t)] = "live" THEN Proceed(t) /\ UNCHANGED lock ELSE Raise(t)
    /\ UNCHANGED <<disk, drawn, history, bounds>>

-----------------------------------------------------------------------------
(* cleanup: the names are listed once; then each is looked at.             *)

ForEach(S, op) ==
    LET q == SetToSeq(S) IN [k \in 1..Cardinality(S) |-> Do(op, q[k], 0)]

List(t) ==
    /\ Step(t, "list")
    /\ Go(t, ForEach({i \in Ids : state[i] # "none"}, "expired") \o ForEach(dir, "orphan"))
    /\ UNCHANGED <<disk, lock, drawn, history, bounds>>

\* An old state is discarded, or unlinked alone when it names no upload.
Expired(t) ==
    /\ Step(t, "expired")
    /\ Go(t, IF Id(t) \notin old THEN <<>>
             ELSE IF state[Id(t)] = "live" THEN Discard(Id(t))
             ELSE <<Do("forget", Id(t), 0)>>)
    /\ UNCHANGED <<disk, lock, drawn, history, bounds>>

\* A directory without a state is removed.
Orphan(t) ==
    /\ Step(t, "orphan")
    /\ Go(t, IF state[Id(t)] = "none" THEN <<Do("rmtree", Id(t), 0)>> ELSE <<>>)
    /\ UNCHANGED <<disk, lock, drawn, history, bounds>>

Rmtree(t) ==
    /\ Step(t, "rmtree")
    /\ dir' = dir \ {Id(t)}
    /\ chunks' = [chunks EXCEPT ![Id(t)] = {}]
    /\ tmps' = [tmps EXCEPT ![Id(t)] = {}]
    /\ Proceed(t)
    /\ UNCHANGED <<state, old, dest, part, lock, drawn, history, bounds>>

\* unlink, which may fail and is not heard of then.
Forget(t) ==
    /\ Step(t, "forget")
    /\ \/ state' = [state EXCEPT ![Id(t)] = "none"] /\ old' = old \ {Id(t)}
       \/ UNCHANGED <<state, old>>
    /\ Proceed(t)
    /\ UNCHANGED <<dir, chunks, tmps, dest, part, lock, drawn, history, bounds>>

-----------------------------------------------------------------------------
(* init, after its cleanup: a file of that name is refused (409), an       *)
(* upload of the same file is resumed, else a new one gets its directory   *)
(* and then its state.                                                     *)
Resume(t) ==
    /\ Step(t, "resume")
    /\ IF dest # "absent" THEN Raise(t) /\ UNCHANGED <<dir, drawn>>
       ELSE /\ UNCHANGED lock
            /\ IF \E i \in Ids : state[i] = "live"
               THEN Proceed(t) /\ UNCHANGED <<dir, drawn>>
               ELSE /\ drawn' = drawn + 1
                    /\ dir' = dir \cup {drawn'}
                    /\ Go(t, <<Do("state", drawn', 0)>>)
    /\ UNCHANGED <<state, chunks, tmps, old, dest, part, history, bounds>>

\* The write, or its failure.
WriteState(t) ==
    /\ Step(t, "state")
    /\ \/ state' = [state EXCEPT ![Id(t)] = "live"] /\ Proceed(t) /\ UNCHANGED lock
       \/ Raise(t) /\ UNCHANGED state
    /\ UNCHANGED <<dir, chunks, tmps, old, dest, part, drawn, history, bounds>>

-----------------------------------------------------------------------------
(* put_chunk, without the lock.                                            *)

\* The directory is made again if need be, and the temporary file written.
Open(t) ==
    /\ Step(t, "open")
    /\ dir' = dir \cup {Id(t)}
    /\ tmps' = [tmps EXCEPT ![Id(t)] = @ \cup {t}]
    /\ Proceed(t)
    /\ UNCHANGED <<state, chunks, old, dest, part, lock, drawn, history, bounds>>

\* The rename, or the failure: the bytes stop short, the file is gone.
Put(t) ==
    LET i == Id(t) IN
    /\ Step(t, "put")
    /\ tmps' = [tmps EXCEPT ![i] = @ \ {t}]
    /\ \/ /\ t \in tmps[i]
          /\ chunks' = [chunks EXCEPT ![i] = @ \cup {Index(t)}]
          /\ Proceed(t) /\ UNCHANGED lock
       \/ Raise(t) /\ UNCHANGED chunks
    /\ UNCHANGED <<state, dir, old, dest, part, drawn, history, bounds>>

\* last_chunk is noted with an update_json, which reads the state and writes
\* it whole.  The lock of its path keeps out the other chunks of the upload,
\* not the unlink of discard.
Touching(t, i) == Step(t, "rewrite") /\ Id(t) = i

Touch(t) ==
    LET i == Id(t) IN
    /\ Step(t, "touch")
    /\ \A u \in Threads : ~Touching(u, i)
    /\ Go(t, <<Do("rewrite", i, IF state[i] = "live" THEN 1 ELSE 0)>>)
    /\ UNCHANGED <<disk, lock, drawn, history, bounds>>

\* The file is made anew when the upload has been discarded: with the fields
\* that were read before, which brings the upload back, or without any.  A
\* write that fails is not heard of.
Rewrite(t) ==
    LET i == Id(t) IN
    /\ Step(t, "rewrite")
    /\ \/ /\ state' = [state EXCEPT ![i] = IF Index(t) = 1 THEN "live" ELSE "zombie"]
          /\ old' = old \ {i}
          /\ revived' = IF Index(t) = 1 /\ state[i] # "live" THEN revived \cup {i}
                        ELSE revived
       \/ UNCHANGED <<state, old, revived>>
    /\ Proceed(t)
    /\ UNCHANGED <<dir, chunks, tmps, dest, part, lock, drawn, kept, bounds>>

-----------------------------------------------------------------------------
(* finish, under the lock.                                                 *)

Received(t) ==
    /\ Step(t, "received")
    /\ IF chunks[Id(t)] = Indices THEN Proceed(t) /\ UNCHANGED lock ELSE Raise(t)
    /\ UNCHANGED <<disk, drawn, history, bounds>>

\* Mutant: O_TRUNC instead of O_EXCL.
CreateAnyway(t) ==
    /\ Step(t, "create")
    /\ dest' = "empty" /\ part' = {}
    /\ Proceed(t)
    /\ UNCHANGED <<state, dir, chunks, tmps, old, lock, drawn, history, bounds>>

\* The name is taken with O_EXCL, and the .part file opened.
Create(t) ==
    /\ Step(t, "create")
    /\ \/ /\ dest = "absent"
          /\ dest' = "empty" /\ part' = {} /\ Proceed(t) /\ UNCHANGED lock
       \/ Raise(t) /\ UNCHANGED <<dest, part>>
    /\ UNCHANGED <<state, dir, chunks, tmps, old, drawn, history, bounds>>

\* Assembling fails: the .part file and the name are removed, then it raises.
Undo(t) == todo' = [todo EXCEPT ![t] = <<Plain("undo")>>]

Copy(t) ==
    /\ Step(t, "copy")
    /\ \/ /\ Index(t) \in chunks[Id(t)]
          /\ part' = part \cup {Index(t)}
          /\ Proceed(t)
       \/ Undo(t) /\ UNCHANGED part      \* the chunk is gone, or the disk full
    /\ UNCHANGED <<state, dir, chunks, tmps, old, dest, lock, drawn, history,
                   bounds>>

\* Mutant: only the .part file is removed.
UndoPart(t) ==
    /\ Step(t, "undo")
    /\ part' = {}
    /\ Raise(t)
    /\ UNCHANGED <<state, dir, chunks, tmps, old, dest, drawn, history, bounds>>

\* An unlink may fail, which is not heard of.
UndoAssembly(t) ==
    /\ Step(t, "undo")
    /\ part' \in {{}, part}
    /\ \/ dest' = "absent" /\ UNCHANGED kept
       \/ kept' = TRUE /\ UNCHANGED dest
    /\ Raise(t)
    /\ UNCHANGED <<state, dir, chunks, tmps, old, drawn, revived, bounds>>

\* The size is checked and the .part file takes the name.
Rename(t) ==
    /\ Step(t, "rename")
    /\ IF part = Indices
       THEN dest' = "whole" /\ part' = {} /\ Proceed(t)
       ELSE Undo(t) /\ UNCHANGED <<dest, part>>
    /\ UNCHANGED <<state, dir, chunks, tmps, old, lock, drawn, history, bounds>>

ThreadStep(t) ==
    \/ Lock(t) \/ Unlock(t) \/ Known(t) \/ List(t) \/ Expired(t) \/ Orphan(t)
    \/ Rmtree(t) \/ Forget(t) \/ Resume(t) \/ WriteState(t) \/ Open(t)
    \/ Put(t) \/ Touch(t) \/ Rewrite(t) \/ Received(t) \/ Create(t) \/ Copy(t)
    \/ UndoAssembly(t) \/ Rename(t)

\* Seven days go by without a write to a state; no call lasts that long.
Age ==
    /\ Expiring
    /\ \A t \in Threads : todo[t] = <<>>
    /\ \E i \in Ids : state[i] # "none" /\ i \notin old /\ old' = old \cup {i}
    /\ UNCHANGED <<state, dir, chunks, tmps, dest, part, lock, todo,
                   drawn, history, bounds>>

\* The process dies; a temporary chunk it leaves is seen by nobody.
Crash ==
    /\ crashes < MaxCrashes
    /\ crashes' = crashes + 1
    /\ lock' = Nobody
    /\ todo' = [t \in Threads |-> <<>>]
    /\ tmps' = [i \in Ids |-> {}]
    /\ UNCHANGED <<state, dir, chunks, old, dest, part, drawn, history,
                   calls, cleanups>>

Next ==
    \/ \E c \in Clients : Browser(c)
    \/ Cleanup
    \/ \E t \in Threads : ThreadStep(t)
    \/ Age
    \/ Crash

Spec == Init /\ [][Next]_vars

\* A call goes on to its end, and a lock that is free again and again is got.
FairSpec == Spec /\ \A t \in Threads : SF_vars(ThreadStep(t))

-----------------------------------------------------------------------------
Steps ==
    [op : {"lock", "unlock", "list", "resume", "undo"}, id : {NoId}, n : {0}]
    \cup [op : {"known", "expired", "orphan", "rmtree", "forget", "state",
                "received", "create", "rename"}, id : Ids, n : {0}]
    \cup [op : {"open", "put", "touch", "copy"}, id : Ids, n : Indices]
    \cup [op : {"rewrite"}, id : Ids, n : {0, 1}]

(* Every variable holds a value of its type; only the browsers' threads    *)
(* write chunks.                                                           *)
TypeOK ==
    /\ state \in [Ids -> {"none", "live", "zombie"}]
    /\ dir \subseteq Ids
    /\ chunks \in [Ids -> SUBSET Indices]
    /\ tmps \in [Ids -> SUBSET Clients]
    /\ old \subseteq Ids
    /\ dest \in {"absent", "empty", "whole"}
    /\ part \subseteq Indices
    /\ lock \in Threads \cup {Nobody}
    /\ todo \in [Threads -> Seq(Steps)]
    /\ drawn \in 0..MaxUploads
    /\ revived \subseteq Ids /\ kept \in BOOLEAN
    /\ calls \in Nat /\ cleanups \in Nat /\ crashes \in Nat

Assembling(t) == lock = t /\ \E op \in {"copy", "rename", "undo"} : Step(t, op)

(* However many browsers send the same file, there is one upload of it,    *)
(* which the others resume: their chunks end up in one place, and never in *)
(* two uploads that each wait for the other's chunks.  The exception is an *)
(* upload that its own late chunk has brought back: its state was read     *)
(* before it was discarded and written after.                              *)
OneUploadPerFile == Cardinality({i \in Ids \ revived : state[i] = "live"}) <= 1

(* While the process lives, the empty file that reserves a name in the     *)
(* library belongs to an assembly in progress: every failure takes it away *)
(* again, unless removing it fails in turn, else the name would be refused *)
(* (409) to every later upload.                                            *)
NameIsFreed ==
    crashes = 0 /\ ~kept /\ dest = "empty" => \E t \in Clients : Assembling(t)

(* A file that is in the library whole is never replaced or removed by     *)
(* another upload of the same name.                                        *)
LibraryFileStays == [][dest = "whole" => dest' = "whole"]_vars

(* The lock is always given back: whatever fails in init and finish, every *)
(* call of a browser comes to its end and the next one can start.          *)
RequestsEnd == \A c \in Clients : (todo[c] # <<>>) ~> (todo[c] = <<>>)

=============================================================================
