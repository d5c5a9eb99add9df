------------------------------ MODULE Storage ------------------------------
(***************************************************************************)
(* The JSON store of pixio/storage.py, seen from one path: update_json     *)
(* (read, apply, write under the reentrant lock of the path), the pair     *)
(* read_json ... write_json that services use without a lock around it,    *)
(* and write_json itself: a temporary file is dumped, synced and renamed   *)
(* over the path.                                                          *)
(*                                                                         *)
(* A content is the set of the callers whose edit it holds, so that a lost *)
(* edit is visible.  A file is named by the caller that created it.        *)
(*                                                                         *)
(* The process may be killed, which takes only its memory, or the machine  *)
(* may lose power.  A content not synced may then be gone, and read_json   *)
(* turns a file it cannot parse into the default, the empty store.         *)
(* write_json syncs the file and never its directory: until the file       *)
(* system writes the directory back, in its own time, a power cut also     *)
(* undoes the rename, and the path denotes an older file again.            *)
(***************************************************************************)
EXTENDS Naturals

CONSTANTS
    Updaters,    \* the threads that call update_json, once each
    Loaders,     \* the threads that call read_json and later write_json
    Original,    \* names the file the path denotes at first
    Nobody,      \* the owner of a free lock
    MaxCrashes   \* bound: how often the process is killed or the power cut

Callers == Updaters \cup Loaders
Files   == Callers \cup {Original}

ASSUME StorageAssumption ==
    /\ Updaters \cap Loaders = {}
    /\ Original \notin Callers
    /\ Nobody \notin Callers
    /\ MaxCrashes \in Nat

VARIABLES
    entry,    \* the file the path denotes
    durable,  \* the file it denotes in the directory on stable storage
    data,     \* the edits a file holds
    whole,    \* the files whose content is complete
    synced,   \* the files that are on stable storage
    tmps,     \* the files that still have a .tmp- name in the directory
    recent,   \* history: whose rename is not on stable storage yet
    settled,  \* history: whose rename is
    undone,   \* history: whose rename a power cut has undone
    owner,    \* who holds the RLock of the path
    read,     \* what a caller has read
    at,       \* where a caller is
    crashes   \* how often the process was killed or the power cut

renames   == <<durable, recent, settled, undone>>
directory == <<entry, data, whole, synced, tmps, renames>>
storeVars == <<directory, owner, read, at, crashes>>

Ended == {"done", "failed", "dead"}
Steps == Ended \cup {"idle", "locked", "read", "entered", "tmp", "dumped",
                     "synced", "replaced"}

\* What read_json returns for a file: a torn one is a JSONDecodeError, which
\* becomes the default.
Parsed(f) == IF f \in whole THEN data[f] ELSE {}

StoreInit ==
    /\ entry = Original
    /\ durable = Original
    /\ data = [f \in Files |-> {}]
    /\ whole = {Original}
    /\ synced = {Original}
    /\ tmps = {}
    /\ recent = {} /\ settled = {} /\ undone = {}
    /\ owner = Nobody
    /\ read = [t \in Callers |-> {}]
    /\ at = [t \in Callers |-> "idle"]
    /\ crashes = 0

Move(t, from, to) ==
    /\ at[t] = from
    /\ at' = [at EXCEPT ![t] = to]

-----------------------------------------------------------------------------

\* Mutant: the lock is not one and the same for all callers of a path.
LockOfItsOwn(t) ==
    /\ t \in Updaters
    /\ Move(t, "idle", "locked")
    /\ owner' = t
    /\ UNCHANGED <<directory, read, crashes>>

\* update_json takes the lock of the path.
Lock(t) ==
    /\ t \in Updaters
    /\ Move(t, "idle", "locked")
    /\ owner = Nobody
    /\ owner' = t
    /\ UNCHANGED <<directory, read, crashes>>

\* Mutant: update_json reads before it takes the lock.
ReadJsonUnlocked(t) ==
    /\ Move(t, "idle", "read")
    /\ read' = [read EXCEPT ![t] = Parsed(entry)]
    /\ UNCHANGED <<directory, owner, crashes>>

\* read_json: under the lock in update_json, with no lock at all elsewhere.
ReadJson(t) ==
    /\ Move(t, IF t \in Updaters THEN "locked" ELSE "idle", "read")
    /\ read' = [read EXCEPT ![t] = Parsed(entry)]
    /\ UNCHANGED <<directory, owner, crashes>>

\* Mutant: a Lock instead of an RLock.
EnterOnce(t) ==
    /\ Move(t, "read", "entered")
    /\ owner = Nobody
    /\ owner' = t
    /\ UNCHANGED <<directory, read, crashes>>

\* write_json takes the lock, which update_json already holds: an RLock.
Enter(t) ==
    /\ Move(t, "read", "entered")
    /\ owner \in {Nobody, t}
    /\ owner' = t
    /\ UNCHANGED <<directory, read, crashes>>

Mkstemp(t) ==
    /\ Move(t, "entered", "tmp")
    /\ tmps' = tmps \cup {t}
    /\ UNCHANGED <<entry, data, whole, synced, renames, owner, read, crashes>>

\* json.dump and flush of what fn, or the caller, made of the data read.
Dump(t) ==
    /\ Move(t, "tmp", "dumped")
    /\ data' = [data EXCEPT ![t] = read[t] \cup {t}]
    /\ whole' = whole \cup {t}
    /\ UNCHANGED <<entry, synced, tmps, renames, owner, read, crashes>>

\* Mutant: no fsync before the rename.
FsyncSkipped(t) ==
    /\ Move(t, "dumped", "synced")
    /\ UNCHANGED <<directory, owner, read, crashes>>

Fsync(t) ==
    /\ Move(t, "dumped", "synced")
    /\ synced' = synced \cup {t}
    /\ UNCHANGED <<entry, data, whole, tmps, renames, owner, read, crashes>>

\* chmod and os.replace: the path denotes the new file for every reader, and
\* no one syncs the directory.
Replace(t) ==
    /\ Move(t, "synced", "replaced")
    /\ entry' = t
    /\ tmps' = tmps \ {t}
    /\ recent' = recent \cup {t}
    /\ UNCHANGED <<durable, settled, undone, data, whole, synced, owner, read, crashes>>

Release(t) == owner' = IF owner = t THEN Nobody ELSE owner

Return(t) ==
    /\ Move(t, "replaced", "done")
    /\ Release(t)
    /\ UNCHANGED <<directory, read, crashes>>

\* fn raises, or the temporary file cannot be made, written or renamed: it is
\* unlinked, when that succeeds, and the exception leaves the locks.
Fail(t) ==
    /\ at[t] \in {"locked", "read", "entered", "tmp", "dumped", "synced"}
    /\ at' = [at EXCEPT ![t] = "failed"]
    /\ \/ tmps' = tmps \ {t}
       \/ UNCHANGED tmps
    /\ Release(t)
    /\ UNCHANGED <<entry, data, whole, synced, renames, read, crashes>>

\* The file system writes the directory back.
Settle ==
    /\ recent # {}
    /\ durable' = entry
    /\ settled' = settled \cup recent
    /\ recent' = {}
    /\ UNCHANGED <<entry, data, whole, synced, tmps, undone, owner, read, at, crashes>>

\* Everything in memory is gone.
Stop ==
    /\ crashes < MaxCrashes
    /\ crashes' = crashes + 1
    /\ owner' = Nobody
    /\ at' = [t \in Callers |->
                IF at[t] \in Ended \cup {"idle"} THEN at[t] ELSE "dead"]
    /\ UNCHANGED <<durable, settled, data, synced, read>>

\* The process is killed: the kernel keeps what was written and renamed.
Kill == Stop /\ UNCHANGED <<entry, whole, tmps, recent, undone>>

\* The power is cut: the path denotes what the directory on stable storage
\* says, and a content not synced may be gone.
PowerCut ==
    /\ Stop
    /\ entry' = durable
    /\ undone' = undone \cup recent
    /\ recent' = {}
    /\ \E lost \in SUBSET (whole \ synced) : whole' = whole \ lost
    /\ \E left \in SUBSET (tmps \cup recent) : tmps' = left

Advance(t) ==
    \/ Lock(t) \/ ReadJson(t) \/ Enter(t) \/ Mkstemp(t) \/ Dump(t)
    \/ Fsync(t) \/ Replace(t) \/ Return(t)

Call(t) == Advance(t) \/ Fail(t)

StoreNext == (\E t \in Callers : Call(t)) \/ Settle \/ Kill \/ PowerCut

StoreSpec == StoreInit /\ [][StoreNext]_storeVars

\* A thread that can take its next step takes it; no failure comes to its
\* rescue.  Each caller calls once, so that a lock it waits for is in the end
\* free for good.
FairStoreSpec == StoreSpec /\ \A t \in Callers : WF_storeVars(Advance(t))

-----------------------------------------------------------------------------
(* Every variable holds a value of its type: files, lock and callers of    *)
(* storage.py.                                                             *)
StoreTypeOK ==
    /\ entry \in Files /\ durable \in Files
    /\ data \in [Files -> SUBSET Callers]
    /\ whole \subseteq Files
    /\ synced \subseteq Files
    /\ tmps \subseteq Callers
    /\ recent \subseteq Callers /\ settled \subseteq Callers /\ undone \subseteq Callers
    /\ owner \in Callers \cup {Nobody}
    /\ read \in [Callers -> SUBSET Callers]
    /\ at \in [Callers -> Steps]
    /\ crashes \in 0..MaxCrashes

(* The path denotes a complete and synced file, before and after a power   *)
(* cut, so that read_json never turns a store into the empty default       *)
(* ("scrittura atomica", storage.py:1).                                    *)
NeverTorn == entry \in whole \cap synced

(* An edit that update_json or write_json has acknowledged is missing from *)
(* the file for one of two reasons only: a power cut came before the file  *)
(* system had written its rename back, or a caller whose own save stands   *)
(* had loaded the store without the lock and without that edit.  Neither   *)
(* the other calls of update_json ("Serializzato per path", storage.py:56) *)
(* nor a kill of the process lose it, and a power cut loses no edit whose  *)
(* rename had reached the disk.                                            *)
AckedIsKept ==
    \A t \in Callers :
        at[t] = "done" /\ t \notin Parsed(entry) =>
          \/ t \in undone
          \/ \E l \in Loaders \cap (settled \cup recent) : t \notin read[l] \cup {l}

(* Every call that starts comes to an end: the reentrant lock does not     *)
(* stop update_json inside its own write_json, and no failure keeps it.    *)
CallsEnd == \A t \in Callers : (at[t] # "idle") ~> (at[t] \in Ended)

-----------------------------------------------------------------------------
(* The file is an atomic store: update_json takes effect at its rename, as *)
(* one read-modify-write.                                                  *)

Phase(t) ==
    CASE at[t] = "idle" -> "idle"
      [] at[t] = "replaced" -> "took effect"
      [] at[t] \in Ended -> "over"
      [] OTHER -> IF t \in Loaders THEN "seen" ELSE "idle"

Store == INSTANCE AtomicStore
           WITH value <- Parsed(entry),
                stable <- Parsed(durable),
                seen  <- [t \in Callers |-> IF t \in Loaders THEN read[t] ELSE {}],
                phase <- [t \in Callers |-> Phase(t)]

(* storage.py implements AtomicStore: no lock, temporary file or failure   *)
(* shows, and a power cut goes back to a content the file has had.         *)
AtomicSpec == Store!Spec
=============================================================================
