---------------------------- MODULE AtomicStore ----------------------------
(***************************************************************************)
(* What storage.py promises about one JSON file, without its locks and     *)
(* temporary files: update_json is one atomic read-modify-write, a         *)
(* read_json followed later by a write_json is a read and a later          *)
(* overwrite of the whole file, and a call either takes effect whole or    *)
(* not at all, also when the process is killed under it.  It does not      *)
(* promise that what took effect is on stable storage: a power cut brings  *)
(* back the content that was there when the file system last wrote it.     *)
(***************************************************************************)
CONSTANTS
    Updaters,   \* the threads that call update_json, once each
    Loaders     \* the threads that call read_json and later write_json

VARIABLES
    value,      \* the content of the file: the edits it holds
    stable,     \* the content a power cut goes back to
    seen,       \* what a loader has read
    phase       \* "idle", "seen" (loaders only), "took effect", "over"

Callers == Updaters \cup Loaders
store   == <<value, stable, seen, phase>>

Init ==
    /\ value = {} /\ stable = {}
    /\ seen = [t \in Callers |-> {}]
    /\ phase = [t \in Callers |-> "idle"]

Become(t, p) == phase' = [phase EXCEPT ![t] = p]

Update(t) ==
    /\ t \in Updaters
    /\ phase[t] = "idle"
    /\ value' = value \cup {t}
    /\ Become(t, "took effect")
    /\ UNCHANGED <<stable, seen>>

Load(t) ==
    /\ t \in Loaders
    /\ phase[t] = "idle"
    /\ seen' = [seen EXCEPT ![t] = value]
    /\ Become(t, "seen")
    /\ UNCHANGED <<value, stable>>

Overwrite(t) ==
    /\ phase[t] = "seen"
    /\ value' = seen[t] \cup {t}
    /\ Become(t, "took effect")
    /\ UNCHANGED <<stable, seen>>

\* A call raises: the file is as it was.
Raise(t) ==
    /\ phase[t] \in {"idle", "seen"}
    /\ Become(t, "over")
    /\ UNCHANGED <<value, stable, seen>>

Return(t) ==
    /\ phase[t] = "took effect"
    /\ Become(t, "over")
    /\ UNCHANGED <<value, stable, seen>>

\* The file system writes back what it has.
Settle ==
    /\ stable' = value
    /\ UNCHANGED <<value, seen, phase>>

\* Calls not yet returned never return.
Stop == /\ \E dead \in SUBSET Callers :
             phase' = [t \in Callers |-> IF t \in dead THEN "over" ELSE phase[t]]
        /\ UNCHANGED <<stable, seen>>

\* The process is killed: the file is as it was.
Kill == Stop /\ UNCHANGED value

\* The power is cut.
PowerCut == Stop /\ value' = stable

Next == \/ \E t \in Callers : \/ Update(t) \/ Load(t) \/ Overwrite(t)
                              \/ Raise(t) \/ Return(t)
        \/ Settle \/ Kill \/ PowerCut

Spec == Init /\ [][Next]_store
=============================================================================
