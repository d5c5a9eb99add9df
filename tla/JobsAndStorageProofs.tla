------------------------ MODULE JobsAndStorageProofs ------------------------
(***************************************************************************)
(* Proofs about the job registry (module Jobs), for any number of jobs,    *)
(* types, requests and restarts, with or without failing saves; and about  *)
(* the JSON store that keeps its files (module Storage), for any number of *)
(* callers and of crashes: the path never denotes a torn file, an          *)
(* acknowledged edit is lost only to a stale save, and the store           *)
(* implements AtomicStore.                                                 *)
(***************************************************************************)
EXTENDS Jobs, Storage, FiniteSetTheorems, WellFoundedInduction, TLAPS

(* What is registered was started; before the files are read there is      *)
(* neither a registry nor a thread.                                        *)
Bookkeeping ==
    /\ \A j \in registry : j <= started
    /\ \A j \in JobIds : pc[j] # "none" => loaded /\ j <= started
    /\ \A j \in JobIds : disk[j] # NoFile => j <= started
    /\ \A r \in Requests : rpc[r] # "idle" => loaded /\ rjob[r] <= started
    /\ ~loaded => registry = {}

(* A request past its check names a job; past its flag, a cancelled one.   *)
CancelsFlagFirst ==
    \A r \in Requests :
        /\ rpc[r] # "idle" => rjob[r] \in JobIds
        /\ rpc[r] \in {"flagged", "saving"} => cancelled[rjob[r]]

(* What the thread of a job nobody cancelled is about to save is its end.  *)
FinalSnapshot ==
    \A j \in JobIds :
        pc[j] = "saving" /\ ~cancelled[j] => snap[j].status = status[j]

Rest ==
    /\ Bookkeeping
    /\ CancelsFlagFirst
    /\ FinalSnapshot
    /\ RunningIsAlive
    /\ OneExclusiveJob
    /\ EndIsOnDisk

(* The inductive invariant. *)
IInv == TypeOK /\ Rest

(* The initial state, with no process running yet, satisfies IInv. *)
LEMMA InitIInv == Init => IInv
<1> SUFFICES ASSUME Init PROVE IInv
    OBVIOUS
<1> USE JobsAssumption DEF Init
<1>1. TypeOK
    <2>1. NoFile \in Content /\ 0 \in 0..MaxJobs /\ 0 \in 0..MaxRestarts
        BY DEF NoFile, Content
    <2> QED
        BY <2>1 DEF TypeOK
<1>2. Bookkeeping /\ CancelsFlagFirst /\ FinalSnapshot
    BY DEF Bookkeeping, CancelsFlagFirst, FinalSnapshot
<1>3. RunningIsAlive /\ OneExclusiveJob /\ EndIsOnDisk
    BY DEF RunningIsAlive, OneExclusiveJob, EndIsOnDisk, Executing
<1> QED
    BY <1>1, <1>2, <1>3 DEF IInv, Rest

(* A save changes one file only, or none and then marks the job unsaved. *)
LEMMA WriteEffect ==
    ASSUME TypeOK, NEW j \in JobIds, NEW c \in Content, Write(j, c)
    PROVE  /\ disk' \in [JobIds -> Content]
           /\ unsaved' \subseteq JobIds
           /\ \A k \in JobIds \ {j} : disk'[k] = disk[k]
           /\ \A k \in JobIds \ {j} : k \in unsaved' <=> k \in unsaved
           /\ j \in unsaved' \/ disk'[j] = c
           /\ disk'[j] \in {c, disk[j]}
  BY DEF TypeOK, Write

(* A step keeps every variable in its type; the flag of cancel comes first. *)
LEMMA TypeOKStep == TypeOK /\ CancelsFlagFirst /\ [Next]_vars => TypeOK'
<1> SUFFICES ASSUME TypeOK, CancelsFlagFirst, [Next]_vars PROVE TypeOK'
    OBVIOUS
<1> USE JobsAssumption
<1> USE DEF memory, files, calls
<1>1. CASE EnsureLoaded
    BY <1>1, SMTT(60) DEF TypeOK, EnsureLoaded, Interrupted, Content, Status, Terminal
<1>2. ASSUME NEW t \in Types, Start(t) PROVE TypeOK'
    <2>1. started + 1 \in JobIds /\ started' \in 0..MaxJobs
        BY <1>2 DEF TypeOK, Start, JobIds
    <2>2. [status |-> "running", cancelled |-> FALSE] \in Content
        BY DEF Content, Status
    <2>3. disk' \in [JobIds -> Content] /\ unsaved' \subseteq JobIds
        BY <1>2, <2>1, <2>2, WriteEffect DEF Start
    <2> QED
        BY <1>2, <2>1, <2>3 DEF TypeOK, Start, Status
<1>3. ASSUME NEW j \in JobIds, JobThread(j) PROVE TypeOK'
    <2>0. ToDict(j) \in Content /\ NoFile \in Content /\ j \in Threads
        BY DEF TypeOK, ToDict, Content, NoFile, Threads
    <2>1. CASE Report(j)
        BY <2>1, <2>0 DEF TypeOK, Report, Goto
    <2>2. CASE ReportWrite(j)
        <3>1. disk' \in [JobIds -> Content] /\ unsaved' \subseteq JobIds
            BY <2>2, <2>0, WriteEffect DEF TypeOK, ReportWrite
        <3> QED
            BY <2>2, <2>0, <3>1 DEF TypeOK, ReportWrite, Goto
    <2>3. ASSUME NEW o \in {"done", "error"}, FnEnds(j, o) PROVE TypeOK'
        BY <2>3 DEF TypeOK, FnEnds, Goto, Status, Terminal
    <2>4. CASE FinalSave(j)
        BY <2>4, <2>0 DEF TypeOK, FinalSave, Goto
    <2>5. CASE FinalWrite(j)
        <3>1. disk' \in [JobIds -> Content] /\ unsaved' \subseteq JobIds
            BY <2>5, <2>0, WriteEffect DEF TypeOK, FinalWrite
        <3> QED
            BY <2>5, <2>0, <3>1 DEF TypeOK, FinalWrite, Goto
    <2>6. CASE Purge(j)
        BY <2>6, <2>0 DEF TypeOK, Purge, Goto
    <2> QED
        BY <1>3, <2>1, <2>2, <2>3, <2>4, <2>5, <2>6 DEF JobThread
<1>4. ASSUME NEW r \in Requests, CancelRequest(r)
      PROVE TypeOK'
    <2>0. r \in Threads /\ NoFile \in Content
        BY DEF Threads, NoFile, Content
    <2>1. ASSUME NEW j \in JobIds, CancelCheck(r, j) PROVE TypeOK'
        BY <2>1 DEF TypeOK, CancelCheck
    <2>2. CASE CancelFlag(r)
        BY <2>2 DEF TypeOK, CancelFlag
    <2>3. CASE CancelSave(r)
        <3>1. ToDict(rjob[r]) \in Content
            BY <2>3 DEF TypeOK, CancelSave, CancelsFlagFirst, ToDict, Content
        <3> QED
            BY <2>3, <2>0, <3>1 DEF TypeOK, CancelSave
    <2>4. CASE CancelWrite(r)
        <3>1. rjob[r] \in JobIds /\ snap[r] \in Content
            BY <2>4, <2>0 DEF TypeOK, CancelWrite, CancelsFlagFirst
        <3>2. disk' \in [JobIds -> Content] /\ unsaved' \subseteq JobIds
            BY <2>4, <3>1, WriteEffect DEF CancelWrite
        <3> QED
            BY <2>4, <2>0, <3>2 DEF TypeOK, CancelWrite
    <2> QED
        BY <1>4, <2>1, <2>2, <2>3, <2>4 DEF CancelRequest
<1>5. CASE Restart
    <2>1. NoFile \in Content
        BY DEF NoFile, Content
    <2>a. restarts \in 0..MaxRestarts /\ restarts < MaxRestarts
          /\ restarts' = restarts + 1
        BY <1>5 DEF TypeOK, Restart
    <2>b. restarts' \in 0..MaxRestarts
        BY <2>a
    <2>2. /\ loaded' \in BOOLEAN
          /\ registry' \subseteq JobIds
          /\ started' \in 0..MaxJobs
        BY <1>5 DEF TypeOK, Restart
    <2>3. /\ type' \in [JobIds -> Types \cup {NoType}]
          /\ disk' \in [JobIds -> Content]
          /\ unsaved' \subseteq JobIds
        BY <1>5 DEF TypeOK, Restart
    <2>4. /\ status' \in [JobIds -> Status \cup {"absent"}]
          /\ cancelled' \in [JobIds -> BOOLEAN]
          /\ pc' \in [JobIds -> {"none", "fn", "reporting", "ending",
                                 "saving", "purging"}]
          /\ snap' \in [Threads -> Content]
          /\ rpc' \in [Requests -> {"idle", "checked", "flagged", "saving"}]
          /\ rjob' \in [Requests -> JobIds \cup {0}]
        BY <1>5, <2>1 DEF Restart
    <2> QED
        BY <2>b, <2>2, <2>3, <2>4 DEF TypeOK
<1>6. CASE UNCHANGED vars
    BY <1>6 DEF TypeOK, vars
<1> QED
    BY <1>1, <1>2, <1>3, <1>4, <1>5, <1>6 DEF Next

(* A step keeps the inductive invariant. *)
LEMMA IInvStep == IInv /\ [Next]_vars => IInv'
<1> SUFFICES ASSUME IInv, [Next]_vars PROVE IInv'
    OBVIOUS
<1> USE JobsAssumption DEF memory, files, calls
<1>0. TypeOK /\ TypeOK'
    BY TypeOKStep DEF IInv, Rest
<1>a. Rest
    BY DEF IInv
<1>1. CASE EnsureLoaded
    <2>0. ~loaded /\ loaded' /\ pc' = pc /\ rpc' = rpc /\ started' = started
        BY <1>1 DEF EnsureLoaded
    <2>1. /\ \A j \in JobIds : pc[j] = "none" /\ pc'[j] = "none"
          /\ \A r \in Requests : rpc[r] = "idle" /\ rpc'[r] = "idle"
        BY <2>0, <1>a DEF Rest, Bookkeeping
    <2>2. Bookkeeping'
        <3>1. \A j \in JobIds : disk'[j] # NoFile => disk[j] # NoFile
            <4> SUFFICES ASSUME NEW j \in JobIds, disk[j] = NoFile
                         PROVE  disk'[j] = disk[j]
                OBVIOUS
            <4>1. j \notin Interrupted
                BY DEF Interrupted, NoFile
            <4> QED
                BY <1>1, <4>1 DEF EnsureLoaded
        <3>2. registry' = {j \in JobIds : disk[j] # NoFile}
            BY <1>1 DEF EnsureLoaded
        <3> QED
            BY <1>a, <2>0, <2>1, <3>1, <3>2 DEF Rest, Bookkeeping
    <2>3. CancelsFlagFirst' /\ FinalSnapshot' /\ OneExclusiveJob'
        BY <2>1 DEF CancelsFlagFirst, FinalSnapshot, OneExclusiveJob, Executing
    <2>4. \A j \in JobIds : status'[j] # "running"
        BY <1>1, <1>0 DEF TypeOK, EnsureLoaded, Interrupted
    <2>5. RunningIsAlive'
        BY <2>1, <2>4 DEF RunningIsAlive, Executing
    <2>6. ASSUME NEW j \in JobIds, j \notin unsaved'
          PROVE  disk'[j].status = status'[j]
        BY <1>1, <1>0, <2>6 DEF TypeOK, EnsureLoaded, Interrupted, Content
    <2>7. EndIsOnDisk'
        BY <1>0, <2>6 DEF TypeOK, EndIsOnDisk
    <2> QED
        BY <1>0, <2>2, <2>3, <2>5, <2>7 DEF Rest, IInv
<1>2. ASSUME NEW t \in Types, Start(t) PROVE Rest'
    <2> DEFINE j == started + 1
    <2>1. /\ j \in JobIds /\ j \notin registry
          /\ pc[j] = "none" /\ disk[j] = NoFile
        BY <1>0, <1>2, <1>a DEF Rest, TypeOK, Start, Bookkeeping, JobIds
    <2>2. /\ started' = j /\ loaded' = loaded /\ loaded
          /\ registry' = registry \cup {j}
          /\ type' = [type EXCEPT ![j] = t]
          /\ status' = [status EXCEPT ![j] = "running"]
          /\ pc' = [pc EXCEPT ![j] = "fn"]
          /\ cancelled' = cancelled /\ rpc' = rpc /\ rjob' = rjob /\ snap' = snap
        BY <1>2 DEF Start
    <2>3. /\ \A k \in JobIds \ {j} : disk'[k] = disk[k]
          /\ \A k \in JobIds \ {j} : k \in unsaved' <=> k \in unsaved
        <3>1. [status |-> "running", cancelled |-> FALSE] \in Content
            BY DEF Content, Status
        <3> QED
            BY <1>0, <1>2, <2>1, <3>1, WriteEffect DEF Start
    <2> HIDE DEF j
    <2>4. \A k \in JobIds : k <= started => k <= started'
        <3>1. started \in Nat /\ started' = started + 1
            BY <1>0, <1>2 DEF TypeOK, Start
        <3> QED
            BY <3>1 DEF JobIds
    <2>5. j <= started'
        BY <2>1, <2>2 DEF JobIds
    <2>6. Bookkeeping'
        <3>1. \A k \in registry' : k <= started'
            BY <1>0, <1>a, <2>2, <2>4, <2>5 DEF Rest, TypeOK, Bookkeeping
        <3>2. \A k \in JobIds : pc'[k] # "none" => loaded' /\ k <= started'
            BY <1>0, <1>a, <2>2, <2>4, <2>5 DEF Rest, TypeOK, Bookkeeping
        <3>3. \A k \in JobIds : disk'[k] # NoFile => k <= started'
            BY <1>a, <2>3, <2>4, <2>5 DEF Rest, Bookkeeping
        <3>4. \A r \in Requests :
                rpc'[r] # "idle" => loaded' /\ rjob'[r] <= started'
            <4>1. \A r \in Requests : rjob[r] \in JobIds \/ rjob[r] = 0
                BY <1>0 DEF TypeOK
            <4>2. 0 <= started'
                BY <1>0, <2>2, <2>4, <2>5 DEF TypeOK, JobIds
            <4> QED
                BY <1>a, <2>2, <2>4, <4>1, <4>2 DEF Rest, Bookkeeping
        <3> QED
            BY <2>2, <3>1, <3>2, <3>3, <3>4 DEF Bookkeeping
    <2>7. CancelsFlagFirst' /\ FinalSnapshot'
        BY <1>0, <1>a, <2>1, <2>2 DEF Rest, TypeOK, CancelsFlagFirst, FinalSnapshot
    <2>8. RunningIsAlive'
        BY <1>0, <1>a, <2>1, <2>2 DEF Rest, TypeOK, RunningIsAlive, Executing
    <2>9. OneExclusiveJob'
        <3>1. ASSUME NEW i \in JobIds \ {j}, Executing(i), t \in Exclusive
              PROVE  type[i] # t
            BY <1>2, <1>a, <3>1 DEF Start, Rest, RunningIsAlive, Running
        <3>2. \A i \in JobIds \ {j} :
                (Executing(i))' => Executing(i) /\ type'[i] = type[i]
            BY <1>0, <2>2 DEF TypeOK, Executing
        <3>3. type'[j] = t
            BY <1>0, <2>1, <2>2 DEF TypeOK
        <3> QED
            BY <1>a, <3>1, <3>2, <3>3 DEF Rest, OneExclusiveJob
    <2>10. EndIsOnDisk'
        BY <1>0, <1>a, <2>1, <2>2, <2>3 DEF Rest, TypeOK, EndIsOnDisk
    <2> QED
        BY <2>6, <2>7, <2>8, <2>9, <2>10 DEF Rest
<1>3. ASSUME NEW j \in JobIds, JobThread(j) PROVE Rest'
    <2>0. /\ pc[j] # "none" /\ loaded
          /\ rpc' = rpc /\ rjob' = rjob /\ cancelled' = cancelled
          /\ loaded' = loaded /\ started' = started /\ type' = type
        BY <1>3, <1>a DEF JobThread, Report, ReportWrite, FnEnds, FinalSave,
           FinalWrite, Purge, Goto, Rest, Bookkeeping
    <2>1. CancelsFlagFirst'
        BY <1>a, <2>0 DEF Rest, CancelsFlagFirst
    <2>2. ASSUME NEW c \in Content, Write(j, c)
          PROVE  /\ \A k \in JobIds \ {j} : disk'[k] = disk[k]
                 /\ \A k \in JobIds \ {j} : k \in unsaved' <=> k \in unsaved
                 /\ j \in unsaved' \/ disk'[j] = c
        BY <1>0, <2>2, WriteEffect
    <2>3. CASE Report(j)
        <3>1. /\ pc[j] = "fn" /\ pc' = [pc EXCEPT ![j] = "reporting"]
              /\ registry' = registry /\ status' = status
              /\ disk' = disk /\ unsaved' = unsaved
            BY <2>3 DEF Report, Goto
        <3>2. \A k \in JobIds \ {j} : snap'[k] = snap[k]
            BY <1>0, <2>3 DEF Report, TypeOK, Threads
        <3>3. Bookkeeping' /\ FinalSnapshot'
            BY <1>0, <1>a, <2>0, <3>1, <3>2 DEF TypeOK, Rest, Bookkeeping, FinalSnapshot
        <3>4. RunningIsAlive' /\ OneExclusiveJob' /\ EndIsOnDisk'
            BY <1>0, <1>a, <2>0, <3>1 DEF TypeOK, Rest, RunningIsAlive, OneExclusiveJob,
               EndIsOnDisk, Executing
        <3> QED
            BY <2>1, <3>3, <3>4 DEF Rest
    <2>4. CASE ReportWrite(j)
        <3>1. /\ pc[j] = "reporting" /\ pc' = [pc EXCEPT ![j] = "fn"]
              /\ registry' = registry /\ status' = status
            BY <2>4 DEF ReportWrite, Goto
        <3>2. /\ \A k \in JobIds \ {j} : snap'[k] = snap[k]
              /\ \A k \in JobIds \ {j} : disk'[k] = disk[k]
              /\ \A k \in JobIds \ {j} : k \in unsaved' <=> k \in unsaved
            BY <1>0, <2>2, <2>4 DEF ReportWrite, TypeOK, Threads
        <3>3. Bookkeeping' /\ FinalSnapshot'
            BY <1>0, <1>a, <2>0, <3>1, <3>2 DEF TypeOK, Rest, Bookkeeping, FinalSnapshot
        <3>4. RunningIsAlive' /\ OneExclusiveJob' /\ EndIsOnDisk'
            BY <1>0, <1>a, <2>0, <3>1, <3>2 DEF TypeOK, Rest, RunningIsAlive,
               OneExclusiveJob, EndIsOnDisk, Executing
        <3> QED
            BY <2>1, <3>3, <3>4 DEF Rest
    <2>5. ASSUME NEW o \in {"done", "error"}, FnEnds(j, o) PROVE Rest'
        <3>1. /\ pc[j] = "fn" /\ pc' = [pc EXCEPT ![j] = "ending"]
              /\ registry' = registry /\ snap' = snap
              /\ disk' = disk /\ unsaved' = unsaved
            BY <2>5 DEF FnEnds, Goto
        <3>2. /\ status'[j] # "running"
              /\ \A k \in JobIds \ {j} : status'[k] = status[k]
            BY <1>0, <2>5 DEF FnEnds, TypeOK
        <3>3. Bookkeeping' /\ FinalSnapshot'
            BY <1>0, <1>a, <2>0, <3>1, <3>2 DEF TypeOK, Rest, Bookkeeping, FinalSnapshot
        <3>4. RunningIsAlive' /\ OneExclusiveJob' /\ EndIsOnDisk'
            BY <1>0, <1>a, <2>0, <3>1, <3>2 DEF TypeOK, Rest, RunningIsAlive,
               OneExclusiveJob, EndIsOnDisk, Executing
        <3> QED
            BY <2>1, <3>3, <3>4 DEF Rest
    <2>6. CASE FinalSave(j)
        <3>1. /\ pc[j] = "ending" /\ pc' = [pc EXCEPT ![j] = "saving"]
              /\ registry' = registry /\ status' = status
              /\ disk' = disk /\ unsaved' = unsaved
            BY <2>6 DEF FinalSave, Goto
        <3>2. /\ snap'[j].status = status[j]
              /\ \A k \in JobIds \ {j} : snap'[k] = snap[k]
            BY <1>0, <2>6 DEF FinalSave, TypeOK, Threads, ToDict
        <3>3. Bookkeeping' /\ FinalSnapshot'
            BY <1>0, <1>a, <2>0, <3>1, <3>2 DEF TypeOK, Rest, Bookkeeping, FinalSnapshot
        <3>4. RunningIsAlive' /\ OneExclusiveJob' /\ EndIsOnDisk'
            BY <1>0, <1>a, <2>0, <3>1 DEF TypeOK, Rest, RunningIsAlive, OneExclusiveJob,
               EndIsOnDisk, Executing
        <3> QED
            BY <2>1, <3>3, <3>4 DEF Rest
    <2>7. CASE FinalWrite(j)
        <3>1. /\ pc[j] = "saving" /\ pc' = [pc EXCEPT ![j] = "purging"]
              /\ registry' = registry /\ status' = status
            BY <2>7 DEF FinalWrite, Goto
        <3>2. /\ \A k \in JobIds \ {j} : snap'[k] = snap[k]
              /\ \A k \in JobIds \ {j} : disk'[k] = disk[k]
              /\ \A k \in JobIds \ {j} : k \in unsaved' <=> k \in unsaved
            BY <1>0, <2>2, <2>7 DEF FinalWrite, TypeOK, Threads
        <3>3. ~cancelled[j] /\ j \notin unsaved' => disk'[j].status = status[j]
            BY <1>0, <1>a, <2>2, <2>7, <3>1
               DEF FinalWrite, TypeOK, Threads, Rest, FinalSnapshot
        <3>4. Bookkeeping' /\ FinalSnapshot'
            BY <1>0, <1>a, <2>0, <3>1, <3>2 DEF TypeOK, Rest, Bookkeeping, FinalSnapshot
        <3>5. RunningIsAlive' /\ OneExclusiveJob'
            BY <1>0, <1>a, <2>0, <3>1 DEF TypeOK, Rest, RunningIsAlive,
               OneExclusiveJob, Executing
        <3>6. EndIsOnDisk'
            BY <1>0, <1>a, <2>0, <3>1, <3>2, <3>3 DEF TypeOK, Rest, EndIsOnDisk
        <3> QED
            BY <2>1, <3>4, <3>5, <3>6 DEF Rest
    <2>8. CASE Purge(j)
        <3>1. /\ pc[j] = "purging" /\ pc' = [pc EXCEPT ![j] = "none"]
              /\ status' = status /\ snap' = snap /\ unsaved' = unsaved
              /\ registry' = registry \ Excess
            BY <2>8 DEF Purge, Goto
        <3>2. \A k \in JobIds : disk'[k] = IF k \in Excess THEN NoFile ELSE disk[k]
            BY <2>8 DEF Purge
        <3>3. \A k \in Excess : status[k] # "running"
            BY DEF Excess, Finished
        <3>4. Bookkeeping' /\ FinalSnapshot'
            BY <1>0, <1>a, <2>0, <3>1, <3>2 DEF TypeOK, Rest, Bookkeeping, FinalSnapshot
        <3>5. RunningIsAlive' /\ OneExclusiveJob'
            BY <1>0, <1>a, <2>0, <3>1, <3>3 DEF TypeOK, Rest, RunningIsAlive,
               OneExclusiveJob, Executing
        <3>6. EndIsOnDisk'
            BY <1>0, <1>a, <2>0, <3>1, <3>2 DEF TypeOK, Rest, EndIsOnDisk
        <3> QED
            BY <2>1, <3>4, <3>5, <3>6 DEF Rest
    <2> QED
        BY <1>3, <2>3, <2>4, <2>5, <2>6, <2>7, <2>8 DEF JobThread
<1>4. ASSUME NEW r \in Requests, CancelRequest(r) PROVE Rest'
    <2>0. /\ loaded /\ loaded' = loaded /\ registry' = registry
          /\ status' = status /\ pc' = pc /\ type' = type
          /\ started' = started
        BY <1>4, <1>a DEF CancelRequest, CancelCheck, CancelFlag, CancelSave,
           CancelWrite, Rest, Bookkeeping
    <2>1. RunningIsAlive' /\ OneExclusiveJob'
        BY <1>a, <2>0 DEF Rest, RunningIsAlive, OneExclusiveJob, Executing
    <2>2. \A k \in JobIds : r # k
        BY DEF JobIds
    <2>3. ASSUME NEW k \in JobIds, CancelCheck(r, k) PROVE Rest'
        <3>1. /\ rpc' = [rpc EXCEPT ![r] = "checked"]
              /\ rjob' = [rjob EXCEPT ![r] = k]
              /\ disk' = disk /\ unsaved' = unsaved /\ cancelled' = cancelled
              /\ snap' = snap /\ k \in registry
            BY <2>3 DEF CancelCheck
        <3>2. k <= started
            BY <1>a, <3>1 DEF Rest, Bookkeeping
        <3>3. \A q \in Requests \ {r} : rpc'[q] = rpc[q] /\ rjob'[q] = rjob[q]
            BY <1>0, <3>1 DEF TypeOK
        <3>4. rpc'[r] = "checked" /\ rjob'[r] = k
            BY <1>0, <3>1 DEF TypeOK
        <3>5. Bookkeeping' /\ CancelsFlagFirst'
            BY <1>a, <2>0, <3>1, <3>2, <3>3, <3>4 DEF Rest, Bookkeeping,
               CancelsFlagFirst
        <3>6. EndIsOnDisk' /\ FinalSnapshot'
            BY <1>a, <2>0, <3>1 DEF Rest, EndIsOnDisk, FinalSnapshot
        <3> QED
            BY <2>1, <3>5, <3>6 DEF Rest
    <2>6. CASE CancelSave(r)
        <3>1. /\ rpc' = [rpc EXCEPT ![r] = "saving"] /\ rpc[r] = "flagged"
              /\ disk' = disk /\ unsaved' = unsaved /\ cancelled' = cancelled
              /\ snap' = [snap EXCEPT ![r] = ToDict(rjob[r])] /\ rjob' = rjob
            BY <2>6 DEF CancelSave
        <3>2. \A k \in JobIds : snap'[k] = snap[k]
            BY <1>0, <2>2, <3>1 DEF TypeOK, Threads
        <3>3. Bookkeeping' /\ CancelsFlagFirst'
            BY <1>0, <1>a, <2>0, <3>1 DEF Rest, TypeOK, Bookkeeping,
               CancelsFlagFirst
        <3>4. EndIsOnDisk' /\ FinalSnapshot'
            BY <1>a, <2>0, <3>1, <3>2 DEF Rest, EndIsOnDisk, FinalSnapshot
        <3> QED
            BY <2>1, <3>3, <3>4 DEF Rest
    <2>4. CASE CancelFlag(r)
        <3>1. /\ disk' = disk /\ unsaved' = unsaved /\ snap' = snap
              /\ rjob' = rjob /\ rpc' = [rpc EXCEPT ![r] = "flagged"]
              /\ rpc[r] = "checked"
              /\ cancelled' = [cancelled EXCEPT ![rjob[r]] = TRUE]
            BY <2>4 DEF CancelFlag
        <3>2. rjob[r] \in JobIds
            BY <1>a, <3>1 DEF Rest, CancelsFlagFirst
        <3>3. Bookkeeping'
            BY <1>a, <2>0, <3>1 DEF Rest, Bookkeeping
        <3>4. \A k \in JobIds : cancelled[k] => cancelled'[k]
            BY <1>0, <3>1 DEF TypeOK
        <3>5. cancelled'[rjob[r]]
            BY <1>0, <3>1, <3>2 DEF TypeOK
        <3>6. CancelsFlagFirst'
            BY <1>0, <1>a, <3>1, <3>2, <3>4, <3>5 DEF Rest, TypeOK, CancelsFlagFirst
        <3>7. FinalSnapshot' /\ EndIsOnDisk'
            BY <1>0, <1>a, <2>0, <3>1, <3>4 DEF Rest, TypeOK, FinalSnapshot,
               EndIsOnDisk
        <3> QED
            BY <2>1, <3>3, <3>6, <3>7 DEF Rest
    <2>5. CASE CancelWrite(r)
        <3> DEFINE j == rjob[r]
        <3>1. /\ rpc[r] = "saving" /\ rpc' = [rpc EXCEPT ![r] = "idle"]
              /\ rjob' = [rjob EXCEPT ![r] = 0]
              /\ cancelled' = cancelled /\ Write(j, snap[r])
              /\ snap' = [snap EXCEPT ![r] = NoFile]
            BY <2>5 DEF CancelWrite
        <3>2. j \in JobIds /\ cancelled[j] /\ snap[r] \in Content
            BY <1>0, <1>a, <3>1 DEF Rest, TypeOK, Threads, CancelsFlagFirst
        <3> HIDE DEF j
        <3>3. /\ \A k \in JobIds \ {j} : disk'[k] = disk[k]
              /\ \A k \in JobIds \ {j} : k \in unsaved' <=> k \in unsaved
            BY <1>0, <3>1, <3>2, WriteEffect
        <3>4. EndIsOnDisk'
            BY <1>0, <1>a, <2>0, <3>1, <3>2, <3>3 DEF Rest, TypeOK, EndIsOnDisk
        <3>5. CancelsFlagFirst' /\ FinalSnapshot'
            BY <1>0, <1>a, <2>0, <2>2, <3>1 DEF Rest, TypeOK, Threads,
               CancelsFlagFirst, FinalSnapshot
        <3>6. Bookkeeping'
            <4>1. j <= started
                BY <1>a, <3>1 DEF Rest, Bookkeeping, j
            <4> QED
                <5>1. \A q \in Requests : rpc'[q] # "idle" =>
                        rpc[q] # "idle" /\ rjob'[q] = rjob[q]
                    BY <1>0, <3>1 DEF TypeOK
                <5>2. \A k \in JobIds : disk'[k] # NoFile => k <= started
                    BY <1>0, <1>a, <3>2, <3>3, <4>1 DEF Rest, Bookkeeping
                <5> QED
                    BY <1>a, <2>0, <5>1, <5>2 DEF Rest, Bookkeeping
        <3> QED
            BY <2>1, <3>4, <3>5, <3>6 DEF Rest
    <2> QED
        BY <1>4, <2>3, <2>4, <2>5, <2>6 DEF CancelRequest
<1>5. CASE Restart
    <2>1. /\ \A j \in JobIds : pc'[j] = "none" /\ status'[j] = "absent"
          /\ \A r \in Requests : rpc'[r] = "idle"
          /\ registry' = {}
        BY <1>5 DEF Restart
    <2>2. Bookkeeping'
        BY <1>5, <1>a, <2>1 DEF Rest, Restart, Bookkeeping
    <2>3. CancelsFlagFirst' /\ FinalSnapshot' /\ OneExclusiveJob'
        BY <2>1 DEF CancelsFlagFirst, FinalSnapshot, OneExclusiveJob, Executing
    <2>4. RunningIsAlive' /\ EndIsOnDisk'
        BY <2>1 DEF RunningIsAlive, EndIsOnDisk, Executing
    <2> QED
        BY <1>0, <2>2, <2>3, <2>4 DEF Rest, IInv
<1>6. CASE UNCHANGED vars
    <2>1. Bookkeeping' /\ CancelsFlagFirst' /\ FinalSnapshot'
        BY <1>6, <1>a DEF vars, Rest, Bookkeeping, CancelsFlagFirst, FinalSnapshot
    <2>2. RunningIsAlive' /\ OneExclusiveJob' /\ EndIsOnDisk'
        BY <1>6, <1>a DEF vars, Rest, RunningIsAlive, OneExclusiveJob,
           EndIsOnDisk, Executing
    <2> QED
        BY <1>0, <2>1, <2>2 DEF Rest, IInv
<1> QED
    BY <1>0, <1>1, <1>2, <1>3, <1>4, <1>5, <1>6 DEF Next, IInv

(* IInv is an invariant of the specification. *)
LEMMA InductiveInvariant == Spec => []IInv
<1> QED
    BY InitIInv, IInvStep, PTL DEF Spec

(* Every variable keeps its type. *)
THEOREM TypeCorrectness == Spec => []TypeOK
<1>1. IInv => TypeOK
    BY DEF IInv
<1> QED
    BY <1>1, InductiveInvariant, PTL

(* However many scans are asked for, cancelled, purged or cut by restarts, *)
(* two jobs of an exclusive type never execute together.                   *)
THEOREM ExclusiveTypesAreExclusive == Spec => []OneExclusiveJob
<1>1. IInv => OneExclusiveJob
    BY DEF IInv, Rest
<1> QED
    BY <1>1, InductiveInvariant, PTL

(* A job is shown running exactly while a thread executes it: neither      *)
(* purge nor a restart leaves a ghost or hides a live job.                 *)
THEOREM RunningMeansAlive == Spec => []RunningIsAlive
<1>1. IInv => RunningIsAlive
    BY DEF IInv, Rest
<1> QED
    BY <1>1, InductiveInvariant, PTL

(* The end of a job nobody cancelled is on disk once its thread has saved  *)
(* it, whatever the other jobs, requests and restarts do.                  *)
THEOREM TheEndIsOnDisk == Spec => []EndIsOnDisk
<1>1. IInv => EndIsOnDisk
    BY DEF IInv, Rest
<1> QED
    BY <1>1, InductiveInvariant, PTL

-----------------------------------------------------------------------------
(* purge: the jobs it drops and the jobs it leaves.                        *)

(* A set of jobs that is not empty has a newest one: the jobs above it are *)
(* the smallest of the sets of jobs above a member.                        *)
LEMMA Newest ==
    ASSUME NEW E \in SUBSET JobIds, E # {}
    PROVE  \E m \in E : \A k \in E : k <= m
<1> DEFINE T == {Newer(k, JobIds) : k \in E}
<1>1. IsFiniteSet(JobIds)
    BY JobsAssumption, FS_Interval DEF JobIds
<1>2. T \subseteq FiniteSubsetsOf(JobIds) /\ T # {}
    <2>1. \A k \in E : Newer(k, JobIds) \in SUBSET JobIds
        BY DEF Newer
    <2>2. \A U \in SUBSET JobIds : IsFiniteSet(U)
        BY <1>1, FS_Subset
    <2> QED
        BY <2>1, <2>2 DEF FiniteSubsetsOf
<1>3. \E x \in T : \A y \in T : ~ (<<y, x>> \in StrictSubsetOrdering(JobIds))
    <2> HIDE DEF T
    <2> QED
        BY <1>2, WFMin, FS_StrictSubsetOrderingWellFounded
<1>4. PICK m \in E : \A k \in E :
        <<Newer(k, JobIds), Newer(m, JobIds)>> \notin StrictSubsetOrdering(JobIds)
    BY <1>3
<1>5. ASSUME NEW k \in E, k > m PROVE FALSE
    <2>1. k \in JobIds /\ m \in JobIds /\ k \in Int /\ m \in Int
        BY DEF JobIds
    <2>2. k \in Newer(m, JobIds) /\ k \notin Newer(k, JobIds)
        BY <1>5, <2>1 DEF Newer
    <2>3. Newer(k, JobIds) \subseteq Newer(m, JobIds)
        <3> SUFFICES ASSUME NEW j \in JobIds, j > k PROVE j > m
            BY DEF Newer
        <3>1. j \in Int
            BY DEF JobIds
        <3> QED
            BY <1>5, <2>1, <3>1
    <2>4. Newer(k, JobIds) \in SUBSET JobIds /\ Newer(m, JobIds) \in SUBSET JobIds
        BY DEF Newer
    <2> QED
        BY <1>4, <2>2, <2>3, <2>4 DEF StrictSubsetOrdering
<1> QED
    <2>1. \A k \in E : k \in Int /\ m \in Int
        BY DEF JobIds
    <2>2. \A k \in E : k <= m
        BY <1>5, <2>1
    <2> QED
        BY <2>2

(* What a purge leaves: every job above the newest it drops, and these are *)
(* at least Keep; they are above every other job it drops.                 *)
LEMMA PurgeLeavesKeep ==
    ASSUME TypeOK, NEW j \in JobIds, Purge(j), NEW k \in registry \ registry'
    PROVE  /\ status[k] # "running"
           /\ Cardinality(Newer(k, Finished')) >= Keep
<1>1. Excess \subseteq Finished /\ Finished \subseteq JobIds
    BY DEF TypeOK, Excess, Finished
<1>2. k \in Excess
    BY DEF Purge
<1>3. Finished' = Finished \ Excess
    BY DEF Purge, Finished
<1>4. PICK m \in Excess : \A i \in Excess : i <= m
    BY <1>1, <1>2, Newest
<1>5. Cardinality(Newer(m, Finished)) >= Keep
    BY <1>4 DEF Excess
<1>6. Newer(m, Finished) \subseteq Newer(k, Finished')
    <2> SUFFICES ASSUME NEW i \in Finished, i > m PROVE i \in Finished' /\ i > k
        BY DEF Newer
    <2>1. i \in Int /\ m \in Int /\ k \in Int /\ k <= m
        BY <1>1, <1>2, <1>4 DEF JobIds
    <2>2. i \notin Excess
        BY <1>4, <2>1
    <2> QED
        BY <1>3, <2>1, <2>2
<1>7. /\ IsFiniteSet(Newer(k, Finished'))
      /\ IsFiniteSet(Newer(m, Finished))
    <2>1. IsFiniteSet(JobIds)
        BY JobsAssumption, FS_Interval DEF JobIds
    <2>2. Newer(k, Finished') \in SUBSET JobIds /\ Newer(m, Finished) \in SUBSET JobIds
        BY <1>1, <1>3 DEF Newer
    <2> QED
        BY <2>1, <2>2, FS_Subset
<1>8. Cardinality(Newer(m, Finished)) <= Cardinality(Newer(k, Finished'))
    BY <1>6, <1>7, FS_Subset
<1>9. /\ Cardinality(Newer(k, Finished')) \in Nat
      /\ Cardinality(Newer(m, Finished)) \in Nat
      /\ Keep \in Nat
    BY <1>7, FS_CardinalityType, JobsAssumption
<1>10. Cardinality(Newer(k, Finished')) >= Keep
    BY <1>5, <1>8, <1>9
<1>11. status[k] # "running"
    BY <1>1, <1>2 DEF Finished
<1> QED
    BY <1>10, <1>11

(* Only purge takes a job out of a registry that stays loaded.             *)
LEMMA OnlyPurgeForgets ==
    ASSUME Bookkeeping, [Next]_vars, loaded', ~(\E j \in JobIds : Purge(j))
    PROVE  registry \subseteq registry'
<1> USE DEF memory
<1>1. CASE EnsureLoaded
    BY <1>1 DEF EnsureLoaded, Bookkeeping
<1>2. ASSUME NEW t \in Types, Start(t) PROVE registry \subseteq registry'
    BY <1>2 DEF Start
<1>3. ASSUME NEW j \in JobIds, JobThread(j) PROVE registry \subseteq registry'
    BY <1>3 DEF JobThread, Report, ReportWrite, FnEnds, FinalSave, FinalWrite
<1>4. ASSUME NEW r \in Requests, CancelRequest(r) PROVE registry \subseteq registry'
    BY <1>4 DEF CancelRequest, CancelCheck, CancelFlag, CancelSave, CancelWrite
<1>5. CASE Restart
    BY <1>5 DEF Restart
<1>6. CASE UNCHANGED vars
    BY <1>6 DEF vars
<1> QED
    BY <1>1, <1>2, <1>3, <1>4, <1>5, <1>6 DEF Next

(* A purge forgets only jobs that have ended, and leaves Keep ended jobs   *)
(* started after each of them: for every Keep, and with several purges,    *)
(* starts and cancellations under way.                                     *)
THEOREM PurgesKeepTheNewest == Spec => PurgeKeepsTheNewest
<1>1. TypeOK /\ Bookkeeping /\ [Next]_vars =>
        [\A k \in registry \ registry' :
           loaded' => /\ status[k] # "running"
                      /\ Cardinality(Newer(k, Finished')) >= Keep]_vars
    BY PurgeLeavesKeep, OnlyPurgeForgets
<1>2. IInv => TypeOK /\ Bookkeeping
    BY DEF IInv, Rest
<1> QED
    BY <1>1, <1>2, InductiveInvariant, PTL DEF Spec, PurgeKeepsTheNewest

-----------------------------------------------------------------------------
(* The JSON store, Storage.                                                *)

Holding == {"entered", "tmp", "dumped", "synced", "replaced"}
Fresh   == {"idle", "locked", "read", "entered", "tmp", "dumped"}

\* Who works on the file holds the lock: an updater from its read on.
LockInv ==
    \A t \in Callers :
        /\ at[t] \in Holding => owner = t
        /\ at[t] \in {"locked", "read"} /\ t \in Updaters => owner = t

\* How far the temporary file of a caller has come.
TmpInv ==
    \A t \in Callers :
        /\ at[t] \in Fresh => t \notin synced
        /\ at[t] \in {"tmp", "dumped", "synced"} => t \in tmps
        /\ at[t] \in {"dumped", "synced"} =>
             t \in whole /\ data[t] = read[t] \cup {t}
        /\ at[t] = "synced" => t \in synced

\* The file at the path, and the one a power cut brings back, are complete;
\* a writer still under the lock is the last one.
EntryInv ==
    /\ entry \in whole /\ entry \in synced
    /\ durable \in whole /\ durable \in synced
    /\ \A t \in Callers : at[t] = "replaced" => entry = t /\ t \in data[t]

\* What an updater has read is still what the file holds.
ReadInv ==
    \A t \in Updaters :
        at[t] \in {"read", "entered", "tmp", "dumped", "synced"} =>
          read[t] = Parsed(entry)

\* Some caller among those that saved had loaded the store without the edit.
Stale(t, saved) == \E l \in Loaders \cap saved : t \notin read[l] \cup {l}

\* Every rename is recent, settled or undone, none before it happens.
RenameInv ==
    \A t \in Callers :
        /\ t \in recent \cup settled => at[t] \in {"replaced", "done", "dead"}
        /\ at[t] \in {"replaced", "done"} => t \in recent \cup settled \cup undone

\* An edit whose rename stands is in the file unless a stale save is; one whose
\* rename has settled is likewise in the file a power cut brings back.
EditInv ==
    \A t \in Callers :
        /\ t \in settled \cup recent =>
             t \in Parsed(entry) \/ Stale(t, settled \cup recent)
        /\ t \in settled => t \in Parsed(durable) \/ Stale(t, settled)

StoreIInv ==
    /\ StoreTypeOK
    /\ LockInv
    /\ TmpInv
    /\ EntryInv
    /\ ReadInv
    /\ RenameInv
    /\ EditInv

\* The strengthened invariant holds at first.
LEMMA InitStoreIInv == StoreInit => StoreIInv
  BY StorageAssumption, SMT
  DEF StoreInit, StoreIInv, StoreTypeOK, LockInv, TmpInv, EntryInv, ReadInv,
      RenameInv, EditInv, Parsed, Callers, Files, Steps, Ended, Holding, Fresh

\* A step keeps every variable in its type.
LEMMA StoreTypeOKStep == StoreTypeOK /\ [StoreNext]_storeVars => StoreTypeOK'
<1> SUFFICES ASSUME StoreTypeOK, [StoreNext]_storeVars PROVE StoreTypeOK'
  OBVIOUS
<1> USE StorageAssumption DEF StoreTypeOK, Files, Move, directory, renames, Steps, Ended, Parsed
<1>1. ASSUME NEW t \in Callers, Call(t) PROVE StoreTypeOK'
  <2>1. CASE Lock(t)
    BY <2>1 DEF Lock
  <2>2. CASE ReadJson(t)
    BY <2>2 DEF ReadJson
  <2>3. CASE Enter(t)
    BY <2>3 DEF Enter
  <2>4. CASE Mkstemp(t)
    BY <2>4 DEF Mkstemp
  <2>5. CASE Dump(t)
    BY <2>5 DEF Dump
  <2>6. CASE Fsync(t)
    BY <2>6 DEF Fsync
  <2>7. CASE Replace(t)
    BY <2>7 DEF Replace
  <2>8. CASE Return(t)
    BY <2>8 DEF Return, Release
  <2>9. CASE Fail(t)
    BY <2>9 DEF Fail, Release
  <2> QED
    BY <1>1, <2>1, <2>2, <2>3, <2>4, <2>5, <2>6, <2>7, <2>8, <2>9 DEF Call, Advance
<1>2. CASE Settle
  BY <1>2 DEF Settle
<1>3. CASE Kill
  BY <1>3 DEF Kill, Stop
<1>4. CASE PowerCut
  BY <1>4 DEF PowerCut, Stop
<1>5. CASE UNCHANGED storeVars
  BY <1>5 DEF storeVars
<1> QED
  BY <1>1, <1>2, <1>3, <1>4, <1>5 DEF StoreNext

\* A caller's own step short of its rename that keeps the two contents keeps
\* which edits they hold.
LEMMA EditInvKept ==
  ASSUME EditInv, Parsed(entry)' = Parsed(entry), Parsed(durable)' = Parsed(durable),
         recent' = recent, settled' = settled,
         \A l \in Loaders \cap (settled \cup recent) : read'[l] = read[l]
  PROVE  EditInv'
  BY DEF EditInv, Stale

\* A step of a caller keeps the strengthened invariant.
LEMMA StoreCallStep ==
  ASSUME StoreIInv, StoreTypeOK', NEW t \in Callers, Call(t)
  PROVE  StoreIInv'
<1> USE StorageAssumption DEF StoreIInv
<1> USE DEF Move, directory, renames, Ended, Holding, Fresh, Files, StoreTypeOK
<1>1. CASE Lock(t)
  <2>1. LockInv' /\ TmpInv' /\ EntryInv' /\ ReadInv' /\ RenameInv'
    BY <1>1 DEF Lock, LockInv, TmpInv, EntryInv, ReadInv, RenameInv, Parsed, Callers
  <2>2. EditInv'
    BY <1>1, EditInvKept DEF Lock, Parsed
  <2> QED BY <2>1, <2>2
<1>2. CASE ReadJson(t)
  <2>1. LockInv' /\ TmpInv' /\ EntryInv' /\ ReadInv' /\ RenameInv'
    BY <1>2 DEF ReadJson, LockInv, TmpInv, EntryInv, ReadInv, RenameInv, Parsed, Callers
  <2>2. t \notin settled \cup recent
    BY <1>2 DEF ReadJson, RenameInv
  <2>3. EditInv'
    BY <1>2, <2>2, EditInvKept DEF ReadJson, Parsed
  <2> QED BY <2>1, <2>3
<1>3. CASE Enter(t)
  <2>1. LockInv' /\ TmpInv' /\ EntryInv' /\ ReadInv' /\ RenameInv'
    BY <1>3 DEF Enter, LockInv, TmpInv, EntryInv, ReadInv, RenameInv, Parsed, Callers
  <2>2. EditInv'
    BY <1>3, EditInvKept DEF Enter, Parsed
  <2> QED BY <2>1, <2>2
<1>4. CASE Mkstemp(t)
  <2>1. LockInv' /\ TmpInv' /\ EntryInv' /\ ReadInv' /\ RenameInv'
    BY <1>4 DEF Mkstemp, LockInv, TmpInv, EntryInv, ReadInv, RenameInv, Parsed, Callers
  <2>2. EditInv'
    BY <1>4, EditInvKept DEF Mkstemp, Parsed
  <2> QED BY <2>1, <2>2
<1>5. CASE Dump(t)
  <2>1. entry # t /\ durable # t
    BY <1>5 DEF Dump, TmpInv, EntryInv
  <2>2. Parsed(entry)' = Parsed(entry) /\ Parsed(durable)' = Parsed(durable)
    BY <1>5, <2>1 DEF Dump, Parsed, EntryInv
  <2>3. LockInv' /\ TmpInv' /\ RenameInv'
    BY <1>5 DEF Dump, LockInv, TmpInv, RenameInv, Callers
  <2>4. EntryInv'
    BY <1>5, <2>1 DEF Dump, EntryInv, Callers
  <2>5. ReadInv'
    BY <1>5, <2>2 DEF Dump, ReadInv, Callers
  <2>6. EditInv'
    BY <1>5, <2>2, EditInvKept DEF Dump
  <2> QED BY <2>3, <2>4, <2>5, <2>6
<1>6. CASE Fsync(t)
  <2>1. LockInv' /\ TmpInv' /\ EntryInv' /\ ReadInv' /\ RenameInv'
    BY <1>6 DEF Fsync, LockInv, TmpInv, EntryInv, ReadInv, RenameInv, Parsed, Callers
  <2>2. EditInv'
    BY <1>6, EditInvKept DEF Fsync, Parsed
  <2> QED BY <2>1, <2>2
<1>7. CASE Replace(t)
  <2>1. Parsed(entry)' = read[t] \cup {t} /\ Parsed(durable)' = Parsed(durable)
    BY <1>7 DEF Replace, Parsed, TmpInv
  <2>2. owner = t /\ \A u \in Callers \ {t} :
          /\ at[u] \notin Holding
          /\ u \in Updaters => at[u] \notin {"locked", "read"}
    BY <1>7 DEF Replace, LockInv
  <2>3. LockInv' /\ TmpInv'
    BY <1>7 DEF Replace, LockInv, TmpInv, Callers
  <2>4. EntryInv'
    BY <1>7, <2>2 DEF Replace, EntryInv, TmpInv, Callers
  <2>5. ReadInv'
    BY <1>7, <2>2 DEF Replace, ReadInv, Callers
  <2>6. RenameInv'
    BY <1>7 DEF Replace, RenameInv, Callers
  <2>7. ASSUME NEW u \in settled \cup recent'
        PROVE  u \in Parsed(entry)' \/ Stale(u, settled \cup recent)'
    <3>1. CASE u = t
      BY <2>1, <3>1
    <3>2. CASE u # t /\ t \in Loaders
      BY <1>7, <2>1, <3>2 DEF Replace, Stale
    <3>3. CASE u # t /\ t \notin Loaders
      <4>1. u \in settled \cup recent /\ read[t] = Parsed(entry)
        BY <1>7, <2>7, <3>3 DEF Replace, ReadInv, Callers
      <4>2. u \in Parsed(entry) \/ Stale(u, settled \cup recent)
        BY <4>1 DEF EditInv
      <4>3. Stale(u, settled \cup recent) => Stale(u, settled \cup recent)'
        BY <1>7 DEF Replace, Stale
      <4> QED BY <2>1, <4>1, <4>2, <4>3
    <3> QED BY <3>1, <3>2, <3>3
  <2>8. \A u \in settled : u \in Parsed(durable)' \/ Stale(u, settled)'
    <3>1. \A u \in settled : u \in Parsed(durable) \/ Stale(u, settled)
      BY DEF EditInv
    <3>2. \A u \in settled : Stale(u, settled) => Stale(u, settled)'
      BY <1>7 DEF Replace, Stale
    <3> QED BY <2>1, <3>1, <3>2
  <2>9. EditInv'
    BY <1>7, <2>7, <2>8 DEF Replace, EditInv
  <2> QED BY <2>3, <2>4, <2>5, <2>6, <2>9
<1>8. CASE Return(t)
  <2>1. Parsed(entry)' = Parsed(entry) /\ Parsed(durable)' = Parsed(durable)
    BY <1>8 DEF Return, Parsed
  <2>2. LockInv' /\ TmpInv' /\ RenameInv'
    BY <1>8 DEF Return, Release, LockInv, TmpInv, RenameInv, Callers
  <2>3. EntryInv'
    BY <1>8 DEF Return, EntryInv, Callers
  <2>4. ReadInv'
    BY <1>8, <2>1 DEF Return, ReadInv, Callers
  <2>5. EditInv'
    BY <1>8, <2>1, EditInvKept DEF Return
  <2> QED BY <2>2, <2>3, <2>4, <2>5
<1>9. CASE Fail(t)
  <2>1. Parsed(entry)' = Parsed(entry) /\ Parsed(durable)' = Parsed(durable)
    BY <1>9 DEF Fail, Parsed
  <2>2. LockInv' /\ TmpInv' /\ RenameInv'
    BY <1>9 DEF Fail, Release, LockInv, TmpInv, RenameInv, Callers
  <2>3. EntryInv'
    BY <1>9 DEF Fail, EntryInv, Callers
  <2>4. ReadInv'
    BY <1>9, <2>1 DEF Fail, ReadInv, Callers
  <2>5. EditInv'
    BY <1>9, <2>1, EditInvKept DEF Fail
  <2> QED BY <2>2, <2>3, <2>4, <2>5
<1> QED
  BY <1>1, <1>2, <1>3, <1>4, <1>5, <1>6, <1>7, <1>8, <1>9 DEF Call, Advance

\* A kill and a power cut leave no caller at work: what the invariant says of
\* those that work holds of nobody.
LEMMA StoreStopStep ==
  ASSUME StoreIInv, StoreTypeOK', Kill \/ PowerCut
  PROVE  LockInv' /\ TmpInv' /\ ReadInv'
<1> USE DEF StoreIInv, Stop, Ended, Holding, Fresh, Files, StoreTypeOK
<1>1. Stop
  BY DEF Kill, PowerCut
<1>2. \A t \in Callers :
        /\ at'[t] \in Ended \cup {"idle"}
        /\ at'[t] = "idle" => at[t] = "idle"
  BY <1>1
<1>3. LockInv' /\ ReadInv'
  BY <1>2 DEF LockInv, ReadInv, Callers
<1>4. TmpInv'
  BY <1>1, <1>2 DEF TmpInv
<1> QED BY <1>3, <1>4

\* A step keeps the strengthened invariant.
LEMMA StoreIInvStep == StoreIInv /\ [StoreNext]_storeVars => StoreIInv'
<1> SUFFICES ASSUME StoreIInv, [StoreNext]_storeVars PROVE StoreIInv'
  OBVIOUS
<1>0. StoreTypeOK /\ StoreTypeOK'
  BY StoreTypeOKStep DEF StoreIInv
<1>1. ASSUME NEW t \in Callers, Call(t) PROVE StoreIInv'
  BY <1>0, <1>1, StoreCallStep
<1>2. CASE Settle
  <2> USE <1>0, <1>2 DEF StoreIInv, Settle
  <2>1. LockInv' /\ TmpInv'
    BY DEF LockInv, TmpInv
  <2>2. EntryInv' /\ ReadInv' /\ RenameInv'
    BY DEF EntryInv, ReadInv, RenameInv, Parsed
  <2>3. Parsed(entry)' = Parsed(entry) /\ Parsed(durable)' = Parsed(entry)
    BY DEF Parsed
  <2>4. settled' = settled \cup recent /\ recent' = {} /\ read' = read
    OBVIOUS
  <2>5. EditInv'
    BY <2>3, <2>4 DEF EditInv, Stale
  <2> QED BY <2>1, <2>2, <2>5
<1>3. CASE Kill
  <2>1. LockInv' /\ TmpInv' /\ ReadInv'
    BY <1>0, <1>3, StoreStopStep
  <2>2. EntryInv'
    BY <1>3 DEF Kill, Stop, StoreIInv, EntryInv, Ended, StoreTypeOK
  <2>3. RenameInv'
    BY <1>0, <1>3 DEF Kill, Stop, StoreIInv, RenameInv, Ended, StoreTypeOK
  <2>4. EditInv'
    BY <1>3, EditInvKept DEF Kill, Stop, StoreIInv, Parsed
  <2> QED BY <1>0, <2>1, <2>2, <2>3, <2>4 DEF StoreIInv
<1>4. CASE PowerCut
  <2> USE <1>0
  <2>1. LockInv' /\ TmpInv' /\ ReadInv'
    BY <1>4, StoreStopStep
  <2>2. PICK lost \in SUBSET (whole \ synced) : whole' = whole \ lost
    BY <1>4 DEF PowerCut
  <2>3. /\ entry' = durable /\ durable' = durable /\ synced' = synced /\ data' = data
        /\ recent' = {} /\ undone' = undone \cup recent
        /\ settled' = settled /\ read' = read
        /\ at' = [t \in Callers |->
                    IF at[t] \in Ended \cup {"idle"} THEN at[t] ELSE "dead"]
    BY <1>4 DEF PowerCut, Stop
  <2>4. EntryInv'
    BY <2>2, <2>3 DEF StoreIInv, EntryInv, Ended, StoreTypeOK
  <2>5. RenameInv'
    BY <2>3 DEF StoreIInv, RenameInv, Ended, StoreTypeOK
  <2>6. Parsed(entry)' = Parsed(durable) /\ Parsed(durable)' = Parsed(durable)
    BY <2>2, <2>3 DEF StoreIInv, EntryInv, Parsed
  <2>7. EditInv'
    BY <2>3, <2>6 DEF StoreIInv, EditInv, Stale
  <2> QED BY <2>1, <2>4, <2>5, <2>7 DEF StoreIInv
<1>5. CASE UNCHANGED storeVars
  BY <1>5 DEF storeVars, directory, renames, StoreIInv, StoreTypeOK, LockInv,
     TmpInv, EntryInv, ReadInv, RenameInv, EditInv, Stale, Parsed
<1> QED
  BY <1>1, <1>2, <1>3, <1>4, <1>5 DEF StoreNext

\* The strengthened invariant holds throughout.
LEMMA StoreInvariant == StoreSpec => []StoreIInv
  BY InitStoreIInv, StoreIInvStep, PTL DEF StoreSpec

-----------------------------------------------------------------------------
\* The variables of storage.py keep their types.
THEOREM StoreTypeCorrectness == StoreSpec => []StoreTypeOK
<1>1. StoreIInv => StoreTypeOK
  BY DEF StoreIInv
<1> QED BY <1>1, StoreInvariant, PTL

\* The path denotes a complete, synced file in every state: a reader of
\* storage.py never meets a torn store, whatever is killed or cut and when.
THEOREM NoTornStore == StoreSpec => []NeverTorn
<1>1. StoreIInv => NeverTorn
  BY DEF StoreIInv, EntryInv, NeverTorn
<1> QED BY <1>1, StoreInvariant, PTL

\* An acknowledged edit is missing only after a power cut that came before
\* its rename was on stable storage, or after a save of what a caller had
\* loaded outside the lock.
THEOREM UpdatesAreKept == StoreSpec => []AckedIsKept
<1>1. StoreIInv => AckedIsKept
  BY DEF StoreIInv, RenameInv, EditInv, Stale, AckedIsKept
<1> QED BY <1>1, StoreInvariant, PTL

-----------------------------------------------------------------------------
\* What a loader has read, as the abstract store sees it.
Seen == [t \in Callers |-> IF t \in Loaders THEN read[t] ELSE {}]

\* The phases of the callers.
Phases == [t \in Callers |-> Phase(t)]

\* The phase of a caller follows its at alone.
LEMMA PhaseOf ==
  ASSUME NEW t \in Callers
  PROVE  /\ at[t] = "idle" => Phase(t) = "idle"
         /\ at[t] = "replaced" => Phase(t) = "took effect"
         /\ at[t] \in Ended => Phase(t) = "over"
         /\ at[t] \in {"locked", "read", "entered", "tmp", "dumped", "synced"} =>
              Phase(t) = IF t \in Loaders THEN "seen" ELSE "idle"
  BY DEF Phase, Ended

\* The same after a step.
LEMMA PhaseOfNext ==
  ASSUME NEW t \in Callers
  PROVE  /\ at'[t] = "idle" => Phase(t)' = "idle"
         /\ at'[t] = "replaced" => Phase(t)' = "took effect"
         /\ at'[t] \in Ended => Phase(t)' = "over"
         /\ at'[t] \in {"locked", "read", "entered", "tmp", "dumped", "synced"} =>
              Phase(t)' = IF t \in Loaders THEN "seen" ELSE "idle"
  BY DEF Phase, Ended

\* Initial states map to initial states.
LEMMA RefineInit == StoreInit => Store!Init
<1> SUFFICES ASSUME StoreInit PROVE Store!Init
  OBVIOUS
<1>1. Parsed(entry) = {} /\ Parsed(durable) = {}
  BY DEF StoreInit, Parsed, Files
<1>2. \A t \in Callers : Phase(t) = "idle" /\ read[t] = {}
  BY PhaseOf DEF StoreInit
<1> QED
  BY <1>1, <1>2 DEF Store!Init, Store!Callers, Callers

\* Every step maps to a step of the abstract store or to a stutter.
LEMMA RefineStep ==
  StoreIInv /\ [StoreNext]_storeVars => [Store!Next]_(Store!store)
<1> SUFFICES ASSUME StoreIInv, [StoreNext]_storeVars PROVE [Store!Next]_(Store!store)
  OBVIOUS
<1>0. StoreTypeOK
  BY DEF StoreIInv
<1> DEFINE value == Parsed(entry)
<1>a. Callers = Store!Callers
  BY DEF Callers, Store!Callers
\* A step of one caller that leaves the content of the file alone.
<1>b. ASSUME NEW t \in Callers, NEW p \in Steps,
             at' = [at EXCEPT ![t] = p]
      PROVE  \A u \in Callers \ {t} : Phase(u)' = Phase(u)
  BY <1>b, <1>0 DEF Phase, StoreTypeOK
<1>1. ASSUME NEW t \in Callers, Call(t) PROVE [Store!Next]_(Store!store)
  <2> USE <1>0 DEF Move, directory, renames
  <2>s. ASSUME Parsed(entry)' = Parsed(entry), Parsed(durable)' = Parsed(durable),
               Phases' = Phases, Seen' = Seen
        PROVE  UNCHANGED Store!store
    BY <2>s DEF Store!store, Phases, Seen
  <2>1. CASE Lock(t)
    <3>1. Phase(t)' = Phase(t)
      BY <2>1, PhaseOf, PhaseOfNext, StorageAssumption DEF Lock, StoreTypeOK
    <3>2. Phases' = Phases /\ Seen' = Seen
      BY <2>1, <3>1, <1>b DEF Lock, Phases, Seen, Steps
    <3> QED BY <2>1, <3>2, <2>s DEF Lock, Parsed
  <2>2. CASE ReadJson(t)
    <3>1. CASE t \in Updaters
      <4>0. t \notin Loaders
        BY <3>1, StorageAssumption
      <4>a. at[t] = "locked" /\ at'[t] = "read"
        BY <2>2, <3>1 DEF ReadJson, StoreTypeOK
      <4>1. Phase(t)' = Phase(t)
        BY <4>a, <4>0, PhaseOf, PhaseOfNext
      <4>2. Phases' = Phases
        BY <2>2, <4>1, <1>b DEF ReadJson, Phases, Steps
      <4>3. Seen' = Seen
        BY <2>2, <4>0 DEF ReadJson, Seen, StoreTypeOK
      <4> QED BY <2>2, <4>2, <4>3, <2>s DEF ReadJson, Parsed
    <3>2. CASE t \notin Updaters
      <4>0. t \in Loaders /\ at[t] = "idle" /\ at'[t] = "read"
        BY <2>2, <3>2 DEF ReadJson, StoreTypeOK, Callers
      <4>1. Phase(t) = "idle" /\ Phase(t)' = "seen"
        BY <4>0, PhaseOf, PhaseOfNext
      <4>2. Phases' = [Phases EXCEPT ![t] = "seen"]
        BY <2>2, <4>1, <1>b DEF ReadJson, Phases, Steps
      <4>3. Seen' = [Seen EXCEPT ![t] = Parsed(entry)]
        BY <2>2, <4>0 DEF ReadJson, Seen, StoreTypeOK
      <4>4. Store!Load(t)
        BY <2>2, <4>0, <4>1, <4>2, <4>3
        DEF Store!Load, Store!Become, ReadJson, Parsed, Phases, Seen
      <4> QED BY <4>4, <1>a DEF Store!Next
    <3> QED BY <3>1, <3>2
  <2>3. CASE Enter(t)
    <3>1. Phase(t)' = Phase(t)
      BY <2>3, PhaseOf, PhaseOfNext DEF Enter, StoreTypeOK
    <3>2. Phases' = Phases /\ Seen' = Seen
      BY <2>3, <3>1, <1>b DEF Enter, Phases, Seen, Steps
    <3> QED BY <2>3, <3>2, <2>s DEF Enter, Parsed
  <2>4. CASE Mkstemp(t)
    <3>1. Phase(t)' = Phase(t)
      BY <2>4, PhaseOf, PhaseOfNext DEF Mkstemp, StoreTypeOK
    <3>2. Phases' = Phases /\ Seen' = Seen
      BY <2>4, <3>1, <1>b DEF Mkstemp, Phases, Seen, Steps
    <3> QED BY <2>4, <3>2, <2>s DEF Mkstemp, Parsed
  <2>5. CASE Dump(t)
    <3>1. Phase(t)' = Phase(t)
      BY <2>5, PhaseOf, PhaseOfNext DEF Dump, StoreTypeOK
    <3>2. Phases' = Phases /\ Seen' = Seen
      BY <2>5, <3>1, <1>b DEF Dump, Phases, Seen, Steps
    <3>3. entry # t /\ durable # t
      BY <2>5 DEF Dump, StoreIInv, TmpInv, EntryInv, Fresh
    <3>4. Parsed(entry)' = Parsed(entry) /\ Parsed(durable)' = Parsed(durable)
      BY <2>5, <3>3 DEF Dump, Parsed, StoreIInv, EntryInv, StoreTypeOK
    <3> QED BY <3>2, <3>4, <2>s
  <2>6. CASE Fsync(t)
    <3>1. Phase(t)' = Phase(t)
      BY <2>6, PhaseOf, PhaseOfNext DEF Fsync, StoreTypeOK
    <3>2. Phases' = Phases /\ Seen' = Seen
      BY <2>6, <3>1, <1>b DEF Fsync, Phases, Seen, Steps
    <3> QED BY <2>6, <3>2, <2>s DEF Fsync, Parsed
  <2>7. CASE Replace(t)
    <3>0. Phase(t)' = "took effect"
      BY <2>7, PhaseOfNext DEF Replace, StoreTypeOK
    <3>1. Phases' = [Phases EXCEPT ![t] = "took effect"]
      BY <2>7, <3>0, <1>b DEF Replace, Phases, Steps
    <3>2. Seen' = Seen
      BY <2>7 DEF Replace, Seen
    <3>3. Parsed(entry)' = read[t] \cup {t} /\ Parsed(durable)' = Parsed(durable)
      BY <2>7 DEF Replace, Parsed, StoreIInv, TmpInv
    <3>4. CASE t \in Loaders
      <4>1. Phase(t) = "seen"
        BY <2>7, <3>4, PhaseOf DEF Replace
      <4>2. Store!Overwrite(t)
        BY <2>7, <3>1, <3>2, <3>3, <3>4, <4>1
        DEF Store!Overwrite, Store!Become, Replace, Phases, Seen
      <4> QED BY <4>2, <1>a DEF Store!Next
    <3>5. CASE t \notin Loaders
      <4>1. t \in Updaters /\ Phase(t) = "idle"
        BY <2>7, <3>5, PhaseOf DEF Replace, Callers
      <4>2. read[t] = Parsed(entry)
        BY <2>7, <4>1 DEF Replace, StoreIInv, ReadInv
      <4>3. Store!Update(t)
        BY <2>7, <3>1, <3>2, <3>3, <4>1, <4>2
        DEF Store!Update, Store!Become, Replace, Phases, Seen
      <4> QED BY <4>3, <1>a DEF Store!Next
    <3> QED BY <3>4, <3>5
  <2>8. CASE Return(t)
    <3>0. Phase(t) = "took effect" /\ Phase(t)' = "over"
      BY <2>8, PhaseOf, PhaseOfNext DEF Return, StoreTypeOK, Ended
    <3>1. Phases' = [Phases EXCEPT ![t] = "over"]
      BY <2>8, <3>0, <1>b DEF Return, Phases, Steps, Ended
    <3>2. Store!Return(t)
      BY <2>8, <3>0, <3>1
      DEF Return, Store!Return, Store!Become, Phases, Seen, Parsed
    <3> QED BY <3>2, <1>a DEF Store!Next
  <2>9. CASE Fail(t)
    <3>0. Phase(t) \in {"idle", "seen"} /\ Phase(t)' = "over"
      BY <2>9, PhaseOf, PhaseOfNext DEF Fail, StoreTypeOK, Ended
    <3>1. Phases' = [Phases EXCEPT ![t] = "over"]
      BY <2>9, <3>0, <1>b DEF Fail, Phases, Steps, Ended
    <3>2. Store!Raise(t)
      BY <2>9, <3>0, <3>1
      DEF Fail, Store!Raise, Store!Become, Phases, Seen, Parsed
    <3> QED BY <3>2, <1>a DEF Store!Next
  <2> QED
    BY <1>1, <2>1, <2>2, <2>3, <2>4, <2>5, <2>6, <2>7, <2>8, <2>9 DEF Call, Advance
<1>2. CASE Settle
  <2>1. Parsed(entry)' = Parsed(entry) /\ Parsed(durable)' = Parsed(entry)
    BY <1>2 DEF Settle, Parsed
  <2>2. Phases' = Phases /\ Seen' = Seen
    BY <1>2 DEF Settle, Phases, Phase, Seen
  <2>3. Store!Settle
    BY <2>1, <2>2 DEF Store!Settle, Phases, Seen
  <2> QED BY <2>3 DEF Store!Next
<1>3. ASSUME Stop
      PROVE  /\ Seen' = Seen
             /\ \E dead \in SUBSET Callers :
                  Phases' = [t \in Callers |->
                               IF t \in dead THEN "over" ELSE Phases[t]]
  <2> DEFINE dead == {t \in Callers : at[t] \notin Ended \cup {"idle"}}
  <2>2. \A t \in Callers : Phase(t)' = IF t \in dead THEN "over" ELSE Phase(t)
    <3> SUFFICES ASSUME NEW t \in Callers
                 PROVE Phase(t)' = IF t \in dead THEN "over" ELSE Phase(t)
      OBVIOUS
    <3>1. CASE t \in dead
      <4>1. at'[t] = "dead"
        BY <1>3, <3>1 DEF Stop
      <4> QED BY <3>1, <4>1, PhaseOfNext DEF Ended
    <3>2. CASE t \notin dead
      <4>1. at'[t] = at[t]
        BY <1>3, <3>2 DEF Stop
      <4>2. Phase(t)' = Phase(t)
        BY <4>1 DEF Phase
      <4> QED BY <3>2, <4>2
    <3> QED BY <3>1, <3>2
  <2>3. Phases' = [t \in Callers |-> IF t \in dead THEN "over" ELSE Phases[t]]
    BY <2>2 DEF Phases
  <2>4. Seen' = Seen
    BY <1>3 DEF Stop, Seen
  <2>5. dead \in SUBSET Callers
    OBVIOUS
  <2> HIDE DEF dead
  <2> QED BY <2>3, <2>4, <2>5
<1>4. ASSUME Stop, Parsed(durable)' = Parsed(durable)
      PROVE  Store!Stop
  <2>1. Seen' = Seen
    BY <1>3, <1>4
  <2>2. PICK dead \in SUBSET Callers :
          Phases' = [t \in Callers |-> IF t \in dead THEN "over" ELSE Phases[t]]
    BY <1>3, <1>4
  <2> QED
    BY <2>1, <2>2, <1>4, <1>a DEF Store!Stop, Phases, Seen, Store!Callers, Callers
<1>5. CASE Kill
  <2>1. Stop /\ Parsed(durable)' = Parsed(durable) /\ Parsed(entry)' = Parsed(entry)
    BY <1>5 DEF Kill, Stop, Parsed
  <2>2. Store!Kill
    BY <1>4, <2>1 DEF Store!Kill
  <2> QED BY <2>2 DEF Store!Next
<1>6. CASE PowerCut
  <2>1. Stop
    BY <1>6 DEF PowerCut
  <2>2. PICK lost \in SUBSET (whole \ synced) : whole' = whole \ lost
    BY <1>6 DEF PowerCut
  <2>3. Parsed(durable)' = Parsed(durable) /\ Parsed(entry)' = Parsed(durable)
    BY <1>6, <2>2 DEF PowerCut, Stop, Parsed, StoreIInv, EntryInv
  <2>4. Store!PowerCut
    BY <1>4, <2>1, <2>3 DEF Store!PowerCut
  <2> QED BY <2>4 DEF Store!Next
<1>7. CASE UNCHANGED storeVars
  BY <1>7 DEF storeVars, directory, renames, Store!store, Phase, Parsed
<1> QED
  BY <1>1, <1>2, <1>5, <1>6, <1>7 DEF StoreNext

\* storage.py implements the atomic store: update_json is one atomic
\* read-modify-write, write_json one atomic overwrite, and a power cut brings
\* back the content of the last time the file system wrote the directory.
THEOREM Refinement == StoreSpec => AtomicSpec
<1>1. StoreInit => Store!Init
  BY RefineInit
<1>2. StoreIInv /\ [StoreNext]_storeVars => [Store!Next]_(Store!store)
  BY RefineStep
<1> QED
  BY <1>1, <1>2, StoreInvariant, PTL DEF StoreSpec, AtomicSpec, Store!Spec
=============================================================================
