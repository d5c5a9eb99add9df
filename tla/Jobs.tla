-------------------------------- MODULE Jobs --------------------------------
(***************************************************************************)
(* The background jobs of pixio/services/jobs.py: the registry kept in     *)
(* memory, one daemon thread per job, the file JOBS_DIR/<id>.json of every *)
(* job, the requests that ask for a cancellation, the purge of old jobs    *)
(* and the restart of the process.                                         *)
(*                                                                         *)
(* Jobs are numbered in the order they are started, which is the order of  *)
(* the sort key (started, seq).  Messages, logs, progress values and times *)
(* are left out; what a save writes is kept: it is a snapshot of the job   *)
(* taken before write_json waits for the lock of the path, so that two     *)
(* saves of one job may reach the disk in the opposite order.              *)
(***************************************************************************)
EXTENDS Naturals, FiniteSets

CONSTANTS
    MaxJobs,      \* bound: how many jobs a behaviour starts
    Types,        \* the job types
    Exclusive,    \* EXCLUSIVE_TYPES: the types of which one job runs at a time
    Requests,     \* the request threads that may call cancel
    Keep,         \* KEEP: how many finished jobs purge leaves
    MaxRestarts,  \* bound: how often the process is killed and restarted
    Fallible      \* bound: the jobs whose saves may meet an OSError

JobIds == 1..MaxJobs

ASSUME JobsAssumption ==
    /\ MaxJobs \in Nat
    /\ Exclusive \subseteq Types
    /\ Requests \cap JobIds = {}
    /\ Keep \in Nat
    /\ MaxRestarts \in Nat
    /\ Fallible \subseteq JobIds

VARIABLES
    loaded,     \* _loaded: the files of the previous process have been read
    registry,   \* the keys of _jobs
    type,       \* type of a job, fixed when it is started
    status,     \* status of a job in memory, "absent" before its start
    cancelled,  \* the flag job.cancelled
    pc,         \* where the thread of a job is, "none" when it has no thread
    snap,       \* the snapshot a thread (of a job, of a request) is saving
    disk,       \* the file of a job
    unsaved,    \* the jobs whose last save failed
    rpc,        \* where a request is in cancel
    rjob,       \* the job a request cancels
    started,    \* how many jobs have been started
    restarts    \* how many restarts have happened

memory == <<loaded, registry, status, cancelled>>
files  == <<disk, unsaved>>
calls  == <<rpc, rjob>>
vars   == <<memory, files, calls, type, pc, snap, started, restarts>>

Terminal == {"done", "error", "cancelled"}
Status   == Terminal \cup {"running"}
NoFile   == [status |-> "absent", cancelled |-> FALSE]
Content  == [status : Status \cup {"absent"}, cancelled : BOOLEAN]
Threads  == JobIds \cup Requests
NoType   == "untyped"

\* Mutant: the status is not saved again after the start.
ToDictStarted(j) == [status |-> "running", cancelled |-> cancelled[j]]

\* What to_full_dict says of job j.
ToDict(j) == [status |-> status[j], cancelled |-> cancelled[j]]

\* The part of save that runs once the lock of the path is held: the file is
\* replaced as a whole, or the OSError is logged and forgotten.
Write(j, content) ==
    \/ /\ disk' = [disk EXCEPT ![j] = content]
       /\ unsaved' = unsaved \ {j}
    \/ /\ j \in Fallible
       /\ unsaved' = unsaved \cup {j}
       /\ UNCHANGED disk

\* Mutant: the running jobs are looked up in the files.
RunningOnDisk(t) == {j \in registry : disk[j].status = "running" /\ type[j] = t}

Running(t)  == {j \in registry : status[j] = "running" /\ type[j] = t}
Finished    == {j \in registry : status[j] # "running"}
Newer(k, S) == {j \in S : j > k}

\* Mutant: one job too few is kept.
ExcessOneMore == {k \in Finished : Cardinality(Newer(k, Finished)) + 1 >= Keep}

\* The jobs purge drops: all but the Keep newest of the finished ones.
Excess == {k \in Finished : Cardinality(Newer(k, Finished)) >= Keep}

Init ==
    /\ loaded = FALSE
    /\ registry = {}
    /\ type = [j \in JobIds |-> NoType]
    /\ status = [j \in JobIds |-> "absent"]
    /\ cancelled = [j \in JobIds |-> FALSE]
    /\ pc = [j \in JobIds |-> "none"]
    /\ snap = [t \in Threads |-> NoFile]
    /\ disk = [j \in JobIds |-> NoFile]
    /\ unsaved = {}
    /\ rpc = [r \in Requests |-> "idle"]
    /\ rjob = [r \in Requests |-> 0]
    /\ started = 0
    /\ restarts = 0

-----------------------------------------------------------------------------
(* The process starts: the files are read and a job left running by the    *)
(* previous process becomes an error, in memory and on disk.               *)

\* Mutant: only a job asked to stop counts as interrupted.
InterruptedCancelled ==
    {j \in JobIds : disk[j].status = "running" /\ disk[j].cancelled}

Interrupted == {j \in JobIds : disk[j].status = "running"}

EnsureLoaded ==
    /\ ~loaded
    /\ loaded' = TRUE
    /\ registry' = {j \in JobIds : disk[j] # NoFile}
    /\ status' = [j \in JobIds |->
                    IF j \in Interrupted THEN "error" ELSE disk[j].status]
    /\ cancelled' = [j \in JobIds |-> disk[j].cancelled]
    /\ \E failed \in SUBSET Interrupted :
         /\ failed \subseteq Fallible
         /\ disk' = [j \in JobIds |->
                       IF j \in Interrupted \ failed
                       THEN [disk[j] EXCEPT !.status = "error"]
                       ELSE disk[j]]
         /\ unsaved' = (unsaved \ Interrupted) \cup failed
    /\ UNCHANGED <<calls, type, pc, snap, started, restarts>>

(* start: for an exclusive type with a job already running that job is     *)
(* returned and nothing changes; otherwise the job is registered, saved    *)
(* and given a thread, all of it under _lock.                              *)
Start(t) ==
    LET j == started + 1 IN
    /\ loaded
    /\ started < MaxJobs
    /\ t \in Exclusive => Running(t) = {}
    /\ started' = j
    /\ registry' = registry \cup {j}
    /\ type' = [type EXCEPT ![j] = t]
    /\ status' = [status EXCEPT ![j] = "running"]
    /\ pc' = [pc EXCEPT ![j] = "fn"]
    /\ Write(j, [status |-> "running", cancelled |-> FALSE])
    /\ UNCHANGED <<loaded, cancelled, calls, snap, restarts>>

-----------------------------------------------------------------------------
(* The thread of job j: fn reports its progress any number of times, then  *)
(* returns or raises; _run sets the status, saves it and purges.           *)

Goto(j, from, to) ==
    /\ pc[j] = from
    /\ pc' = [pc EXCEPT ![j] = to]

\* set_progress and log, up to the snapshot.
Report(j) ==
    /\ Goto(j, "fn", "reporting")
    /\ snap' = [snap EXCEPT ![j] = ToDict(j)]
    /\ UNCHANGED <<memory, files, calls, type, started, restarts>>

ReportWrite(j) ==
    /\ Goto(j, "reporting", "fn")
    /\ Write(j, snap[j])
    /\ snap' = [snap EXCEPT ![j] = NoFile]
    /\ UNCHANGED <<memory, calls, type, started, restarts>>

\* Mutant: an exception leaves the status as it is.
FnEndsSilently(j, outcome) ==
    /\ Goto(j, "fn", "ending")
    /\ status' = [status EXCEPT
                    ![j] = IF cancelled[j] THEN "cancelled"
                           ELSE IF outcome = "error" THEN @ ELSE outcome]
    /\ UNCHANGED <<loaded, registry, cancelled, files, calls, type, snap,
                   started, restarts>>

FnEnds(j, outcome) ==
    /\ Goto(j, "fn", "ending")
    /\ status' = [status EXCEPT
                    ![j] = IF cancelled[j] THEN "cancelled" ELSE outcome]
    /\ UNCHANGED <<loaded, registry, cancelled, files, calls, type, snap,
                   started, restarts>>

FinalSave(j) ==
    /\ Goto(j, "ending", "saving")
    /\ snap' = [snap EXCEPT ![j] = ToDict(j)]
    /\ UNCHANGED <<memory, files, calls, type, started, restarts>>

FinalWrite(j) ==
    /\ Goto(j, "saving", "purging")
    /\ Write(j, snap[j])
    /\ snap' = [snap EXCEPT ![j] = NoFile]
    /\ UNCHANGED <<memory, calls, type, started, restarts>>

Purge(j) ==
    /\ Goto(j, "purging", "none")
    /\ registry' = registry \ Excess
    /\ disk' = [k \in JobIds |-> IF k \in Excess THEN NoFile ELSE disk[k]]
    /\ UNCHANGED <<loaded, status, cancelled, unsaved, calls, type, snap,
                   started, restarts>>

-----------------------------------------------------------------------------
(* cancel, in a request thread and without any lock.                       *)

CancelCheck(r, j) ==
    /\ loaded
    /\ rpc[r] = "idle"
    /\ j \in registry
    /\ status[j] = "running"
    /\ rpc' = [rpc EXCEPT ![r] = "checked"]
    /\ rjob' = [rjob EXCEPT ![r] = j]
    /\ UNCHANGED <<memory, files, type, pc, snap, started, restarts>>

CancelFlag(r) ==
    /\ rpc[r] = "checked"
    /\ rpc' = [rpc EXCEPT ![r] = "flagged"]
    /\ cancelled' = [cancelled EXCEPT ![rjob[r]] = TRUE]
    /\ UNCHANGED <<loaded, registry, status, files, rjob, type, pc, snap,
                   started, restarts>>

CancelSave(r) ==
    /\ rpc[r] = "flagged"
    /\ rpc' = [rpc EXCEPT ![r] = "saving"]
    /\ snap' = [snap EXCEPT ![r] = ToDict(rjob[r])]
    /\ UNCHANGED <<memory, files, rjob, type, pc, started, restarts>>

CancelWrite(r) ==
    /\ rpc[r] = "saving"
    /\ rpc' = [rpc EXCEPT ![r] = "idle"]
    /\ Write(rjob[r], snap[r])
    /\ rjob' = [rjob EXCEPT ![r] = 0]
    /\ snap' = [snap EXCEPT ![r] = NoFile]
    /\ UNCHANGED <<memory, type, pc, started, restarts>>

-----------------------------------------------------------------------------
(* The process is killed (a crash, systemctl restart, an update): memory   *)
(* and threads are gone, the files stay.                                   *)
Restart ==
    /\ restarts < MaxRestarts
    /\ restarts' = restarts + 1
    /\ loaded' = FALSE
    /\ registry' = {}
    /\ status' = [j \in JobIds |-> "absent"]
    /\ cancelled' = [j \in JobIds |-> FALSE]
    /\ pc' = [j \in JobIds |-> "none"]
    /\ snap' = [t \in Threads |-> NoFile]
    /\ rpc' = [r \in Requests |-> "idle"]
    /\ rjob' = [r \in Requests |-> 0]
    /\ UNCHANGED <<files, type, started>>

JobThread(j) ==
    \/ Report(j)
    \/ ReportWrite(j)
    \/ \E outcome \in {"done", "error"} : FnEnds(j, outcome)
    \/ FinalSave(j)
    \/ FinalWrite(j)
    \/ Purge(j)

CancelRequest(r) ==
    \/ \E j \in JobIds : CancelCheck(r, j)
    \/ CancelFlag(r)
    \/ CancelSave(r)
    \/ CancelWrite(r)

Next ==
    \/ EnsureLoaded
    \/ \E t \in Types : Start(t)
    \/ \E j \in JobIds : JobThread(j)
    \/ \E r \in Requests : CancelRequest(r)
    \/ Restart

Spec == Init /\ [][Next]_vars

\* Threads run until they end and fn does end (reports cannot starve its
\* return); nothing obliges a user to start or to cancel a job.
Fairness ==
    /\ WF_vars(EnsureLoaded)
    /\ \A j \in JobIds :
         /\ WF_vars(JobThread(j))
         /\ SF_vars(\E outcome \in {"done", "error"} : FnEnds(j, outcome))

FairSpec == Spec /\ Fairness

-----------------------------------------------------------------------------
(* Every variable holds a value of its type: the shape of the registry,    *)
(* of the files and of the threads of jobs.py.                             *)
TypeOK ==
    /\ loaded \in BOOLEAN
    /\ registry \subseteq JobIds
    /\ type \in [JobIds -> Types \cup {NoType}]
    /\ status \in [JobIds -> Status \cup {"absent"}]
    /\ cancelled \in [JobIds -> BOOLEAN]
    /\ pc \in [JobIds -> {"none", "fn", "reporting", "ending", "saving",
                          "purging"}]
    /\ snap \in [Threads -> Content]
    /\ disk \in [JobIds -> Content]
    /\ unsaved \subseteq JobIds
    /\ rpc \in [Requests -> {"idle", "checked", "flagged", "saving"}]
    /\ rjob \in [Requests -> JobIds \cup {0}]
    /\ started \in 0..MaxJobs
    /\ restarts \in 0..MaxRestarts

\* The function of job j is being executed.
Executing(j) == pc[j] \in {"fn", "reporting"}

(* Two jobs of an exclusive type never execute together: the scan that     *)
(* start returns instead of a second one is really under way, across       *)
(* restarts and purges too.                                                *)
OneExclusiveJob ==
    \A i, j \in JobIds :
        Executing(i) /\ Executing(j) /\ type[i] = type[j]
          /\ type[i] \in Exclusive => i = j

(* A registered job says "running" exactly while its thread executes its   *)
(* function, and an executing job is never purged: no ghost of a previous  *)
(* process is left running, which for a scan would refuse every later one. *)
RunningIsAlive ==
    \A j \in JobIds :
        Executing(j) <=> j \in registry /\ status[j] = "running"

(* Once the thread of a job has saved its end, the file of the job tells   *)
(* the end the registry tells, unless the save failed or somebody asked    *)
(* for a cancellation (whose own save may come late, see                   *)
(* EndedJobSurvives).                                                      *)
EndIsOnDisk ==
    \A j \in registry :
        pc[j] \in {"purging", "none"} /\ ~cancelled[j] /\ j \notin unsaved
          => disk[j].status = status[j]

(* purge forgets a job only when it has ended and Keep jobs started after  *)
(* it have ended too and stay; a restart forgets only what has no file.    *)
PurgeKeepsTheNewest ==
    [][ \A k \in registry \ registry' :
          loaded' => /\ status[k] # "running"
                     /\ Cardinality(Newer(k, Finished')) >= Keep ]_vars

(* Every job ends: one seen running is later seen in a final state or not  *)
(* at all, also when the process is restarted under it.                    *)
JobsEnd ==
    \A j \in JobIds : (status[j] = "running") ~> (status[j] # "running")

(* After any number of restarts the registry is loaded again and what it   *)
(* shows as ended stays so: the docstring of jobs.py says the files are    *)
(* there "per vedere i job anche dopo un riavvio" and that only the jobs   *)
(* "rimasti 'running'" are marked interrupted.  So the file of a job that  *)
(* has ended, with no save of it under way, does not say "running".        *)
EndedJobSurvives ==
    \A j \in registry :
        /\ pc[j] = "none" /\ j \notin unsaved
        /\ \A r \in Requests : rpc[r] # "idle" => rjob[r] # j
        => disk[j].status # "running"
=============================================================================
