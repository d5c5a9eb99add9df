----------------------------- MODULE Autocache -----------------------------
(***************************************************************************)
(* The automatic local copies of pixio/services/autocache.py: the plan of  *)
(* what to copy and what to free, the job that carries it out while users  *)
(* go on editing, and the two ways such a job is started, by a request and *)
(* by the periodic check of the background thread.                         *)
(*                                                                         *)
(* Sizes are in GB.  catalog.set_cache and the copy job are taken as they  *)
(* work when nothing races with them; their own races are in Catalog.  An  *)
(* ISO is remote and is named by a number, which breaks ties as its slug   *)
(* does.                                                                   *)
(***************************************************************************)
EXTENDS Integers, FiniteSets, SequencesExt

CONSTANTS
    Slugs,       \* the ISOs
    Sizes,       \* the sizes they may have
    Times,       \* bound: the times of the boots and of the copies of Init
    Capacities,  \* the spaces the disk may have for copies
    Keep,        \* keep_free_gb
    MinSize,     \* min_size_gb
    Runs,        \* the jobs that can be under way at one time
    Users,       \* the request threads that call start
    MaxEdits,    \* bound: how often users and shares interfere, and how many
                 \* requests to start a job are made
    Interfering, \* the kinds of interference
    AutoOn       \* cache.auto: whether the periodic check starts jobs

ASSUME AutocacheAssumption ==
    /\ Slugs \subseteq Nat /\ IsFiniteSet(Slugs)
    /\ Times \subseteq 0..1
    /\ Runs \subseteq Nat \ {0}           \* 0 holds no lock
    /\ Sizes \subseteq Nat \ {0} /\ Capacities \subseteq Nat
    /\ Keep \in Nat \ {0} /\ MinSize \in Nat /\ MaxEdits \in Nat
    /\ AutoOn \in BOOLEAN

VARIABLES
    size,      \* the size of an ISO
    capacity,  \* the disk, as far as copies can fill it
    booted,    \* _boot_times: the last boot, 0 for none
    stamp,     \* the time of the file of a copy
    enabled,   \* the enabled ISOs
    there,     \* those whose file on the share can be reached
    status,    \* cache.status
    file,      \* how much of the copy is on the disk
    owner,     \* history: who has started the copy that is under way
    run,       \* the jobs: where they are and what they have left to do
    holder,    \* the job that holds _run_lock, 0 for none
    check,     \* what a request thread has found in start
    crowded,   \* history: copies were under way that no run waited for
    edits

catalog == <<size, booted, enabled, there>>
disk    == <<capacity, stamp, status, file, owner>>
vars    == <<catalog, disk, run, holder, check, crowded, edits>>

Total(S, f) == MapThenSumSet(LAMBDA s : f[s], S)
FreeBytes   == capacity - Total(Slugs, file)

NoRun == [pc |-> "none", target |-> "none", free |-> <<>>, copy |-> <<>>,
          cancelled |-> FALSE]

-----------------------------------------------------------------------------
(* plan.                                                                   *)

\* is_candidate, with only_enabled.
IsCandidate(s) ==
    /\ size[s] >= MinSize
    /\ s \in enabled
    /\ status[s] \notin {"ready", "copying"}
    /\ s \in there

IsCached(s) == status[s] = "ready"
LastUse(s)  == IF booted[s] > 0 THEN booted[s] ELSE stamp[s]

\* The order of the candidates: used last, then small, then by name.
CopyBefore(s, t) ==
    \/ booted[s] > booted[t]
    \/ booted[s] = booted[t] /\ size[s] < size[t]
    \/ booted[s] = booted[t] /\ size[s] = size[t] /\ s < t

\* The order of the victims: used longest ago, then large, then by name.
FreeBefore(s, t) ==
    \/ LastUse(s) < LastUse(t)
    \/ LastUse(s) = LastUse(t) /\ size[s] > size[t]
    \/ LastUse(s) = LastUse(t) /\ size[s] = size[t] /\ s < t

Ordered(S, Before(_, _)) ==
    [n \in 1..Cardinality(S) |->
        CHOOSE s \in S : Cardinality({t \in S : Before(t, s)}) = n - 1]
Candidates == Ordered({s \in Slugs : IsCandidate(s)}, CopyBefore)
Victims    == Ordered({s \in Slugs : IsCached(s)}, FreeBefore)

\* The space that the first n copies of V take.
Freeing(V, n) == Total({V[i] : i \in 1..n}, size)

\* Mutant: one victim at most for a candidate, if instead of while.
EvictOnce(V, n, avail, need) ==
    IF avail + Freeing(V, n) < need /\ n < Len(V) THEN n + 1 ELSE n

\* How many of the victims V are evicted in all when n are and need must fit:
\* as few as it takes, and every one of them when that is not enough.
Evict(V, n, avail, need) ==
    LET enough == {k \in n..Len(V) : avail + Freeing(V, k) >= need}
    IN  IF enough = {} THEN Len(V) ELSE Min(enough)

\* The plan with one candidate more.  p.avail is the free space before any
\* eviction, less what the copies planned so far need.
Planned(p, s) ==
    [p EXCEPT !.n = Evict(p.victims, @, p.avail, size[s])]

Take(p, s) ==
    IF p.avail + Freeing(p.victims, p.n) >= size[s]
    THEN [p EXCEPT !.avail = @ - size[s], !.copy = Append(@, s)]
    ELSE p

\* TLC would compute a plan anew for every use of it: p and q are values.
Consider(plan, s) ==
    CHOOSE r \in {Take(q, s) : q \in {Planned(p, s) : p \in {plan}}} : TRUE

Plan ==
    LET avail == FreeBytes - Keep
        acc == FoldLeft(Consider,
                        [victims |-> Victims, n |-> Evict(Victims, 0, avail, 0),
                         avail |-> avail, copy |-> <<>>],
                        Candidates)
    IN  [free |-> SubSeq(acc.victims, 1, acc.n), copy |-> acc.copy]

NothingToDo == [free |-> <<>>, copy |-> <<>>]

-----------------------------------------------------------------------------
Init ==
    /\ size \in [Slugs -> Sizes]
    /\ capacity \in Capacities
    /\ booted \in [Slugs -> Times]
    /\ stamp \in [Slugs -> Times]
    /\ enabled = Slugs  \* bound: every ISO is enabled at first
    /\ there = Slugs
    /\ status \in [Slugs -> {"none", "ready"}]
    /\ file = [s \in Slugs |-> IF status[s] = "ready" THEN size[s] ELSE 0]
    /\ \A s \in Slugs : status[s] = "none" => stamp[s] = 0
    /\ FreeBytes >= 0
    /\ owner = [s \in Slugs |-> "nobody"]
    /\ run = [j \in Runs |-> NoRun]
    /\ holder = 0
    /\ check = [u \in Users |-> "idle"]
    /\ crowded = FALSE
    /\ edits = 0

-----------------------------------------------------------------------------
(* Jobs are started.                                                       *)

Active(j) == run[j].pc # "none"

\* jobs.start: the type "copy" is not exclusive.
NewRun(target) ==
    \E j \in Runs :
       /\ ~Active(j) /\ \A i \in Runs : i < j => Active(i)
       /\ run' = [run EXCEPT ![j] = [NoRun EXCEPT !.pc = "new", !.target = target]]

\* start: first it looks for a job of its own, then it starts one.
StartCheck(u) ==
    /\ check[u] = "idle"
    /\ edits < MaxEdits
    /\ edits' = edits + 1
    /\ \A j \in Runs : Active(j) => run[j].target # "autocache"
    /\ check' = [check EXCEPT ![u] = "start"]
    /\ UNCHANGED <<catalog, disk, run, holder, crowded>>

StartJob(u) ==
    /\ check[u] = "start"
    /\ check' = [check EXCEPT ![u] = "idle"]
    /\ NewRun("autocache")
    /\ UNCHANGED <<catalog, disk, holder, crowded, edits>>

\* _autocache_tick, without a target and without looking for other jobs.
Tick ==
    /\ AutoOn
    /\ NewRun("none")
    /\ UNCHANGED <<catalog, disk, holder, check, crowded, edits>>

-----------------------------------------------------------------------------
(* run.                                                                    *)

At(j, pc) == run[j].pc = pc

\* Mutant: run does not release _run_lock at its end.
EndsLocked(j) ==
    /\ run' = [run EXCEPT ![j] = NoRun]
    /\ UNCHANGED holder

Ends(j) ==
    /\ run' = [run EXCEPT ![j] = NoRun]
    /\ holder' = IF holder = j THEN 0 ELSE holder

\* Mutant: run does not take _run_lock.
BeginUnlocked(j) ==
    /\ At(j, "new")
    /\ \E p \in {Plan} :
         run' = [run EXCEPT ![j].pc = "free", ![j].free = p.free, ![j].copy = p.copy]
    /\ UNCHANGED <<catalog, disk, holder, check, crowded, edits>>

\* Another job is at it, or there is nothing to do: the job ends.
Begin(j) ==
    /\ At(j, "new")
    /\ IF holder # 0
       THEN Ends(j)
       ELSE \E p \in {Plan} :
              IF p = NothingToDo
              THEN Ends(j)
              ELSE /\ holder' = j
                   /\ run' = [run EXCEPT ![j].pc = "free", ![j].free = p.free,
                                         ![j].copy = p.copy]
    /\ UNCHANGED <<catalog, disk, check, crowded, edits>>

\* set_cache(s, False): the copy goes, and its file with its time.
FreeCopy(s) ==
    /\ status' = [status EXCEPT ![s] = "none"]
    /\ file' = [file EXCEPT ![s] = 0]
    /\ stamp' = [stamp EXCEPT ![s] = 0]

\* One copy is freed, when it still is one.
FreeOne(j) ==
    /\ At(j, "free")
    /\ ~run[j].cancelled
    /\ run[j].free # <<>>
    /\ LET s == Head(run[j].free) IN
         IF IsCached(s) THEN FreeCopy(s) ELSE UNCHANGED <<status, file, stamp>>
    /\ run' = [run EXCEPT ![j].free = Tail(@)]
    /\ UNCHANGED <<catalog, capacity, owner, holder, check, crowded, edits>>

Freed(j) ==
    /\ At(j, "free")
    /\ run[j].cancelled \/ run[j].free = <<>>
    /\ run' = [run EXCEPT ![j].pc = "copy"]
    /\ UNCHANGED <<catalog, disk, holder, check, crowded, edits>>

\* The next ISO is looked at again, and skipped when it is no candidate any
\* more or would not leave the space.
Recheck(j) ==
    /\ At(j, "copy")
    /\ ~run[j].cancelled
    /\ run[j].copy # <<>>
    /\ LET s == Head(run[j].copy) IN
         IF IsCandidate(s) /\ FreeBytes - size[s] >= Keep
         THEN run' = [run EXCEPT ![j].pc = "start"]
         ELSE run' = [run EXCEPT ![j].copy = Tail(@)]
    /\ UNCHANGED <<catalog, disk, holder, check, crowded, edits>>

\* set_cache(s, True): the copy job of who; its own check of the space.
StartsCopy(s, who) ==
    IF FreeBytes < size[s] + 1
    THEN status' = [status EXCEPT ![s] = "error"] /\ UNCHANGED owner
    ELSE /\ status' = [status EXCEPT ![s] = "copying"]
         /\ owner' = [owner EXCEPT ![s] = who]

StartCopy(j) ==
    LET s == Head(run[j].copy) IN
    /\ At(j, "start")
    /\ IF status[s] \in {"ready", "copying"}
       THEN /\ run' = [run EXCEPT ![j].pc = "copy", ![j].copy = Tail(@)]
            /\ UNCHANGED <<status, owner>>
       ELSE /\ run' = [run EXCEPT ![j].pc = "wait"]
            /\ StartsCopy(s, "run")
    /\ UNCHANGED <<catalog, capacity, stamp, file, holder, check, crowded, edits>>

\* _wait_copy.
Waited(j) ==
    /\ At(j, "wait")
    /\ owner[Head(run[j].copy)] # "run"
    /\ run' = [run EXCEPT ![j].pc = "copy", ![j].copy = Tail(@)]
    /\ UNCHANGED <<catalog, disk, holder, check, crowded, edits>>

\* MAX_COPY_WAIT has passed: the copy goes on by itself.
WaitExpires(j) ==
    /\ "expiry" \in Interfering
    /\ At(j, "wait")
    /\ owner[Head(run[j].copy)] = "run"
    /\ edits < MaxEdits
    /\ edits' = edits + 1
    /\ run' = [run EXCEPT ![j].pc = "copy", ![j].copy = Tail(@)]
    /\ crowded' = TRUE
    /\ UNCHANGED <<catalog, disk, holder, check>>

Finish(j) ==
    /\ At(j, "copy")
    /\ run[j].cancelled \/ run[j].copy = <<>>
    /\ Ends(j)
    /\ UNCHANGED <<catalog, disk, check, crowded, edits>>

RunStep(j) ==
    \/ Begin(j) \/ FreeOne(j) \/ Freed(j) \/ Recheck(j) \/ StartCopy(j)
    \/ Waited(j) \/ Finish(j)

-----------------------------------------------------------------------------
(* The copies.                                                             *)

CopyWrite(s) ==
    /\ owner[s] # "nobody"
    /\ file[s] < size[s]
    /\ FreeBytes > 0
    /\ file' = [file EXCEPT ![s] = @ + 1]
    /\ UNCHANGED <<catalog, capacity, stamp, status, owner, run, holder, check,
                   crowded, edits>>

\* The file of a copy is newer than any other and than the boots of Init.
CopyReady(s) ==
    /\ owner[s] # "nobody"
    /\ file[s] = size[s]
    /\ status' = [status EXCEPT ![s] = "ready"]
    /\ stamp' = [stamp EXCEPT ![s] = 2]
    /\ owner' = [owner EXCEPT ![s] = "nobody"]
    /\ UNCHANGED <<catalog, capacity, file, run, holder, check, crowded, edits>>

\* The share is gone, the disk full, or the run that waits was cancelled.
CopyFails(s) ==
    /\ owner[s] # "nobody"
    /\ \/ s \notin there \/ FreeBytes <= 0
       \/ \E j \in Runs : At(j, "wait") /\ run[j].cancelled /\ Head(run[j].copy) = s
    /\ status' = [status EXCEPT ![s] = "error"]
    /\ file' = [file EXCEPT ![s] = 0]
    /\ owner' = [owner EXCEPT ![s] = "nobody"]
    /\ UNCHANGED <<catalog, capacity, stamp, run, holder, check, crowded, edits>>

CopyStep(s) == CopyWrite(s) \/ CopyReady(s) \/ CopyFails(s)

-----------------------------------------------------------------------------
(* What others do meanwhile.                                               *)

Interfere(kind) ==
    /\ kind \in Interfering
    /\ edits < MaxEdits
    /\ edits' = edits + 1
    /\ UNCHANGED <<size, holder, check>>

Flip(S, s) == IF s \in S THEN S \ {s} ELSE S \cup {s}

\* A user enables or disables an ISO.
Toggle(s) ==
    /\ Interfere("toggle")
    /\ enabled' = Flip(enabled, s)
    /\ UNCHANGED <<booted, there, disk, run, crowded>>

\* A PC boots an ISO, later than any copy of Init or of a run was made.
BootIso(s) ==
    /\ Interfere("boot")
    /\ booted' = [booted EXCEPT ![s] = 3]
    /\ UNCHANGED <<enabled, there, disk, run, crowded>>

\* A share goes or comes back.
Share(s) ==
    /\ Interfere("share")
    /\ there' = Flip(there, s)
    /\ UNCHANGED <<booted, enabled, disk, run, crowded>>

\* A user asks for a copy.
UserCopy(s) ==
    /\ Interfere("copy")
    /\ status[s] \notin {"ready", "copying"}
    /\ StartsCopy(s, "user")
    /\ crowded' = TRUE
    /\ UNCHANGED <<booted, enabled, there, capacity, stamp, file, run>>

\* A user frees a copy that is ready.
UserFree(s) ==
    /\ Interfere("free")
    /\ IsCached(s)
    /\ FreeCopy(s)
    /\ UNCHANGED <<booted, enabled, there, capacity, owner, run, crowded>>

\* A user cancels a run.
Cancel(j) ==
    /\ Interfere("cancel")
    /\ Active(j)
    /\ run' = [run EXCEPT ![j].cancelled = TRUE]
    /\ UNCHANGED <<booted, enabled, there, disk, crowded>>

Next ==
    \/ \E u \in Users : StartCheck(u) \/ StartJob(u)
    \/ Tick
    \/ \E j \in Runs : RunStep(j) \/ WaitExpires(j) \/ Cancel(j)
    \/ \E s \in Slugs :
         CopyStep(s) \/ Toggle(s) \/ BootIso(s) \/ Share(s) \/ UserCopy(s) \/ UserFree(s)

Spec == Init /\ [][Next]_vars

\* The check is periodic, jobs and copies run on (it is enough that some copy
\* does); nothing obliges users.
FairSpec ==
    /\ Spec
    /\ WF_vars(Tick)
    /\ \A j \in Runs : WF_vars(RunStep(j))
    /\ WF_vars(\E s \in Slugs : CopyStep(s))

-----------------------------------------------------------------------------
(* The copies that a run makes leave keep_free_gb free to their last byte, *)
(* whoever starts runs and whatever users disable, free or cancel, as long *)
(* as nobody else's copies fill the disk.                                  *)
RunsLeaveKeepFree ==
    ~crowded =>
      \A s \in Slugs : owner[s] = "run" => FreeBytes - (size[s] - file[s]) >= Keep

(* When all that is enabled fits beside keep_free_gb, the periodic check   *)
(* comes to rest: in the end there is nothing to copy or to free.          *)
SettlesWhenAllFits ==
    Total(Slugs, size) + Keep <= capacity => <>[](Plan = NothingToDo)

(* The plan gives up the copies used longest ago (autocache.py:7), never   *)
(* one that it copies, and what it copies leaves keep_free_gb free once    *)
(* what it frees is gone; it skips a candidate only if it would not fit    *)
(* even without any other copy; and it frees "quel tanto che basta a       *)
(* lasciare liberi keep_free_gb" (autocache.py:8): without the last of the *)
(* copies it frees, what it copies would not leave that space, as far as   *)
(* it skips no candidate.                                                  *)
PlanIsRight ==
    LET p == Plan
        n == Len(p.free)
        F == ToSet(p.free)
        C == ToSet(p.copy)
        left(k) == FreeBytes + Freeing(Victims, k) - Total(C, size)
        skipped == {s \in Slugs : IsCandidate(s)} \ C
    IN  /\ F \cap C = {}
        /\ \A s \in F, t \in Slugs \ F : IsCached(t) => LastUse(s) <= LastUse(t)
        /\ C # {} => left(n) >= Keep
        /\ \A s \in skipped : left(Len(Victims)) - size[s] < Keep
        /\ (n > 0 /\ skipped = {}) => left(n - 1) < Keep
=============================================================================
