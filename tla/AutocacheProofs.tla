--------------------------- MODULE AutocacheProofs -------------------------
(***************************************************************************)
(* Proofs about the automatic local copies (module Autocache), for any     *)
(* number of ISOs, runs and request threads, any sizes and any disk: that  *)
(* the runs leave keep_free_gb free while users interfere, and that every  *)
(* plan is right, in any state that can be reached.                        *)
(*                                                                         *)
(* Both rest on the sums of sizes, and the plan also on the order of its   *)
(* sequences and on its fold, about which DataLemmas has the facts.        *)
(***************************************************************************)
EXTENDS Autocache, FiniteSetTheorems, FunctionTheorems, SequenceTheorems,
        WellFoundedInduction, TLAPS

INSTANCE DataLemmas WITH Op <- Consider

\* Total is the sum that DataLemmas is about.
LEMMA TotalIs == \A S, f : Total(S, f) = Sigma(S, f)
BY DEF Total, Sigma

-----------------------------------------------------------------------------
\* The sizes of what is on the disk, and the copies that are under way.
DiskOK ==
    /\ size \in [Slugs -> Nat] /\ file \in [Slugs -> Nat] /\ capacity \in Nat
    /\ enabled \subseteq Slugs
    /\ DOMAIN status = Slugs /\ DOMAIN stamp = Slugs
    /\ owner \in [Slugs -> {"nobody", "run", "user"}]
    /\ \A s \in Slugs : owner[s] # "nobody" => status[s] = "copying"

\* One run at a time has passed the lock.
OneRun ==
    /\ DOMAIN run = Runs
    /\ \A j \in Runs :
         /\ DOMAIN run[j] = {"pc", "target", "free", "copy", "cancelled"}
         /\ run[j].pc \in {"none", "new", "free", "copy", "start", "wait"}
         /\ run[j].pc \notin {"none", "new"} => holder = j

\* As long as nobody else copies, the only copy is the one that run waits
\* for, and nothing takes the space it has found until it starts the next.
Alone ==
    /\ \A s \in Slugs :
         \/ owner[s] = "nobody"
         \/ /\ owner[s] = "run"
            /\ FreeBytes - (size[s] - file[s]) >= Keep
            /\ \E j \in Runs : At(j, "wait") /\ Head(run[j].copy) = s
    /\ \A j \in Runs : At(j, "start") => FreeBytes - size[Head(run[j].copy)] >= Keep

StartsOne == \A j \in Runs : At(j, "start") => Head(run[j].copy) \in Slugs

\* The inductive invariant of the runs.
RunInv == DiskOK /\ OneRun /\ StartsOne /\ (~crowded => Alone)

\* The free space is a number, perhaps below zero.
LEMMA FreeBytesType == ASSUME DiskOK PROVE FreeBytes \in Int
<1>1. file \in [Slugs -> Nat] /\ capacity \in Nat /\ IsFiniteSet(Slugs)
    BY AutocacheAssumption DEF DiskOK
<1>2. Total(Slugs, file) \in Nat
    BY <1>1, TotalIs, SigmaNat
<1> QED
    BY <1>1, <1>2 DEF FreeBytes

\* The free space when one file grows or goes.
LEMMA FreeBytesUpdate ==
    ASSUME DiskOK, NEW s \in Slugs, NEW v \in Nat,
           file' = [file EXCEPT ![s] = v], capacity' = capacity
    PROVE  FreeBytes' = FreeBytes + file[s] - v
<1>1. file \in [Slugs -> Nat] /\ capacity \in Nat /\ IsFiniteSet(Slugs)
    BY AutocacheAssumption DEF DiskOK
<1>2. PICK g : g = file'
    OBVIOUS
<1>3. g = [file EXCEPT ![s] = v]
    BY <1>2
<1>4. Total(Slugs, g) = Total(Slugs, file) - file[s] + v /\ Total(Slugs, file) \in Nat
    <2>1. PICK f : f = file
        OBVIOUS
    <2>2. /\ \A t \in Slugs : f[t] \in Nat /\ g[t] \in Nat
          /\ \A t \in Slugs : t # s => g[t] = f[t]
          /\ g[s] = v
        BY <1>1, <1>3, <2>1
    <2>3. Total(Slugs, g) = Total(Slugs, f) - f[s] + g[s]
        <3>1. PICK S : S = Slugs
            OBVIOUS
        <3>2. /\ IsFiniteSet(S) /\ s \in S
              /\ \A t \in S : f[t] \in Nat /\ g[t] \in Nat
              /\ \A t \in S : t # s => g[t] = f[t]
            BY <1>1, <2>2, <3>1
        <3>3. Sigma(S, g) = Sigma(S, f) - f[s] + g[s]
            BY <3>2, SigmaUpdate, Z3
        <3> QED
            BY <3>1, <3>3, TotalIs
    <2>4. Total(Slugs, f) \in Nat
        BY <1>1, <2>2, TotalIs, SigmaNat
    <2> QED
        BY <2>1, <2>2, <2>3, <2>4
<1>5. FreeBytes' = capacity - Total(Slugs, g)
    BY <1>2 DEF FreeBytes
<1>6. FreeBytes = capacity - Total(Slugs, file)
    BY DEF FreeBytes
<1>7. file[s] \in Nat
    BY <1>1
<1> QED
    BY <1>1, <1>4, <1>5, <1>6, <1>7

\* Initially nothing runs and nothing is copied.
LEMMA InitRunInv == Init => RunInv
<1> SUFFICES ASSUME Init PROVE RunInv
    OBVIOUS
<1> USE AutocacheAssumption DEF Init
<1>1. \A s \in Slugs : size[s] \in Nat
    OBVIOUS
<1>2. DiskOK
    <2>1. size \in [Slugs -> Nat]
        OBVIOUS
    <2>2. file \in [Slugs -> Nat]
        BY <1>1
    <2>3. capacity \in Nat
        OBVIOUS
    <2> QED
        BY <2>1, <2>2, <2>3 DEF DiskOK
<1>3. \A j \in Runs : run[j] = NoRun
    OBVIOUS
<1>4. NoRun.pc = "none" /\ DOMAIN NoRun = {"pc", "target", "free", "copy", "cancelled"}
    BY DEF NoRun
<1>5. OneRun
    BY <1>3, <1>4 DEF OneRun
<1>6. StartsOne /\ Alone
    BY <1>3, <1>4 DEF StartsOne, Alone, At
<1> QED
    BY <1>2, <1>5, <1>6 DEF RunInv

\* A run goes on: the others are not touched, and a copy that is under way
\* keeps the run that waits for it.
LEMMA RunMoves ==
    ASSUME RunInv, NEW j \in Runs, NEW r, run' = [run EXCEPT ![j] = r],
           DOMAIN r = {"pc", "target", "free", "copy", "cancelled"},
           r.pc \in {"none", "new", "free", "copy", "start", "wait"},
           r.pc \notin {"none", "new"} => holder' = j,
           holder' = holder \/ holder \in {0, j},
           UNCHANGED <<size, capacity, file, owner, status, stamp>>, enabled' = enabled,
           crowded => crowded',
           r.pc = "start" =>
             /\ Head(r.copy) \in Slugs
             /\ ~crowded => FreeBytes - size[Head(r.copy)] >= Keep,
           At(j, "wait") =>
             \/ crowded' \/ owner[Head(run[j].copy)] # "run"
             \/ r.pc = "wait" /\ r.copy = run[j].copy
    PROVE  RunInv'
<1> USE DEF RunInv
<1>1. DOMAIN run = Runs /\ DOMAIN run' = Runs /\ run'[j] = r
      /\ \A i \in Runs : i # j => run'[i] = run[i]
    BY DEF OneRun
<1>2. \A i \in Runs : i # 0
    BY AutocacheAssumption
<1>3. DiskOK'
    BY DEF DiskOK
<1>4. OneRun'
    <2> SUFFICES ASSUME NEW i \in Runs
                 PROVE  /\ DOMAIN run'[i] = {"pc", "target", "free", "copy", "cancelled"}
                        /\ run'[i].pc \in {"none", "new", "free", "copy", "start", "wait"}
                        /\ run'[i].pc \notin {"none", "new"} => holder' = i
        BY <1>1 DEF OneRun
    <2>1. CASE i = j
        BY <1>1, <2>1
    <2>2. CASE i # j
        BY <1>1, <1>2, <2>2 DEF OneRun
    <2> QED
        BY <2>1, <2>2
<1>5. StartsOne'
    BY <1>1 DEF StartsOne, At
<1>6. FreeBytes' = FreeBytes
    BY DEF FreeBytes
<1>7. ASSUME ~crowded' PROVE Alone'
    <2>0. Alone /\ ~crowded
        BY <1>7
    <2>1. ASSUME NEW s \in Slugs, owner[s] # "nobody"
          PROVE  /\ owner[s] = "run" /\ FreeBytes - (size[s] - file[s]) >= Keep
                 /\ \E i \in Runs : run'[i].pc = "wait" /\ Head(run'[i].copy) = s
        <3>1. PICK i \in Runs : At(i, "wait") /\ Head(run[i].copy) = s
            BY <2>0, <2>1 DEF Alone
        <3>2. run'[i].pc = "wait" /\ Head(run'[i].copy) = s
            <4>1. CASE i = j
                BY <1>1, <1>7, <2>0, <2>1, <3>1, <4>1 DEF Alone
            <4>2. CASE i # j
                BY <1>1, <3>1, <4>2 DEF At
            <4> QED
                BY <4>1, <4>2
        <3> QED
            BY <2>0, <2>1, <3>2 DEF Alone
    <2>2. ASSUME NEW i \in Runs, run'[i].pc = "start"
          PROVE  FreeBytes - size[Head(run'[i].copy)] >= Keep
        <3>1. CASE i = j
            BY <1>1, <2>0, <2>2, <3>1
        <3>2. CASE i # j
            BY <1>1, <2>0, <2>2, <3>2 DEF Alone, At
        <3> QED
            BY <3>1, <3>2
    <2> QED
        BY <1>6, <2>1, <2>2 DEF Alone, At
<1> QED
    BY <1>3, <1>4, <1>5, <1>7

\* Users and shares that leave the disk and the runs alone.
LEMMA NothingMoves ==
    ASSUME RunInv, UNCHANGED <<run, holder, size, capacity, file, owner, status, stamp>>,
           enabled' \subseteq Slugs, crowded => crowded'
    PROVE  RunInv'
<1> USE DEF RunInv
<1>1. DiskOK' /\ OneRun' /\ StartsOne'
    BY DEF DiskOK, OneRun, StartsOne, At
<1>2. FreeBytes' = FreeBytes
    BY DEF FreeBytes
<1>3. ~crowded' => Alone'
    BY <1>2 DEF Alone, At
<1> QED
    BY <1>1, <1>3

\* What freeing a copy leaves alone.
LEMMA FreeCopyFrees ==
    ASSUME DiskOK, NEW s, IsCached(s), FreeCopy(s),
           UNCHANGED <<size, capacity, owner, enabled>>
    PROVE  /\ DiskOK' /\ FreeBytes' \in Int /\ FreeBytes' >= FreeBytes
           /\ \A t \in Slugs : owner[t] # "nobody" => file'[t] = file[t]
<1>1. /\ file \in [Slugs -> Nat] /\ DOMAIN status = Slugs /\ DOMAIN stamp = Slugs
      /\ status' = [status EXCEPT ![s] = "none"]
      /\ file' = [file EXCEPT ![s] = 0]
      /\ stamp' = [stamp EXCEPT ![s] = 0]
    BY DEF DiskOK, FreeCopy
<1>2. \A t \in Slugs : owner[t] # "nobody" => t # s
    BY DEF DiskOK, IsCached
<1>3. \A t \in Slugs : t # s => status'[t] = status[t] /\ file'[t] = file[t]
    BY <1>1
<1>4. DiskOK'
    <2>1. file' \in [Slugs -> Nat] /\ DOMAIN status' = Slugs /\ DOMAIN stamp' = Slugs
        BY <1>1
    <2>2. \A t \in Slugs : owner[t] # "nobody" => status'[t] = "copying"
        BY <1>2, <1>3 DEF DiskOK
    <2> QED
        BY <2>1, <2>2 DEF DiskOK
<1>5. FreeBytes \in Int
    BY FreeBytesType
<1>6. FreeBytes' \in Int /\ FreeBytes' >= FreeBytes
    <2>1. CASE s \in Slugs
        <3>1. FreeBytes' = FreeBytes + file[s] - 0
            BY <1>1, <2>1, FreeBytesUpdate
        <3>2. file[s] \in Nat
            BY <1>1, <2>1
        <3> QED
            BY <1>5, <3>1, <3>2
    <2>2. CASE s \notin Slugs
        <3>1. file' = file
            BY <1>1, <2>2
        <3> QED
            BY <1>5, <3>1 DEF FreeBytes
    <2> QED
        BY <2>1, <2>2
<1> QED
    BY <1>2, <1>3, <1>4, <1>6

\* The two ends of a run, and its start.
LEMMA NewRunKeeps ==
    ASSUME RunInv, NEW target, NewRun(target),
           UNCHANGED <<catalog, disk, holder, crowded>>
    PROVE  RunInv'
<1>1. PICK j \in Runs : /\ ~Active(j)
                        /\ run' = [run EXCEPT ![j] = [NoRun EXCEPT !.pc = "new", !.target = target]]
    BY DEF NewRun
<1>2. PICK r : r = [NoRun EXCEPT !.pc = "new", !.target = target]
    OBVIOUS
<1>3. r.pc = "new" /\ DOMAIN r = {"pc", "target", "free", "copy", "cancelled"}
    BY <1>2 DEF NoRun
<1>4. run' = [run EXCEPT ![j] = r] /\ ~At(j, "wait")
    BY <1>1, <1>2 DEF Active, At
<1> QED
    BY <1>3, <1>4, RunMoves DEF catalog, disk

\* A run that ends lets go of the lock.
LEMMA EndsKeeps ==
    ASSUME RunInv, NEW j \in Runs, Ends(j), ~At(j, "wait"),
           UNCHANGED <<catalog, disk, crowded>>
    PROVE  RunInv'
<1>1. PICK r : r = NoRun
    OBVIOUS
<1>2. r.pc = "none" /\ DOMAIN r = {"pc", "target", "free", "copy", "cancelled"}
    BY <1>1 DEF NoRun
<1>3. run' = [run EXCEPT ![j] = r] /\ (holder' = holder \/ holder \in {0, j})
    BY <1>1 DEF Ends
<1> QED
    BY <1>2, <1>3, RunMoves DEF catalog, disk

\* What a run looks like.
LEMMA RunLooks ==
    ASSUME RunInv, NEW j \in Runs
    PROVE  /\ DOMAIN run = Runs
           /\ DOMAIN run[j] = {"pc", "target", "free", "copy", "cancelled"}
           /\ run[j].pc \in {"none", "new", "free", "copy", "start", "wait"}
           /\ run[j].pc \notin {"none", "new"} => holder = j
BY DEF RunInv, OneRun

\* A run takes the lock, or ends.
LEMMA BeginKeeps == ASSUME RunInv, NEW j \in Runs, Begin(j) PROVE RunInv'
<1>1. At(j, "new") /\ ~At(j, "wait") /\ UNCHANGED <<catalog, disk, crowded>>
    BY DEF Begin, At
<1>2. CASE Ends(j)
    BY <1>1, <1>2, EndsKeeps
<1>3. CASE holder = 0 /\ holder' = j
           /\ \E p \in {Plan} :
                run' = [run EXCEPT ![j].pc = "free", ![j].free = p.free, ![j].copy = p.copy]
    <2>1. PICK p : run' = [run EXCEPT ![j].pc = "free", ![j].free = p.free, ![j].copy = p.copy]
        BY <1>3
    <2>2. PICK r : r = [run[j] EXCEPT !.pc = "free", !.free = p.free, !.copy = p.copy]
        OBVIOUS
    <2>3. r.pc = "free" /\ DOMAIN r = {"pc", "target", "free", "copy", "cancelled"}
        BY <2>2, RunLooks
    <2>4. run' = [run EXCEPT ![j] = r]
        BY <2>1, <2>2, RunLooks
    <2> QED
        BY <1>1, <1>3, <2>3, <2>4, RunMoves DEF catalog, disk
<1> QED
    BY <1>2, <1>3 DEF Begin

\* A run has freed what it had to.
LEMMA FreedKeeps == ASSUME RunInv, NEW j \in Runs, Freed(j) PROVE RunInv'
<1>1. PICK r : r = [run[j] EXCEPT !.pc = "copy"]
    OBVIOUS
<1>2. r.pc = "copy" /\ DOMAIN r = {"pc", "target", "free", "copy", "cancelled"}
    BY <1>1, RunLooks
<1>3. run' = [run EXCEPT ![j] = r] /\ ~At(j, "wait") /\ holder' = holder /\ holder = j
    BY <1>1, RunLooks DEF Freed, At
<1> QED
    BY <1>2, <1>3, RunMoves DEF Freed, catalog, disk

\* The next ISO leaves the space, or it is skipped.
LEMMA RecheckKeeps == ASSUME RunInv, NEW j \in Runs, Recheck(j) PROVE RunInv'
<1>1. /\ At(j, "copy") /\ ~At(j, "wait") /\ holder = j
      /\ UNCHANGED <<catalog, disk, holder, crowded>>
    BY RunLooks DEF Recheck, At
<1>2. CASE /\ IsCandidate(Head(run[j].copy))
           /\ FreeBytes - size[Head(run[j].copy)] >= Keep
           /\ run' = [run EXCEPT ![j].pc = "start"]
    <2>1. PICK r : r = [run[j] EXCEPT !.pc = "start"]
        OBVIOUS
    <2>2. /\ r.pc = "start" /\ r.copy = run[j].copy
          /\ DOMAIN r = {"pc", "target", "free", "copy", "cancelled"}
        BY <2>1, RunLooks
    <2>3. run' = [run EXCEPT ![j] = r]
        BY <1>2, <2>1
    <2>4. Head(r.copy) \in Slugs /\ FreeBytes - size[Head(r.copy)] >= Keep
        BY <1>2, <2>2 DEF IsCandidate, RunInv, DiskOK
    <2> QED
        BY <1>1, <2>2, <2>3, <2>4, RunMoves DEF catalog, disk
<1>3. CASE run' = [run EXCEPT ![j].copy = Tail(@)]
    <2>1. PICK r : r = [run[j] EXCEPT !.copy = Tail(@)]
        OBVIOUS
    <2>2. r.pc = "copy" /\ DOMAIN r = {"pc", "target", "free", "copy", "cancelled"}
        BY <1>1, <2>1, RunLooks DEF At
    <2>3. run' = [run EXCEPT ![j] = r]
        BY <1>3, <2>1
    <2> QED
        BY <1>1, <2>2, <2>3, RunMoves DEF catalog, disk
<1> QED
    BY <1>2, <1>3 DEF Recheck

\* A copy has ended, or took too long to wait for it.
LEMMA WaitEndsKeeps ==
    ASSUME RunInv, NEW j \in Runs, Waited(j) \/ WaitExpires(j) PROVE RunInv'
<1>1. PICK r : r = [run[j] EXCEPT !.pc = "copy", !.copy = Tail(@)]
    OBVIOUS
<1>2. r.pc = "copy" /\ DOMAIN r = {"pc", "target", "free", "copy", "cancelled"}
    BY <1>1, RunLooks
<1>3. run' = [run EXCEPT ![j] = r]
    BY <1>1 DEF Waited, WaitExpires
<1>4. /\ holder' = holder /\ At(j, "wait")
      /\ UNCHANGED <<catalog, disk>>
      /\ crowded => crowded'
      /\ crowded' \/ owner[Head(run[j].copy)] # "run"
    BY DEF Waited, WaitExpires
<1>5. holder = j
    BY <1>4, RunLooks DEF At
<1> QED
    BY <1>2, <1>3, <1>4, <1>5, RunMoves DEF catalog, disk

\* A run has copied what it had to.
LEMMA FinishKeeps == ASSUME RunInv, NEW j \in Runs, Finish(j) PROVE RunInv'
BY EndsKeeps DEF Finish, At

\* A run is cancelled: it goes on to its next test.
LEMMA CancelKeeps == ASSUME RunInv, NEW j \in Runs, Cancel(j) PROVE RunInv'
<1>1. PICK r : r = [run[j] EXCEPT !.cancelled = TRUE]
    OBVIOUS
<1>2. /\ r.pc = run[j].pc /\ r.copy = run[j].copy
      /\ DOMAIN r = {"pc", "target", "free", "copy", "cancelled"}
    BY <1>1, RunLooks
<1>3. run' = [run EXCEPT ![j] = r] /\ holder' = holder /\ UNCHANGED <<size, disk, enabled, crowded>>
    BY <1>1 DEF Cancel, Interfere
<1>4. ASSUME r.pc = "start"
      PROVE  /\ Head(r.copy) \in Slugs
             /\ ~crowded => FreeBytes - size[Head(r.copy)] >= Keep
    <2>1. At(j, "start") /\ r.copy = run[j].copy
        BY <1>2, <1>4 DEF At
    <2>2. /\ Head(run[j].copy) \in Slugs
          /\ ~crowded => FreeBytes - size[Head(run[j].copy)] >= Keep
        BY <2>1 DEF RunInv, StartsOne, Alone
    <2> QED
        BY <2>1, <2>2
<1>5. r.pc \in {"none", "new", "free", "copy", "start", "wait"}
      /\ (r.pc \notin {"none", "new"} => holder' = j)
    BY <1>2, <1>3, RunLooks
<1> QED
    BY <1>2, <1>3, <1>4, <1>5, RunMoves DEF disk, At

\* A run frees a copy, while it copies nothing.
LEMMA FreeOneKeeps == ASSUME RunInv, NEW j \in Runs, FreeOne(j) PROVE RunInv'
<1>1. /\ At(j, "free") /\ holder = j
      /\ UNCHANGED <<catalog, capacity, owner, holder, crowded>>
    BY RunLooks DEF FreeOne, At
<1>2. PICK s : s = Head(run[j].free)
    OBVIOUS
<1>3. DiskOK /\ OneRun /\ StartsOne /\ FreeBytes \in Int
    BY FreeBytesType DEF RunInv
<1>4. /\ DiskOK' /\ FreeBytes' \in Int /\ FreeBytes' >= FreeBytes
      /\ \A t \in Slugs : owner[t] # "nobody" => file'[t] = file[t]
    <2>1. CASE IsCached(s)
        <3>1. FreeCopy(s)
            BY <1>2, <2>1 DEF FreeOne
        <3> QED
            BY <1>1, <1>3, <2>1, <3>1, FreeCopyFrees DEF catalog
    <2>2. CASE ~IsCached(s)
        <3>1. UNCHANGED <<status, file, stamp>>
            BY <1>2, <2>2 DEF FreeOne
        <3>2. FreeBytes' = FreeBytes
            BY <1>1, <3>1 DEF FreeBytes
        <3> QED
            BY <1>1, <1>3, <3>1, <3>2 DEF DiskOK, catalog
    <2> QED
        BY <2>1, <2>2
<1>5. PICK r : r = [run[j] EXCEPT !.free = Tail(@)]
    OBVIOUS
<1>6. r.pc = "free" /\ DOMAIN r = {"pc", "target", "free", "copy", "cancelled"}
    BY <1>1, <1>5, RunLooks DEF At
<1>7. run' = [run EXCEPT ![j] = r] /\ DOMAIN run = Runs
    BY <1>5, RunLooks DEF FreeOne
<1>8. /\ DOMAIN run' = Runs /\ run'[j] = r
      /\ \A i \in Runs : i # j => run'[i] = run[i]
    BY <1>7
<1>9. OneRun'
    <2> SUFFICES ASSUME NEW i \in Runs
                 PROVE  /\ DOMAIN run'[i] = {"pc", "target", "free", "copy", "cancelled"}
                        /\ run'[i].pc \in {"none", "new", "free", "copy", "start", "wait"}
                        /\ run'[i].pc \notin {"none", "new"} => holder' = i
        BY <1>8 DEF OneRun
    <2> QED
        BY <1>1, <1>3, <1>6, <1>8 DEF OneRun
<1>10. StartsOne'
    BY <1>3, <1>6, <1>8 DEF StartsOne, At
<1>11. ASSUME ~crowded' PROVE Alone'
    <2>0. Alone
        BY <1>1, <1>11 DEF RunInv
    \* No run waits and none starts, since this one holds the lock.
    <2>1. \A i \in Runs : ~At(i, "wait") /\ ~At(i, "start")
        BY <1>1, <1>3, RunLooks DEF At
    <2>2. \A t \in Slugs : owner[t] = "nobody"
        BY <2>0, <2>1 DEF Alone
    <2>3. \A i \in Runs : run'[i].pc # "start"
        BY <1>6, <1>8, <2>1 DEF At
    <2> QED
        BY <1>1, <2>2, <2>3 DEF Alone, At
<1> QED
    BY <1>4, <1>9, <1>10, <1>11 DEF RunInv

\* A run starts the copy that it has found the space for.
LEMMA StartCopyKeeps == ASSUME RunInv, NEW j \in Runs, StartCopy(j) PROVE RunInv'
<1>1. PICK s : s = Head(run[j].copy)
    OBVIOUS
<1>2. /\ At(j, "start") /\ ~At(j, "wait") /\ holder = j
      /\ UNCHANGED <<catalog, capacity, stamp, file, holder, crowded>>
    BY RunLooks DEF StartCopy, At
<1>3. s \in Slugs
    BY <1>1, <1>2 DEF RunInv, StartsOne
<1>4. CASE status[s] \in {"ready", "copying"}
    <2>1. run' = [run EXCEPT ![j].pc = "copy", ![j].copy = Tail(@)] /\ UNCHANGED <<status, owner>>
        BY <1>1, <1>4 DEF StartCopy
    <2>2. PICK r : r = [run[j] EXCEPT !.pc = "copy", !.copy = Tail(@)]
        OBVIOUS
    <2>3. r.pc = "copy" /\ DOMAIN r = {"pc", "target", "free", "copy", "cancelled"}
        BY <2>2, RunLooks
    <2>4. run' = [run EXCEPT ![j] = r]
        BY <2>1, <2>2
    <2> QED
        BY <1>2, <2>1, <2>3, <2>4, RunMoves DEF catalog
<1>5. CASE status[s] \notin {"ready", "copying"}
    <2>1. run' = [run EXCEPT ![j].pc = "wait"] /\ StartsCopy(s, "run")
        BY <1>1, <1>5 DEF StartCopy
    <2>2. DiskOK /\ OneRun /\ StartsOne /\ FreeBytes \in Int
        BY FreeBytesType DEF RunInv
    <2>3. /\ DOMAIN run = Runs /\ DOMAIN run' = Runs
          /\ \A i \in Runs : i # j => run'[i] = run[i]
        BY <2>1, RunLooks
    <2>4. /\ run'[j].pc = "wait" /\ run'[j].copy = run[j].copy
          /\ DOMAIN run'[j] = {"pc", "target", "free", "copy", "cancelled"}
        BY <2>1, RunLooks
    <2>5. \/ status' = [status EXCEPT ![s] = "error"] /\ owner' = owner
          \/ status' = [status EXCEPT ![s] = "copying"] /\ owner' = [owner EXCEPT ![s] = "run"]
        BY <2>1 DEF StartsCopy
    <2>6. owner[s] = "nobody"
        BY <1>3, <1>5, <2>2 DEF DiskOK
    <2>7. DiskOK'
        <3>1. /\ UNCHANGED <<size, file, capacity, enabled>>
              /\ DOMAIN status' = Slugs /\ DOMAIN stamp' = Slugs
            BY <1>2, <2>2, <2>5 DEF DiskOK, catalog
        <3>2. owner' \in [Slugs -> {"nobody", "run", "user"}]
            BY <2>2, <2>5 DEF DiskOK
        <3>3. \A t \in Slugs : owner'[t] # "nobody" => status'[t] = "copying"
            BY <1>3, <2>2, <2>5, <2>6 DEF DiskOK
        <3> QED
            BY <2>2, <3>1, <3>2, <3>3 DEF DiskOK
    <2>8. OneRun'
        <3> SUFFICES ASSUME NEW i \in Runs
                     PROVE  /\ DOMAIN run'[i] = {"pc", "target", "free", "copy", "cancelled"}
                            /\ run'[i].pc \in {"none", "new", "free", "copy", "start", "wait"}
                            /\ run'[i].pc \notin {"none", "new"} => holder' = i
            BY <2>3 DEF OneRun
        <3> QED
            BY <1>2, <2>2, <2>3, <2>4 DEF OneRun
    <2>9. StartsOne'
        BY <2>2, <2>3, <2>4 DEF StartsOne, At
    <2>10. ASSUME ~crowded' PROVE Alone'
        <3>0. Alone
            BY <1>2, <2>10 DEF RunInv
        <3>1. \A i \in Runs : ~At(i, "wait")
            BY <1>2, RunLooks DEF At
        <3>2. \A t \in Slugs : owner[t] = "nobody"
            BY <3>0, <3>1 DEF Alone
        <3>3. \A i \in Runs : ~(At(i, "start"))'
            <4> SUFFICES ASSUME NEW i \in Runs PROVE run'[i].pc # "start"
                BY DEF At
            <4>1. CASE i = j
                BY <2>4, <4>1
            <4>2. CASE i # j
                BY <1>2, <2>3, <4>2, RunLooks DEF At
            <4> QED
                BY <4>1, <4>2
        <3>4. FreeBytes' = FreeBytes /\ UNCHANGED <<size, file>>
            BY <1>2 DEF FreeBytes, catalog
        <3>5. FreeBytes - (size[s] - file[s]) >= Keep
            <4>1. FreeBytes - size[s] >= Keep
                BY <1>1, <1>2, <3>0 DEF Alone
            <4>2. size[s] \in Nat /\ file[s] \in Nat /\ Keep \in Nat
                BY <1>3, <2>2, AutocacheAssumption DEF DiskOK
            <4> QED
                BY <2>2, <4>1, <4>2
        <3>6. run'[j].pc = "wait" /\ Head(run'[j].copy) = s
            BY <1>1, <2>4
        <3>7. ASSUME NEW t \in Slugs, owner'[t] # "nobody" PROVE t = s /\ owner'[t] = "run"
            BY <1>3, <2>2, <2>5, <3>2, <3>7 DEF DiskOK
        <3> QED
            BY <3>3, <3>4, <3>5, <3>6, <3>7 DEF Alone, At
    <2> QED
        BY <2>7, <2>8, <2>9, <2>10 DEF RunInv
<1> QED
    BY <1>4, <1>5

\* The runs do not move.
LEMMA RunsRest ==
    ASSUME RunInv, UNCHANGED <<run, holder>> PROVE OneRun' /\ StartsOne'
BY DEF RunInv, OneRun, StartsOne, At

\* A copy grows into the space that was found for it.
LEMMA CopyWriteKeeps == ASSUME RunInv, NEW s \in Slugs, CopyWrite(s) PROVE RunInv'
<1>1. /\ owner[s] # "nobody" /\ file[s] < size[s] /\ file' = [file EXCEPT ![s] = @ + 1]
      /\ UNCHANGED <<catalog, capacity, stamp, status, owner, run, holder, crowded>>
    BY DEF CopyWrite
<1>2. DiskOK /\ FreeBytes \in Int /\ file[s] \in Nat /\ size[s] \in Nat
    BY FreeBytesType DEF RunInv, DiskOK
<1>3. PICK v \in Nat : v = file[s] + 1
    BY <1>2
<1>4. file' = [file EXCEPT ![s] = v]
    BY <1>1, <1>3
<1>5. DiskOK'
    <2>1. file' \in [Slugs -> Nat]
        BY <1>2, <1>4 DEF DiskOK
    <2> QED
        BY <1>1, <1>2, <2>1 DEF DiskOK, catalog
<1>6. FreeBytes' = FreeBytes - 1
    <2>1. FreeBytes' = FreeBytes + file[s] - v
        BY <1>1, <1>2, <1>4, FreeBytesUpdate
    <2> QED
        BY <1>2, <1>3, <2>1
<1>7. ASSUME ~crowded' PROVE Alone'
    <2>0. Alone
        BY <1>1, <1>7 DEF RunInv
    <2>1. PICK j \in Runs : At(j, "wait") /\ Head(run[j].copy) = s
        BY <1>1, <2>0 DEF Alone
    <2>2. owner[s] = "run" /\ FreeBytes - (size[s] - file[s]) >= Keep
        BY <1>1, <2>0 DEF Alone
    \* The run that waits holds the lock, so that there is no other copy.
    <2>3. \A i \in Runs : (At(i, "wait") => i = j) /\ ~At(i, "start")
        BY <2>1, RunLooks DEF At
    <2>4. \A t \in Slugs : owner[t] # "nobody" => t = s
        BY <2>0, <2>1, <2>3 DEF Alone
    <2>5. FreeBytes' - (size[s] - file'[s]) >= Keep
        <3>1. file'[s] = file[s] + 1
            BY <1>2, <1>3, <1>4 DEF DiskOK
        <3>2. Keep \in Nat
            BY AutocacheAssumption
        <3> QED
            BY <1>2, <1>6, <2>2, <3>1, <3>2
    <2> QED
        BY <1>1, <2>1, <2>2, <2>3, <2>4, <2>5 DEF Alone, At, catalog
<1> QED
    BY <1>1, <1>5, <1>7, RunsRest DEF RunInv

\* A copy ends, and if it failed its space is free again.
LEMMA CopyEndsKeeps ==
    ASSUME RunInv, NEW s \in Slugs, CopyReady(s) \/ CopyFails(s) PROVE RunInv'
<1>1. /\ DOMAIN status' = DOMAIN status /\ DOMAIN stamp' = DOMAIN stamp
      /\ owner[s] # "nobody" /\ owner' = [owner EXCEPT ![s] = "nobody"]
      /\ file' = file \/ file' = [file EXCEPT ![s] = 0]
      /\ UNCHANGED <<catalog, capacity, run, holder, crowded>>
    BY DEF CopyReady, CopyFails
<1>2. \A t \in Slugs : t # s => status'[t] = status[t]
    BY DEF CopyReady, CopyFails, RunInv, DiskOK
<1>3. DiskOK /\ FreeBytes \in Int /\ file[s] \in Nat
    BY FreeBytesType DEF RunInv, DiskOK
<1>4. owner'[s] = "nobody" /\ \A t \in Slugs : t # s => owner'[t] = owner[t] /\ file'[t] = file[t]
    BY <1>1, <1>3 DEF DiskOK
<1>5. DiskOK'
    <2>1. file' \in [Slugs -> Nat]
        BY <1>1, <1>3 DEF DiskOK
    <2>2. owner' \in [Slugs -> {"nobody", "run", "user"}]
        BY <1>1, <1>3 DEF DiskOK
    <2>3. \A t \in Slugs : owner'[t] # "nobody" => status'[t] = "copying"
        BY <1>2, <1>3, <1>4 DEF DiskOK
    <2> QED
        BY <1>1, <1>3, <2>1, <2>2, <2>3 DEF DiskOK, catalog
<1>6. FreeBytes' \in Int /\ FreeBytes' >= FreeBytes
    <2>1. CASE file' = file
        BY <1>1, <1>3, <2>1 DEF FreeBytes
    <2>2. CASE file' = [file EXCEPT ![s] = 0]
        <3>1. FreeBytes' = FreeBytes + file[s] - 0
            BY <1>1, <1>3, <2>2, FreeBytesUpdate
        <3> QED
            BY <1>3, <3>1
    <2> QED
        BY <1>1, <2>1, <2>2
<1>7. ASSUME ~crowded' PROVE Alone'
    <2>0. Alone
        BY <1>1, <1>7 DEF RunInv
    <2>n. Keep \in Nat /\ \A t \in Slugs : size[t] \in Nat /\ file[t] \in Nat
        BY <1>3, AutocacheAssumption DEF DiskOK
    <2>1. ASSUME NEW t \in Slugs, owner'[t] # "nobody"
          PROVE  /\ owner'[t] = "run" /\ FreeBytes' - (size'[t] - file'[t]) >= Keep
                 /\ \E i \in Runs : run'[i].pc = "wait" /\ Head(run'[i].copy) = t
        <3>1. t # s /\ owner'[t] = owner[t] /\ file'[t] = file[t] /\ size'[t] = size[t]
            BY <1>1, <1>4, <2>1 DEF catalog
        <3>2. /\ owner[t] = "run" /\ FreeBytes - (size[t] - file[t]) >= Keep
              /\ \E i \in Runs : run[i].pc = "wait" /\ Head(run[i].copy) = t
            BY <2>0, <2>1, <3>1 DEF Alone, At
        <3>3. FreeBytes' - (size[t] - file[t]) >= Keep
            BY <1>3, <1>6, <2>n, <3>2
        <3> QED
            BY <1>1, <3>1, <3>2, <3>3
    <2>2. ASSUME NEW i \in Runs, run'[i].pc = "start"
          PROVE  FreeBytes' - size'[Head(run'[i].copy)] >= Keep
        <3>1. FreeBytes - size[Head(run[i].copy)] >= Keep /\ Head(run[i].copy) \in Slugs
            BY <1>1, <2>0, <2>2 DEF Alone, At, RunInv, StartsOne
        <3>2. FreeBytes' - size[Head(run[i].copy)] >= Keep
            BY <1>3, <1>6, <2>n, <3>1
        <3> QED
            BY <1>1, <3>2 DEF catalog
    <2> QED
        BY <2>1, <2>2 DEF Alone, At
<1> QED
    BY <1>1, <1>5, <1>7, RunsRest DEF RunInv

\* The copies of users are beyond the runs' control.
LEMMA UserCopyKeeps == ASSUME RunInv, NEW s \in Slugs, UserCopy(s) PROVE RunInv'
<1>1. /\ crowded' /\ StartsCopy(s, "user")
      /\ UNCHANGED <<size, capacity, stamp, file, enabled, run, holder>>
    BY DEF UserCopy, Interfere
<1>2. DiskOK
    BY DEF RunInv
<1>3. \/ status' = [status EXCEPT ![s] = "error"] /\ owner' = owner
      \/ status' = [status EXCEPT ![s] = "copying"] /\ owner' = [owner EXCEPT ![s] = "user"]
    BY <1>1 DEF StartsCopy
<1>4. owner[s] = "nobody"
    BY <1>2 DEF DiskOK, UserCopy
<1>5. DiskOK'
    <2>1. DOMAIN status' = Slugs /\ DOMAIN stamp' = Slugs
        BY <1>1, <1>2, <1>3 DEF DiskOK
    <2>2. owner' \in [Slugs -> {"nobody", "run", "user"}]
        BY <1>2, <1>3 DEF DiskOK
    <2>3. \A t \in Slugs : owner'[t] # "nobody" => status'[t] = "copying"
        BY <1>2, <1>3, <1>4 DEF DiskOK
    <2> QED
        BY <1>1, <1>2, <2>1, <2>2, <2>3 DEF DiskOK
<1> QED
    BY <1>1, <1>5, RunsRest DEF RunInv

\* A user frees a copy, and there is more space.
LEMMA UserFreeKeeps == ASSUME RunInv, NEW s \in Slugs, UserFree(s) PROVE RunInv'
<1>1. /\ IsCached(s) /\ FreeCopy(s)
      /\ UNCHANGED <<size, capacity, owner, enabled, run, holder, crowded>>
    BY DEF UserFree, Interfere
<1>2. DiskOK /\ FreeBytes \in Int
    BY FreeBytesType DEF RunInv
<1>3. /\ DiskOK' /\ FreeBytes' \in Int /\ FreeBytes' >= FreeBytes
      /\ \A t \in Slugs : owner[t] # "nobody" => file'[t] = file[t]
    BY <1>1, <1>2, FreeCopyFrees
<1>4. ASSUME ~crowded' PROVE Alone'
    <2>0. Alone
        BY <1>1, <1>4 DEF RunInv
    <2>n. Keep \in Nat /\ \A t \in Slugs : size[t] \in Nat /\ file[t] \in Nat
        BY <1>2, AutocacheAssumption DEF DiskOK
    <2>1. ASSUME NEW t \in Slugs, owner[t] # "nobody"
          PROVE  owner[t] = "run" /\ FreeBytes' - (size[t] - file'[t]) >= Keep
        <3>1. file'[t] = file[t] /\ owner[t] = "run" /\ FreeBytes - (size[t] - file[t]) >= Keep
            BY <1>3, <2>0, <2>1 DEF Alone
        <3> QED
            BY <1>2, <1>3, <2>n, <3>1
    <2>2. ASSUME NEW i \in Runs, At(i, "start")
          PROVE  FreeBytes' - size[Head(run[i].copy)] >= Keep
        <3>1. FreeBytes - size[Head(run[i].copy)] >= Keep /\ Head(run[i].copy) \in Slugs
            BY <2>0, <2>2 DEF Alone, RunInv, StartsOne
        <3> QED
            BY <1>2, <1>3, <2>n, <3>1
    <2> QED
        BY <1>1, <2>0, <2>1, <2>2 DEF Alone, At
<1> QED
    BY <1>1, <1>3, <1>4, RunsRest DEF RunInv

-----------------------------------------------------------------------------
\* Every step keeps the invariant.
LEMMA RunInvStep == RunInv /\ [Next]_vars => RunInv'
<1> SUFFICES ASSUME RunInv, [Next]_vars PROVE RunInv'
    OBVIOUS
<1>e. enabled \subseteq Slugs
    BY DEF RunInv, DiskOK
<1>1. CASE \E u \in Users : StartCheck(u) \/ StartJob(u)
    <2>1. PICK u \in Users : StartCheck(u) \/ StartJob(u)
        BY <1>1
    <2>2. CASE StartCheck(u)
        BY <1>e, <2>2, NothingMoves DEF StartCheck, catalog, disk
    <2>3. CASE StartJob(u)
        BY <2>3, NewRunKeeps DEF StartJob
    <2> QED
        BY <2>1, <2>2, <2>3
<1>2. CASE Tick
    BY <1>2, NewRunKeeps DEF Tick
<1>3. CASE \E j \in Runs : RunStep(j) \/ WaitExpires(j) \/ Cancel(j)
    <2>1. PICK j \in Runs : RunStep(j) \/ WaitExpires(j) \/ Cancel(j)
        BY <1>3
    <2>2. CASE Begin(j)
        BY <2>2, BeginKeeps
    <2>3. CASE FreeOne(j)
        BY <2>3, FreeOneKeeps
    <2>4. CASE Freed(j)
        BY <2>4, FreedKeeps
    <2>5. CASE Recheck(j)
        BY <2>5, RecheckKeeps
    <2>6. CASE StartCopy(j)
        BY <2>6, StartCopyKeeps
    <2>7. CASE Waited(j) \/ WaitExpires(j)
        BY <2>7, WaitEndsKeeps
    <2>8. CASE Finish(j)
        BY <2>8, FinishKeeps
    <2>9. CASE Cancel(j)
        BY <2>9, CancelKeeps
    <2> QED
        BY <2>1, <2>2, <2>3, <2>4, <2>5, <2>6, <2>7, <2>8, <2>9 DEF RunStep
<1>4. CASE \E s \in Slugs : \/ CopyStep(s) \/ Toggle(s) \/ BootIso(s) \/ Share(s)
                            \/ UserCopy(s) \/ UserFree(s)
    <2>1. PICK s \in Slugs : \/ CopyStep(s) \/ Toggle(s) \/ BootIso(s) \/ Share(s)
                             \/ UserCopy(s) \/ UserFree(s)
        BY <1>4
    <2>2. CASE CopyWrite(s)
        BY <2>2, CopyWriteKeeps
    <2>3. CASE CopyReady(s) \/ CopyFails(s)
        BY <2>3, CopyEndsKeeps
    <2>4. CASE Toggle(s)
        <3>1. enabled' \subseteq Slugs
            BY <1>e, <2>4 DEF Toggle, Flip
        <3>2. UNCHANGED <<run, holder, size, capacity, file, owner, status, stamp, crowded>>
            BY <2>4 DEF Toggle, Interfere, disk
        <3> QED
            BY <3>1, <3>2, NothingMoves
    <2>5. CASE BootIso(s) \/ Share(s)
        <3>1. UNCHANGED <<enabled, run, holder, size, capacity, file, owner, status, stamp,
                          crowded>>
            BY <2>5 DEF BootIso, Share, Interfere, disk
        <3> QED
            BY <1>e, <3>1, NothingMoves
    <2>6. CASE UserCopy(s)
        BY <2>6, UserCopyKeeps
    <2>7. CASE UserFree(s)
        BY <2>7, UserFreeKeeps
    <2> QED
        BY <2>1, <2>2, <2>3, <2>4, <2>5, <2>6, <2>7 DEF CopyStep
<1>5. CASE UNCHANGED vars
    <2>1. UNCHANGED <<enabled, run, holder, size, capacity, file, owner, status, stamp, crowded>>
        BY <1>5 DEF vars, catalog, disk
    <2> QED
        BY <1>e, <2>1, NothingMoves
<1> QED
    BY <1>1, <1>2, <1>3, <1>4, <1>5 DEF Next

\* The invariant of the runs holds throughout.
LEMMA RunInvariant == Spec => []RunInv
BY InitRunInv, RunInvStep, PTL DEF Spec

(* The copies that a run makes leave keep_free_gb free to their last byte, *)
(* for any ISOs, any disk and any number of runs.                          *)
THEOREM RunsKeepTheSpace == Spec => []RunsLeaveKeepFree
<1>1. RunInv => RunsLeaveKeepFree
    BY DEF RunInv, Alone, RunsLeaveKeepFree
<1> QED
    BY RunInvariant, <1>1, PTL

-----------------------------------------------------------------------------
(* The orders of the victims and of the candidates.                        *)

\* The times of the boots and of the copies.
TimesOK == booted \in [Slugs -> Nat] /\ stamp \in [Slugs -> Nat]

Cached == {s \in Slugs : IsCached(s)}
Worth  == {s \in Slugs : IsCandidate(s)}
FreeOrder == {p \in Slugs \X Slugs : FreeBefore(p[1], p[2])}
CopyOrder == {p \in Slugs \X Slugs : CopyBefore(p[1], p[2])}

\* The orders of the victims and of the candidates are strict and total.
LEMMA OrdersAreTotal ==
    ASSUME TimesOK, size \in [Slugs -> Nat], NEW S \in SUBSET Slugs
    PROVE  TotalOrder(S, FreeOrder) /\ TotalOrder(S, CopyOrder)
<1>1. \A s \in S : s \in Slugs /\ s \in Nat /\ size[s] \in Nat /\ booted[s] \in Nat
                   /\ LastUse(s) \in Nat
    BY AutocacheAssumption DEF TimesOK, LastUse
<1>2. \A s, t \in S : /\ <<s, t>> \in FreeOrder <=> FreeBefore(s, t)
                      /\ <<s, t>> \in CopyOrder <=> CopyBefore(s, t)
    BY <1>1 DEF FreeOrder, CopyOrder
<1>3. TotalOrder(S, FreeOrder)
    <2>1. \A s \in S : ~FreeBefore(s, s)
        BY <1>1 DEF FreeBefore
    <2>2. \A s, t \in S : s # t => FreeBefore(s, t) \/ FreeBefore(t, s)
        BY <1>1 DEF FreeBefore
    <2>3. \A s, t, u \in S : FreeBefore(s, t) /\ FreeBefore(t, u) => FreeBefore(s, u)
        BY <1>1 DEF FreeBefore
    <2> QED
        BY <1>2, <2>1, <2>2, <2>3 DEF TotalOrder
<1>4. TotalOrder(S, CopyOrder)
    <2>1. \A s \in S : ~CopyBefore(s, s)
        BY <1>1 DEF CopyBefore
    <2>2. \A s, t \in S : s # t => CopyBefore(s, t) \/ CopyBefore(t, s)
        BY <1>1 DEF CopyBefore
    <2>3. \A s, t, u \in S : CopyBefore(s, t) /\ CopyBefore(t, u) => CopyBefore(s, u)
        BY <1>1 DEF CopyBefore
    <2> QED
        BY <1>2, <2>1, <2>2, <2>3 DEF TotalOrder
<1> QED
    BY <1>3, <1>4

\* The victims and the candidates, in their orders.
LEMMA VictimsAreSorted ==
    ASSUME TimesOK, size \in [Slugs -> Nat]
    PROVE  /\ Sorted(Victims, Cached, FreeOrder)
           /\ Sorted(Candidates, Worth, CopyOrder)
<1>1. IsFiniteSet(Slugs) /\ Cached \in SUBSET Slugs /\ Worth \in SUBSET Slugs
    BY AutocacheAssumption DEF Cached, Worth
<1>2. IsFiniteSet(Cached) /\ IsFiniteSet(Worth)
    BY <1>1, FS_Subset
<1>3. /\ \A s \in Cached : {t \in Cached : FreeBefore(t, s)} = Before(Cached, FreeOrder, s)
      /\ \A s \in Worth : {t \in Worth : CopyBefore(t, s)} = Before(Worth, CopyOrder, s)
    BY <1>1 DEF Before, FreeOrder, CopyOrder
<1>4. Sorted(Victims, Cached, FreeOrder)
    <2> DEFINE nth(n) ==
                 CHOOSE s \in Cached : Cardinality({t \in Cached : FreeBefore(t, s)}) = n - 1
    <2>1. Victims = [n \in 1..Cardinality(Cached) |-> nth(n)]
        BY DEF Victims, Ordered, Cached
    <2>2. PICK R : R = FreeOrder
        OBVIOUS
    <2>3. PICK S : S = Cached
        OBVIOUS
    <2>4. TotalOrder(S, R) /\ IsFiniteSet(S)
        BY <1>1, <1>2, <2>2, <2>3, OrdersAreTotal
    <2>5. \A n \in 1..Cardinality(S) : \E s \in S : Cardinality(Before(S, R, s)) = n - 1
        BY <2>4, RanksAreTaken
    <2>6. ASSUME NEW n \in 1..Cardinality(S)
          PROVE  Victims[n] \in S /\ Cardinality(Before(S, R, Victims[n])) = n - 1
        <3>1. \E s \in Cached : Cardinality({t \in Cached : FreeBefore(t, s)}) = n - 1
            BY <1>3, <2>2, <2>3, <2>5
        <3>2. PICK v : v = Victims[n]
            OBVIOUS
        <3>3. v \in Cached /\ Cardinality({t \in Cached : FreeBefore(t, v)}) = n - 1
            BY <2>1, <2>3, <3>1, <3>2
        <3> QED
            BY <1>3, <2>2, <2>3, <3>2, <3>3
    <2>7. PICK V : V = Victims
        OBVIOUS
    <2>8. V = [n \in 1..Cardinality(S) |-> V[n]]
        <3> HIDE DEF nth
        <3> QED
            BY <2>1, <2>3, <2>7
    <2>9. Sorted(V, S, R)
        BY <2>4, <2>6, <2>7, <2>8, RankedIsSorted
    <2> QED
        BY <2>2, <2>3, <2>7, <2>9
<1>5. Sorted(Candidates, Worth, CopyOrder)
    <2> DEFINE nth(n) ==
                 CHOOSE s \in Worth : Cardinality({t \in Worth : CopyBefore(t, s)}) = n - 1
    <2>1. Candidates = [n \in 1..Cardinality(Worth) |-> nth(n)]
        BY DEF Candidates, Ordered, Worth
    <2>2. PICK R : R = CopyOrder
        OBVIOUS
    <2>3. PICK S : S = Worth
        OBVIOUS
    <2>4. TotalOrder(S, R) /\ IsFiniteSet(S)
        BY <1>1, <1>2, <2>2, <2>3, OrdersAreTotal
    <2>5. \A n \in 1..Cardinality(S) : \E s \in S : Cardinality(Before(S, R, s)) = n - 1
        BY <2>4, RanksAreTaken
    <2>6. ASSUME NEW n \in 1..Cardinality(S)
          PROVE  Candidates[n] \in S /\ Cardinality(Before(S, R, Candidates[n])) = n - 1
        <3>1. \E s \in Worth : Cardinality({t \in Worth : CopyBefore(t, s)}) = n - 1
            BY <1>3, <2>2, <2>3, <2>5
        <3>2. PICK v : v = Candidates[n]
            OBVIOUS
        <3>3. v \in Worth /\ Cardinality({t \in Worth : CopyBefore(t, v)}) = n - 1
            BY <2>1, <2>3, <3>1, <3>2
        <3> QED
            BY <1>3, <2>2, <2>3, <3>2, <3>3
    <2>7. PICK V : V = Candidates
        OBVIOUS
    <2>8. V = [n \in 1..Cardinality(S) |-> V[n]]
        <3> HIDE DEF nth
        <3> QED
            BY <2>1, <2>3, <2>7
    <2>9. Sorted(V, S, R)
        BY <2>4, <2>6, <2>7, <2>8, RankedIsSorted
    <2> QED
        BY <2>2, <2>3, <2>7, <2>9
<1> QED
    BY <1>4, <1>5

-----------------------------------------------------------------------------
\* The space that victims take grows with their number.
LEMMA FreeingGrows ==
    ASSUME size \in [Slugs -> Nat], NEW V \in Seq(Slugs),
           NEW k \in 0..Len(V), NEW n \in k..Len(V)
    PROVE  /\ Freeing(V, k) \in Nat /\ Freeing(V, n) \in Nat
           /\ Freeing(V, k) <= Freeing(V, n)
<1>1. PICK f : f = size
    OBVIOUS
<1>2. PICK T : T = {V[i] : i \in 1..k}
    OBVIOUS
<1>3. PICK S : S = {V[i] : i \in 1..n}
    OBVIOUS
<1>4. T \in SUBSET S /\ S \in SUBSET Slugs
    BY <1>2, <1>3, ElementOfSeq
<1>5. IsFiniteSet(S) /\ IsFiniteSet(T)
    BY <1>4, FS_Subset, AutocacheAssumption
<1>6. \A s \in S : f[s] \in Nat
    BY <1>1, <1>4
<1>7. Total(T, f) <= Total(S, f) /\ Total(T, f) \in Nat /\ Total(S, f) \in Nat
    BY <1>4, <1>5, <1>6, TotalIs, SigmaMore, SigmaNat
<1> QED
    BY <1>1, <1>2, <1>3, <1>7 DEF Freeing

\* As few victims as it takes, and all when that is not enough.
LEMMA EvictRight ==
    ASSUME size \in [Slugs -> Nat], NEW V \in Seq(Slugs), NEW n \in 0..Len(V),
           NEW avail \in Int, NEW need \in Int, NEW e, e = Evict(V, n, avail, need)
    PROVE  /\ e \in n..Len(V) /\ e \in 0..Len(V)
           /\ avail + Freeing(V, e) >= need \/ e = Len(V)
           /\ e > n => e - 1 \in 0..Len(V) /\ avail + Freeing(V, e - 1) < need
<1> DEFINE enough == {k \in n..Len(V) : avail + Freeing(V, k) >= need}
<1>1. Len(V) \in Nat /\ n \in Nat /\ n <= Len(V)
    OBVIOUS
<1>2. e = IF enough = {} THEN Len(V) ELSE Min(enough)
    BY DEF Evict
<1>3. ASSUME enough # {} PROVE e \in enough /\ \A k \in enough : e <= k
    <2>1. PICK I : I = enough
        OBVIOUS
    <2>2. I \in SUBSET (0..Len(V)) /\ I # {}
        BY <1>1, <1>3, <2>1
    <2>3. Min(I) \in I /\ \A i \in I : Min(I) <= i
        BY <1>1, <2>2, FirstAndLast
    <2> HIDE DEF enough
    <2> QED
        BY <1>2, <1>3, <2>1, <2>3
<1>4. e \in n..Len(V) /\ e \in 0..Len(V)
    <2>1. CASE enough = {}
        BY <1>1, <1>2, <2>1
    <2>2. CASE enough # {}
        BY <1>1, <1>3, <2>2
    <2> QED
        BY <2>1, <2>2
<1>5. avail + Freeing(V, e) >= need \/ e = Len(V)
    BY <1>2, <1>3
<1>6. ASSUME e > n PROVE e - 1 \in 0..Len(V) /\ avail + Freeing(V, e - 1) < need
    <2>1. PICK d : d = e - 1
        OBVIOUS
    <2>2. d \in n..Len(V) /\ d \in 0..Len(V) /\ d < e
        BY <1>1, <1>4, <1>6, <2>1
    <2>3. d \notin enough
        <3>1. ASSUME d \in enough PROVE FALSE
            <4>1. e <= d
                BY <1>3, <3>1
            <4> QED
                BY <1>1, <1>4, <2>2, <4>1
        <3> QED
            BY <3>1
    <2>4. Freeing(V, d) \in Nat
        BY <1>1, <2>2, FreeingGrows
    <2> QED
        BY <2>1, <2>2, <2>3, <2>4
<1> QED
    BY <1>4, <1>5, <1>6

\* The plan under way: what is freed of V, what is copied, and the space.
IsPlan(a, V) ==
    /\ DOMAIN a = {"victims", "n", "avail", "copy"}
    /\ a.victims = V /\ a.n \in 0..Len(V)
    /\ a.avail \in Int /\ a.copy \in Seq(Slugs)

\* One candidate more.
LEMMA ConsiderOne ==
    ASSUME size \in [Slugs -> Nat], NEW V \in Seq(Slugs), NEW a, IsPlan(a, V),
           NEW s \in Slugs, NEW r, r = Consider(a, s)
    PROVE  /\ IsPlan(r, V) /\ r.n = Evict(V, a.n, a.avail, size[s])
           /\ \/ /\ a.avail + Freeing(V, r.n) >= size[s]
                 /\ r.avail = a.avail - size[s] /\ r.copy = Append(a.copy, s)
              \/ /\ ~(a.avail + Freeing(V, r.n) >= size[s])
                 /\ r.avail = a.avail /\ r.copy = a.copy
<1>1. PICK q : q = [a EXCEPT !.n = Evict(a.victims, @, a.avail, size[s])]
    OBVIOUS
<1>2. r = Take(q, s)
    <2>1. q = Planned(a, s)
        BY <1>1 DEF Planned
    <2>2. {Planned(p, s) : p \in {a}} = {q}
        BY <2>1
    <2>3. {Take(x, s) : x \in {q}} = {Take(q, s)}
        OBVIOUS
    <2> QED
        BY <2>2, <2>3 DEF Consider
<1>3. PICK e : e = Evict(V, a.n, a.avail, size[s])
    OBVIOUS
<1>4. size[s] \in Nat /\ size[s] \in Int
    OBVIOUS
<1>5. e \in 0..Len(V)
    BY <1>3, <1>4, EvictRight DEF IsPlan
<1>6. /\ q.victims = V /\ q.n = e /\ q.avail = a.avail /\ q.copy = a.copy
      /\ DOMAIN q = {"victims", "n", "avail", "copy"}
    BY <1>1, <1>3 DEF IsPlan
<1>7. CASE q.avail + Freeing(q.victims, q.n) >= size[s]
    <2>1. r = [q EXCEPT !.avail = @ - size[s], !.copy = Append(@, s)]
        BY <1>2, <1>7 DEF Take
    <2>2. /\ r.victims = V /\ r.n = e /\ r.avail = a.avail - size[s]
          /\ r.copy = Append(a.copy, s) /\ DOMAIN r = {"victims", "n", "avail", "copy"}
        BY <1>6, <2>1
    <2>3. r.avail \in Int
        BY <1>4, <2>2 DEF IsPlan
    <2>4. r.copy \in Seq(Slugs)
        BY <2>2 DEF IsPlan
    <2> QED
        BY <1>3, <1>5, <1>6, <1>7, <2>2, <2>3, <2>4 DEF IsPlan
<1>8. CASE ~(q.avail + Freeing(q.victims, q.n) >= size[s])
    <2>1. r = q
        BY <1>2, <1>8 DEF Take
    <2> QED
        BY <1>3, <1>5, <1>6, <1>8, <2>1 DEF IsPlan
<1> QED
    BY <1>7, <1>8

\* What is in a sequence with one element more.
LEMMA OneMore ==
    ASSUME NEW T, NEW c \in Seq(T), NEW s
    PROVE  /\ ToSet(Append(c, s)) = ToSet(c) \cup {s}
           /\ c # <<>> => ToSet(c) # {}
           /\ c = <<>> => ToSet(c) = {}
<1>1. Len(c) \in Nat /\ DOMAIN c = 1..Len(c)
    OBVIOUS
<1>2. PICK d : d = Append(c, s)
    OBVIOUS
<1>3. /\ DOMAIN d = 1..Len(c) + 1 /\ d[Len(c) + 1] = s
      /\ \A i \in 1..Len(c) : d[i] = c[i]
    BY <1>2
<1>4. ToSet(d) = ToSet(c) \cup {s}
    <2>1. \A x \in ToSet(d) : x \in ToSet(c) \cup {s}
        <3> SUFFICES ASSUME NEW i \in 1..Len(c) + 1 PROVE d[i] \in ToSet(c) \cup {s}
            BY <1>3 DEF ToSet
        <3>1. CASE i = Len(c) + 1
            BY <1>3, <3>1
        <3>2. CASE i # Len(c) + 1
            <4>1. i \in 1..Len(c)
                BY <1>1, <3>2
            <4> QED
                BY <1>1, <1>3, <4>1 DEF ToSet
        <3> QED
            BY <3>1, <3>2
    <2>2. \A i \in 1..Len(c) : c[i] \in ToSet(d)
        <3>1. \A i \in 1..Len(c) : i \in DOMAIN d
            BY <1>1, <1>3
        <3> QED
            BY <1>3, <3>1 DEF ToSet
    <2>3. s \in ToSet(d)
        <3>1. Len(c) + 1 \in DOMAIN d
            BY <1>1, <1>3
        <3> QED
            BY <1>3, <3>1 DEF ToSet
    <2> QED
        BY <1>1, <2>1, <2>2, <2>3 DEF ToSet
<1>5. c # <<>> => ToSet(c) # {}
    <2>1. c # <<>> => 1 \in DOMAIN c
        OBVIOUS
    <2> QED
        BY <2>1 DEF ToSet
<1>6. c = <<>> => ToSet(c) = {}
    <2>1. DOMAIN <<>> = {}
        OBVIOUS
    <2> QED
        BY <2>1 DEF ToSet
<1> QED
    BY <1>2, <1>4, <1>5, <1>6

-----------------------------------------------------------------------------
\* The plan for the first k candidates cs, on a disk with base to spare.
PlanUpto(a, V, cs, base, k) ==
    LET C == ToSet(a.copy)
    IN  /\ IsPlan(a, V)
        /\ \A s \in C : \E i \in 1..k : cs[i] = s
        /\ a.avail = base - Total(C, size)
        /\ C # {} => a.avail + Freeing(V, a.n) >= 0
        /\ \A i \in 1..k : cs[i] \notin C => a.avail + Freeing(V, Len(V)) < size[cs[i]]
        /\ a.n > 0 /\ (\A i \in 1..k : cs[i] \in C) => a.avail + Freeing(V, a.n - 1) < 0

\* The plan stays right with one candidate more.
LEMMA PlanGrows ==
    ASSUME size \in [Slugs -> Nat], NEW V \in Seq(Slugs), NEW cs \in Seq(Slugs),
           \A i, j \in 1..Len(cs) : i # j => cs[i] # cs[j],
           NEW base \in Int, NEW k \in Nat, k < Len(cs),
           NEW a, PlanUpto(a, V, cs, base, k), NEW r, r = Consider(a, cs[k + 1])
    PROVE  PlanUpto(r, V, cs, base, k + 1)
<1>1. k + 1 \in 1..Len(cs) /\ \A i \in 1..k : i \in 1..Len(cs) /\ i # k + 1
    OBVIOUS
<1>2. PICK s \in Slugs : s = cs[k + 1]
    BY <1>1, ElementOfSeq
<1>3. PICK C : C = ToSet(a.copy)
    OBVIOUS
<1>4. PICK D : D = ToSet(r.copy)
    OBVIOUS
<1>5. size[s] \in Nat /\ size[s] \in Int /\ Len(V) \in Nat
    OBVIOUS
<1>6. /\ IsPlan(a, V) /\ a.n \in 0..Len(V) /\ a.avail \in Int /\ a.copy \in Seq(Slugs)
      /\ \A t \in C : \E i \in 1..k : cs[i] = t
      /\ a.avail = base - Total(C, size)
      /\ C # {} => a.avail + Freeing(V, a.n) >= 0
      /\ \A i \in 1..k : cs[i] \notin C => a.avail + Freeing(V, Len(V)) < size[cs[i]]
      /\ a.n > 0 /\ (\A i \in 1..k : cs[i] \in C) => a.avail + Freeing(V, a.n - 1) < 0
    BY <1>3 DEF PlanUpto, IsPlan
<1>7. /\ IsPlan(r, V) /\ r.n = Evict(V, a.n, a.avail, size[s])
      /\ \/ /\ a.avail + Freeing(V, r.n) >= size[s]
            /\ r.avail = a.avail - size[s] /\ r.copy = Append(a.copy, s)
         \/ /\ ~(a.avail + Freeing(V, r.n) >= size[s])
            /\ r.avail = a.avail /\ r.copy = a.copy
    <2>1. r = Consider(a, s) /\ IsPlan(a, V)
        BY <1>2, <1>6
    <2> QED
        BY <2>1, ConsiderOne
<1>8. /\ r.n \in a.n..Len(V) /\ r.n \in 0..Len(V)
      /\ a.avail + Freeing(V, r.n) >= size[s] \/ r.n = Len(V)
      /\ r.n > a.n => r.n - 1 \in 0..Len(V) /\ a.avail + Freeing(V, r.n - 1) < size[s]
    <2>1. PICK e : e = r.n
        OBVIOUS
    <2>2. PICK n \in 0..Len(V) : n = a.n
        BY <1>6
    <2>3. PICK v \in Int : v = a.avail
        BY <1>6
    <2>4. e = Evict(V, n, v, size[s])
        BY <1>7, <2>1, <2>2, <2>3
    <2>5. /\ e \in n..Len(V) /\ e \in 0..Len(V)
          /\ v + Freeing(V, e) >= size[s] \/ e = Len(V)
          /\ e > n => e - 1 \in 0..Len(V) /\ v + Freeing(V, e - 1) < size[s]
        BY <1>5, <2>4, EvictRight
    <2> QED
        BY <2>1, <2>2, <2>3, <2>5
<1>9. \A n \in 0..Len(V) : Freeing(V, n) \in Nat
    <2> SUFFICES ASSUME NEW n \in 0..Len(V) PROVE Freeing(V, n) \in Nat
        OBVIOUS
    <2>1. n \in n..Len(V)
        BY <1>5
    <2> QED
        BY <2>1, FreeingGrows
<1>10. Freeing(V, a.n) <= Freeing(V, r.n)
    BY <1>6, <1>8, FreeingGrows
<1>11. s \notin C /\ C \in SUBSET Slugs /\ IsFiniteSet(C)
    <2>1. s \notin C
        BY <1>1, <1>2, <1>6
    <2>2. C \in SUBSET Slugs
        <3> SUFFICES ASSUME NEW t \in C PROVE t \in Slugs
            OBVIOUS
        <3>1. PICK i \in 1..k : cs[i] = t
            BY <1>6
        <3> QED
            BY <1>1, <3>1, ElementOfSeq
    <2> QED
        BY <2>1, <2>2, FS_Subset, AutocacheAssumption
<1>12. Freeing(V, Len(V)) \in Nat /\ Freeing(V, a.n) \in Nat /\ Freeing(V, r.n) \in Nat
    <2>1. Len(V) \in 0..Len(V)
        BY <1>5
    <2> QED
        BY <1>6, <1>8, <1>9, <2>1
<1>13. \A i \in 1..k : size[cs[i]] \in Nat
    <2> SUFFICES ASSUME NEW i \in 1..k PROVE size[cs[i]] \in Nat
        OBVIOUS
    <2>1. cs[i] \in Slugs
        BY <1>1, ElementOfSeq
    <2> QED
        BY <2>1
<1>14. 1..k + 1 = (1..k) \cup {k + 1}
    OBVIOUS
<1>15. CASE /\ a.avail + Freeing(V, r.n) >= size[s]
            /\ r.avail = a.avail - size[s] /\ r.copy = Append(a.copy, s)
    <2>1. D = C \cup {s}
        BY <1>3, <1>4, <1>6, <1>15, OneMore
    <2>2. r.avail = base - Total(D, size)
        <3>1. PICK f : f = size
            OBVIOUS
        <3>2. D \in SUBSET Slugs /\ s \in D /\ D \ {s} = C
            BY <1>11, <2>1
        <3>3. IsFiniteSet(D) /\ \A t \in D : f[t] \in Nat
            BY <3>1, <3>2, FS_Subset, AutocacheAssumption
        <3>4. Total(D, f) = f[s] + Total(C, f) /\ Total(C, f) \in Nat
            <4>1. Total(D, f) = f[s] + Total(D \ {s}, f)
                BY <3>2, <3>3, TotalIs, SigmaRemove
            <4>2. \A t \in C : f[t] \in Nat
                BY <2>1, <3>3
            <4>3. Total(C, f) \in Nat
                BY <1>11, <4>2, TotalIs, SigmaNat
            <4> QED
                BY <3>2, <4>1, <4>3
        <3> QED
            BY <1>5, <1>6, <1>15, <3>1, <3>4
    <2>3. r.avail + Freeing(V, r.n) >= 0
        BY <1>5, <1>6, <1>12, <1>15
    <2>4. \A i \in 1..k + 1 : cs[i] \notin D => r.avail + Freeing(V, Len(V)) < size[cs[i]]
        <3> SUFFICES ASSUME NEW i \in 1..k + 1, cs[i] \notin D
                     PROVE  r.avail + Freeing(V, Len(V)) < size[cs[i]]
            OBVIOUS
        <3>1. i \in 1..k /\ cs[i] \notin C
            BY <1>2, <1>14, <2>1
        <3>2. a.avail + Freeing(V, Len(V)) < size[cs[i]]
            BY <1>6, <3>1
        <3>3. /\ a.avail \in Int /\ r.avail = a.avail - size[s] /\ size[cs[i]] \in Nat
              /\ Freeing(V, Len(V)) \in Nat
            BY <1>6, <1>12, <1>13, <1>15, <3>1
        <3>4. PICK v \in Int : v = a.avail
            BY <3>3
        <3>5. PICK w \in Nat : w = Freeing(V, Len(V))
            BY <3>3
        <3>6. PICK y \in Nat : y = size[s]
            BY <1>5
        <3>7. PICK z \in Nat : z = size[cs[i]]
            BY <3>3
        <3>8. v + w < z /\ r.avail = v - y
            BY <3>2, <3>3, <3>4, <3>5, <3>6, <3>7
        <3>9. v - y + w < z
            BY <3>8
        <3> QED
            BY <3>5, <3>7, <3>8, <3>9
    <2>5. ASSUME r.n > 0, \A i \in 1..k + 1 : cs[i] \in D
          PROVE  r.avail + Freeing(V, r.n - 1) < 0
        <3>1. \A i \in 1..k : cs[i] \in C
            BY <1>1, <1>2, <1>14, <2>1, <2>5
        <3>2. CASE r.n > a.n
            <4>1. a.avail + Freeing(V, r.n - 1) < size[s] /\ Freeing(V, r.n - 1) \in Nat
                BY <1>8, <1>9, <3>2
            <4> QED
                BY <1>5, <1>6, <1>15, <4>1
        <3>3. CASE ~(r.n > a.n)
            <4>1. r.n = a.n
                BY <1>5, <1>6, <1>8, <3>3
            <4>2. a.avail + Freeing(V, r.n - 1) < 0
                BY <1>6, <2>5, <3>1, <4>1
            <4>3. r.n - 1 \in 0..Len(V)
                <5>1. PICK e \in 0..Len(V) : e = r.n
                    BY <1>8
                <5>2. e > 0
                    BY <2>5, <5>1
                <5>3. e - 1 \in 0..Len(V)
                    BY <1>5, <5>2
                <5> QED
                    BY <5>1, <5>3
            <4>4. Freeing(V, r.n - 1) \in Nat
                BY <1>9, <4>3
            <4> QED
                BY <1>5, <1>6, <1>15, <4>2, <4>4
        <3> QED
            BY <3>2, <3>3
    <2>6. \A t \in D : \E i \in 1..k + 1 : cs[i] = t
        BY <1>2, <1>6, <1>14, <2>1
    <2> QED
        BY <1>4, <1>7, <2>2, <2>3, <2>4, <2>5, <2>6 DEF PlanUpto
<1>16. CASE /\ ~(a.avail + Freeing(V, r.n) >= size[s])
            /\ r.avail = a.avail /\ r.copy = a.copy
    <2>1. D = C
        BY <1>3, <1>4, <1>16
    <2>2. a.avail + Freeing(V, Len(V)) < size[s]
        <3>1. r.n = Len(V)
            BY <1>8, <1>16
        <3> QED
            BY <1>5, <1>6, <1>12, <1>16, <3>1
    <2>3. D # {} => r.avail + Freeing(V, r.n) >= 0
        <3> SUFFICES ASSUME C # {} PROVE r.avail + Freeing(V, r.n) >= 0
            BY <2>1
        <3>1. a.avail + Freeing(V, a.n) >= 0 /\ a.avail \in Int /\ r.avail = a.avail
            BY <1>6, <1>16
        <3> QED
            BY <1>10, <1>12, <3>1
    <2>4. \A i \in 1..k + 1 : cs[i] \notin D => r.avail + Freeing(V, Len(V)) < size[cs[i]]
        BY <1>2, <1>6, <1>14, <1>16, <2>1, <2>2
    <2>5. ~\A i \in 1..k + 1 : cs[i] \in D
        BY <1>2, <1>11, <1>14, <2>1
    <2>6. \A t \in D : \E i \in 1..k + 1 : cs[i] = t
        BY <1>6, <1>14, <2>1
    <2>7. r.avail = base - Total(D, size)
        BY <1>6, <1>16, <2>1
    <2> QED
        BY <1>4, <1>7, <2>3, <2>4, <2>5, <2>6, <2>7 DEF PlanUpto
<1> QED
    BY <1>7, <1>15, <1>16

-----------------------------------------------------------------------------
(* The plan.                                                               *)

Start(V, base) ==
    [victims |-> V, n |-> Evict(V, 0, base, 0), avail |-> base, copy |-> <<>>]

\* The plan is right before the first candidate.
LEMMA StartRight ==
    ASSUME size \in [Slugs -> Nat], NEW V \in Seq(Slugs), NEW cs, NEW base \in Int,
           NEW a, a = Start(V, base)
    PROVE  PlanUpto(a, V, cs, base, 0)
<1>1. PICK e : e = Evict(V, 0, base, 0)
    OBVIOUS
<1>2. 0 \in 0..Len(V) /\ 0 \in Int
    OBVIOUS
<1>3. /\ e \in 0..Len(V)
      /\ e > 0 => base + Freeing(V, e - 1) < 0
    BY <1>1, <1>2, EvictRight
<1>4. /\ a.victims = V /\ a.n = e /\ a.avail = base /\ a.copy = <<>>
      /\ DOMAIN a = {"victims", "n", "avail", "copy"}
    BY <1>1 DEF Start
<1>5. <<>> \in Seq(Slugs) /\ ToSet(<<>>) = {}
    <2>1. DOMAIN <<>> = {}
        OBVIOUS
    <2> QED
        BY <2>1 DEF ToSet
<1>6. Total({}, size) = 0
    BY TotalIs, SigmaEmpty
<1>7. IsPlan(a, V)
    BY <1>3, <1>4, <1>5 DEF IsPlan
<1>8. a.avail = base - Total(ToSet(a.copy), size)
    <2>1. ToSet(a.copy) = {} /\ a.avail = base
        BY <1>4, <1>5
    <2>2. base = base - 0
        OBVIOUS
    <2> QED
        BY <1>6, <2>1, <2>2
<1>9. 1..0 = {}
    OBVIOUS
<1> QED
    BY <1>3, <1>4, <1>5, <1>7, <1>8, <1>9 DEF PlanUpto

\* The plan is right after the last.
LEMMA PlanFolds ==
    ASSUME size \in [Slugs -> Nat], NEW V \in Seq(Slugs), NEW cs \in Seq(Slugs),
           \A i, j \in 1..Len(cs) : i # j => cs[i] # cs[j],
           NEW base \in Int, NEW r, r = Folded(Start(V, base), cs)
    PROVE  PlanUpto(r, V, cs, base, Len(cs))
<1>1. PICK a : a = Start(V, base)
    OBVIOUS
<1>2. PICK f : Steps(f, a, cs) /\ Folded(a, cs) = f[Len(cs)]
    BY FoldSteps
<1> DEFINE U == {k \in Nat : PlanUpto(f[k], V, cs, base, k)}
<1>3. Len(cs) \in Nat
    OBVIOUS
<1>4. 0 \in U
    <2>1. PlanUpto(a, V, cs, base, 0)
        BY <1>1, StartRight
    <2> QED
        BY <1>2, <2>1 DEF Steps
<1>5. ASSUME NEW k \in Nat, k < Len(cs), k \in U PROVE k + 1 \in U
    <2>1. k + 1 \in 1..Len(cs) /\ (k + 1) - 1 = k /\ k + 1 \in Nat
        BY <1>3, <1>5
    <2>2. PICK x : x = f[k]
        OBVIOUS
    <2>3. PICK y : y = f[k + 1]
        OBVIOUS
    <2>4. y = Consider(x, cs[k + 1]) /\ PlanUpto(x, V, cs, base, k)
        BY <1>2, <1>5, <2>1, <2>2, <2>3 DEF Steps
    <2>5. PlanUpto(y, V, cs, base, k + 1)
        BY <1>5, <2>4, PlanGrows
    <2> QED
        BY <2>1, <2>3, <2>5
<1>6. \A k \in 0..Len(cs) : k \in U
    <2> HIDE DEF U
    <2> QED
        BY <1>3, <1>4, <1>5, UpTo
<1>7. Len(cs) \in 0..Len(cs)
    BY <1>3
<1>8. r = f[Len(cs)]
    BY <1>1, <1>2
<1> QED
    BY <1>6, <1>7, <1>8

-----------------------------------------------------------------------------
\* What the plan is, and what is freed by it.
LEMMA PlanLooks ==
    ASSUME DiskOK, TimesOK
    PROVE  \E V \in Seq(Slugs), cs \in Seq(Slugs) : \E r :
             /\ V = Victims /\ cs = Candidates
             /\ Sorted(V, Cached, FreeOrder) /\ Sorted(cs, Worth, CopyOrder)
             /\ PlanUpto(r, V, cs, FreeBytes - Keep, Len(cs))
             /\ Plan.free = SubSeq(V, 1, r.n) /\ Plan.copy = r.copy
<1>1. size \in [Slugs -> Nat] /\ FreeBytes \in Int /\ Keep \in Nat
    BY FreeBytesType, AutocacheAssumption DEF DiskOK
<1>2. Sorted(Victims, Cached, FreeOrder) /\ Sorted(Candidates, Worth, CopyOrder)
    BY <1>1, VictimsAreSorted
<1>3. Victims \in Seq(Cached) /\ Candidates \in Seq(Worth)
    BY <1>2 DEF Sorted
<1>4. \A S \in SUBSET Slugs : \A s \in Seq(S) : s \in Seq(Slugs)
    <2> SUFFICES ASSUME NEW S \in SUBSET Slugs, NEW s \in Seq(S) PROVE s \in Seq(Slugs)
        OBVIOUS
    <2>1. \A i \in 1..Len(s) : s[i] \in Slugs
        BY ElementOfSeq
    <2>2. Len(s) \in Nat /\ s = [i \in 1..Len(s) |-> s[i]]
        OBVIOUS
    <2> QED
        BY <2>1, <2>2
<1>5. Cached \in SUBSET Slugs /\ Worth \in SUBSET Slugs
    BY DEF Cached, Worth
<1>6. PICK V \in Seq(Slugs) : V = Victims
    BY <1>3, <1>4, <1>5
<1>7. PICK cs \in Seq(Slugs) : cs = Candidates
    BY <1>3, <1>4, <1>5
<1>8. PICK base \in Int : base = FreeBytes - Keep
    BY <1>1
<1>9. PICK r : r = Folded(Start(V, base), cs)
    OBVIOUS
<1>10. Plan = [free |-> SubSeq(r.victims, 1, r.n), copy |-> r.copy]
    BY <1>6, <1>7, <1>8, <1>9 DEF Plan, Folded, Start
<1>11. ASSUME NEW i \in 1..Len(cs), NEW j \in 1..Len(cs), i # j PROVE cs[i] # cs[j]
    <2>0. Len(cs) \in Nat
        OBVIOUS
    <2>1. i < j \/ j < i
        BY <1>11, <2>0
    <2>2. <<cs[i], cs[j]>> \in CopyOrder \/ <<cs[j], cs[i]>> \in CopyOrder
        BY <1>2, <1>7, <2>1 DEF Sorted
    <2>3. TotalOrder(Slugs, CopyOrder) /\ cs[i] \in Slugs
        BY <1>1, OrdersAreTotal, ElementOfSeq
    <2> QED
        BY <2>2, <2>3 DEF TotalOrder
<1>12. PlanUpto(r, V, cs, base, Len(cs))
    BY <1>1, <1>9, <1>11, PlanFolds
<1>13. r.victims = V
    BY <1>12 DEF PlanUpto, IsPlan
<1>14. Plan.free = SubSeq(V, 1, r.n) /\ Plan.copy = r.copy
    BY <1>10, <1>13
<1> QED
    BY <1>2, <1>6, <1>7, <1>8, <1>12, <1>14

\* The plan is right, whatever the state.
LEMMA PlansAreRight == ASSUME DiskOK, TimesOK PROVE PlanIsRight
<1>0. PICK V \in Seq(Slugs), cs \in Seq(Slugs) : \E r :
             /\ V = Victims /\ cs = Candidates
             /\ Sorted(V, Cached, FreeOrder) /\ Sorted(cs, Worth, CopyOrder)
             /\ PlanUpto(r, V, cs, FreeBytes - Keep, Len(cs))
             /\ Plan.free = SubSeq(V, 1, r.n) /\ Plan.copy = r.copy
    BY PlanLooks
<1>1. PICK r :
             /\ V = Victims /\ cs = Candidates
             /\ Sorted(V, Cached, FreeOrder) /\ Sorted(cs, Worth, CopyOrder)
             /\ PlanUpto(r, V, cs, FreeBytes - Keep, Len(cs))
             /\ Plan.free = SubSeq(V, 1, r.n) /\ Plan.copy = r.copy
    BY <1>0
<1>2. PICK C : C = ToSet(r.copy)
    OBVIOUS
<1>3. PICK F : F = ToSet(SubSeq(V, 1, r.n))
    OBVIOUS
<1>4. PICK n : n = r.n
    OBVIOUS
<1>5. /\ n \in 0..Len(V) /\ r.avail \in Int
      /\ \A s \in C : \E i \in 1..Len(cs) : cs[i] = s
      /\ r.avail = (FreeBytes - Keep) - Total(C, size)
      /\ C # {} => r.avail + Freeing(V, n) >= 0
      /\ \A i \in 1..Len(cs) : cs[i] \notin C => r.avail + Freeing(V, Len(V)) < size[cs[i]]
      /\ n > 0 /\ (\A i \in 1..Len(cs) : cs[i] \in C) => r.avail + Freeing(V, n - 1) < 0
    BY <1>1, <1>2, <1>4 DEF PlanUpto, IsPlan
<1>6. Len(V) \in Nat /\ n \in Nat /\ n <= Len(V)
    BY <1>5
<1>7. Len(SubSeq(V, 1, n)) = n /\ \A i \in 1..n : SubSeq(V, 1, n)[i] = V[i]
    BY <1>6, SubSeqProperties
<1>8. F = {V[i] : i \in 1..n}
    <2>1. PICK d : d = SubSeq(V, 1, n)
        OBVIOUS
    <2>2. DOMAIN d = 1..n /\ \A i \in 1..n : d[i] = V[i]
        BY <1>6, <1>7, <2>1
    <2>3. F = ToSet(d)
        BY <1>3, <1>4, <2>1
    <2> QED
        BY <2>2, <2>3 DEF ToSet
<1>9. /\ FreeBytes \in Int /\ Keep \in Nat /\ size \in [Slugs -> Nat]
      /\ C \in SUBSET Slugs
    <2>1. \A s \in C : s \in Slugs
        BY <1>5, ElementOfSeq
    <2> QED
        BY <2>1, FreeBytesType, AutocacheAssumption DEF DiskOK
<1>10. Total(C, size) \in Nat
    <2>1. PICK f : f = size
        OBVIOUS
    <2>2. IsFiniteSet(C) /\ \A s \in C : f[s] \in Nat
        BY <1>9, <2>1, FS_Subset, AutocacheAssumption
    <2>3. Total(C, f) \in Nat
        BY <2>2, TotalIs, SigmaNat
    <2> QED
        BY <2>1, <2>3
<1>11. \A k \in 0..Len(V) : Freeing(V, k) \in Nat
    <2> SUFFICES ASSUME NEW k \in 0..Len(V) PROVE Freeing(V, k) \in Nat
        OBVIOUS
    <2>1. k \in k..Len(V)
        BY <1>6
    <2> QED
        BY <1>9, <2>1, FreeingGrows
<1>12. \A s \in F : \E i \in 1..n : V[i] = s
    BY <1>8
<1>13. \A s \in F : s \in Cached
    <2> SUFFICES ASSUME NEW i \in 1..n PROVE V[i] \in Cached
        BY <1>12
    <2>1. V \in Seq(Cached) /\ i \in 1..Len(V)
        BY <1>1, <1>6 DEF Sorted
    <2> QED
        BY <2>1, ElementOfSeq
<1>14. \A s \in C : s \in Worth
    <2> SUFFICES ASSUME NEW i \in 1..Len(cs) PROVE cs[i] \in Worth
        BY <1>5
    <2>1. cs \in Seq(Worth)
        BY <1>1 DEF Sorted
    <2> QED
        BY <2>1, ElementOfSeq
<1>15. F \cap C = {}
    BY <1>13, <1>14 DEF Cached, Worth, IsCached, IsCandidate
<1>16. ASSUME NEW s \in F, NEW t \in Slugs \ F, IsCached(t)
       PROVE  LastUse(s) <= LastUse(t)
    <2>1. PICK i \in 1..n : V[i] = s
        BY <1>12
    <2>2. t \in Cached
        BY <1>16 DEF Cached
    <2>3. PICK k \in 1..Len(V) : V[k] = t
        BY <1>1, <2>2 DEF Sorted
    <2>4. k \notin 1..n
        BY <1>8, <2>3
    <2>5. i < k /\ i \in 1..Len(V)
        BY <1>6, <2>4
    <2>6. <<s, t>> \in FreeOrder
        BY <1>1, <2>1, <2>3, <2>5 DEF Sorted
    <2>7. FreeBefore(s, t) /\ s \in Slugs
        BY <2>6 DEF FreeOrder
    <2>8. LastUse(s) \in Nat /\ LastUse(t) \in Nat
        BY <2>7 DEF TimesOK, LastUse
    <2> QED
        BY <2>7, <2>8 DEF FreeBefore
<1> DEFINE left(k) == FreeBytes + Freeing(V, k) - Total(C, size)
           skipped == {s \in Slugs : IsCandidate(s)} \ C
<1>17. ASSUME C # {} PROVE left(n) >= Keep
    <2>1. r.avail + Freeing(V, n) >= 0 /\ Freeing(V, n) \in Nat
        BY <1>5, <1>11, <1>17
    <2> QED
        BY <1>5, <1>9, <1>10, <2>1
<1>18. ASSUME NEW s \in skipped PROVE left(Len(V)) - size[s] < Keep
    <2>1. s \in Worth /\ s \in Slugs /\ s \notin C
        BY DEF Worth
    <2>2. PICK i \in 1..Len(cs) : cs[i] = s
        BY <1>1, <2>1 DEF Sorted
    <2>3. r.avail + Freeing(V, Len(V)) < size[s]
        BY <1>5, <2>1, <2>2
    <2>4. size[s] \in Nat /\ Freeing(V, Len(V)) \in Nat
        <3>1. Len(V) \in 0..Len(V)
            BY <1>6
        <3> QED
            BY <1>9, <1>11, <2>1, <3>1
    <2> QED
        BY <1>5, <1>9, <1>10, <2>3, <2>4
<1>19. ASSUME n > 0, skipped = {} PROVE left(n - 1) < Keep
    <2>1. ASSUME NEW i \in 1..Len(cs) PROVE cs[i] \in C
        <3>1. cs \in Seq(Worth)
            BY <1>1 DEF Sorted
        <3>2. cs[i] \in Worth
            BY <3>1, ElementOfSeq
        <3> QED
            BY <1>19, <3>2 DEF Worth
    <2>2. r.avail + Freeing(V, n - 1) < 0
        BY <1>5, <1>19, <2>1
    <2>3. n - 1 \in 0..Len(V)
        BY <1>6, <1>19
    <2>4. Freeing(V, n - 1) \in Nat
        BY <1>11, <2>3
    <2> QED
        BY <1>5, <1>9, <1>10, <2>2, <2>4
<1>20. /\ ToSet(Plan.free) = F /\ ToSet(Plan.copy) = C
       /\ Len(Plan.free) = n /\ Victims = V
    BY <1>1, <1>2, <1>3, <1>4, <1>7
<1> HIDE DEF left, skipped
<1>21. /\ F \cap C = {}
       /\ \A s \in F, t \in Slugs \ F : IsCached(t) => LastUse(s) <= LastUse(t)
       /\ C # {} => left(n) >= Keep
       /\ \A s \in skipped : left(Len(V)) - size[s] < Keep
       /\ (n > 0 /\ skipped = {}) => left(n - 1) < Keep
    BY <1>15, <1>16, <1>17, <1>18, <1>19
<1> QED
    BY <1>20, <1>21 DEF PlanIsRight, left, skipped

\* No step makes another kind of time.
LEMMA TimesStay == Spec => []TimesOK
<1>1. Init => TimesOK
    <2> SUFFICES ASSUME Init PROVE TimesOK
        OBVIOUS
    <2>1. booted \in [Slugs -> Times] /\ stamp \in [Slugs -> Times] /\ Times \subseteq Nat
        BY AutocacheAssumption DEF Init
    <2> QED
        BY <2>1 DEF TimesOK
<1>2. ASSUME TimesOK, [Next]_vars PROVE TimesOK'
    <2>1. \/ UNCHANGED stamp
          \/ \E s : stamp' = [stamp EXCEPT ![s] = 0] \/ stamp' = [stamp EXCEPT ![s] = 2]
        <3>1. CASE Tick \/ (\E u \in Users : StartCheck(u) \/ StartJob(u)) \/ UNCHANGED vars
            BY <3>1 DEF Tick, StartCheck, StartJob, vars, disk
        <3>2. CASE \E j \in Runs : RunStep(j) \/ WaitExpires(j) \/ Cancel(j)
            BY <3>2 DEF RunStep, Begin, FreeOne, FreeCopy, Freed, Recheck, StartCopy, Waited,
                        WaitExpires, Finish, Cancel, disk
        <3>3. CASE \E s \in Slugs : \/ CopyStep(s) \/ Toggle(s) \/ BootIso(s) \/ Share(s)
                                    \/ UserCopy(s) \/ UserFree(s)
            BY <3>3 DEF CopyStep, CopyWrite, CopyReady, CopyFails, Toggle, BootIso, Share,
                        UserCopy, UserFree, FreeCopy, disk
        <3> QED
            BY <1>2, <3>1, <3>2, <3>3 DEF Next
    <2>2. \/ UNCHANGED booted
          \/ \E s : booted' = [booted EXCEPT ![s] = 3]
        <3>1. CASE Tick \/ (\E u \in Users : StartCheck(u) \/ StartJob(u)) \/ UNCHANGED vars
            BY <3>1 DEF Tick, StartCheck, StartJob, vars, catalog
        <3>2. CASE \E j \in Runs : RunStep(j) \/ WaitExpires(j) \/ Cancel(j)
            BY <3>2 DEF RunStep, Begin, FreeOne, Freed, Recheck, StartCopy, Waited,
                        WaitExpires, Finish, Cancel, catalog
        <3>3. CASE \E s \in Slugs : \/ CopyStep(s) \/ Toggle(s) \/ BootIso(s) \/ Share(s)
                                    \/ UserCopy(s) \/ UserFree(s)
            BY <3>3 DEF CopyStep, CopyWrite, CopyReady, CopyFails, Toggle, BootIso, Share,
                        UserCopy, UserFree, catalog
        <3> QED
            BY <1>2, <3>1, <3>2, <3>3 DEF Next
    <2>3. stamp' \in [Slugs -> Nat]
        BY <1>2, <2>1 DEF TimesOK
    <2>4. booted' \in [Slugs -> Nat]
        BY <1>2, <2>2 DEF TimesOK
    <2> QED
        BY <2>3, <2>4 DEF TimesOK
<1> QED
    BY <1>1, <1>2, PTL DEF Spec

(* Every plan gives up the copies used longest ago, no more of them than   *)
(* it takes, never one that it copies, and leaves keep_free_gb free, for   *)
(* any number of ISOs of any sizes.                                        *)
THEOREM EveryPlanIsRight == Spec => []PlanIsRight
<1>1. RunInv /\ TimesOK => PlanIsRight
    BY PlansAreRight DEF RunInv
<1> QED
    BY RunInvariant, TimesStay, <1>1, PTL
=============================================================================
