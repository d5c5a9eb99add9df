--------------------------- MODULE CatalogProofs ---------------------------
(***************************************************************************)
(* Proofs about the local copies of the catalogue (module Catalog), for    *)
(* any number of ISOs, requests, jobs, chunks and restarts, with or        *)
(* without failures.                                                       *)
(*                                                                         *)
(* Nothing is needed of the steps a request has left: the files are safe   *)
(* whatever the requests do, in whatever order.  That no ISO is forgotten  *)
(* in state "copying" (NoneIsForgotten, at the end) does need those of the *)
(* background thread, and so what FlattenSeq and SetToSeq return.          *)
(***************************************************************************)
EXTENDS Catalog, FiniteSetTheorems, SequenceTheorems, WellFoundedInduction, TLAPS

\* The catalogue and what history says of it go together.
USE DEF catalog

Early   == {"unborn", "load", "copying", "no space", "open"}
Writing == {"chunk", "progress", "replace"}
Late    == {"ready", "enabled?", "pick", "mount", "unlink", "error", "ended"}

\* File f belongs to the ISO s: a job of s has created it.
FileOf(f, s) == f \in JobIds /\ jslug[f] = s /\ jpc[f] \notin Early

(* The shape of the state. *)
Shape ==
    /\ DOMAIN cat = Slugs
    /\ DOMAIN local = Threads
    /\ \A t \in Threads : DOMAIN local[t] = Slugs
    /\ DOMAIN part = Slugs /\ DOMAIN dst = Slugs /\ DOMAIN mounted = Slugs
    /\ bytes \in [JobIds -> SUBSET Nat]
    /\ jpc \in [JobIds -> Early \cup Writing \cup Late]
    /\ DOMAIN jslug = JobIds /\ DOMAIN jfile = JobIds
    /\ joff \in [JobIds -> 0..Chunks]
    /\ restarts \in Nat

(* A job past its look at the catalogue copies an ISO that was there, and  *)
(* one that has not opened its file has copied nothing.                    *)
JobsPlaced ==
    \A j \in JobIds :
      /\ jpc[j] \notin {"unborn", "load", "ended"} => jslug[j] \in Slugs
      /\ jpc[j] \in Early => joff[j] = 0

(* The files of an ISO were created by jobs of that ISO, and the temporary *)
(* one is neither the copy nor what is mounted.                            *)
FilesPlaced ==
    \A s \in Slugs :
      /\ part[s] # NoFile =>
           FileOf(part[s], s) /\ part[s] # dst[s] /\ part[s] # mounted[s]
      /\ dst[s] # NoFile => FileOf(dst[s], s)
      /\ mounted[s] \notin {NoFile, Remote} => FileOf(mounted[s], s)

(* One job at a time copies an ISO that is not in shared. *)
Alone ==
    \A i, j \in JobIds :
      Live(i) /\ Live(j) /\ jslug[i] = jslug[j] /\ jslug[i] \in Slugs \ shared
        => i = j

(* The file that a job writes belongs to its ISO; when it is alone, the    *)
(* file holds what it has copied, and neither a PC nor the final name can  *)
(* reach it; the temporary name, if there is one, is that file's.          *)
WriterInv ==
    \A j \in JobIds : jpc[j] \in Writing =>
      /\ FileOf(jfile[j], jslug[j])
      /\ jpc[j] = "replace" => joff[j] = Chunks
      /\ jslug[j] \notin shared =>
           /\ bytes[jfile[j]] = 1..joff[j]
           /\ part[jslug[j]] \in {NoFile, jfile[j]}
           /\ jfile[j] \notin {dst[jslug[j]], mounted[jslug[j]]}

(* The inductive invariant. *)
IInv == Shape /\ JobsPlaced /\ FilesPlaced /\ Alone /\ WriterInv /\ BootsWhole

(* The initial state satisfies it. *)
LEMMA InitIInv == Init => IInv
<1> SUFFICES ASSUME Init PROVE IInv
    OBVIOUS
<1>0. 0 \in 0..Chunks
    BY CatalogAssumption
<1> USE CatalogAssumption DEF Init
<1>1. Shape
    <2>1. joff \in [JobIds -> 0..Chunks]
        <3>1. joff = [j \in JobIds |-> 0]
            OBVIOUS
        <3> HIDE DEF Init
        <3> QED
            BY <1>0, <3>1
    <2>2. bytes \in [JobIds -> SUBSET Nat] /\ restarts \in Nat
        OBVIOUS
    <2>3. jpc \in [JobIds -> Early \cup Writing \cup Late]
        BY DEF Early
    <2>4. \A t \in Threads : DOMAIN local[t] = Slugs
        BY DEF Nothing
    <2> QED
        BY <2>1, <2>2, <2>3, <2>4 DEF Shape
<1>2. JobsPlaced /\ FilesPlaced /\ Alone /\ WriterInv /\ BootsWhole
    BY DEF JobsPlaced, FilesPlaced, Alone, WriterInv, BootsWhole, Live, Writing, Early
<1> QED
    BY <1>1, <1>2 DEF IInv

-----------------------------------------------------------------------------
(* Most steps create no file, write none and rename none: a name may be    *)
(* removed, the copy or the share may be mounted, a job may go on.         *)

\* What such a step does to the jobs.
JobsGoOn ==
    /\ jpc' \in [JobIds -> Early \cup Writing \cup Late]
    /\ jslug' = jslug /\ jfile' = jfile /\ joff' = joff /\ shared' = shared
    /\ \A j \in JobIds :
         /\ Live(j)' => Live(j)
         /\ jpc'[j] \in Early => jpc[j] \in Early
         /\ jpc'[j] \in Writing => jpc[j] \in Writing
         /\ jpc'[j] = "replace" => jpc[j] = "replace" \/ joff[j] = Chunks
         /\ jpc'[j] \notin {"unborn", "load", "ended"} => jslug[j] \in Slugs

\* What it does to the files.
FilesStay ==
    /\ bytes' = bytes
    /\ DOMAIN part' = Slugs /\ DOMAIN dst' = Slugs /\ DOMAIN mounted' = Slugs
    /\ \A s \in Slugs :
         /\ part'[s] \in {part[s], NoFile}
         /\ dst'[s] \in {dst[s], NoFile}
         /\ mounted'[s] \in {mounted[s], NoFile, Remote, dst[s]}

Harmless == JobsGoOn /\ FilesStay /\ Shape'

LEMMA HarmlessKeeps == IInv /\ Harmless => IInv'
<1> SUFFICES ASSUME IInv, Harmless PROVE IInv'
    OBVIOUS
<1> USE DEF IInv, Harmless
<1>1. \A f, s : FileOf(f, s) => FileOf(f, s)'
    BY DEF FileOf, JobsGoOn
<1>2. NoFile # Remote /\ \A f \in JobIds : f # NoFile /\ f # Remote
    BY CatalogAssumption DEF NoFile, Remote, JobIds
<1>3. JobsPlaced'
    BY DEF JobsPlaced, JobsGoOn
<1>4. FilesPlaced'
    <2> SUFFICES ASSUME NEW s \in Slugs
                 PROVE  /\ part'[s] # NoFile =>
                             FileOf(part[s], s)' /\ part'[s] # dst'[s]
                               /\ part'[s] # mounted'[s]
                        /\ dst'[s] # NoFile => FileOf(dst[s], s)'
                        /\ mounted'[s] \notin {NoFile, Remote} =>
                             FileOf(mounted[s], s)'
        BY DEF FilesPlaced
    <2>1. /\ part'[s] # NoFile => part'[s] = part[s]
          /\ dst'[s] # NoFile => dst'[s] = dst[s]
          /\ mounted'[s] \in {mounted[s], NoFile, Remote, dst[s]}
        BY DEF FilesStay
    <2>2. /\ part[s] # NoFile =>
               FileOf(part[s], s) /\ part[s] # dst[s] /\ part[s] # mounted[s]
          /\ dst[s] # NoFile => FileOf(dst[s], s)
          /\ mounted[s] \notin {NoFile, Remote} => FileOf(mounted[s], s)
        BY DEF FilesPlaced
    <2>3. \A f : FileOf(f, s) => f \in JobIds
        BY DEF FileOf
    <2>4. ASSUME part'[s] # NoFile
          PROVE  FileOf(part[s], s)' /\ part'[s] # dst'[s] /\ part'[s] # mounted'[s]
        <3>1. part'[s] = part[s] /\ FileOf(part[s], s) /\ part[s] # Remote
            BY <1>2, <2>1, <2>2, <2>3, <2>4
        <3>2. FileOf(part[s], s)'
            BY <3>1, <1>1 DEF FileOf
        <3> QED
            BY <2>1, <2>2, <2>4, <3>1, <3>2
    <2>5. dst'[s] # NoFile => FileOf(dst[s], s)'
        BY <1>1, <2>1, <2>2 DEF FileOf
    <2>6. mounted'[s] \notin {NoFile, Remote} => FileOf(mounted[s], s)'
        BY <1>1, <2>1, <2>2 DEF FileOf
    <2> QED
        BY <2>4, <2>5, <2>6
<1>5. Alone'
    BY DEF Alone, JobsGoOn
<1>6. WriterInv'
    <2> SUFFICES ASSUME NEW j \in JobIds, jpc'[j] \in Writing
                 PROVE  /\ FileOf(jfile[j], jslug[j])'
                        /\ jpc'[j] = "replace" => joff'[j] = Chunks
                        /\ jslug'[j] \notin shared' =>
                             /\ bytes'[jfile'[j]] = 1..joff'[j]
                             /\ part'[jslug'[j]] \in {NoFile, jfile'[j]}
                             /\ jfile'[j] \notin {dst'[jslug'[j]], mounted'[jslug'[j]]}
        BY DEF WriterInv
    <2> DEFINE s == jslug[j]
               f == jfile[j]
    <2>1. jpc[j] \in Writing /\ s \in Slugs /\ jslug'[j] = s /\ jfile'[j] = f
          /\ joff'[j] = joff[j] /\ shared' = shared /\ bytes' = bytes
        BY DEF JobsGoOn, FilesStay, Writing
    <2>2. FileOf(f, s) /\ (jpc[j] = "replace" => joff[j] = Chunks)
        BY <2>1 DEF WriterInv
    <2>3. FileOf(f, s)' /\ f \in JobIds
        BY <1>1, <2>1, <2>2 DEF FileOf
    <2>4. jpc'[j] = "replace" => joff'[j] = Chunks
        BY <2>1, <2>2 DEF JobsGoOn
    <2>5. ASSUME s \notin shared
          PROVE  /\ bytes[f] = 1..joff[j]
                 /\ part'[s] \in {NoFile, f}
                 /\ f \notin {dst'[s], mounted'[s]}
        <3>1. /\ bytes[f] = 1..joff[j] /\ part[s] \in {NoFile, f}
              /\ f # dst[s] /\ f # mounted[s]
            BY <2>1, <2>5 DEF WriterInv
        <3>2. f # NoFile /\ f # Remote
            BY <1>2, <2>3
        <3>3. /\ part'[s] \in {part[s], NoFile} /\ dst'[s] \in {dst[s], NoFile}
              /\ mounted'[s] \in {mounted[s], NoFile, Remote, dst[s]}
            BY <2>1 DEF FilesStay
        <3> QED
            BY <3>1, <3>2, <3>3
    <2> HIDE DEF s, f
    <2>6. FileOf(jfile[j], jslug[j])'
        BY <2>1, <2>3 DEF FileOf, s, f
    <2> QED
        BY <2>1, <2>4, <2>5, <2>6
<1>7. BootsWhole'
    BY DEF BootsWhole, FilesStay, JobsGoOn, Whole
<1> QED
    BY <1>3, <1>4, <1>5, <1>6, <1>7

-----------------------------------------------------------------------------
(* The steps of requests and of the background thread are harmless, but    *)
(* for the start of a copy.                                                *)

\* A step that leaves the jobs as they are.
LEMMA SameJobs ==
    ASSUME IInv, jpc' = jpc, jslug' = jslug, jfile' = jfile, joff' = joff,
           shared' = shared
    PROVE  JobsGoOn
  BY DEF IInv, Shape, JobsPlaced, JobsGoOn, Live

\* A step about the catalogue alone.
LEMMA CatalogueStep ==
    ASSUME IInv, UNCHANGED <<copies, mounted, jpc, jslug, jfile, joff, shared,
    restarts>>,
           DOMAIN cat' = Slugs, DOMAIN local' = Threads,
           \A t \in Threads : DOMAIN local'[t] = Slugs
    PROVE  Harmless
<1> USE DEF copies
<1>1. JobsGoOn
    BY SameJobs
<1>2. FilesStay
    BY DEF FilesStay, IInv, Shape
<1>3. Shape'
    BY DEF IInv, Shape
<1> QED
    BY <1>1, <1>2, <1>3 DEF Harmless

\* A step about the names of the files and the mounts.
LEMMA NamesStep ==
    ASSUME IInv, UNCHANGED <<cat, local, bytes, jobs, restarts>>,
           DOMAIN part' = Slugs, DOMAIN dst' = Slugs, DOMAIN mounted' = Slugs,
           \A s \in Slugs :
             /\ part'[s] \in {part[s], NoFile}
             /\ dst'[s] \in {dst[s], NoFile}
             /\ mounted'[s] \in {mounted[s], NoFile, Remote, dst[s]}
    PROVE  Harmless
<1> USE DEF jobs
<1>1. JobsGoOn
    BY SameJobs
<1>2. FilesStay
    BY DEF FilesStay
<1>3. Shape'
    BY DEF IInv, Shape
<1> QED
    BY <1>1, <1>2, <1>3 DEF Harmless

LEMMA MountEffect ==
    ASSUME DOMAIN mounted = Slugs, NEW x, NEW path,
           MountIso(x, path) \/ MountFails(x, path)
    PROVE  /\ DOMAIN mounted' = Slugs
           /\ \A s \in Slugs : mounted'[s] \in {mounted[s], NoFile, Remote, dst[s]}
  BY DEF MountIso, MountFails

LEMMA ThreadStepHarmless ==
    ASSUME IInv, NEW t \in Threads, ThreadStep(t),
           ~(\E j \in JobIds : StartCopy(t, j))
    PROVE  Harmless
<1> USE DEF jobs
<1>s. DOMAIN cat = Slugs /\ DOMAIN local = Threads
      /\ \A u \in Threads : DOMAIN local[u] = Slugs
      /\ DOMAIN part = Slugs /\ DOMAIN dst = Slugs /\ DOMAIN mounted = Slugs
    BY DEF IInv, Shape
<1>1. CASE Load(t)
    BY <1>1, <1>s, CatalogueStep DEF Load
<1>2. CASE Save(t) \/ Want(t)
    <2>1. \E s, b : cat' \in {local[t], [local[t] EXCEPT ![s].wanted = b]}
        BY <1>2 DEF Save, Want, Saves
    <2>2. local' = [local EXCEPT ![t] = Nothing]
        BY <1>2 DEF Save, Want, Saves, Discard
    <2>3. UNCHANGED <<copies, mounted, jobs, restarts>>
        BY <1>2 DEF Save, Want
    <2> QED
        BY <1>s, <2>1, <2>2, <2>3, CatalogueStep DEF Nothing
<1>3. CASE Unlink(t) \/ UnlinkPart(t) \/ RemoveOrphan(t) \/ Umount(t)
    BY <1>3, <1>s, NamesStep DEF Unlink, UnlinkPart, RemoveOrphan, RemovePart,
       Umount, copies
<1>4. CASE State(t) \/ Flag(t) \/ Merge(t)
    BY <1>4, <1>s, CatalogueStep DEF State, SetCacheState, Flag, Merge
<1>5. CASE Pick(t) \/ PickFails(t) \/ WaitCopy(t) \/ StopCopy(t) \/ CancelCopies(t)
    BY <1>5, <1>s, CatalogueStep DEF Pick, PickFails, WaitCopy, StopCopy, CancelCopies
<1>6. CASE ClearAll(t) \/ ListOrphans(t) \/ ResetInterrupted(t) \/ RemountEnabled(t)
    BY <1>6, <1>s, CatalogueStep
    DEF ClearAll, ListOrphans, ResetInterrupted, RemountEnabled
<1>7. CASE Forget(t) \/ Pop(t) \/ WriteFails(t)
    BY <1>7, <1>s, CatalogueStep DEF Forget, Pop, WriteFails, Discard, Nothing
<1>8. ASSUME NEW path \in Paths, Mount(t, path) \/ MountError(t, path)
      PROVE  Harmless
    <2>1. UNCHANGED <<cat, local, copies, jobs, restarts>>
        BY <1>8 DEF Mount, MountError
    <2>2. /\ DOMAIN mounted' = Slugs
          /\ \A s \in Slugs : mounted'[s] \in {mounted[s], NoFile, Remote, dst[s]}
        BY <1>8, <1>s, MountEffect DEF Mount, MountError
    <2> QED
        BY <1>s, <2>1, <2>2, NamesStep DEF copies
<1> QED
    BY <1>1, <1>2, <1>3, <1>4, <1>5, <1>6, <1>7, <1>8 DEF ThreadStep

(* So are a new request and the death of the process. *)
LEMMA RequestHarmless ==
    ASSUME IInv, NEW r \in Requests, NEW op, NEW s \in Slugs, Request(r, op, s)
    PROVE  Harmless
  BY CatalogueStep DEF IInv, Shape, Request, jobs

LEMMA RestartHarmless == ASSUME IInv, Restart PROVE Harmless
<1> USE DEF copies
<1>1. JobsGoOn
    BY DEF IInv, Shape, JobsPlaced, JobsGoOn, Live, Restart, Early, Writing, Late
<1>2. FilesStay
    BY DEF FilesStay, IInv, Shape, Restart
<1>3. Shape'
    <2>1. jpc' \in [JobIds -> Early \cup Writing \cup Late]
        BY <1>1 DEF JobsGoOn
    <2>2. restarts' \in Nat
        <3>1. restarts \in Nat /\ restarts' = restarts + 1
            BY DEF IInv, Shape, Restart
        <3> QED
            BY <3>1
    <2>3. DOMAIN local' = Threads /\ \A t \in Threads : DOMAIN local'[t] = Slugs
        BY DEF Restart, Nothing
    <2>4. DOMAIN mounted' = Slugs
        BY <1>2 DEF FilesStay
    <2> QED
        BY <2>1, <2>2, <2>3, <2>4 DEF IInv, Shape, Restart
<1> QED
    BY <1>1, <1>2, <1>3 DEF Harmless

(* And so is every step of a job but four. *)
LEMMA CopyHarmless ==
    ASSUME IInv, NEW j \in JobIds,
           \/ CopyLoad(j) \/ CopyState(j) \/ CopyStateFails(j) \/ CopyEof(j) \/ CopyRaises(j)
           \/ CopyUnlink(j) \/ CopyEnabled(j) \/ CopyPick(j) \/ CopyMount(j)
    PROVE  Harmless
<1> USE DEF copies
<1>0. /\ jpc \in [JobIds -> Early \cup Writing \cup Late]
      /\ DOMAIN part = Slugs /\ DOMAIN dst = Slugs /\ DOMAIN mounted = Slugs
      /\ DOMAIN cat = Slugs
    BY DEF IInv, Shape
<1>1. /\ jslug' = jslug /\ jfile' = jfile /\ joff' = joff /\ shared' = shared
      /\ bytes' = bytes /\ dst' = dst /\ restarts' = restarts /\ local' = local
    BY DEF CopyLoad, CopyState, CopyStateFails, CopyEof, CopyRaises, CopyUnlink,
       RemovePart, CopyEnabled,
           CopyPick, CopyMount
<1>2. PICK to : /\ jpc' = [jpc EXCEPT ![j] = to]
                /\ \/ jpc[j] = "load" /\ to \in {"copying", "no space"}
                      /\ jslug[j] \in Slugs
                   \/ jpc[j] = "load" /\ to = "ended"
                   \/ jpc[j] = "copying" /\ to = "open"
                   \/ jpc[j] = "progress" /\ to = "chunk"
                   \/ jpc[j] = "chunk" /\ to = "replace" /\ joff[j] = Chunks
                   \/ jpc[j] \notin {"unborn", "load", "ended"} /\ to \in Late
    BY DEF CopyLoad, CopyState, CopyStateFails, CopyEof, CopyRaises, CopyUnlink,
       RemovePart, CopyEnabled,
           CopyPick, CopyMount, Goto, Late, In
<1>3. JobsGoOn
    <2>1. to \in Early \cup Writing \cup Late
        BY <1>2 DEF Early, Writing, Late
    <2>2. jpc' \in [JobIds -> Early \cup Writing \cup Late]
        BY <1>0, <1>2, <2>1
    <2>3. jpc'[j] = to /\ \A i \in JobIds \ {j} : jpc'[i] = jpc[i]
        BY <1>0, <1>2
    <2>4. /\ Live(j)' => Live(j)
          /\ to \in Early => jpc[j] \in Early
          /\ to \in Writing => jpc[j] \in Writing
          /\ to = "replace" => jpc[j] = "replace" \/ joff[j] = Chunks
          /\ to \notin {"unborn", "load", "ended"} => jslug[j] \in Slugs
        BY <1>2, <2>3 DEF IInv, JobsPlaced, Live, Early, Writing, Late
    <2>5. \A i \in JobIds \ {j} : jpc[i] \notin {"unborn", "load", "ended"} => jslug[i] \in Slugs
        BY DEF IInv, JobsPlaced
    <2> QED
        BY <1>1, <2>2, <2>3, <2>4, <2>5 DEF JobsGoOn, Live
<1>4. /\ DOMAIN part' = Slugs
      /\ \A s \in Slugs : part'[s] \in {part[s], NoFile}
    BY <1>0 DEF CopyLoad, CopyState, CopyStateFails, CopyEof, CopyRaises,
       CopyUnlink, RemovePart, CopyEnabled,
           CopyPick, CopyMount
<1>5. /\ DOMAIN mounted' = Slugs
      /\ \A s \in Slugs : mounted'[s] \in {mounted[s], NoFile, Remote, dst[s]}
    <2>1. CASE CopyMount(j)
        BY <1>0, <2>1, MountEffect DEF CopyMount
    <2>2. CASE ~CopyMount(j)
        BY <1>0, <2>2 DEF CopyLoad, CopyState, CopyStateFails, CopyEof,
           CopyRaises, CopyUnlink,
           RemovePart, CopyEnabled, CopyPick
    <2> QED
        BY <2>1, <2>2
<1>6. DOMAIN cat' = Slugs
    BY <1>0 DEF CopyLoad, CopyState, CopyStateFails, SetCacheState, CopyEof,
       CopyRaises, CopyUnlink,
           RemovePart, CopyEnabled, CopyPick, CopyMount
<1>7. FilesStay
    BY <1>0, <1>1, <1>4, <1>5 DEF FilesStay
<1>8. Shape'
    BY <1>1, <1>3, <1>6, <1>7 DEF IInv, Shape, JobsGoOn, FilesStay
<1> QED
    BY <1>3, <1>7, <1>8 DEF Harmless

-----------------------------------------------------------------------------
(* The four steps that make a file, write one or rename one.               *)

(* A copy is started: either it is alone, or its ISO becomes shared. *)
LEMMA StartKeeps ==
    ASSUME IInv, NEW t \in Threads, NEW j \in JobIds, StartCopy(t, j) PROVE IInv'
<1> USE DEF IInv, copies
<1> DEFINE s == Slug(t)
<1>1. /\ jpc[j] = "unborn" /\ jpc' = [jpc EXCEPT ![j] = "load"]
      /\ jslug' = [jslug EXCEPT ![j] = s]
      /\ shared' = IF Copying(s) = {} THEN shared ELSE shared \cup {s}
      /\ UNCHANGED <<cat, local, copies, mounted, jfile, joff, restarts>>
    BY DEF StartCopy
<1> HIDE DEF s
<1>2. /\ jpc'[j] = "load" /\ jslug'[j] = s
      /\ \A i \in JobIds \ {j} : jpc'[i] = jpc[i] /\ jslug'[i] = jslug[i]
      /\ shared \subseteq shared'
    BY <1>1 DEF Shape
<1>3. \A f, x : FileOf(f, x) => f # j /\ FileOf(f, x)'
    BY <1>1, <1>2 DEF FileOf, Early
<1>4. Shape'
    BY <1>1 DEF Shape, Early
<1>5. JobsPlaced'
    BY <1>1, <1>2 DEF JobsPlaced, Early
<1>6. FilesPlaced'
    <2>1. \A x \in Slugs :
            /\ part[x] # NoFile =>
                 FileOf(part[x], x)' /\ part[x] # dst[x] /\ part[x] # mounted[x]
            /\ dst[x] # NoFile => FileOf(dst[x], x)'
            /\ mounted[x] \notin {NoFile, Remote} => FileOf(mounted[x], x)'
        BY <1>1, <1>3 DEF FilesPlaced, FileOf
    <2> QED
        BY <1>1, <2>1 DEF FilesPlaced, FileOf
<1>7. Alone'
    <2> SUFFICES ASSUME NEW i \in JobIds, NEW k \in JobIds, Live(i)', Live(k)',
                        jslug'[i] = jslug'[k], jslug'[i] \in Slugs \ shared'
                 PROVE  i = k
        BY DEF Alone
    <2>1. CASE i # j /\ k # j
        BY <1>2, <2>1 DEF Alone, Live
    <2>2. ASSUME NEW x \in JobIds \ {j}, Live(x)', jslug'[x] = s PROVE s \in shared'
        <3>1. x \in Copying(s)
            BY <1>2, <2>2 DEF Copying, Live
        <3> QED
            BY <1>1, <3>1
    <2> QED
        BY <1>2, <2>1, <2>2
<1>8. WriterInv'
    <2> SUFFICES ASSUME NEW i \in JobIds, jpc'[i] \in Writing
                 PROVE  /\ FileOf(jfile[i], jslug[i])'
                        /\ jpc'[i] = "replace" => joff'[i] = Chunks
                        /\ jslug'[i] \notin shared' =>
                             /\ bytes'[jfile'[i]] = 1..joff'[i]
                             /\ part'[jslug'[i]] \in {NoFile, jfile'[i]}
                             /\ jfile'[i] \notin {dst'[jslug'[i]], mounted'[jslug'[i]]}
        BY DEF WriterInv
    <2>1. i # j /\ jpc[i] \in Writing /\ jslug'[i] = jslug[i] /\ jpc'[i] = jpc[i]
        BY <1>2 DEF Writing
    <2>2. FileOf(jfile[i], jslug[i])'
        BY <1>1, <1>3, <2>1 DEF WriterInv, FileOf
    <2> QED
        BY <1>1, <1>2, <2>1, <2>2 DEF WriterInv
<1>9. BootsWhole'
    BY <1>1, <1>2 DEF BootsWhole, Whole
<1> QED
    BY <1>4, <1>5, <1>6, <1>7, <1>8, <1>9

(* open(tmp, "wb"): the file is empty, and is neither the copy nor what is *)
(* mounted, of this ISO or of another.                                     *)
LEMMA OpenKeeps ==
    ASSUME IInv, NEW j \in JobIds, CopyOpen(j) PROVE IInv'
<1> USE DEF IInv
<1>a. PICK s : s = jslug[j]
    OBVIOUS
<1>b. PICK f : f = IF part[s] = NoFile THEN j ELSE part[s]
    OBVIOUS
<1>1. /\ s = jslug[j] /\ jpc[j] = "open" /\ jpc' = [jpc EXCEPT ![j] = "chunk"]
      /\ part' = [part EXCEPT ![s] = f]
      /\ bytes' = [bytes EXCEPT ![f] = {}]
      /\ jfile' = [jfile EXCEPT ![j] = f]
      /\ UNCHANGED <<cat, local, dst, mounted, jslug, joff, shared, restarts>>
    BY <1>a, <1>b DEF CopyOpen, Goto
<1>2. s \in Slugs /\ joff[j] = 0
    BY <1>1 DEF JobsPlaced, Early
<1>3. \A i \in JobIds : i # NoFile /\ i # Remote
    BY CatalogAssumption DEF NoFile, Remote, JobIds
<1>4. jpc'[j] = "chunk" /\ \A i \in JobIds \ {j} : jpc'[i] = jpc[i]
    BY <1>1 DEF Shape
<1>5. \A g, x : FileOf(g, x) => g # j /\ FileOf(g, x)'
    BY <1>1, <1>4 DEF FileOf, Early
<1>6. FileOf(f, s)'
    <2>1. CASE part[s] = NoFile
        BY <1>1, <1>b, <1>4, <2>1 DEF FileOf, Early
    <2>2. CASE part[s] # NoFile
        BY <1>b, <1>2, <1>5, <2>2 DEF FilesPlaced
    <2> QED
        BY <2>1, <2>2
<1>7. /\ f \in JobIds /\ f # NoFile /\ f # dst[s] /\ f # mounted[s]
    <2>1. CASE part[s] = NoFile
        <3>1. /\ dst[s] # NoFile => dst[s] # j
              /\ mounted[s] \notin {NoFile, Remote} => mounted[s] # j
            BY <1>2, <1>5 DEF FilesPlaced
        <3> QED
            BY <1>b, <1>3, <2>1, <3>1
    <2>2. CASE part[s] # NoFile
        BY <1>b, <1>2, <1>3, <2>2 DEF FilesPlaced, FileOf
    <2> QED
        BY <2>1, <2>2
\* A file of another ISO is another file.
<1>8. \A g, x : FileOf(g, x) /\ x # s => g # f
    BY <1>1, <1>5, <1>6 DEF FileOf
<1>9. /\ part'[s] = f /\ \A x \in Slugs \ {s} : part'[x] = part[x]
      /\ bytes'[f] = {} /\ \A g \in JobIds \ {f} : bytes'[g] = bytes[g]
      /\ jfile'[j] = f /\ \A i \in JobIds \ {j} : jfile'[i] = jfile[i]
    BY <1>1, <1>2, <1>7 DEF Shape
<1>10. Shape'
    <2>1. bytes' \in [JobIds -> SUBSET Nat]
        BY <1>1 DEF Shape
    <2>2. jpc' \in [JobIds -> Early \cup Writing \cup Late]
        BY <1>1 DEF Shape, Writing
    <2> QED
        BY <1>1, <2>1, <2>2 DEF Shape
<1>11. JobsPlaced'
    BY <1>1, <1>2, <1>4 DEF JobsPlaced, Early
<1>12. FilesPlaced'
    <2> SUFFICES ASSUME NEW x \in Slugs
                 PROVE  /\ part'[x] # NoFile =>
                             FileOf(part[x], x)' /\ part'[x] # dst'[x]
                               /\ part'[x] # mounted'[x]
                        /\ dst'[x] # NoFile => FileOf(dst[x], x)'
                        /\ mounted'[x] \notin {NoFile, Remote} =>
                             FileOf(mounted[x], x)'
        BY DEF FilesPlaced
    <2>1. /\ dst'[x] # NoFile => FileOf(dst[x], x)'
          /\ mounted'[x] \notin {NoFile, Remote} => FileOf(mounted[x], x)'
        BY <1>1, <1>5 DEF FilesPlaced, FileOf
    <2>2. CASE x = s
        BY <1>1, <1>6, <1>7, <1>9, <2>1, <2>2 DEF FileOf
    <2>3. CASE x # s
        <3>1. part'[x] # NoFile => FileOf(part[x], x)'
            BY <1>5, <1>9, <2>3 DEF FilesPlaced, FileOf
        <3> QED
            BY <1>1, <1>9, <2>1, <2>3, <3>1 DEF FilesPlaced
    <2> QED
        BY <2>2, <2>3
<1>13. Alone'
    BY <1>1, <1>4 DEF Alone, Live
<1>14. WriterInv'
    <2> SUFFICES ASSUME NEW i \in JobIds, jpc'[i] \in Writing
                 PROVE  /\ FileOf(jfile[i], jslug[i])'
                        /\ jpc'[i] = "replace" => joff'[i] = Chunks
                        /\ jslug'[i] \notin shared' =>
                             /\ bytes'[jfile'[i]] = 1..joff'[i]
                             /\ part'[jslug'[i]] \in {NoFile, jfile'[i]}
                             /\ jfile'[i] \notin {dst'[jslug'[i]], mounted'[jslug'[i]]}
        BY DEF WriterInv
    <2>1. CASE i = j
        <3>1. 1..joff[j] = {}
            BY <1>2
        <3>2. FileOf(jfile[i], jslug[i])'
            BY <1>1, <1>6, <1>9, <2>1 DEF FileOf
        <3> QED
            BY <1>1, <1>4, <1>7, <1>9, <2>1, <3>1, <3>2
    <2>2. CASE i # j
        <3>1. /\ jpc[i] \in Writing /\ jpc'[i] = jpc[i] /\ jfile'[i] = jfile[i]
              /\ jslug'[i] = jslug[i] /\ FileOf(jfile[i], jslug[i])
            BY <1>1, <1>4, <1>9, <2>2 DEF WriterInv
        <3>2. FileOf(jfile[i], jslug[i])'
            BY <1>1, <1>5, <3>1 DEF FileOf
        <3>3. jslug[i] \in Slugs
            BY <3>1 DEF JobsPlaced, Writing
        <3>4. jslug[i] \notin shared => jslug[i] # s
            BY <1>1, <1>2, <2>2, <3>1 DEF Alone, Live, Writing
        <3>5. jslug[i] # s => jfile[i] # f /\ jfile[i] \in JobIds
            BY <1>8, <3>1 DEF FileOf
        <3> QED
            BY <1>1, <1>9, <3>1, <3>2, <3>3, <3>4, <3>5 DEF WriterInv
    <2> QED
        BY <2>1, <2>2
<1>15. BootsWhole'
    <2> SUFFICES ASSUME NEW x \in Slugs \ shared,
                        NEW g \in {mounted[x], dst[x]} \ {NoFile}
                 PROVE  Whole(g)'
        BY <1>1 DEF BootsWhole
    <2>1. Whole(g)
        BY DEF BootsWhole
    <2>2. g # Remote => FileOf(g, x)
        BY DEF FilesPlaced
    <2>3. g # f
        BY <1>3, <1>7, <1>8, <2>2
    <2>4. g # Remote => g \in JobIds
        BY <2>2 DEF FileOf
    <2> QED
        BY <1>9, <2>1, <2>3, <2>4 DEF Whole
<1> QED
    BY <1>10, <1>11, <1>12, <1>13, <1>14, <1>15

(* A chunk is written: into the file of this job, which nobody can boot    *)
(* from unless its ISO is shared.                                          *)
LEMMA ChunkKeeps ==
    ASSUME IInv, NEW j \in JobIds, CopyChunk(j) PROVE IInv'
<1> USE DEF IInv
<1>a. PICK s : s = jslug[j]
    OBVIOUS
<1>b. PICK f : f = jfile[j]
    OBVIOUS
<1>c. PICK n : n = joff[j]
    OBVIOUS
<1>1. /\ jpc[j] = "chunk" /\ jpc' = [jpc EXCEPT ![j] = "progress"]
      /\ joff' = [joff EXCEPT ![j] = n + 1]
      /\ bytes' = [bytes EXCEPT ![f] = @ \cup {n + 1}]
      /\ n < Chunks
      /\ UNCHANGED <<cat, local, part, dst, mounted, jslug, jfile, shared, restarts>>
    BY <1>b, <1>c DEF CopyChunk, Goto
<1>2. s \in Slugs /\ FileOf(f, s) /\ f \in JobIds
    BY <1>a, <1>b, <1>1 DEF JobsPlaced, WriterInv, Writing, FileOf
<1>3. n \in Nat /\ n + 1 \in 0..Chunks
    BY <1>c, <1>1, CatalogAssumption DEF Shape
<1>4. /\ jpc'[j] = "progress" /\ \A i \in JobIds \ {j} : jpc'[i] = jpc[i]
      /\ joff'[j] = n + 1 /\ \A i \in JobIds \ {j} : joff'[i] = joff[i]
      /\ bytes'[f] = bytes[f] \cup {n + 1}
      /\ \A g \in JobIds \ {f} : bytes'[g] = bytes[g]
    BY <1>1, <1>2 DEF Shape
<1>5. \A g, x : FileOf(g, x) <=> FileOf(g, x)'
    BY <1>1, <1>4 DEF FileOf, Early
<1>6. \A g, x : FileOf(g, x) /\ x # s => g # f
    BY <1>2 DEF FileOf
<1>7. Shape'
    <2>1. bytes' \in [JobIds -> SUBSET Nat]
        <3>1. n + 1 \in Nat
            BY <1>3
        <3> QED
            BY <1>1, <3>1 DEF Shape
    <2>2. joff' \in [JobIds -> 0..Chunks]
        BY <1>1, <1>3 DEF Shape
    <2>3. jpc' \in [JobIds -> Early \cup Writing \cup Late]
        BY <1>1 DEF Shape, Writing
    <2> QED
        BY <1>1, <2>1, <2>2, <2>3 DEF Shape
<1>8. JobsPlaced'
    BY <1>a, <1>1, <1>2, <1>4 DEF JobsPlaced, Early
<1>9. FilesPlaced'
    BY <1>1, <1>5 DEF FilesPlaced, FileOf
<1>10. Alone'
    BY <1>1, <1>4 DEF Alone, Live
<1>11. WriterInv'
    <2> SUFFICES ASSUME NEW i \in JobIds, jpc'[i] \in Writing
                 PROVE  /\ FileOf(jfile[i], jslug[i])'
                        /\ jpc'[i] = "replace" => joff'[i] = Chunks
                        /\ jslug'[i] \notin shared' =>
                             /\ bytes'[jfile'[i]] = 1..joff'[i]
                             /\ part'[jslug'[i]] \in {NoFile, jfile'[i]}
                             /\ jfile'[i] \notin {dst'[jslug'[i]], mounted'[jslug'[i]]}
        BY DEF WriterInv
    <2>0. jpc[i] \in Writing /\ FileOf(jfile[i], jslug[i])'
        <3>1. jpc[i] \in Writing
            BY <1>1, <1>4 DEF Writing
        <3> QED
            BY <1>1, <1>5, <3>1 DEF WriterInv, FileOf
    <2>1. CASE i = j
        <3>1. 1..(n + 1) = 1..n \cup {n + 1}
            BY <1>3
        <3>2. s \notin shared =>
                 bytes[f] = 1..n /\ part[s] \in {NoFile, f} /\ f \notin {dst[s], mounted[s]}
            BY <1>a, <1>b, <1>c, <2>0, <2>1 DEF WriterInv
        <3> QED
            BY <1>a, <1>b, <1>1, <1>4, <2>0, <2>1, <3>1, <3>2
    <2>2. CASE i # j
        <3>1. /\ jpc'[i] = jpc[i] /\ jfile'[i] = jfile[i] /\ joff'[i] = joff[i]
              /\ jslug'[i] = jslug[i] /\ FileOf(jfile[i], jslug[i])
            BY <1>1, <1>4, <2>0, <2>2 DEF WriterInv
        <3>2. jslug[i] \notin shared => jslug[i] # s
            BY <1>a, <1>1, <1>2, <2>0, <2>2 DEF Alone, Live, Writing
        <3>3. jslug[i] # s => jfile[i] # f /\ jfile[i] \in JobIds
            BY <1>6, <3>1 DEF FileOf
        <3> QED
            BY <1>1, <1>4, <2>0, <3>1, <3>2, <3>3 DEF WriterInv
    <2> QED
        BY <2>1, <2>2
<1>12. BootsWhole'
    <2> SUFFICES ASSUME NEW x \in Slugs \ shared,
                        NEW g \in {mounted[x], dst[x]} \ {NoFile}
                 PROVE  Whole(g)'
        BY <1>1 DEF BootsWhole
    <2>1. Whole(g) /\ (g # Remote => FileOf(g, x) /\ g \in JobIds)
        BY DEF BootsWhole, FilesPlaced, FileOf
    <2>2. g # Remote => g # f
        <3>1. CASE x = s
            BY <1>a, <1>b, <1>1, <3>1 DEF WriterInv, Writing
        <3>2. CASE x # s
            BY <1>6, <2>1, <3>2
        <3> QED
            BY <3>1, <3>2
    <2> QED
        BY <1>4, <2>1, <2>2 DEF Whole
<1> QED
    BY <1>7, <1>8, <1>9, <1>10, <1>11, <1>12

(* The temporary file becomes the copy: alone, the job has written it all. *)
LEMMA ReplaceKeeps ==
    ASSUME IInv, NEW j \in JobIds, CopyReplace(j) PROVE IInv'
<1> USE DEF IInv
<1>a. PICK s : s = jslug[j]
    OBVIOUS
<1>b. PICK f : f = part[s]
    OBVIOUS
<1>1. /\ jpc[j] = "replace" /\ jpc' = [jpc EXCEPT ![j] = "ready"]
      /\ f # NoFile
      /\ dst' = [dst EXCEPT ![s] = f] /\ part' = [part EXCEPT ![s] = NoFile]
      /\ UNCHANGED <<cat, local, bytes, mounted, jslug, jfile, joff, shared, restarts>>
    BY <1>a, <1>b DEF CopyReplace, Goto
<1>2. s \in Slugs
    BY <1>a, <1>1 DEF JobsPlaced
<1>3. FileOf(f, s) /\ f # mounted[s]
    BY <1>b, <1>1, <1>2 DEF FilesPlaced
<1>4. /\ jpc'[j] = "ready" /\ \A i \in JobIds \ {j} : jpc'[i] = jpc[i]
      /\ dst'[s] = f /\ \A x \in Slugs \ {s} : dst'[x] = dst[x]
      /\ part'[s] = NoFile /\ \A x \in Slugs \ {s} : part'[x] = part[x]
    BY <1>1, <1>2 DEF Shape
<1>5. \A g, x : FileOf(g, x) <=> FileOf(g, x)'
    BY <1>1, <1>4 DEF FileOf, Early
<1>6. Shape'
    <2>1. jpc' \in [JobIds -> Early \cup Writing \cup Late]
        BY <1>1 DEF Shape, Late
    <2> QED
        BY <1>1, <2>1 DEF Shape
<1>7. JobsPlaced'
    BY <1>a, <1>1, <1>2, <1>4 DEF JobsPlaced, Early
<1>8. FilesPlaced'
    <2> SUFFICES ASSUME NEW x \in Slugs
                 PROVE  /\ part'[x] # NoFile =>
                             FileOf(part[x], x)' /\ part'[x] # dst'[x]
                               /\ part'[x] # mounted'[x]
                        /\ dst'[x] # NoFile => FileOf(dst[x], x)'
                        /\ mounted'[x] \notin {NoFile, Remote} =>
                             FileOf(mounted[x], x)'
        BY DEF FilesPlaced
    <2>1. mounted'[x] \notin {NoFile, Remote} => FileOf(mounted[x], x)'
        BY <1>1, <1>5 DEF FilesPlaced, FileOf
    <2>2. CASE x = s
        <3>1. FileOf(dst[x], x)'
            BY <1>3, <1>4, <1>5, <2>2 DEF FileOf
        <3> QED
            BY <1>4, <2>1, <2>2, <3>1
    <2>3. CASE x # s
        <3>0. part'[x] = part[x] /\ dst'[x] = dst[x]
            BY <1>4, <2>3
        <3>1. ASSUME part'[x] # NoFile PROVE FileOf(part[x], x)'
            <4>1. PICK g : g = part[x]
                OBVIOUS
            <4>2. FileOf(g, x)
                BY <3>0, <3>1, <4>1 DEF FilesPlaced
            <4>3. FileOf(g, x)'
                BY <1>5, <4>2
            <4> QED
                BY <3>0, <4>1, <4>3 DEF FileOf
        <3>2. ASSUME dst'[x] # NoFile PROVE FileOf(dst[x], x)'
            <4>1. PICK g : g = dst[x]
                OBVIOUS
            <4>2. FileOf(g, x)
                BY <3>0, <3>2, <4>1 DEF FilesPlaced
            <4>3. FileOf(g, x)'
                BY <1>5, <4>2
            <4> QED
                BY <3>0, <4>1, <4>3 DEF FileOf
        <3> QED
            BY <1>1, <2>1, <3>0, <3>1, <3>2 DEF FilesPlaced
    <2> QED
        BY <2>2, <2>3
<1>9. Alone'
    BY <1>1, <1>4 DEF Alone, Live
<1>10. WriterInv'
    <2> SUFFICES ASSUME NEW i \in JobIds, jpc'[i] \in Writing
                 PROVE  /\ FileOf(jfile[i], jslug[i])'
                        /\ jpc'[i] = "replace" => joff'[i] = Chunks
                        /\ jslug'[i] \notin shared' =>
                             /\ bytes'[jfile'[i]] = 1..joff'[i]
                             /\ part'[jslug'[i]] \in {NoFile, jfile'[i]}
                             /\ jfile'[i] \notin {dst'[jslug'[i]], mounted'[jslug'[i]]}
        BY DEF WriterInv
    <2>1. i # j /\ jpc[i] \in Writing /\ jpc'[i] = jpc[i]
        BY <1>4 DEF Writing
    <2>2. FileOf(jfile[i], jslug[i])'
        BY <1>1, <1>5, <2>1 DEF WriterInv, FileOf
    <2>3. jslug[i] \notin shared => jslug[i] # s
        BY <1>a, <1>1, <1>2, <2>1 DEF Alone, Live, Writing
    <2>4. jslug[i] \in Slugs
        BY <2>1 DEF JobsPlaced, Writing
    <2> QED
        BY <1>1, <1>4, <2>1, <2>2, <2>3, <2>4 DEF WriterInv
<1>11. BootsWhole'
    <2> SUFFICES ASSUME NEW x \in Slugs \ shared,
                        NEW g \in {mounted'[x], dst'[x]} \ {NoFile}
                 PROVE  Whole(g)'
        BY <1>1 DEF BootsWhole
    <2>1. CASE g \in {mounted[x], dst[x]}
        BY <1>1, <2>1 DEF BootsWhole, Whole
    <2>2. CASE x = s /\ g = f
        <3>1. f = jfile[j] /\ bytes[f] = 1..joff[j] /\ joff[j] = Chunks
            BY <1>a, <1>b, <1>1, <2>2 DEF WriterInv, Writing
        <3> QED
            BY <1>1, <2>2, <3>1 DEF Whole
    <2> QED
        BY <1>1, <1>4, <2>1, <2>2
<1> QED
    BY <1>6, <1>7, <1>8, <1>9, <1>10, <1>11

-----------------------------------------------------------------------------
(* Every step keeps IInv. *)
LEMMA IInvStep == IInv /\ [Next]_vars => IInv'
<1> SUFFICES ASSUME IInv, [Next]_vars PROVE IInv'
    OBVIOUS
<1>1. ASSUME NEW r \in Requests, NEW op \in Operations, NEW s \in Slugs,
             Request(r, op, s)
      PROVE  IInv'
    BY <1>1, RequestHarmless, HarmlessKeeps
<1>2. ASSUME NEW t \in Threads, ThreadStep(t) PROVE IInv'
    BY <1>2, StartKeeps, ThreadStepHarmless, HarmlessKeeps
<1>3. ASSUME NEW j \in JobIds, CopyJob(j) PROVE IInv'
    BY <1>3, OpenKeeps, ChunkKeeps, ReplaceKeeps, CopyHarmless, HarmlessKeeps
       DEF CopyJob
<1>4. CASE Restart
    BY <1>4, RestartHarmless, HarmlessKeeps
<1>5. CASE UNCHANGED vars
    <2>1. Harmless
        BY <1>5, CatalogueStep DEF vars, jobs, IInv, Shape
    <2> QED
        BY <2>1, HarmlessKeeps
<1> QED
    BY <1>1, <1>2, <1>3, <1>4, <1>5 DEF Next

(* IInv is an invariant of the specification. *)
LEMMA InductiveInvariant == Spec => []IInv
<1> QED
    BY InitIInv, IInvStep, PTL DEF Spec

(* Whatever users do and whatever fails or dies, what a PC boots from is   *)
(* whole, unless two jobs have copied that ISO at the same time.           *)
THEOREM WholeOrNothing == Spec => []BootsWhole
<1>1. IInv => BootsWhole
    BY DEF IInv
<1> QED
    BY <1>1, InductiveInvariant, PTL

-----------------------------------------------------------------------------
(* The partial files, while the process lives.                             *)

\* Job j writes the partial file of s, or is about to remove it.
BusyOn(j, s) ==
    jslug[j] = s /\ jpc[j] \in {"chunk", "progress", "replace", "unlink"}

\* A step of a job leaves the others as they are, and its own file busy.
LEMMA JobStaysBusy ==
    ASSUME IInv, NEW j \in JobIds, CopyJob(j),
           NEW s \in Slugs \ left', part'[s] # NoFile
    PROVE  /\ \A i \in JobIds : BusyOn(i, s) => BusyOn(i, s)'
           /\ part[s] = NoFile => BusyOn(j, s)'
           /\ s \notin left
<1> USE DEF copies
<1>s. DOMAIN jpc = JobIds /\ DOMAIN part = Slugs
    BY DEF IInv, Shape
<1>1. jslug' = jslug /\ \A i \in JobIds \ {j} : jpc'[i] = jpc[i]
    BY <1>s DEF CopyJob, CopyLoad, CopyState, CopyStateFails, CopyOpen,
       CopyChunk, CopyEof, CopyRaises,
       CopyReplace, CopyUnlink, RemovePart, CopyEnabled, CopyPick, CopyMount, Goto
<1>2. ASSUME BusyOn(j, s) PROVE jpc'[j] \in {"chunk", "progress", "replace", "unlink"}
    <2>1. ~(CopyReplace(j) \/ CopyUnlink(j))
        BY <1>2, <1>s DEF CopyReplace, CopyUnlink, RemovePart, BusyOn
    <2>2. CASE CopyState(j) \/ CopyStateFails(j) \/ CopyChunk(j) \/ CopyEof(j)
               \/ CopyRaises(j)
        BY <1>2, <1>s, <2>2 DEF CopyState, CopyStateFails, CopyChunk, CopyEof,
           CopyRaises, Goto, BusyOn
    <2>3. CASE CopyLoad(j) \/ CopyOpen(j) \/ CopyEnabled(j) \/ CopyPick(j) \/ CopyMount(j)
        BY <1>2, <2>3 DEF CopyLoad, CopyOpen, CopyEnabled, CopyPick, CopyMount, Goto,
           BusyOn
    <2> QED
        BY <2>1, <2>2, <2>3 DEF CopyJob
<1>3. ASSUME part[s] = NoFile PROVE BusyOn(j, s)'
    <2>1. CopyOpen(j)
        BY <1>3, <1>s DEF CopyJob, CopyLoad, CopyState, CopyStateFails,
           CopyChunk, CopyEof, CopyRaises,
           CopyReplace, CopyUnlink, RemovePart, CopyEnabled, CopyPick, CopyMount
    <2>2. jslug[j] = s
        BY <1>3, <1>s, <2>1 DEF CopyOpen
    <2>3. jpc'[j] = "chunk"
        BY <1>s, <2>1 DEF CopyOpen, Goto
    <2> QED
        BY <1>1, <2>2, <2>3 DEF BusyOn
<1>4. s \notin left
    <2>1. CASE CopyReplace(j)
        BY <1>s, <2>1 DEF CopyReplace
    <2>2. CASE CopyUnlink(j)
        BY <1>s, <2>2 DEF CopyUnlink, RemovePart
    <2>3. CASE ~(CopyReplace(j) \/ CopyUnlink(j))
        <3>1. left' = left
            BY <2>3 DEF CopyJob, CopyLoad, CopyState, CopyStateFails, CopyOpen,
               CopyChunk, CopyEof, CopyRaises, CopyEnabled, CopyPick, CopyMount
        <3> QED
            BY <3>1
    <2> QED
        BY <2>1, <2>2, <2>3
<1> QED
    BY <1>1, <1>2, <1>3, <1>4 DEF BusyOn

\* The other threads start jobs and remove files, no more.
LEMMA ThreadsLeaveJobs ==
    ASSUME IInv, NEW t \in Threads, ThreadStep(t)
    PROVE  /\ \A s \in Slugs : part'[s] \in {part[s], NoFile}
           /\ \A s \in Slugs : s \in left => s \in left' \/ part'[s] = NoFile
           /\ \A i \in JobIds, s \in Slugs : BusyOn(i, s) => BusyOn(i, s)'
<1> USE DEF jobs
<1>1. ASSUME NEW j \in JobIds, StartCopy(t, j)
      PROVE  /\ part' = part /\ left' = left
             /\ \A i \in JobIds, s \in Slugs : BusyOn(i, s) => BusyOn(i, s)'
    BY <1>1 DEF StartCopy, copies, BusyOn, IInv, Shape
<1>2. ASSUME ~(\E j \in JobIds : StartCopy(t, j)) PROVE jpc' = jpc /\ jslug' = jslug
    BY <1>2 DEF ThreadStep, Load, Save, Want, Unlink, State, Pick, PickFails, Mount,
       MountError, Flag, Umount, WriteFails, CancelCopies, StopCopy, WaitCopy,
       ClearAll, ListOrphans, RemoveOrphan,
       Forget, Pop, Merge, ResetInterrupted, UnlinkPart, RemountEnabled
<1>3. ASSUME ~(\E j \in JobIds : StartCopy(t, j))
      PROVE  \A s \in Slugs : part'[s] \in {part[s], NoFile}
    BY <1>3, ThreadStepHarmless DEF Harmless, FilesStay
<1>4. ASSUME ~(\E j \in JobIds : StartCopy(t, j))
      PROVE  \A s \in Slugs : s \in left => s \in left' \/ part'[s] = NoFile
    <2>1. CASE UnlinkPart(t) \/ RemoveOrphan(t)
        BY <2>1 DEF UnlinkPart, RemoveOrphan, RemovePart, IInv, Shape
    <2>2. CASE ~(UnlinkPart(t) \/ RemoveOrphan(t))
        <3>1. left' = left
            BY <1>4, <2>2 DEF ThreadStep, Load, Save, Want, Unlink, State, Pick,
               PickFails, Mount, MountError, Flag, Umount, WriteFails, CancelCopies,
               StopCopy, WaitCopy, ClearAll, ListOrphans, Forget, Pop, Merge,
               ResetInterrupted, RemountEnabled, copies
        <3> QED
            BY <3>1
    <2> QED
        BY <2>1, <2>2
<1> QED
    BY <1>1, <1>2, <1>3, <1>4 DEF BusyOn

(* While the process lives, each partial file has a job that writes it or  *)
(* is about to remove it, whatever is cancelled, cleared or fails, unless  *)
(* it is its removal that failed.                                          *)
THEOREM PartsHaveAJob == Spec => []NoStrayPart
<1> DEFINE Kept == restarts = 0 => \A s \in Slugs \ left :
                     part[s] # NoFile => \E j \in JobIds : BusyOn(j, s)
<1>1. Init => Kept
    <2> SUFFICES ASSUME Init PROVE Kept
        OBVIOUS
    <2>1. \A s \in Slugs : part[s] = NoFile
        BY DEF Init
    <2> QED
        BY <2>1
<1>2. IInv /\ Kept /\ [Next]_vars => Kept'
    <2> SUFFICES ASSUME IInv, Kept, [Next]_vars, restarts' = 0,
                        NEW s \in Slugs \ left', part'[s] # NoFile
                 PROVE  \E j \in JobIds : BusyOn(j, s)'
        OBVIOUS
    <2>r. restarts \in Nat
        BY DEF IInv, Shape
    <2>1. restarts = 0 /\ s \notin left /\ part[s] # NoFile => \E j \in JobIds : BusyOn(j, s)
        OBVIOUS
    <2> HIDE DEF Kept
    <2>2. ASSUME NEW r \in Requests, NEW op \in Operations, NEW x \in Slugs,
                 Request(r, op, x)
          PROVE  \E j \in JobIds : BusyOn(j, s)'
        BY <2>1, <2>2 DEF Request, copies, jobs, BusyOn
    <2>3. ASSUME NEW t \in Threads, ThreadStep(t)
          PROVE  \E j \in JobIds : BusyOn(j, s)'
        <3>1. restarts' = restarts
            BY <2>3 DEF ThreadStep, Load, Save, Want, StartCopy, Unlink, State, Pick,
               PickFails, Mount, MountError, Flag, Umount, WriteFails,
               CancelCopies, StopCopy, WaitCopy,
               ClearAll, ListOrphans, RemoveOrphan, Forget, Pop, Merge,
               ResetInterrupted,
               UnlinkPart, RemountEnabled
        <3> QED
            BY <2>1, <2>3, <3>1, ThreadsLeaveJobs
    <2>4. ASSUME NEW j \in JobIds, CopyJob(j) PROVE \E i \in JobIds : BusyOn(i, s)'
        <3>1. restarts' = restarts
            BY <2>4 DEF CopyJob, CopyLoad, CopyState, CopyStateFails, CopyOpen,
               CopyChunk, CopyEof,
               CopyRaises, CopyReplace, CopyUnlink, RemovePart, CopyEnabled,
               CopyPick, CopyMount
        <3> QED
            BY <2>1, <2>4, <3>1, JobStaysBusy
    <2>5. CASE Restart
        <3>1. restarts' = restarts + 1
            BY <2>5 DEF Restart
        <3> QED
            BY <2>r, <3>1
    <2>6. CASE UNCHANGED vars
        BY <2>1, <2>6 DEF vars, copies, jobs, BusyOn
    <2> QED
        BY <2>2, <2>3, <2>4, <2>5, <2>6 DEF Next
<1>3. Kept => NoStrayPart
    BY DEF NoStrayPart, Copying, Live, BusyOn
<1> HIDE DEF Kept
<1> QED
    BY <1>1, <1>2, <1>3, InductiveInvariant, PTL DEF Spec

-----------------------------------------------------------------------------
(* Induction over the numbers, for a set of them: the theorems of the      *)
(* library are about operators, which no back end here can instantiate.    *)
LEMMA SetInduction ==
    ASSUME NEW U \in SUBSET Nat, 0 \in U, \A n \in U : n + 1 \in U
    PROVE  U = Nat
<1> DEFINE Less == {p \in Nat \X Nat : p[1] < p[2]}
<1>1. IsWellFoundedOn(Less, Nat)
    BY NatLessThanWellFounded DEF OpToRel
<1>2. SUFFICES ASSUME Nat \ U # {} PROVE FALSE
    OBVIOUS
<1>3. PICK m \in Nat \ U : \A k \in Nat \ U : <<k, m>> \notin Less
    <2> HIDE DEF Less
    <2> QED
        BY <1>1, <1>2, WFMin
<1>4. m # 0 /\ m - 1 \in Nat /\ m - 1 < m
    OBVIOUS
<1>5. m - 1 \in U
    BY <1>3, <1>4
<1> QED
    BY <1>4, <1>5

(* What a sequence holds when two are joined, and when the head is taken.  *)
LEMMA RangeOfConcat ==
    ASSUME NEW T, NEW s \in Seq(T), NEW t \in Seq(T)
    PROVE  s \o t \in Seq(T) /\ Range(s \o t) = Range(s) \cup Range(t)
<1>1. /\ s \o t \in Seq(T) /\ Len(s \o t) = Len(s) + Len(t)
      /\ \A i \in 1..Len(s) + Len(t) :
           (s \o t)[i] = IF i <= Len(s) THEN s[i] ELSE t[i - Len(s)]
    BY ConcatProperties
<1>2. /\ DOMAIN s = 1..Len(s) /\ DOMAIN t = 1..Len(t)
      /\ DOMAIN (s \o t) = 1..Len(s) + Len(t)
      /\ Len(s) \in Nat /\ Len(t) \in Nat
    BY <1>1, LenProperties
<1>3. ASSUME NEW i \in 1..Len(s) PROVE s[i] \in Range(s \o t)
    <2>1. i \in 1..Len(s) + Len(t) /\ i <= Len(s)
        BY <1>2
    <2>2. (s \o t)[i] = s[i]
        BY <1>1, <2>1
    <2> QED
        BY <1>2, <2>1, <2>2 DEF Range
<1>4. ASSUME NEW i \in 1..Len(t) PROVE t[i] \in Range(s \o t)
    <2> DEFINE k == i + Len(s)
    <2>1. k \in 1..Len(s) + Len(t) /\ ~(k <= Len(s)) /\ k - Len(s) = i
        BY <1>2
    <2> HIDE DEF k
    <2>2. (s \o t)[k] = t[i]
        BY <1>1, <2>1
    <2> QED
        BY <1>2, <2>1, <2>2 DEF Range
<1>5. ASSUME NEW i \in 1..Len(s) + Len(t)
      PROVE  (s \o t)[i] \in Range(s) \cup Range(t)
    <2>1. CASE i <= Len(s)
        <3>1. i \in DOMAIN s /\ (s \o t)[i] = s[i]
            BY <1>1, <1>2, <2>1
        <3> QED
            BY <3>1 DEF Range
    <2>2. CASE ~(i <= Len(s))
        <3>1. i - Len(s) \in 1..Len(t)
            BY <1>2, <2>2
        <3>2. (s \o t)[i] = t[i - Len(s)]
            BY <1>1, <2>2
        <3> QED
            BY <1>2, <3>1, <3>2 DEF Range
    <2> QED
        BY <2>1, <2>2
<1> QED
    BY <1>1, <1>2, <1>3, <1>4, <1>5 DEF Range

LEMMA RangeOfTail ==
    ASSUME NEW T, NEW s \in Seq(T), s # <<>>
    PROVE  /\ Tail(s) \in Seq(T) /\ Head(s) \in T
           /\ Range(s) = {Head(s)} \cup Range(Tail(s))
<1>1. /\ Tail(s) \in Seq(T) /\ Head(s) \in T /\ Head(s) = s[1]
      /\ Len(Tail(s)) = Len(s) - 1
      /\ \A i \in 1..Len(s) - 1 : Tail(s)[i] = s[i + 1]
    BY HeadTailProperties
<1>2. /\ DOMAIN s = 1..Len(s) /\ DOMAIN Tail(s) = 1..Len(s) - 1
      /\ Len(s) \in Nat \ {0}
    BY <1>1, LenProperties, EmptySeq
<1>3. ASSUME NEW i \in 1..Len(s) PROVE s[i] \in {Head(s)} \cup Range(Tail(s))
    <2>1. i = 1 \/ i - 1 \in 1..Len(s) - 1
        BY <1>2
    <2>2. i - 1 \in 1..Len(s) - 1 => Tail(s)[i - 1] = s[i]
        BY <1>1
    <2> QED
        BY <1>1, <1>2, <2>1, <2>2 DEF Range
<1>4. ASSUME NEW i \in 1..Len(s) - 1 PROVE Tail(s)[i] \in Range(s)
    <2>1. i + 1 \in 1..Len(s) /\ Tail(s)[i] = s[i + 1]
        BY <1>1, <1>2
    <2> QED
        BY <1>2, <2>1 DEF Range
<1>5. Head(s) \in Range(s)
    BY <1>1, <1>2 DEF Range
<1> QED
    BY <1>1, <1>2, <1>3, <1>4, <1>5 DEF Range

(* FlattenSeq is defined: the recursion of its definition has a solution,  *)
(* built one sequence at a time.                                           *)
LEMMA FlattenExists ==
    ASSUME NEW T, NEW ss \in Seq(Seq(T)), NEW n \in Nat, n = Len(ss)
    PROVE  \E f : f = [i \in 1..n |-> IF i = 1 THEN ss[i] ELSE f[i - 1] \o ss[i]]
<1> DEFINE Good(g, k) == g = [i \in 1..k |-> IF i = 1 THEN ss[i] ELSE g[i - 1] \o ss[i]]
           U == {k \in Nat : \E g : Good(g, k)}
<1>1. 0 \in U
    <2>1. Good([i \in 1..0 |-> <<>>], 0)
        OBVIOUS
    <2> QED
        BY <2>1
<1>2. ASSUME NEW k \in U PROVE k + 1 \in U
    <2>1. PICK g : Good(g, k)
        OBVIOUS
    <2> DEFINE h == [i \in 1..k + 1 |->
                       IF i <= k THEN g[i] ELSE IF i = 1 THEN ss[i] ELSE g[i - 1] \o ss[i]]
    <2>2. ASSUME NEW i \in 1..k + 1
          PROVE  h[i] = IF i = 1 THEN ss[i] ELSE h[i - 1] \o ss[i]
        <3>1. i = 1 \/ (i - 1 \in 1..k + 1 /\ i - 1 <= k)
            OBVIOUS
        <3>2. i # 1 => h[i - 1] = g[i - 1]
            BY <3>1
        <3>3. CASE i <= k
            <4>1. i \in 1..k /\ h[i] = g[i]
                BY <3>3
            <4>2. g[i] = IF i = 1 THEN ss[i] ELSE g[i - 1] \o ss[i]
                BY <2>1, <4>1
            <4> QED
                BY <3>2, <4>1, <4>2
        <3>4. CASE ~(i <= k)
            BY <3>2, <3>4
        <3> QED
            BY <3>3, <3>4
    <2>3. DOMAIN h = 1..k + 1 /\ h = [i \in 1..k + 1 |-> h[i]]
        OBVIOUS
    <2> HIDE DEF h
    <2>4. Good(h, k + 1)
        BY <2>2, <2>3
    <2> HIDE DEF Good
    <2>5. k + 1 \in Nat /\ \E x : Good(x, k + 1)
        BY <2>4
    <2> QED
        BY <2>5
<1>3. U = Nat
    <2> HIDE DEF U
    <2>1. U \in SUBSET Nat
        BY DEF U
    <2> QED
        BY <1>1, <1>2, <2>1, SetInduction
<1> QED
    BY <1>3

(* FlattenSeq holds what the sequences of a sequence hold, and no more.    *)
LEMMA RangeOfFlatten ==
    ASSUME NEW T, NEW ss \in Seq(Seq(T))
    PROVE  /\ FlattenSeq(ss) \in Seq(T)
           /\ \A i \in 1..Len(ss) : Range(ss[i]) \subseteq Range(FlattenSeq(ss))
<1>1. Len(ss) \in Nat /\ \A i \in 1..Len(ss) : ss[i] \in Seq(T)
    BY LenProperties, ElementOfSeq
<1>2. CASE Len(ss) = 0
    <2>1. FlattenSeq(ss) = ss /\ ss = <<>>
        BY <1>2, EmptySeq DEF FlattenSeq
    <2> QED
        BY <1>2, <2>1, EmptySeq
<1>3. CASE Len(ss) # 0
    <2> DEFINE n == Len(ss)
               flatten == CHOOSE f : f = [i \in 1..n |->
                            IF i = 1 THEN ss[i] ELSE f[i - 1] \o ss[i]]
    <2>1. flatten = [i \in 1..n |->
                       IF i = 1 THEN ss[i] ELSE flatten[i - 1] \o ss[i]]
        BY <1>1, FlattenExists
    <2>2. FlattenSeq(ss) = flatten[n]
        BY <1>3 DEF FlattenSeq
    <2> HIDE DEF flatten
    <2> DEFINE Sound(k) == /\ flatten[k] \in Seq(T)
                           /\ \A i \in 1..k : Range(ss[i]) \subseteq Range(flatten[k])
               U == {k \in Nat : k \in 1..n => Sound(k)}
    <2>3. 0 \in U
        OBVIOUS
    <2>4. ASSUME NEW k \in U PROVE k + 1 \in U
        <3> SUFFICES ASSUME k + 1 \in 1..n PROVE Sound(k + 1)
            OBVIOUS
        <3>1. ss[k + 1] \in Seq(T)
            BY <1>1
        <3>2. CASE k = 0
            BY <2>1, <3>1, <3>2
        <3>3. CASE k # 0
            <4>1. k \in 1..n /\ k + 1 # 1 /\ (k + 1) - 1 = k
                BY <1>1, <3>3
            <4>2. flatten[k + 1] = flatten[k] \o ss[k + 1]
                BY <2>1, <4>1
            <4>3. Sound(k)
                BY <4>1
            <4>4. /\ flatten[k + 1] \in Seq(T)
                  /\ Range(flatten[k + 1]) = Range(flatten[k]) \cup Range(ss[k + 1])
                BY <3>1, <4>2, <4>3, RangeOfConcat
            <4>5. \A i \in 1..k + 1 : i \in 1..k \/ i = k + 1
                OBVIOUS
            <4> QED
                BY <4>3, <4>4, <4>5
        <3> QED
            BY <3>2, <3>3
    <2>5. U = Nat
        <3> HIDE DEF U
        <3>1. U \in SUBSET Nat
            BY DEF U
        <3> QED
            BY <2>3, <2>4, <3>1, SetInduction
    <2>6. Sound(n)
        <3>1. n \in U
            <4> HIDE DEF U
            <4> QED
                BY <1>1, <2>5
        <3>2. n \in 1..n
            BY <1>1, <1>3
        <3> QED
            BY <3>1, <3>2
    <2> QED
        BY <2>2, <2>6
<1> QED
    BY <1>2, <1>3

(* SetToSeq lists every member of a finite set. *)
LEMMA SetToSeqLists ==
    ASSUME NEW S, IsFiniteSet(S)
    PROVE  /\ Cardinality(S) \in Nat
           /\ SetToSeq(S) \in [1..Cardinality(S) -> S]
           /\ \A s \in S : \E i \in 1..Cardinality(S) : SetToSeq(S)[i] = s
<1> DEFINE n == Cardinality(S)
<1>1. n \in Nat /\ ExistsBijection(1..n, S)
    BY FS_CardinalityType
<1>2. IsFiniteSet(1..n) /\ Cardinality(1..n) = n
    BY <1>1, FS_Interval
<1>3. \E f \in [1..n -> S] : IsInjective(f)
    BY <1>1 DEF ExistsBijection, Bijection, Injection, IsInjective
<1>4. SetToSeq(S) \in [1..n -> S] /\ IsInjective(SetToSeq(S))
    BY <1>3 DEF SetToSeq
<1>5. SetToSeq(S) \in Injection(1..n, S)
    BY <1>4 DEF Injection, IsInjective
<1>6. SetToSeq(S) \in Surjection(1..n, S)
    BY <1>2, <1>5, FS_Injection
<1> QED
    BY <1>1, <1>4, <1>6 DEF Surjection

(* The steps of ForEach are the steps of its members. *)
LEMMA ForEachLists ==
    ASSUME NEW T, NEW S, IsFiniteSet(S), NEW P \in [S -> Seq(T)], NEW X,
           X = FlattenSeq([i \in 1..Cardinality(S) |-> P[SetToSeq(S)[i]]])
    PROVE  X \in Seq(T) /\ \A s \in S : Range(P[s]) \subseteq Range(X)
<1> DEFINE n == Cardinality(S)
           ss == [i \in 1..n |-> P[SetToSeq(S)[i]]]
<1>1. /\ n \in Nat /\ SetToSeq(S) \in [1..n -> S]
      /\ \A s \in S : \E i \in 1..n : SetToSeq(S)[i] = s
    BY SetToSeqLists
<1>2. ss \in Seq(Seq(T)) /\ Len(ss) = n
    <2>1. ss \in [1..n -> Seq(T)]
        BY <1>1
    <2> HIDE DEF ss, n
    <2>2. ss \in Seq(Seq(T))
        BY <1>1, <2>1, SeqDef
    <2>3. ss \in [1..Len(ss) -> Seq(T)] /\ Len(ss) \in Nat
        BY <2>2, LenProperties
    <2>4. Len(ss) = n
        <3>1. \A i : i \in 1..n <=> i \in 1..Len(ss)
            BY <2>1, <2>3
        <3>2. n = 0 \/ n \in 1..Len(ss)
            BY <1>1, <3>1
        <3>3. Len(ss) = 0 \/ Len(ss) \in 1..n
            BY <2>3, <3>1
        <3>4. n \in Nat /\ Len(ss) \in Nat
            BY <1>1, <2>3
        <3>5. n <= Len(ss) /\ Len(ss) <= n
            BY <3>2, <3>3, <3>4
        <3> QED
            BY <3>4, <3>5
    <2> QED
        BY <2>2, <2>4
<1>3. \A s \in S : \E i \in 1..n : ss[i] = P[s]
    BY <1>1
<1> HIDE DEF ss, n
<1>4. X \in Seq(T) /\ \A i \in 1..n : Range(ss[i]) \subseteq Range(X)
    <2>1. X = FlattenSeq(ss)
        BY DEF ss, n
    <2> QED
        BY <1>2, <2>1, RangeOfFlatten
<1> QED
    BY <1>3, <1>4

-----------------------------------------------------------------------------
(* No ISO stays "copying" by anything but a save, one that undid what      *)
(* others wrote or one that failed: a job that has written it still owes   *)
(* the catalogue another state, or has died and the recovery owes it, or   *)
(* the one that owed it could not write.                                   *)

\* What a job that has written "copying" has not passed yet.
Owing == {"open", "chunk", "progress", "replace", "ready", "unlink", "error"}

\* The steps of the background thread.
BgSteps == [op : {"reset", "unlink part", "state", "remount", "pick",
                  "mount copy", "mount remote"},
            slug : Slugs \cup {NoSlug}, arg : {"", "ignore"}]

\* The recovery has not begun, or has not reached that ISO.
Begins     == todo[Bg] # <<>> /\ Head(todo[Bg]).op = "reset"
Pending(s) == Begins \/ ToReset(s)

\* Somebody owes that ISO a state, or could not write it.
Owed(s) ==
    \/ Pending(s)
    \/ \E j \in JobIds : jslug[j] = s /\ jpc[j] \in Owing
    \/ s \in unwritten

Typed ==
    /\ DOMAIN todo = Threads /\ todo[Bg] \in Seq(BgSteps)
    /\ cat \in [Slugs -> Entry] /\ local \in [Threads -> [Slugs -> Entry]]

\* The catalogue owes nobody a state.
AllOwed == \A s \in Slugs : cat[s].cache = "copying" => cat[s].in /\ Owed(s)

OwedInv == Typed /\ (stale \/ AllOwed)

LEMMA InitOwed == Init => OwedInv
<1> SUFFICES ASSUME Init PROVE OwedInv
    OBVIOUS
<1> DEFINE d == Do("reset", NoSlug, "")
<1>1. todo[Bg] = <<d>> /\ DOMAIN todo = Threads /\ d \in BgSteps
    BY DEF Init, Threads, Do, BgSteps
<1>2. <<d>> \in Seq(BgSteps)
    <2> HIDE DEF d
    <2> QED
        BY <1>1
<1>3. cat \in [Slugs -> Entry] /\ local \in [Threads -> [Slugs -> Entry]]
    BY DEF Init, Nothing, NewEntry, Absent, Entry, Status
<1>4. AllOwed
    BY DEF Init, NewEntry, Absent, AllOwed
<1> QED
    BY <1>1, <1>2, <1>3, <1>4 DEF OwedInv, Typed

(* An ISO that was owed a state is owed it still, when neither its entry,  *)
(* nor the jobs, nor the recovery took a step that matters to it.          *)
LEMMA StillOwed ==
    ASSUME AllOwed, NEW s \in Slugs,
           cat'[s].cache = "copying" => cat[s].cache = "copying" /\ cat'[s].in = cat[s].in,
           cat'[s].cache = "copying" /\ Pending(s) => Pending(s)' \/ s \in unwritten',
           cat'[s].cache = "copying" /\ cat[s].in /\ s \in unwritten =>
             s \in unwritten',
           cat'[s].cache = "copying" =>
             \A j \in JobIds : jslug[j] = s /\ jpc[j] \in Owing =>
                                 jslug'[j] = s /\ jpc'[j] \in Owing
    PROVE  cat'[s].cache = "copying" => cat'[s].in /\ Owed(s)'
  BY DEF AllOwed, Owed

(* What a step of the background thread does to the steps it has left.     *)
LEMMA BgGoesOn ==
    ASSUME Typed, ThreadStep(Bg)
    PROVE  /\ DOMAIN todo' = Threads /\ todo'[Bg] \in Seq(BgSteps)
           /\ \A s \in Slugs : Pending(s) =>
                \/ Pending(s)' \/ s \in unwritten'
                \/ State(Bg) /\ Slug(Bg) = s
                \/ UNCHANGED cat /\ cat[s].cache # "copying"
<1> DEFINE d == Head(todo[Bg])
<1>b. Bg \in Threads
    BY DEF Threads
<1>0. todo[Bg] # <<>> /\ todo[Bg] \in Seq(BgSteps) /\ DOMAIN todo = Threads
    BY DEF Typed, ThreadStep, Load, Save, Want, StartCopy, Unlink, State, Pick,
       PickFails, Mount, MountError, Flag, Umount, WriteFails, CancelCopies,
       StopCopy, WaitCopy, ClearAll,
       ListOrphans, RemoveOrphan, Forget, Pop, Merge, ResetInterrupted, UnlinkPart,
       RemountEnabled, Step
<1>1. /\ Tail(todo[Bg]) \in Seq(BgSteps) /\ d \in BgSteps
      /\ Range(todo[Bg]) = {d} \cup Range(Tail(todo[Bg]))
    BY <1>0, RangeOfTail
<1>2. ASSUME NEW more \in Seq(BgSteps), Go(Bg, more)
      PROVE  /\ DOMAIN todo' = Threads /\ todo'[Bg] \in Seq(BgSteps)
             /\ Range(todo'[Bg]) = Range(more) \cup Range(Tail(todo[Bg]))
    <2>1. DOMAIN todo' = Threads /\ todo'[Bg] = more \o Tail(todo[Bg])
        BY <1>0, <1>2, <1>b DEF Go
    <2>2. PICK r : r = Tail(todo[Bg])
        OBVIOUS
    <2>3. r \in Seq(BgSteps)
        BY <1>1, <2>2
    <2>4. more \o r \in Seq(BgSteps) /\ Range(more \o r) = Range(more) \cup Range(r)
        BY <2>3, RangeOfConcat
    <2> QED
        BY <2>1, <2>2, <2>4
<1>3. ASSUME d.op \notin {"reset", "state"},
             NEW more \in Seq(BgSteps), Go(Bg, more)
      PROVE  \A s \in Slugs : Pending(s) => Pending(s)'
    <2>1. ~Begins
        BY <1>3 DEF Begins
    <2>2. \A s \in Slugs : ToReset(s) => ToReset(s)'
        BY <1>1, <1>2, <1>3 DEF ToReset
    <2> QED
        BY <2>1, <2>2 DEF Pending
<1>4. <<>> \in Seq(BgSteps)
    OBVIOUS
<1>5. CASE State(Bg)
    <2>1. Go(Bg, <<>>) /\ d.op = "state"
        BY <1>5 DEF State, Proceed, Step
    <2>2. Range(todo'[Bg]) = Range(<<>>) \cup Range(Tail(todo[Bg]))
        BY <1>2, <1>4, <2>1
    <2>3. \A s \in Slugs : ToReset(s) => ToReset(s)' \/ d.slug = s
        BY <1>1, <2>1, <2>2 DEF ToReset
    <2>4. ~Begins
        BY <2>1 DEF Begins
    <2> QED
        BY <1>2, <1>4, <1>5, <2>1, <2>3, <2>4 DEF Slug, Pending
<1>6. CASE UnlinkPart(Bg) \/ \E path \in Paths : Mount(Bg, path)
    <2>1. Go(Bg, <<>>) /\ d.op \notin {"reset", "state"}
        BY <1>6 DEF UnlinkPart, Mount, Proceed, Step
    <2> QED
        BY <1>2, <1>3, <1>4, <2>1
<1>7. CASE PickFails(Bg) \/ \E path \in Paths : MountError(Bg, path)
    <2>1. Failed(Bg) /\ d.op \notin {"reset", "state"}
        BY <1>7 DEF PickFails, MountError, Step
    <2>2. Arg(Bg) # "abort"
        BY <1>1 DEF BgSteps, Arg
    <2>3. Go(Bg, <<>>)
        BY <2>1, <2>2 DEF Failed, Proceed
    <2> QED
        BY <1>2, <1>3, <1>4, <2>1, <2>3
<1>8. CASE Pick(Bg)
    <2> DEFINE m == Do(IF BootPath(Slug(Bg)) = "copy" THEN "mount copy"
                       ELSE "mount remote", Slug(Bg), Arg(Bg))
    <2>1. Go(Bg, <<m>>) /\ d.op = "pick"
        BY <1>8 DEF Pick, Step
    <2>2. m \in BgSteps
        BY <1>1 DEF BgSteps, Do, Slug, Arg
    <2> HIDE DEF m
    <2>3. <<m>> \in Seq(BgSteps)
        BY <2>2
    <2> QED
        BY <1>2, <1>3, <2>1, <2>3
<1>9. CASE RemountEnabled(Bg)
    <2> DEFINE S == {s \in Slugs : cat[s].enabled /\ mounted[s] = NoFile}
               P == [s \in S |-> <<Do("pick", s, "ignore")>>]
               X == FlattenSeq([i \in 1..Cardinality(S) |-> P[SetToSeq(S)[i]]])
               e == <<Do("remount", NoSlug, "")>>
    <2>1. IsFiniteSet(S)
        BY CatalogAssumption, FS_Subset
    <2>2. P \in [S -> Seq(BgSteps)] /\ e \in Seq(BgSteps)
        BY DEF Do, BgSteps
    <2>3. X \in Seq(BgSteps)
        <3> HIDE DEF P, S
        <3>1. \A x : x = X => x \in Seq(BgSteps)
                 /\ \A s \in S : Range(P[s]) \subseteq Range(x)
            BY <2>1, <2>2, ForEachLists
        <3> QED
            BY <3>1
    <2>4. X \o e \in Seq(BgSteps)
        <3> HIDE DEF X, e
        <3> QED
            BY <2>2, <2>3
    <2>5. Go(Bg, X \o e) /\ d.op = "remount"
        <3>1. \A i \in 1..Cardinality(S) : SetToSeq(S)[i] \in S
            <4> HIDE DEF S
            <4> QED
                BY <2>1, SetToSeqLists
        <3>2. ForEach(S, LAMBDA s : <<Do("pick", s, "ignore")>>) = X
            BY <3>1 DEF ForEach
        <3> QED
            BY <1>9, <3>2 DEF RemountEnabled, Step
    <2> HIDE DEF X, e
    <2> QED
        BY <1>2, <1>3, <2>4, <2>5
<1>10. CASE ResetInterrupted(Bg)
    <2> DEFINE S == {s \in Slugs : cat[s].cache = "copying"}
               P == [s \in S |-> <<Do("unlink part", s, ""), Do("state", s, "")>>]
               X == FlattenSeq([i \in 1..Cardinality(S) |-> P[SetToSeq(S)[i]]])
               e == <<Do("remount", NoSlug, "")>>
    <2>1. IsFiniteSet(S)
        BY CatalogAssumption, FS_Subset
    <2>2. P \in [S -> Seq(BgSteps)] /\ e \in Seq(BgSteps)
        BY DEF Do, BgSteps
    <2>3. X \in Seq(BgSteps) /\ \A s \in S : Range(P[s]) \subseteq Range(X)
        <3> HIDE DEF P, S
        <3>1. \A x : x = X => x \in Seq(BgSteps)
                 /\ \A s \in S : Range(P[s]) \subseteq Range(x)
            BY <2>1, <2>2, ForEachLists
        <3> QED
            BY <3>1
    <2>4. X \o e \in Seq(BgSteps) /\ Range(X \o e) = Range(X) \cup Range(e)
        <3> HIDE DEF P, S, X, e
        <3>1. \A x, y \in Seq(BgSteps) :
                x \o y \in Seq(BgSteps) /\ Range(x \o y) = Range(x) \cup Range(y)
            BY RangeOfConcat
        <3> QED
            BY <2>2, <2>3, <3>1
    <2>5. Go(Bg, X \o e) /\ UNCHANGED cat
        <3>1. \A i \in 1..Cardinality(S) : SetToSeq(S)[i] \in S
            <4> HIDE DEF S
            <4> QED
                BY <2>1, SetToSeqLists
        <3>2. ForEach(S, LAMBDA s : <<Do("unlink part", s, ""), Do("state", s, "")>>) = X
            BY <3>1 DEF ForEach
        <3> QED
            BY <1>10, <3>2 DEF ResetInterrupted
    <2>6. \A s \in S : Do("state", s, "") \in Range(P[s])
        <3> SUFFICES ASSUME NEW s \in S PROVE Do("state", s, "") \in Range(P[s])
            OBVIOUS
        <3>1. P[s] = <<Do("unlink part", s, ""), Do("state", s, "")>>
            OBVIOUS
        <3>2. \A x, y : 2 \in DOMAIN <<x, y>> /\ <<x, y>>[2] = y
            OBVIOUS
        <3> HIDE DEF P, S
        <3>3. 2 \in DOMAIN P[s] /\ P[s][2] = Do("state", s, "")
            BY <3>1, <3>2
        <3> QED
            BY <3>3 DEF Range
    <2>7. \A s \in S : Do("state", s, "") \in Range(todo'[Bg])
        <3> HIDE DEF P, S, X, e
        <3> QED
            BY <1>2, <2>3, <2>4, <2>5, <2>6
    <2>8. \A s \in S : Pending(s)'
        BY <2>7 DEF Pending, ToReset, Do
    <2>9. \A s \in Slugs : s \in S \/ cat[s].cache # "copying"
        OBVIOUS
    <2> HIDE DEF P, S, X, e
    <2> QED
        BY <1>2, <2>4, <2>5, <2>8, <2>9
<1>11. d.op \in {"reset", "unlink part", "state", "remount", "pick", "mount copy",
                 "mount remote"}
    BY <1>1 DEF BgSteps
<1>12. CASE WriteFails(Bg)
    <2> DEFINE e == Do("remount", NoSlug, "")
    <2>1. d.op = "state"
        BY <1>11, <1>12 DEF WriteFails, Step
    <2>2. todo' = [todo EXCEPT ![Bg] = <<e>>]
          /\ unwritten' = unwritten \cup {s \in Slugs : ToReset(s)}
        BY <1>12 DEF WriteFails
    <2>3. e \in BgSteps
        BY DEF Do, BgSteps
    <2> HIDE DEF e
    <2>4. DOMAIN todo' = Threads /\ todo'[Bg] \in Seq(BgSteps)
        BY <1>0, <1>b, <2>2, <2>3
    <2>5. ~Begins
        BY <2>1 DEF Begins
    <2> QED
        BY <2>2, <2>4, <2>5 DEF Pending
<1> QED
    BY <1>5, <1>6, <1>7, <1>8, <1>9, <1>10, <1>11, <1>12 DEF ThreadStep, Load, Save,
       Want, StartCopy, Unlink, Flag, Umount, CancelCopies, StopCopy, WaitCopy,
       ClearAll,
       ListOrphans, RemoveOrphan, Forget, Pop, Merge, Step

(* What a step of a thread does to the catalogue and to the jobs.          *)
LEMMA ThreadCatalogue ==
    ASSUME Typed, NEW t \in Threads, ThreadStep(t)
    PROVE  /\ cat' \in [Slugs -> Entry] /\ local' \in [Threads -> [Slugs -> Entry]]
           /\ stale => stale'
           /\ stale' \/ \A s \in Slugs :
                cat'[s].cache = "copying" =>
                  cat[s].cache = "copying" /\ cat'[s].in = cat[s].in
           /\ \A j \in JobIds : jpc[j] \in Owing => UNCHANGED <<jslug[j], jpc[j]>>
           /\ \A s \in Slugs : s \in unwritten /\ cat[s].in /\ cat'[s].cache = "copying"
                => s \in unwritten'
<1> USE DEF jobs
<1>a. Absent \in Entry /\ NewEntry \in Entry /\ Nothing \in [Slugs -> Entry]
      /\ NewEntry.cache = "none" /\ Absent.cache = "none"
    BY DEF Absent, NewEntry, Nothing, Entry, Status
<1>c. /\ cat \in [Slugs -> Entry] /\ local \in [Threads -> [Slugs -> Entry]]
      /\ local[t] \in [Slugs -> Entry]
    BY DEF Typed
<1>1. CASE Save(t) \/ Want(t)
    <2>1. UNCHANGED <<jslug, jpc, unwritten>> /\ local' = [local EXCEPT ![t] = Nothing]
          /\ stale' = (stale \/ cat # local[t])
        BY <1>1 DEF Save, Want, Saves, Discard
    <2>2. cat' = local[t] \/ \E s, b : b \in BOOLEAN
                               /\ cat' = [local[t] EXCEPT ![s].wanted = b]
        BY <1>1 DEF Save, Want, Saves
    <2>3. /\ cat' \in [Slugs -> Entry]
          /\ \A s \in Slugs : cat'[s].cache = local[t][s].cache
                              /\ cat'[s].in = local[t][s].in
        <3>1. /\ cat' = [x \in Slugs |-> cat'[x]]
              /\ \A x \in Slugs : cat'[x] = local[t][x] \/ \E b \in BOOLEAN :
                                   cat'[x] = [local[t][x] EXCEPT !.wanted = b]
            BY <1>c, <2>2
        <3>2. \A x \in Slugs : local[t][x] \in Entry
            BY <1>c
        <3>3. ASSUME NEW x \in Slugs
              PROVE  /\ cat'[x] \in Entry /\ cat'[x].in = local[t][x].in
                     /\ cat'[x].cache = local[t][x].cache
            <4>1. CASE cat'[x] = local[t][x]
                BY <3>2, <4>1
            <4>2. ASSUME NEW b \in BOOLEAN, cat'[x] = [local[t][x] EXCEPT !.wanted = b]
                  PROVE  /\ cat'[x] \in Entry /\ cat'[x].in = local[t][x].in
                         /\ cat'[x].cache = local[t][x].cache
                BY <3>2, <4>2 DEF Entry
            <4> QED
                BY <3>1, <4>1, <4>2
        <3> QED
            BY <3>1, <3>3
    <2> QED
        BY <1>a, <1>c, <2>1, <2>3
<1>2. CASE Flag(t) \/ State(t)
    <2>1. UNCHANGED <<jslug, jpc, local, stale>>
        BY <1>2 DEF Flag, State
    <2>2. cat' = cat \/ \E s : \/ \E b \in BOOLEAN : cat' = [cat EXCEPT ![s].enabled = b]
                               \/ cat' = [cat EXCEPT ![s].cache = "none"]
        BY <1>2 DEF Flag, State, SetCacheState
    <2>3. /\ cat' \in [Slugs -> Entry]
          /\ \A s \in Slugs : cat'[s].cache = "none"
                \/ (cat'[s].cache = cat[s].cache /\ cat'[s].in = cat[s].in)
        <3>1. /\ cat' = [x \in Slugs |-> cat'[x]]
              /\ \A x \in Slugs : \/ cat'[x] = cat[x]
                                 \/ cat'[x] = [cat[x] EXCEPT !.cache = "none"]
                                 \/ \E b \in BOOLEAN :
                                      cat'[x] = [cat[x] EXCEPT !.enabled = b]
            BY <1>c, <2>2
        <3>2. \A x \in Slugs : cat[x] \in Entry
            BY <1>c
        <3>3. ASSUME NEW x \in Slugs
              PROVE  /\ cat'[x] \in Entry
                     /\ \/ cat'[x].cache = "none"
                        \/ cat'[x].in = cat[x].in /\ cat'[x].cache = cat[x].cache
            <4>1. CASE cat'[x] = cat[x]
                BY <3>2, <4>1
            <4>2. CASE cat'[x] = [cat[x] EXCEPT !.cache = "none"]
                BY <3>2, <4>2 DEF Entry, Status
            <4>3. ASSUME NEW b \in BOOLEAN, cat'[x] = [cat[x] EXCEPT !.enabled = b]
                  PROVE  cat'[x] \in Entry /\ cat'[x].in = cat[x].in
                         /\ cat'[x].cache = cat[x].cache
                BY <3>2, <4>3 DEF Entry
            <4> QED
                BY <3>1, <4>1, <4>2, <4>3
        <3> QED
            BY <3>1, <3>3
    <2>4. ASSUME NEW s \in Slugs, s \in unwritten, cat[s].in, cat'[s].cache = "copying"
          PROVE  s \in unwritten'
        <3>1. CASE Flag(t)
            BY <2>4, <3>1 DEF Flag
        <3>2. CASE State(t)
            <4>1. unwritten' = unwritten \ {Slug(t)}
                BY <3>2 DEF State, SetCacheState
            <4>2. Slug(t) # s
                <5> SUFFICES ASSUME Slug(t) = s PROVE FALSE
                    OBVIOUS
                <5>1. cat' = [cat EXCEPT ![s].cache = "none"]
                    BY <2>4, <3>2 DEF State, SetCacheState, In
                <5>2. cat[s] \in Entry
                    BY <1>c
                <5> QED
                    BY <1>c, <2>4, <5>1, <5>2 DEF Entry
            <4> QED
                BY <2>4, <4>1, <4>2
        <3> QED
            BY <1>2, <3>1, <3>2
    <2> QED
        BY <1>c, <2>1, <2>3, <2>4
<1>3. CASE Merge(t) \/ Pop(t)
    <2>1. UNCHANGED <<jslug, jpc, stale, unwritten>>
          /\ (local' = local \/ local' = [local EXCEPT ![t] = Nothing])
        BY <1>3 DEF Merge, Pop, Discard
    <2>2. /\ cat' = [s \in Slugs |-> cat'[s]]
          /\ \A s \in Slugs : cat'[s] \in {cat[s], NewEntry, Absent}
        BY <1>3 DEF Merge, Pop
    <2>3. cat' \in [Slugs -> Entry]
        BY <1>a, <1>c, <2>2
    <2>4. \A s \in Slugs : cat'[s].cache = "none" \/ cat'[s] = cat[s]
        BY <1>a, <2>2
    <2> QED
        BY <1>a, <1>c, <2>1, <2>3, <2>4
<1>4. CASE Load(t) \/ Forget(t)
    <2>1. UNCHANGED <<jslug, jpc, stale, cat, unwritten>>
          /\ (local' = local \/ local' = [local EXCEPT ![t] = cat])
        BY <1>4 DEF Load, Forget
    <2> QED
        BY <1>c, <2>1
<1>5. ASSUME NEW j \in JobIds, StartCopy(t, j)
      PROVE  /\ UNCHANGED <<cat, local, stale, unwritten>>
             /\ \A i \in JobIds : jpc[i] \in Owing => UNCHANGED <<jslug[i], jpc[i]>>
    BY <1>5 DEF StartCopy, Owing
<1>6. CASE \/ Unlink(t) \/ Pick(t) \/ PickFails(t) \/ Umount(t) \/ CancelCopies(t)
           \/ StopCopy(t) \/ WaitCopy(t) \/ ClearAll(t) \/ ListOrphans(t)
           \/ RemoveOrphan(t) \/ ResetInterrupted(t)
           \/ UnlinkPart(t) \/ RemountEnabled(t)
           \/ \E path \in Paths : Mount(t, path) \/ MountError(t, path)
    <2>1. UNCHANGED <<jslug, jpc, stale, cat, local, unwritten>>
        BY <1>6 DEF Unlink, Pick, PickFails, Umount, CancelCopies, StopCopy,
           WaitCopy, ClearAll,
           ListOrphans, RemoveOrphan, ResetInterrupted, UnlinkPart,
           RemountEnabled, Mount, MountError
    <2> QED
        BY <1>c, <2>1
<1>7. CASE WriteFails(t)
    <2>1. UNCHANGED <<jslug, jpc, stale, cat>> /\ unwritten \subseteq unwritten'
          /\ local' = [local EXCEPT ![t] = Nothing]
        BY <1>7 DEF WriteFails, Discard
    <2> QED
        BY <1>a, <1>c, <2>1
<1> QED
    BY <1>c, <1>1, <1>2, <1>3, <1>4, <1>5, <1>6, <1>7 DEF ThreadStep

\* The other threads leave the steps of the background thread alone.
LEMMA OthersLeaveBg ==
    ASSUME Typed, NEW t \in Threads, t # Bg, ThreadStep(t)
    PROVE  DOMAIN todo' = Threads /\ todo'[Bg] = todo[Bg]
<1>1. \E q : todo' = [todo EXCEPT ![t] = q]
    BY DEF ThreadStep, Load, Save, Want, StartCopy, Unlink, State, Pick,
       PickFails, Mount, MountError, Flag, Umount, WriteFails, CancelCopies,
       StopCopy, WaitCopy, ClearAll,
       ListOrphans, RemoveOrphan, Forget, Pop, Merge, ResetInterrupted, UnlinkPart,
       RemountEnabled, Go, Proceed, Raise, Failed
<1> QED
    BY <1>1 DEF Typed

(* What a step of a job does to them.                                      *)
LEMMA JobCatalogue ==
    ASSUME IInv, Typed, AllOwed, NEW j \in JobIds, CopyJob(j)
    PROVE  cat' \in [Slugs -> Entry] /\ AllOwed'
<1>0. PICK x : x = jslug[j]
    OBVIOUS
<1>1. /\ cat \in [Slugs -> Entry] /\ jpc \in [JobIds -> Early \cup Writing \cup Late]
      /\ UNCHANGED <<todo, jslug>> /\ \A i \in JobIds : i # j => jpc'[i] = jpc[i]
    BY DEF Typed, IInv, Shape, CopyJob, CopyLoad, CopyState, CopyStateFails,
       CopyOpen, CopyChunk, CopyEof,
       CopyRaises, CopyReplace, CopyUnlink, RemovePart, CopyEnabled, CopyPick,
       CopyMount, Goto
<1>2. \A s \in Slugs : Pending(s)' = Pending(s)
    BY <1>1 DEF Pending, Begins, ToReset
<1>3. \A e \in Entry, c \in Status :
         LET f == [e EXCEPT !.cache = c] IN f \in Entry /\ f.cache = c /\ f.in = e.in
    BY DEF Entry
<1>4. ASSUME NEW c \in Status, SetCacheState(x, c)
      PROVE  /\ cat' \in [Slugs -> Entry]
             /\ \A s \in Slugs : s # x => cat'[s] = cat[s]
             /\ x \in Slugs /\ cat[x].in => cat'[x].cache = c /\ cat'[x].in = cat[x].in
             /\ ~(x \in Slugs /\ cat[x].in) => cat' = cat
    <2>1. CASE x \in Slugs /\ cat[x].in
        <3>1. cat' = [cat EXCEPT ![x].cache = c]
            BY <1>4, <2>1 DEF SetCacheState, In
        <3>2. cat' = [cat EXCEPT ![x] = [cat[x] EXCEPT !.cache = c]]
            BY <3>1
        <3>3. cat[x] \in Entry
            BY <1>1, <2>1
        <3> QED
            BY <1>1, <1>3, <2>1, <3>2, <3>3
    <2>2. CASE ~(x \in Slugs /\ cat[x].in)
        BY <1>1, <1>4, <2>2 DEF SetCacheState, In
    <2> QED
        BY <2>1, <2>2
<1>5. CASE cat' = cat /\ unwritten' = unwritten
           /\ (jpc[j] \in Owing => jpc'[j] \in Owing)
    BY <1>1, <1>2, <1>5 DEF AllOwed, Owed
<1>6. ASSUME SetCacheState(x, "copying"), jpc'[j] \in Owing
      PROVE  cat' \in [Slugs -> Entry] /\ AllOwed'
    <2>1. "copying" \in Status
        BY DEF Status
    <2>4. /\ cat' \in [Slugs -> Entry]
          /\ \A s \in Slugs : s # x => cat'[s] = cat[s]
          /\ x \in Slugs /\ cat[x].in => cat'[x].in
          /\ ~(x \in Slugs /\ cat[x].in) => cat' = cat
          /\ unwritten' = unwritten \ {x}
        BY <1>4, <1>6, <2>1 DEF SetCacheState
    <2>2. \A s \in Slugs : s # x /\ Owed(s) => Owed(s)'
        BY <1>0, <1>1, <1>2, <1>6, <2>4 DEF Owed
    <2>3. x \in Slugs => Owed(x)'
        BY <1>0, <1>1, <1>6 DEF Owed
    <2>5. ASSUME NEW s \in Slugs, cat'[s].cache = "copying"
          PROVE  cat'[s].in /\ Owed(s)'
        <3>1. CASE s = x /\ cat[x].in
            BY <2>3, <2>4, <3>1
        <3>2. CASE ~(s = x /\ cat[x].in)
            <4>1. cat'[s] = cat[s] /\ cat[s].in
                BY <2>4, <2>5, <3>2 DEF AllOwed
            <4> QED
                BY <2>2, <2>5, <3>2, <4>1 DEF AllOwed
        <3> QED
            BY <3>1, <3>2
    <2> QED
        BY <2>4, <2>5 DEF AllOwed
<1>7. ASSUME NEW c \in {"ready", "error"}, SetCacheState(x, c)
      PROVE  cat' \in [Slugs -> Entry] /\ AllOwed'
    <2>1. c \in Status /\ c # "copying"
        BY DEF Status
    <2>2. unwritten' = unwritten \ {x}
        BY <1>7 DEF SetCacheState
    <2>3. \A s \in Slugs : s # x /\ Owed(s) => Owed(s)'
        BY <1>0, <1>1, <1>2, <2>2 DEF Owed
    <2> QED
        BY <1>4, <1>7, <2>1, <2>3 DEF AllOwed
<1>8. CASE CopyState(j)
    <2>1. \/ SetCacheState(x, "copying") /\ jpc'[j] \in {"open", "chunk"}
          \/ \E c \in {"ready", "error"} : SetCacheState(x, c)
        BY <1>0, <1>1, <1>8 DEF CopyState, Goto
    <2> QED
        BY <1>6, <1>7, <2>1 DEF Owing
<1>9. CASE CopyStateFails(j)
    <2>1. cat' = cat
        BY <1>9 DEF CopyStateFails
    <2>2. CASE jpc[j] = "error" /\ unwritten' = unwritten \cup {x}
        BY <1>0, <1>1, <1>2, <2>1, <2>2 DEF AllOwed, Owed
    <2>3. CASE unwritten' = unwritten /\ (jpc[j] \in Owing => jpc'[j] \in Owing)
        BY <1>5, <2>1, <2>3
    <2> QED
        BY <1>0, <1>1, <1>9, <2>2, <2>3 DEF CopyStateFails, Goto, Owing
<1>10. CASE ~CopyState(j) /\ ~CopyStateFails(j)
    <2>1. cat' = cat /\ unwritten' = unwritten
        BY <1>10 DEF CopyJob, CopyLoad, CopyOpen, CopyChunk, CopyEof, CopyRaises,
           CopyReplace, CopyUnlink, CopyEnabled, CopyPick, CopyMount
    <2>2. jpc[j] \in Owing => jpc'[j] \in Owing
        BY <1>1, <1>10 DEF CopyJob, CopyLoad, CopyOpen, CopyChunk, CopyEof,
           CopyRaises,
           CopyReplace, CopyUnlink, CopyEnabled, CopyPick, CopyMount, Goto, Owing
    <2> QED
        BY <1>5, <2>1, <2>2
<1> QED
    BY <1>8, <1>9, <1>10

LEMMA NextOwed == IInv /\ OwedInv /\ [Next]_vars => OwedInv'
<1> SUFFICES ASSUME IInv, OwedInv, [Next]_vars PROVE OwedInv'
    OBVIOUS
<1>t. Typed /\ (stale \/ AllOwed) /\ Bg \in Threads
    BY DEF OwedInv, Threads
<1>1. ASSUME NEW r \in Requests, NEW op \in Operations, NEW s \in Slugs, Request(r, op, s)
      PROVE  OwedInv'
    <2>1. /\ todo'[Bg] = todo[Bg] /\ DOMAIN todo' = Threads
          /\ UNCHANGED <<cat, unwritten, local, stale, jpc, jslug>>
        BY <1>t, <1>1, CatalogAssumption DEF Request, Typed, Threads, jobs
    <2> QED
        BY <1>t, <2>1 DEF OwedInv, Typed, AllOwed, Owed, Pending, Begins, ToReset
<1>2. ASSUME NEW t \in Threads, ThreadStep(t) PROVE OwedInv'
    <2>1. /\ cat' \in [Slugs -> Entry] /\ local' \in [Threads -> [Slugs -> Entry]]
          /\ stale => stale'
          /\ stale' \/ \A s \in Slugs : cat'[s].cache = "copying" =>
                         cat[s].cache = "copying" /\ cat'[s].in = cat[s].in
          /\ \A j \in JobIds : jpc[j] \in Owing => UNCHANGED <<jslug[j], jpc[j]>>
          /\ \A s \in Slugs : s \in unwritten /\ cat[s].in /\ cat'[s].cache = "copying"
               => s \in unwritten'
        BY <1>t, <1>2, ThreadCatalogue
    <2>2. Typed'
        BY <1>t, <1>2, <2>1, BgGoesOn, OthersLeaveBg DEF Typed
    <2>3. ASSUME ~stale', NEW s \in Slugs, cat'[s].cache = "copying", Pending(s)
          PROVE  Pending(s)' \/ s \in unwritten'
        <3>1. CASE t # Bg
            BY <1>t, <1>2, <2>3, <3>1, OthersLeaveBg DEF Pending, Begins, ToReset
        <3>2. CASE t = Bg
            <4>1. cat[s].cache = "copying" /\ cat[s].in
                BY <1>t, <2>1, <2>3 DEF AllOwed
            <4>2. ~(State(Bg) /\ Slug(Bg) = s)
                <5> SUFFICES ASSUME State(Bg), Slug(Bg) = s PROVE FALSE
                    OBVIOUS
                <5>1. cat' = [cat EXCEPT ![s].cache = "none"]
                    BY <4>1 DEF State, SetCacheState, In
                <5>2. cat[s] \in Entry /\ cat \in [Slugs -> Entry]
                    BY <1>t DEF Typed
                <5> QED
                    BY <2>3, <5>1, <5>2 DEF Entry
            <4>3. ~(UNCHANGED cat /\ cat[s].cache # "copying")
                BY <4>1
            <4> QED
                BY <1>t, <1>2, <2>3, <3>2, <4>2, <4>3, BgGoesOn
        <3> QED
            BY <3>1, <3>2
    <2>4. ASSUME ~stale' PROVE AllOwed'
        <3> SUFFICES ASSUME NEW s \in Slugs
                     PROVE  cat'[s].cache = "copying" => cat'[s].in /\ Owed(s)'
            BY DEF AllOwed
        <3> QED
            BY <1>t, <2>1, <2>3, <2>4, StillOwed
    <2> QED
        BY <2>2, <2>4 DEF OwedInv
<1>3. ASSUME NEW j \in JobIds, CopyJob(j) PROVE OwedInv'
    <2>1. UNCHANGED <<todo, local, stale>>
        BY <1>3 DEF CopyJob, CopyLoad, CopyState, CopyStateFails, CopyOpen,
           CopyChunk, CopyEof,
           CopyRaises, CopyReplace, CopyUnlink, RemovePart, CopyEnabled,
           CopyPick, CopyMount
    <2>2. cat' \in [Slugs -> Entry]
        <3>1. cat \in [Slugs -> Entry]
            BY <1>t DEF Typed
        <3>2. cat' = cat \/ \E s, c : c \in Status /\ cat' = [cat EXCEPT ![s].cache = c]
            BY <1>3 DEF CopyJob, CopyLoad, CopyState, CopyStateFails,
               SetCacheState, CopyOpen, CopyChunk,
               CopyEof, CopyRaises, CopyReplace, CopyUnlink, RemovePart,
               CopyEnabled, CopyPick,
               CopyMount, Status
        <3>3. \A e \in Entry, c \in Status : [e EXCEPT !.cache = c] \in Entry
            BY DEF Entry
        <3>4. cat' = [x \in Slugs |-> cat'[x]] /\ \A x \in Slugs : cat'[x] \in Entry
            BY <3>1, <3>2, <3>3
        <3> QED
            BY <3>4
    <2>3. Typed'
        BY <1>t, <2>1, <2>2 DEF Typed
    <2> QED
        BY <1>t, <1>3, <2>1, <2>3, JobCatalogue DEF OwedInv
<1>4. CASE Restart
    <2> DEFINE d == Do("reset", NoSlug, "")
    <2>1. /\ todo'[Bg] = <<d>> /\ DOMAIN todo' = Threads /\ UNCHANGED <<cat, stale>>
          /\ local' = [t \in Threads |-> Nothing]
        BY <1>t, <1>4 DEF Restart
    <2>2. d \in BgSteps /\ d.op = "reset"
        BY DEF Do, BgSteps
    <2>3. Nothing \in [Slugs -> Entry]
        BY DEF Nothing, Absent, Entry, Status
    <2> HIDE DEF d
    <2>4. <<d>> \in Seq(BgSteps) /\ <<d>> # <<>> /\ Head(<<d>>) = d
        BY <2>2
    <2>5. \A s \in Slugs : Pending(s)'
        BY <2>1, <2>2, <2>4 DEF Pending, Begins
    <2> QED
        BY <1>t, <2>1, <2>3, <2>4, <2>5 DEF OwedInv, Typed, AllOwed, Owed
<1>5. CASE UNCHANGED vars
    BY <1>t, <1>5 DEF vars, jobs, OwedInv, Typed, AllOwed, Owed, Pending, Begins,
       ToReset
<1> QED
    BY <1>1, <1>2, <1>3, <1>4, <1>5 DEF Next

(* An ISO is left in state "copying" without a job that copies it or a     *)
(* recovery that is to reset it only by a save of a catalogue loaded before *)
(* another's write, or because the write of how the copy ended has failed.  *)
THEOREM NoneIsForgotten == Spec => []StuckOnlyByASave
<1>1. OwedInv => StuckOnlyByASave
    <2> SUFFICES ASSUME OwedInv, ~stale, NEW s \in Slugs, s \notin unwritten,
                        cat[s].cache = "copying", ~Resetting
                 PROVE  Copying(s) # {}
        BY DEF StuckOnlyByASave
    <2>1. Owed(s) /\ todo[Bg] \in Seq(BgSteps)
        BY DEF OwedInv, AllOwed, Typed
    <2>2. ~ToReset(s)
        BY DEF ToReset, Resetting, Range
    <2>3. ~Begins
        <3> SUFFICES ASSUME Begins PROVE FALSE
            OBVIOUS
        <3>1. 1 \in DOMAIN todo[Bg] /\ todo[Bg][1].op = "reset"
            BY <2>1 DEF Begins
        <3> QED
            BY <3>1 DEF Resetting
    <2>4. PICK j \in JobIds : jslug[j] = s /\ jpc[j] \in Owing
        BY <2>1, <2>2, <2>3 DEF Owed, Pending
    <2> QED
        BY <2>4 DEF Copying, Live, Owing
<1> QED
    BY <1>1, InitOwed, NextOwed, InductiveInvariant, PTL DEF Spec
=============================================================================
