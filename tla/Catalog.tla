------------------------------ MODULE Catalog ------------------------------
(***************************************************************************)
(* The catalogue of ISOs and their local copies: pixio/services/catalog.py *)
(* and the clearing and the recovery of pixio/services/autocache.py, for   *)
(* the ISOs of one remote source.                                          *)
(*                                                                         *)
(* catalog.json is read and written by request threads, by the copy jobs   *)
(* and by the background thread.  Some changes are one update_json, which  *)
(* is atomic (see Storage); others load the whole catalogue, edit it and   *)
(* save it whole, and what was written in between is undone.               *)
(*                                                                         *)
(* A request is the sequence of the steps its handler has left to do, each *)
(* step being what happens between two points where another thread may     *)
(* run.  A copy job writes <slug>.iso.part and renames it to <slug>.iso in *)
(* CACHE_DIR: a file is a number, the job that created it, since jobs that *)
(* share the temporary name share the file.  Names, groups, recipes, types *)
(* and answers of an entry are left out: only a save that rewrites the     *)
(* other fields shows them.                                                *)
(***************************************************************************)
EXTENDS Naturals, FiniteSets, SequencesExt

CONSTANTS
    Slugs,          \* the ISOs of the source
    NoSlug,         \* the slug of a step about the whole catalogue
    Requests,       \* the request threads
    Bg,             \* the background thread
    Operations,     \* the kinds of request that users make
    MaxOps,         \* bound: how many requests users make
    MaxJobs,        \* bound: how many copy jobs are started
    Chunks,         \* how many reads it takes to copy an ISO
    MaxRestarts,    \* bound: how often the process dies
    MayFail,        \* whether disks, shares and mounts may fail
    WaitMayExpire   \* whether a job may outlast the 10 s that clear waits

JobIds  == 1..MaxJobs
NoFile  == 0
Remote  == MaxJobs + 1            \* the file on the share
Files   == JobIds \cup {NoFile, Remote}
Threads == Requests \cup {Bg}
Paths   == {"copy", "remote"}     \* what can be mounted

ASSUME CatalogAssumption ==
    /\ NoSlug \notin Slugs /\ IsFiniteSet(Slugs)
    /\ Bg \notin Requests
    /\ MaxOps \in Nat /\ MaxJobs \in Nat /\ MaxRestarts \in Nat
    /\ Chunks \in Nat \ {0}
    /\ MayFail \in BOOLEAN /\ WaitMayExpire \in BOOLEAN

VARIABLES
    cat,       \* catalog.json
    unwritten, \* history: the ISOs whose last state could not be written
    local,     \* the catalogue a thread has loaded
    stale,     \* history: some save undid what was written since its load
    todo,      \* the steps a thread has left
    part,      \* the file called <slug>.iso.part
    left,      \* history: the ISOs whose .part could not be removed
    dst,       \* the file called <slug>.iso in CACHE_DIR
    bytes,     \* the chunks a file holds
    mounted,   \* the file mounted at HTTP_ISO_DIR/<slug>
    jpc,       \* where a copy job is
    jslug,     \* the ISO it copies
    jfile,     \* the file it has open for writing
    joff,      \* how many chunks it has copied
    jpath,     \* the path it has chosen to mount
    cancelled, \* the jobs asked to stop
    shared,    \* history: the ISOs that two jobs have copied at one time
    ops,       \* how many requests have been made
    restarts   \* how often the process has died

catalog == <<cat, unwritten>>
copies  == <<part, left, dst, bytes>>
jobs    == <<jpc, jslug, jfile, joff, jpath, cancelled, shared>>
vars    == <<catalog, local, stale, todo, copies, mounted, jobs, ops, restarts>>

Status == {"none", "copying", "ready", "error"}
Absent == [in |-> FALSE, enabled |-> FALSE, wanted |-> FALSE, cache |-> "none"]
Entry  == [in : BOOLEAN, enabled : BOOLEAN, wanted : BOOLEAN, cache : Status]

NewEntry == [Absent EXCEPT !.in = TRUE]
Nothing  == [s \in Slugs |-> Absent]

\* The catalogue has that ISO.
In(s) == s \in Slugs /\ cat[s].in

\* The entry names a copy: cache.path is set with these two states alone.
HasPath(e) == e.cache \in {"copying", "ready"}

Live(j)       == jpc[j] \notin {"unborn", "ended"}
Copying(s)    == {j \in JobIds : Live(j) /\ jslug[j] = s}
Do(op, s, a)  == [op |-> op, slug |-> s, arg |-> a]

\* _set_cache_state, when the catalogue can be written: nothing happens to an
\* ISO that is no longer there.
SetCacheState(s, c) ==
    /\ cat' = IF In(s) THEN [cat EXCEPT ![s].cache = c] ELSE cat
    /\ unwritten' = unwritten \ {s}

\* os.unlink of a temporary file that is there; an OSError is swallowed.
RemovePart(s) ==
    \/ part' = [part EXCEPT ![s] = NoFile] /\ left' = left \ {s}
    \/ MayFail /\ part[s] # NoFile /\ UNCHANGED part /\ left' = left \cup {s}

\* _boot_path: the copy when it is ready and there, else the file on the share.
BootPath(s) ==
    IF cat[s].cache = "ready" /\ dst[s] # NoFile THEN "copy" ELSE "remote"

\* The helper's mount-iso: what was mounted goes first.
MountIso(s, path) ==
    /\ path = "copy" => dst[s] # NoFile
    /\ mounted' = [mounted EXCEPT ![s] = IF path = "copy" THEN dst[s]
                                         ELSE Remote]

MountFails(s, path) ==
    /\ MayFail \/ (path = "copy" /\ dst[s] = NoFile)
    /\ mounted' \in {mounted, [mounted EXCEPT ![s] = NoFile]}

Init ==
    /\ cat = [s \in Slugs |-> NewEntry]
    /\ unwritten = {}
    /\ local = [t \in Threads |-> Nothing]
    /\ stale = FALSE
    /\ todo = [t \in Threads |->
                 IF t = Bg THEN <<Do("reset", NoSlug, "")>> ELSE <<>>]
    /\ part = [s \in Slugs |-> NoFile]
    /\ left = {}
    /\ dst = [s \in Slugs |-> NoFile]
    /\ bytes = [f \in JobIds |-> {}]
    /\ mounted = [s \in Slugs |-> NoFile]
    /\ jpc = [j \in JobIds |-> "unborn"]
    /\ jslug = [j \in JobIds |-> NoSlug]
    /\ jfile = [j \in JobIds |-> NoFile]
    /\ joff = [j \in JobIds |-> 0]
    /\ jpath = [j \in JobIds |-> "remote"]
    /\ cancelled = {}
    /\ shared = {}
    /\ ops = 0
    /\ restarts = 0

-----------------------------------------------------------------------------
(* The requests, as the steps of their handlers.  The catalogue starts as  *)
(* an earlier scan left it.                                                *)

SetCache(s, wanted) == <<Do("load", s, ""), Do("want", s, wanted)>>

SetEnabled(s, enabled) ==
    IF enabled = "on"
    THEN <<Do("pick", s, "abort"), Do("flag", s, "on")>>
    ELSE <<Do("flag", s, "off"), Do("umount", s, "")>>

Update(s) == <<Do("load", s, ""), Do("save", s, "")>>
Reorder   == <<Do("load", NoSlug, ""), Do("save", NoSlug, "")>>

Clear(s) ==
    <<Do("cancel", s, "")>> \o SetCache(s, "off")

\* The steps of P for every member of S.
ForEach(S, P(_)) ==
    FlattenSeq([i \in 1..Cardinality(S) |-> P(SetToSeq(S)[i])])

Plan(op, s) ==
    CASE op = "cache on"    -> Update(s) \o SetCache(s, "on")
      [] op = "cache off"   -> Update(s) \o SetCache(s, "off")
      [] op = "enable"      -> Update(s) \o SetEnabled(s, "on")
      [] op = "disable"     -> Update(s) \o SetEnabled(s, "off")
      [] op = "reorder"     -> Reorder
      [] op = "clear"       -> <<Do("load", s, "")>> \o Clear(s)
      [] op = "clear all"   -> <<Do("clear all", NoSlug, "")>>
      [] op = "forget"      -> <<Do("forget", NoSlug, "")>>
      [] op = "scan"        -> <<Do("merge", NoSlug, "")>>

Request(r, op, s) ==
    /\ todo[r] = <<>>
    /\ ops < MaxOps
    /\ ops' = ops + 1
    /\ todo' = [todo EXCEPT ![r] = Plan(op, s)]
    /\ UNCHANGED <<catalog, local, stale, copies, mounted, jobs, restarts>>

-----------------------------------------------------------------------------
(* The steps of the request threads and of the background thread.          *)

Step(t, op) == todo[t] # <<>> /\ Head(todo[t]).op = op
Slug(t) == Head(todo[t]).slug
Arg(t)  == Head(todo[t]).arg

Go(t, more)  == todo' = [todo EXCEPT ![t] = more \o Tail(@)]
Proceed(t)   == Go(t, <<>>)

\* An exception ends what the handler does for this ISO.
Raise(t) == todo' = [todo EXCEPT ![t] =
                       SelectSeq(@, LAMBDA d : d.slug # Slug(t))]

\* reset_interrupted still has to reset that ISO.
ToReset(s) == \E d \in Range(todo[Bg]) : d.op = "state" /\ d.slug = s

\* load, with the KeyError of an ISO that is not there.
Load(t) ==
    /\ Step(t, "load")
    /\ IF Slug(t) # NoSlug /\ ~cat[Slug(t)].in
       THEN Raise(t) /\ UNCHANGED local
       ELSE Proceed(t) /\ local' = [local EXCEPT ![t] = cat]
    /\ UNCHANGED <<catalog, stale, copies, mounted, jobs, ops, restarts>>

\* A loaded catalogue is of no use after its last use in a handler.
Discard(t) == local' = [local EXCEPT ![t] = Nothing]

\* save of a catalogue loaded earlier.
Saves(t, c) ==
    /\ cat' = c
    /\ stale' = (stale \/ cat # local[t])
    /\ Discard(t)

\* update and reorder save; the fields they edit are not modelled.
Save(t) ==
    /\ Step(t, "save")
    /\ Saves(t, local[t])
    /\ Proceed(t)
    /\ UNCHANGED <<unwritten, copies, mounted, jobs, ops, restarts>>

\* set_cache saves cache_wanted, then goes by the entry it has loaded.
Want(t) ==
    LET s == Slug(t)
        e == local[t][s]
    IN  /\ Step(t, "want")
        /\ Saves(t, [local[t] EXCEPT ![s].wanted = (Arg(t) = "on")])
        /\ Go(t, IF Arg(t) = "on"
                 THEN IF HasPath(e) THEN <<>> ELSE <<Do("start", s, "")>>
                 ELSE (IF HasPath(e) THEN <<Do("unlink", s, "")>> ELSE <<>>)
                      \o <<Do("state", s, "")>>
                      \o (IF e.enabled THEN <<Do("pick", s, "ignore")>>
                          ELSE <<>>))
        /\ UNCHANGED <<unwritten, copies, mounted, jobs, ops, restarts>>

\* jobs.start of a copy: no job type "copy" is exclusive.
StartCopy(t, j) ==
    /\ Step(t, "start")
    /\ jpc[j] = "unborn"
    /\ \A i \in JobIds : jpc[i] = "unborn" => j <= i
    /\ jpc' = [jpc EXCEPT ![j] = "load"]
    /\ jslug' = [jslug EXCEPT ![j] = Slug(t)]
    /\ shared' = IF Copying(Slug(t)) = {} THEN shared
                 ELSE shared \cup {Slug(t)}
    /\ Proceed(t)
    /\ UNCHANGED <<catalog, local, stale, copies, mounted, jfile, joff, jpath,
                   cancelled, ops, restarts>>

\* set_cache(False) removes the copy, when it can.
Unlink(t) ==
    /\ Step(t, "unlink")
    /\ \/ dst' = [dst EXCEPT ![Slug(t)] = NoFile]
       \/ MayFail /\ UNCHANGED dst
    /\ Proceed(t)
    /\ UNCHANGED <<catalog, local, stale, part, left, bytes, mounted, jobs,
                   ops, restarts>>

\* The copy is gone: both who clears and who recovers write so.
State(t) ==
    /\ Step(t, "state")
    /\ SetCacheState(Slug(t), "none")
    /\ Proceed(t)
    /\ UNCHANGED <<local, stale, copies, mounted, jobs, ops, restarts>>

\* catalog.json cannot be written, and stays as it is.  The exception ends a
\* handler, or what "clear all" does for this ISO, and the whole of
\* reset_interrupted: the ISOs that are still to be reset stay in "copying".
WriteFails(t) ==
    /\ MayFail
    /\ \E op \in {"save", "want", "state", "flag", "pop", "merge"} : Step(t, op)
    /\ Discard(t)
    /\ IF t = Bg
       THEN /\ todo' = [todo EXCEPT ![t] = <<Do("remount", NoSlug, "")>>]
            /\ unwritten' = unwritten \cup {s \in Slugs : ToReset(s)}
       ELSE Raise(t) /\ UNCHANGED unwritten
    /\ UNCHANGED <<cat, stale, copies, mounted, jobs, ops, restarts>>

\* A mount that fails: set_enabled lets the exception out, the others log it.
Failed(t) == IF Arg(t) = "abort" THEN Raise(t) ELSE Proceed(t)

\* mount, up to the call of the helper, which is given the path chosen here.
Pick(t) ==
    LET s == Slug(t) IN
    /\ Step(t, "pick")
    /\ In(s)
    /\ Go(t, <<Do(IF BootPath(s) = "copy" THEN "mount copy"
                  ELSE "mount remote", s, Arg(t))>>)
    /\ UNCHANGED <<catalog, local, stale, copies, mounted, jobs, ops, restarts>>

\* The ISO is no longer there, or the share is not reachable.
PickFails(t) ==
    LET s == Slug(t) IN
    /\ Step(t, "pick")
    /\ ~In(s) \/ (MayFail /\ BootPath(s) = "remote")
    /\ Failed(t)
    /\ UNCHANGED <<catalog, local, stale, copies, mounted, jobs, ops, restarts>>

Mount(t, path) ==
    /\ Step(t, IF path = "copy" THEN "mount copy" ELSE "mount remote")
    /\ MountIso(Slug(t), path)
    /\ Proceed(t)
    /\ UNCHANGED <<catalog, local, stale, copies, jobs, ops, restarts>>

MountError(t, path) ==
    /\ Step(t, IF path = "copy" THEN "mount copy" ELSE "mount remote")
    /\ MountFails(Slug(t), path)
    /\ Failed(t)
    /\ UNCHANGED <<catalog, local, stale, copies, jobs, ops, restarts>>

\* set_enabled writes the flag with one update_json.
Flag(t) ==
    LET s == Slug(t) IN
    /\ Step(t, "flag")
    /\ cat' = IF In(s) THEN [cat EXCEPT ![s].enabled = (Arg(t) = "on")]
              ELSE cat
    /\ Proceed(t)
    /\ UNCHANGED <<unwritten, local, stale, copies, mounted, jobs, ops, restarts>>

Umount(t) ==
    /\ Step(t, "umount")
    /\ mounted' \in {[mounted EXCEPT ![Slug(t)] = NoFile]}
                      \cup IF MayFail THEN {mounted} ELSE {}
    /\ Proceed(t)
    /\ UNCHANGED <<catalog, local, stale, copies, jobs, ops, restarts>>

\* clear: the copies of the ISO that run now are cancelled and waited for, one
\* after the other.
CancelCopies(t) ==
    LET s == Slug(t) IN
    /\ Step(t, "cancel")
    /\ Go(t, ForEach(Copying(s),
                     LAMBDA j : <<Do("stop", s, j), Do("wait", s, j)>>))
    /\ UNCHANGED <<catalog, local, stale, copies, mounted, jobs, ops, restarts>>

StopCopy(t) ==
    /\ Step(t, "stop")
    /\ cancelled' = cancelled \cup {j \in {Arg(t)} : Live(j)}
    /\ Proceed(t)
    /\ UNCHANGED <<catalog, local, stale, copies, mounted, jpc, jslug, jfile,
                   joff, jpath, shared, ops, restarts>>

WaitCopy(t) ==
    /\ Step(t, "wait")
    /\ WaitMayExpire \/ ~Live(Arg(t))
    /\ Proceed(t)
    /\ UNCHANGED <<catalog, local, stale, copies, mounted, jobs, ops, restarts>>

\* clear of everything: the ISOs that have, want or make a copy; then the
\* files that no entry names.
ClearAll(t) ==
    /\ Step(t, "clear all")
    /\ Go(t, ForEach({s \in Slugs : cat[s].wanted \/ HasPath(cat[s])}, Clear)
               \o <<Do("orphans", NoSlug, "")>>)
    /\ UNCHANGED <<catalog, local, stale, copies, mounted, jobs, ops, restarts>>

\* _remove_orphans: the files to remove are listed, then removed one by one.
ListOrphans(t) ==
    /\ Step(t, "orphans")
    /\ Go(t, ForEach({s \in Slugs : dst[s] # NoFile /\ ~HasPath(cat[s])},
                     LAMBDA s : <<Do("orphan copy", s, "")>>)
               \o ForEach({s \in Slugs : part[s] # NoFile},
                          LAMBDA s : <<Do("orphan part", s, "")>>))
    /\ UNCHANGED <<catalog, local, stale, copies, mounted, jobs, ops, restarts>>

RemoveOrphan(t) ==
    /\ \/ /\ Step(t, "orphan copy")
          /\ \/ dst' = [dst EXCEPT ![Slug(t)] = NoFile]
             \/ MayFail /\ UNCHANGED dst
          /\ UNCHANGED <<part, left>>
       \/ Step(t, "orphan part") /\ RemovePart(Slug(t)) /\ UNCHANGED dst
    /\ Proceed(t)
    /\ UNCHANGED <<catalog, local, stale, bytes, mounted, jobs, ops, restarts>>

\* forget_source: every ISO of the source is unmounted, then dropped.
Forget(t) ==
    /\ Step(t, "forget")
    /\ local' = [local EXCEPT ![t] = cat]
    /\ Go(t, ForEach({s \in Slugs : cat[s].in},
                     LAMBDA s : <<Do("umount", s, "")>>)
               \o <<Do("pop", NoSlug, "")>>)
    /\ UNCHANGED <<catalog, stale, copies, mounted, jobs, ops, restarts>>

Pop(t) ==
    /\ Step(t, "pop")
    /\ cat' = [s \in Slugs |-> IF local[t][s].in THEN Absent ELSE cat[s]]
    /\ Discard(t)
    /\ Proceed(t)
    /\ UNCHANGED <<unwritten, stale, copies, mounted, jobs, ops, restarts>>

\* scan merges what it found with one update_json.
Merge(t) ==
    /\ Step(t, "merge")
    /\ cat' = [s \in Slugs |-> IF cat[s].in THEN cat[s] ELSE NewEntry]
    /\ Proceed(t)
    /\ UNCHANGED <<unwritten, local, stale, copies, mounted, jobs, ops, restarts>>

\* Mutant: the start does not look at interrupted copies.
ResetNothing(t) ==
    /\ Step(t, "reset")
    /\ Go(t, <<Do("remount", NoSlug, "")>>)
    /\ UNCHANGED <<catalog, local, stale, copies, mounted, jobs, ops, restarts>>

\* reset_interrupted, when the background thread starts, and after it the
\* first remount_enabled.
ResetInterrupted(t) ==
    /\ Step(t, "reset")
    /\ Go(t, ForEach({s \in Slugs : cat[s].cache = "copying"},
                     LAMBDA s : <<Do("unlink part", s, ""),
                                  Do("state", s, "")>>)
               \o <<Do("remount", NoSlug, "")>>)
    /\ UNCHANGED <<catalog, local, stale, copies, mounted, jobs, ops, restarts>>

UnlinkPart(t) ==
    /\ Step(t, "unlink part")
    /\ RemovePart(Slug(t))
    /\ Proceed(t)
    /\ UNCHANGED <<catalog, local, stale, dst, bytes, mounted, jobs, ops, restarts>>

\* Mutant: remounting happens at the start alone.
RemountOnce(t) ==
    /\ Step(t, "remount")
    /\ Go(t, ForEach({s \in Slugs : cat[s].enabled /\ mounted[s] = NoFile},
                     LAMBDA s : <<Do("pick", s, "ignore")>>))
    /\ UNCHANGED <<catalog, local, stale, copies, mounted, jobs, ops, restarts>>

\* remount_enabled, again and again.
RemountEnabled(t) ==
    /\ Step(t, "remount")
    /\ Go(t, ForEach({s \in Slugs : cat[s].enabled /\ mounted[s] = NoFile},
                     LAMBDA s : <<Do("pick", s, "ignore")>>)
               \o <<Do("remount", NoSlug, "")>>)
    /\ UNCHANGED <<catalog, local, stale, copies, mounted, jobs, ops, restarts>>

ThreadStep(t) ==
    \/ Load(t) \/ Save(t) \/ Want(t) \/ (\E j \in JobIds : StartCopy(t, j))
    \/ Unlink(t) \/ State(t) \/ Pick(t) \/ PickFails(t)
    \/ (\E path \in Paths : Mount(t, path) \/ MountError(t, path))
    \/ Flag(t) \/ Umount(t)
    \/ WriteFails(t) \/ CancelCopies(t) \/ StopCopy(t) \/ WaitCopy(t)
    \/ ClearAll(t) \/ ListOrphans(t) \/ RemoveOrphan(t)
    \/ Forget(t) \/ Pop(t) \/ Merge(t)
    \/ ResetInterrupted(t) \/ UnlinkPart(t) \/ RemountEnabled(t)

-----------------------------------------------------------------------------
(* The copy job, _copy_job.                                                *)

Goto(j, from, to) ==
    /\ jpc[j] = from
    /\ jpc' = [jpc EXCEPT ![j] = to]

CopyLoad(j) ==
    /\ \/ Goto(j, "load", "copying") /\ In(jslug[j])
       \/ Goto(j, "load", "no space") /\ In(jslug[j]) /\ MayFail
       \/ Goto(j, "load", "ended") /\ ~In(jslug[j])
    /\ UNCHANGED <<catalog, local, stale, todo, copies, mounted, jslug, jfile,
                   joff, jpath, cancelled, shared, ops, restarts>>

\* The states the job writes: at the start, after every chunk, at the end.
CopyState(j) ==
    /\ \/ Goto(j, "no space", "ended") /\ SetCacheState(jslug[j], "error")
       \/ Goto(j, "copying", "open")   /\ SetCacheState(jslug[j], "copying")
       \/ Goto(j, "progress", "chunk") /\ SetCacheState(jslug[j], "copying")
       \/ Goto(j, "ready", "enabled?") /\ SetCacheState(jslug[j], "ready")
       \/ Goto(j, "error", "ended")    /\ SetCacheState(jslug[j], "error")
    /\ UNCHANGED <<local, stale, todo, copies, mounted, jslug, jfile, joff,
                   jpath, cancelled, shared, ops, restarts>>

\* The same when catalog.json cannot be written: an exception, which the job
\* handles once it has begun to copy, except the one of its last write.
CopyStateFails(j) ==
    /\ MayFail
    /\ \/ /\ \/ \E from \in {"no space", "copying"} : Goto(j, from, "ended")
             \/ \E from \in {"progress", "ready"} : Goto(j, from, "unlink")
          /\ UNCHANGED unwritten
       \/ Goto(j, "error", "ended") /\ unwritten' = unwritten \cup {jslug[j]}
    /\ UNCHANGED <<cat, local, stale, todo, copies, mounted, jslug, jfile, joff,
                   jpath, cancelled, shared, ops, restarts>>

\* open(tmp, "wb"): a new file, or the one of that name made empty.
CopyOpen(j) ==
    LET s == jslug[j]
        f == IF part[s] = NoFile THEN j ELSE part[s]
    IN  /\ Goto(j, "open", "chunk")
        /\ part' = [part EXCEPT ![s] = f]
        /\ bytes' = [bytes EXCEPT ![f] = {}]
        /\ jfile' = [jfile EXCEPT ![j] = f]
        /\ UNCHANGED <<catalog, local, stale, todo, left, dst, mounted, jslug, joff,
                       jpath, cancelled, shared, ops, restarts>>

CopyChunk(j) ==
    /\ j \notin cancelled
    /\ joff[j] < Chunks
    /\ Goto(j, "chunk", "progress")
    /\ joff' = [joff EXCEPT ![j] = @ + 1]
    /\ bytes' = [bytes EXCEPT ![jfile[j]] = @ \cup {joff[j] + 1}]
    /\ UNCHANGED <<catalog, local, stale, todo, part, left, dst, mounted, jslug, jfile,
                   jpath, cancelled, shared, ops, restarts>>

\* Mutant: a short read is taken for the end of the file.
CopyEofEarly(j) ==
    /\ j \notin cancelled
    /\ Goto(j, "chunk", "replace")
    /\ UNCHANGED <<catalog, local, stale, todo, copies, mounted, jslug, jfile, joff,
                   jpath, cancelled, shared, ops, restarts>>

CopyEof(j) ==
    /\ j \notin cancelled
    /\ joff[j] = Chunks
    /\ Goto(j, "chunk", "replace")
    /\ UNCHANGED <<catalog, local, stale, todo, copies, mounted, jslug, jfile, joff,
                   jpath, cancelled, shared, ops, restarts>>

\* The exceptions: a cancellation, an I/O error, no .part to rename.
CopyRaises(j) ==
    /\ \/ Goto(j, "chunk", "unlink") /\ j \in cancelled
       \/ MayFail /\ \E from \in {"open", "chunk"} : Goto(j, from, "unlink")
       \/ Goto(j, "replace", "unlink") /\ part[jslug[j]] = NoFile
    /\ UNCHANGED <<catalog, local, stale, todo, copies, mounted, jslug, jfile, joff,
                   jpath, cancelled, shared, ops, restarts>>

CopyReplace(j) ==
    LET s == jslug[j] IN
    /\ Goto(j, "replace", "ready")
    /\ part[s] # NoFile
    /\ dst' = [dst EXCEPT ![s] = part[s]]
    /\ part' = [part EXCEPT ![s] = NoFile]
    /\ left' = left \ {s}
    /\ UNCHANGED <<catalog, local, stale, todo, bytes, mounted, jslug, jfile, joff,
                   jpath, cancelled, shared, ops, restarts>>

\* Mutant: the partial file is not removed.
CopyUnlinkNothing(j) ==
    /\ Goto(j, "unlink", "error")
    /\ UNCHANGED <<catalog, local, stale, todo, copies, mounted, jslug, jfile, joff,
                   jpath, cancelled, shared, ops, restarts>>

CopyUnlink(j) ==
    /\ Goto(j, "unlink", "error")
    /\ RemovePart(jslug[j])
    /\ UNCHANGED <<catalog, local, stale, todo, dst, bytes, mounted, jslug, jfile,
                   joff, jpath, cancelled, shared, ops, restarts>>

CopyEnabled(j) ==
    /\ \/ Goto(j, "enabled?", "pick") /\ cat[jslug[j]].enabled
       \/ Goto(j, "enabled?", "ended") /\ ~cat[jslug[j]].enabled
    /\ UNCHANGED <<catalog, local, stale, todo, copies, mounted, jslug, jfile, joff,
                   jpath, cancelled, shared, ops, restarts>>

CopyPick(j) ==
    LET s == jslug[j] IN
    /\ \/ Goto(j, "pick", "mount") /\ In(s)
       \/ Goto(j, "pick", "unlink") /\ ~In(s)
       \/ Goto(j, "pick", "unlink") /\ MayFail /\ BootPath(s) = "remote"
    /\ jpath' = [jpath EXCEPT ![j] = BootPath(s)]
    /\ UNCHANGED <<catalog, local, stale, todo, copies, mounted, jslug, jfile, joff,
                   cancelled, shared, ops, restarts>>

CopyMount(j) ==
    /\ \/ Goto(j, "mount", "ended") /\ MountIso(jslug[j], jpath[j])
       \/ Goto(j, "mount", "unlink") /\ MountFails(jslug[j], jpath[j])
    /\ UNCHANGED <<catalog, local, stale, todo, copies, jslug, jfile, joff, jpath,
                   cancelled, shared, ops, restarts>>

CopyJob(j) ==
    \/ CopyLoad(j) \/ CopyState(j) \/ CopyStateFails(j) \/ CopyOpen(j)
    \/ CopyChunk(j) \/ CopyEof(j) \/ CopyRaises(j) \/ CopyReplace(j) \/ CopyUnlink(j)
    \/ CopyEnabled(j) \/ CopyPick(j) \/ CopyMount(j)

-----------------------------------------------------------------------------
\* The process dies; the loop mounts survive it, unless the machine reboots.
Restart ==
    /\ restarts < MaxRestarts
    /\ restarts' = restarts + 1
    /\ todo' = [t \in Threads |->
                  IF t = Bg THEN <<Do("reset", NoSlug, "")>> ELSE <<>>]
    /\ local' = [t \in Threads |-> Nothing]
    /\ jpc' = [j \in JobIds |-> IF Live(j) THEN "ended" ELSE jpc[j]]
    /\ mounted' \in {mounted, [s \in Slugs |-> NoFile]}
    /\ unwritten' = {}
    /\ UNCHANGED <<cat, stale, copies, jslug, jfile, joff, jpath, cancelled, shared,
                   ops>>

Next ==
    \/ \E r \in Requests, op \in Operations, s \in Slugs : Request(r, op, s)
    \/ \E t \in Threads : ThreadStep(t)
    \/ \E j \in JobIds : CopyJob(j)
    \/ Restart

Spec == Init /\ [][Next]_vars

\* Threads and jobs run on, and the share and the helper do not refuse the
\* background thread for ever; nothing obliges users.
FairSpec ==
    /\ Spec
    /\ \A t \in Threads : WF_vars(ThreadStep(t))
    /\ \A j \in JobIds : WF_vars(CopyJob(j))
    /\ SF_vars(Pick(Bg))
    /\ SF_vars(\E path \in Paths : Mount(Bg, path))

-----------------------------------------------------------------------------
Whole(f) == f = Remote \/ bytes[f] = 1..Chunks

(* What a PC boots from is whole: neither the copy that is mounted nor the *)
(* one under the final name ever lacks a part, whatever is cancelled,      *)
(* fails, is cleared or dies, unless two jobs have copied that ISO at the  *)
(* same time and so over each other's file.                                *)
BootsWhole ==
    \A s \in Slugs \ shared : \A f \in {mounted[s], dst[s]} \ {NoFile} :
        Whole(f)

(* As long as the process has not died, a temporary file in CACHE_DIR has  *)
(* a job that still writes it or is about to remove it, unless removing it *)
(* has failed: none is forgotten.                                          *)
NoStrayPart ==
    restarts = 0 =>
      \A s \in Slugs \ left : part[s] # NoFile =>
        \E j \in Copying(s) : jpc[j] \in {"chunk", "progress", "replace", "unlink"}

\* The background thread has not finished reset_interrupted.
Resetting == \E i \in DOMAIN todo[Bg] :
                todo[Bg][i].op \in {"reset", "unlink part", "state"}

(* An ISO is left in state "copying" without a job that copies it, where   *)
(* no later attempt would touch it, only by a save: one that undid what    *)
(* others wrote, or one that failed when the job, or reset_interrupted at  *)
(* the start, wrote how the copy had ended.  No other failure, no          *)
(* cancellation, no order of requests and no restart does.                 *)
StuckOnlyByASave ==
    stale \/ \A s \in Slugs \ unwritten :
                cat[s].cache = "copying" => Copying(s) # {} \/ Resetting

(* An ISO that stays enabled is mounted again and again, whatever happened *)
(* to its mount, as long as mounting it is possible.                       *)
EnabledGetsMounted ==
    \A s \in Slugs : <>[](cat[s].enabled) => []<>(mounted[s] # NoFile)
=============================================================================
