# A verification of Pixio

Pixio is a PXE boot server: a Flask application (`src/pixio`) that keeps a
catalogue of ISO images found on network shares or uploaded by browsers, mounts
them, serves iPXE menus, installer scripts and unattended-installation files to
PCs, and follows the log of dnsmasq to know those PCs. It runs as **one**
gunicorn worker with eight threads, one background thread, one daemon thread per
job and a root helper called through `sudo`. Its state is a dozen JSON files and
a few directories; there is no database. What goes wrong in such a program goes
wrong between two threads that read and rewrite one file, when the process dies
between two of its steps, or in a script that a PC runs with nobody in front of
it, and that is what these modules are about.

The modules model the Python source under `src/pixio`; a definition keeps the
name of what it models where it can, and the `map` of `PROJECT.json` names its
lines.

## Inventory

| component | state | operations | hard behaviour | what makes it correct |
|---|---|---|---|---|
| jobs (`services/jobs.py`) | `_jobs` in memory, a file per job | `start`, `_run`, `cancel`, `purge`, `_ensure_loaded` | a thread per job, cancellation without a lock, saves in any order, restarts | exclusive types are exclusive, no ghost and no hidden job, ends are kept on disk |
| storage (`storage.py`) | a lock per path, the file, temporary files | `read_json`, `write_json`, `update_json` | crash or power cut between two system calls, callers that save what they loaded long ago | never torn, `update_json` atomic, nothing acknowledged lost but to a power cut or a stale save |
| catalog (`services/catalog.py`) | `catalog.json`, copies in `CACHE_DIR`, loop mounts | scan, update, reorder, set_enabled, set_cache, copy job, mounts, forget_source | load ... save without the lock, copy jobs that last for minutes | what is mounted is whole, no state is stuck, an enabled ISO is mounted |
| autocache (`services/autocache.py`) | `_run_lock`, the settings | `plan`, `run`, `start`, `clear`, `reset_interrupted` | the plan is old when it is carried out | the space asked for stays free, the plan is minimal, it settles |
| background thread (`background.py`) | timers | start-up, mounts, autocache, poll, cleanup | runs beside the requests from the first moment | each duty is done again and again |
| uploads (`services/uploads.py`) | a state file and a directory per upload, the library | init, put_chunk, finish, discard, cleanup | parallel chunks, two browsers, cleanup without the lock, a full disk | one upload per file, whole files only, a name is freed |
| clients (`services/clients.py`, `blueprints/boot.py`) | `clients.json`, `clients_state.json` | boot_menu, boot_entry, update, delete, poll | two files written one after the other, log rotation, iPXE retries | boot_once once, every line applied, counts apart |
| answers (`services/answers.py`) | `answers.json`, a folder per answer, links in `catalog.json` | create, update, delete, delete_file, detach, the lookups of a boot | record, folder and links change one after the other while PCs read | no ISO gains an answer by itself, a PC gets what was chosen |
| iPXE menu (`services/ipxe_menu.py`, `recipes.py`) | none | menu, submenus, menu of the answers, entry script | labels made up from names, a default that is hidden or gone | every label exists once and every entry is reached |
| WinPE scripts (`services/winpe.py`) | none; the script runs in the PC | `install_cmd`, `raccolta_log` | jumps and sub-programs of a generated script | it never ends, it always comes to a person |
| Windows profiles (`services/winprofile.py`) | a file of profiles, `windows-tweaks.json` | validate, create, update, the answer file | a profile that outlives what it names: tweaks, editions, images | it installs without a question, writes nothing twice |
| Debian profiles (`services/debprofile.py`) | a file of profiles | validate, create, update, the preseed | accounts and partitions that depend on each other | somebody can administer the PC, the recipe is sound |
| drivers (`services/drivers.py`) | folders of files, `drivers.json` | folders, files, archives, flags, exclusions, what is injected and offered | files that come and go one by one under a package that needs them all | the setup meets no incomplete package, nothing sound is lost |
| sources and privileged helper | `sources.json`, mounts and fstab fragments, locks per slug | create, update, delete, mount, umount, network apply | API and helper out of step, a source deleted while it is updated | mounts follow the sources |
| updater | job, log of the unit, mark files | check, apply, follow | the update restarts the service under its own job | one update at a time, its outcome is reported |
| auth, settings, backup | `config.json`, rate-limit table | login, password, save, restore | whole-file saves by several writers | settings are not lost, the limit holds |
| setup logs | a folder per PC | receive, prune | prune while a PC writes | what is being written stays |
| detection | none | pure functions | order of rules | the recipe fits the image |
| logs, system status, theme | none of their own | read and stream | I/O | - |
| HTTP API, front end | sessions; state of a page | thin handlers; upload client, pollers | parallel chunks and retries | a retry does no harm |

Interactions: handlers and jobs call the services directly; every store is
written through `storage`; `autocache` and `sources` call `catalog`; `catalog`
starts `jobs`, calls the helper and keeps the links to `answers`; a profile is
read when an answer is asked for that names it; `boot.py` puts menu, answers,
drivers and WinPE together for a PC; the background thread calls `catalog`,
`autocache`, `clients`, `uploads` and `setuplogs`. Nothing sends messages:
components share files, the job registry and a few locks. The PC is the one
party outside: it holds a script of the past while the server changes.

`PROJECT.json` lists, under `hazards`, each place of the source where one of
these behaviours bites, and under `components` what of each part is modelled.

## Modules

| module | models | abstract from |
|---|---|---|
| `Jobs` | `services/jobs.py` | progress, messages, logs, times |
| `Storage` | `storage.py` on one path | contents: a content is the set of the edits in it |
| `AtomicStore` | what `Storage` promises | files, locks |
| `Catalog` | the remote ISOs of `services/catalog.py`, `clear`, `_remove_orphans` and `reset_interrupted` of `services/autocache.py`, the mounts of `background.py` | names, recipes, local ISOs, detection |
| `Autocache` | `plan`, `run` and `start` of `services/autocache.py`, `_autocache_tick` | the races of `catalog` (in `Catalog`) |
| `Uploads` | `services/uploads.py` for one file of the library | contents, names |
| `Clients` | `services/clients.py` (file, boot_once, cap, log reader) and `blueprints/boot.py` | addresses, hardware, DHCP transactions |
| `Answers` | `services/answers.py` and the answers of an entry in `catalog.py` | texts, templates, the editor |
| `IpxeMenu` | `services/ipxe_menu.py` | wording, layout, branding |
| `WinPE` | `install.cmd` of `services/winpe.py`, run by `cmd.exe` | messages, quoting |
| `Boot` | `blueprints/boot.py`, `answers_public.py`, a PC; extends the three above | the bytes of kernels and images |
| `WinEditions` | which image of an `install.wim` is installed | case of names |
| `WinProfile` | `services/winprofile.py`: what is accepted, its normal form, the answer file | XML, quoting |
| `DebProfile` | `services/debprofile.py`: the same, and the preseed | quoting, comments |
| `Unattended` | the life of a profile of each kind; `deep_merge` of `storage.py` | - |
| `Drivers` | `services/drivers.py`, `extract_zip` of `uploads.py` | the parsing of a `.inf` |
| `Lists` | the list comprehensions that the proofs about `Answers`, `IpxeMenu` and `Boot` reason about: what is kept of a list (`Among`), its elements once (`Once`), lists joined (`Joined`) | |
| `JobsAndStorageProofs`, `UploadsProofs`, `ClientsProofs`, `CatalogProofs`, `AutocacheProofs`, `DriversProofs` | proofs, each of the modules it is named after | |
| `InstallProofs` | proofs about `Answers`, `IpxeMenu` and `Boot` | |
| `DataLemmas` | what those proofs need to know about induction, sums, orders, folds and lists | |
| `MC*` | constants for TLC | |

How they are composed: `Boot` extends `Answers`, `IpxeMenu` and `WinPE`, and its
next step is a step of `Answers`, of the settings or of the PC; `Answers` and
`IpxeMenu` share `Lists`. `Unattended`
instantiates `WinProfile` (which extends `WinEditions`) and `DebProfile` as
`Win` and `Deb`. `Storage` implements `AtomicStore`. `Catalog` holds the half
of `autocache` and of the background thread that shares its file.

### Jobs

One variable per piece of state of the module: `loaded`, `registry`, `status`,
`cancelled` are memory, `disk` the files. `Job.save` takes a snapshot
(`to_full_dict`) and then waits for the lock of the path in `write_json`: the
two halves are separate actions (`Report`/`ReportWrite`, `FinalSave`/
`FinalWrite`, `CancelSave`/`CancelWrite`), so that saves of one job may
overtake each other. `start` and `purge` are one action each, as they run under
`_lock`. `cancel` takes no lock and is four steps. `Restart` drops memory and
threads; `EnsureLoaded` is the first access of the new process. A save that
raises `OSError` is logged and forgotten (`Write`). Jobs are numbered in the
order of their start, which is the order of `(started, seq)` that purge sorts
by; jobs of an earlier process that were started in one and the same second
have no defined order in the code, and the model gives them one.

### Storage and AtomicStore

A caller is an updater (`update_json`) or a loader (`read_json`, later
`write_json` of what it made of it). The steps are those of the code: take the
lock, read, enter `write_json` (an `RLock`), `mkstemp`, dump, `fsync`,
`os.replace`, return. A step may raise (`Fail`). A file is torn when the path
names one that is not `whole`; `read_json` then returns the default (an empty
set of edits).

`write_json` syncs the file and not its directory. So `entry` is what the path
names, `durable` what it names in the directory on disk, and `Settle` is the file
system that writes the directory back, at a time nobody chooses. `Kill` takes the
locks and the threads; `PowerCut` takes besides every content that was not synced
and every rename that had not settled, and the path names an older file again.
`recent`, `settled` and `undone` say which edit is at what point. `AckedIsKept`
is what remains: an edit whose call has returned is missing for one of two
reasons, a power cut before its rename had settled, or a loader that saved what it
had read without it.

`AtomicStore` has one content, the content that is stable, and three kinds of
step of a caller: `Update` reads, edits and writes at once, `Load` and `Overwrite`
are the two halves of a loader, which may undo what was written in between. A
power cut goes back to what is stable. `Storage` implements it by the mapping
`value <- Parsed(entry)`, `stable <- Parsed(durable)`, a call taking effect at its
rename. `AtomicSpec` is checked as a property and proved.

The modules above `Storage` take kills and restarts of the process or the
machine, after which the file is as the last rename left it. That a power cut may
take a store back by some edits, each store by others, is modelled here alone.

### Catalog

`catalog.json` is `cat`. A request is the list of the steps its handler has
left (`todo`), a step being what happens between two points where another
thread can run; `Plan` translates each API operation to its steps. Handlers
that `load` and later `save` the whole catalogue do so in two steps (`Load`,
then `Save` or `Want`), those that use `update_json` in one (`Flag`, `State`,
`Pop`, `Merge`). The background thread has a list too: `reset`, then `remount`
for ever. A copy job is a program counter over the lines of `_copy_job`, with
its states, the chunks, the rename of `<slug>.iso.part`, the look at `enabled`
and the mount. What writes the catalogue may fail: the exception ends a handler, or
the whole of `reset_interrupted` (`_safe` swallows it), or the copy job at the
point it has reached (`WriteFails`, `CopyStateFails`), and what removes a file may
fail without a word (`RemovePart`). Files have an identity (the job that created them) because two
jobs that share a temporary name write the same file. `Restart` kills threads
and jobs and, when the machine reboots, the loop mounts.

### Autocache

`Plan` is `plan`: the candidates in the order of the code (last used, small, by
name), the victims in theirs (used longest ago, large, by name), and one pass
in which each candidate evicts victims until it fits. It is a fold, with no
recursion. A run is `Begin` (`_run_lock`, not waited for), `FreeOne`, `Recheck`
(the ISO is looked at again), `StartCopy`, `Waited`, `Finish`. Users, shares and
the 24 h limit of `_wait_copy` interfere. A copy is written 1 GB at a time.

### Uploads

As in `Catalog`, a call is its remaining steps: `InitCall`, `PutCall`,
`FinishCall`, `DiscardCall`, and the cleanup, which lists names once and then
looks at each. Only `init` and `finish` take the lock; the cleanup of the
background thread does not. The library is one file, `absent`, `empty` (the
`O_EXCL` placeholder) or `whole`. A late chunk is noted by an `update_json`, whose
read (`Touch`) and write (`Rewrite`) a discard may come between, since its `unlink`
takes no lock: the state file is made again, as a `zombie` without its fields when
the read found none, and else with all of them, which brings the upload back
(`revived`). Writes of the state and removals of the reserved name may fail
(`kept`).

### Clients

The log is a sequence of bytes (a line is two: its number and a newline), so
that offsets, cut lines, the tail of the first read and the limit of a read are
those of the code. `poll` is four steps under the lock; rotation makes a new
inode or truncates in place, between any two of them. A request for the menu is
`take_boot_once` (read and clear under the lock), `record_seen`, reply. A
boot_once is named by the number of the request that set it. What reads the log or
writes a file may fail (`PollFails`, `TakeFails`, `SeeFails`): a poll is given up
where it is, and one whose second write fails has counted lines it will read again
(`unsaved`); `boot_menu` swallows the exception of `take_boot_once` or `record_seen`
and replies with what it has. A failed write of a user's request changes nothing
and has no action.

### Answers

`records` is `answers.json`, `files` the folders, `links` what the entry of
each ISO says of answers. A request works in steps (`doing`): creating looks for
a free id, makes the folder and then the record; deleting removes folder,
record and links in this order; a patch of an entry, and the removal of links,
load the catalogue and save it whole later. Requests are served by several threads
and no lock is held over two of these steps: `clashed` notes that a delete
overlapped another request, or a change of the links another one. Between any two
steps a PC may ask, and a restart may cut the request short. `gen` counts the answers in the order they were created, and
tells an answer from a later one that got its id.

### IpxeMenu, WinPE and Boot

A script is data: `IpxeMenu` makes of a menu the sequence of its sections (a
label, what its menu lists, its default, where its commands go), `WinPE` of
`install.cmd` the sequence of the commands that decide where it goes. `GoesOnly`
and `LabelledApart` say of the one what iPXE would refuse to run or run wrong (of two
labels it takes the first); the other is *executed*:
`Outcomes` is what `cmd.exe` does with a line, with a stack for `call`, the
outcome of `net use` and the presence of `setup.exe` depending on the server.

`Boot` has the PC (`pc`) with the scripts it holds: bootstrap, menu, the menu
of the answers, the script of an entry, the files it loads, the installer that
asks for its answer at the end, Windows PE. The server changes under it: the
answers (in the steps of `Answers`), the settings (`PutMenu`, `PutWindows`),
the ISOs that are mounted, the profiles. A file that cannot be had sends the PC
to the message of the failure and the menu.

What the models take for granted is in named assumptions, which TLC evaluates.
`LinksAssumption` and `FilesAssumption` of `Answers`: the state a behaviour begins
with is one the code writes (an answer has one of the kinds, its files belong to
it, no link is to an answer that is not there), and no id is one of the words
(`""`, `"default"`) that stand for something else. `AnswerLabelsAssumption` of
`IpxeMenu` and `EnoughLabels` of `Boot`: the labels of the answers in their menu
(`ans-1`, `ans-2`, ... in the code) are all different, and as many as an entry may have
answers. `MenusAssumption` of `Boot`: an entry is in the catalogue once and has
a name, and there are more labels for groups (`grp-1`, `grp-2`, ...) than groups and
entries can use up. An ISO may be called as anything else, also as one of the menu's
own labels: `slugify` (`catalog.py:44`) makes of `memtest.iso` or `local.iso` the slug
`memtest` or `local`, which `ipxe_menu.py:15` reserves for the menu but which nothing
keeps an image from having. `MenusAreClosed` says what comes of it: the ISO's section
is first and takes the place of the menu's own.

### WinEditions, WinProfile, DebProfile and Unattended

These are pure: `Validate` and `Normal` say which settings are refused and what
the others are normalised to, `RenderAutounattend` and `RenderPreseed` make the
file, each with the structure the properties need (passes, partitions, accounts
and commands in their order; pairs of a question and its value). A text the
code matches with a regular expression or a length is a word that stands for
its outcome: `""`, `"bad"` for one that is refused, any other for one that is
accepted. Limits on how many items a list may have are left out.

`Unattended` is the life of a profile: what older versions stored, requests
that patch the stored settings (`DeepMerge`), a library of tweaks that is
replaced, ISOs that come under it with images that are known or not. A request that
updates a profile is one step (`UpdateWin`): `check_edition_for_isos` and the save
have no lock in common, and a link that another request makes in between is not in
the model.

### Drivers

A file has a place in `Files`, in the order of the paths; `present` are those
there are, `flags` is `drivers.json`. `MarkInject` is `_mark_inject`: of the files
of a folder that have one name, the one to be injected, where a chosen `.inf` has
its own file rather than one of that name from elsewhere. `WinpeInjectFiles`
goes over the folders twice, as the code does: `PutFirst` takes each name once
within a budget of bytes, `PutOwn` then puts the file that a `.inf` declares and
has beside it in the place of another. Both passes, and `FollowInf` within a
folder, are folds over a sequence (`Ordered`) in the order of the code's sort
keys. `Descend` is the descent of `_setup_tree`, a recursive function over the
directories; `SetupPaths` cuts the queue of what the folders offer. An archive is
extracted as one step, which may end in the middle and removes what it had
opened, but not the subfolders it had made. `subfolders` are the directories there
are, the empty ones included, because `_setup_names` counts them: it gives up on a
folder with too many files, too many directories or too deep a one (`Truncated`),
and `_setup_tree` offers nothing of it. `CleanFolder` removes an empty directory but
not one that held only empty ones, for `os.walk` has listed it before. `_walk` lists
no more than 2000 files of a folder; here there are never so many.

History variables (`recent`, `settled`, `undone`, `stale`, `unwritten`, `left`,
`shared`, `revived`, `kept`, `crowded`, `owner`, `outgrown`, `unsaved`, `applied`,
`passed`, `tally`, `given`, `taken`, `dropped`, `clashed`, and `since`, `choice`,
`gone` of the PC)
are read by properties only, except `owner`, which also tells whose copy is
under way, and `recent`, which says what a power cut may undo.

## Runs

Every run finishes in less than four minutes on two workers.

| run | instance | shows |
|---|---|---|
| `MCJobs` | 2 jobs of the types scan (exclusive) and copy, 1 request, `KEEP` = 1, 1 restart, the saves of job 1 may fail | no two scans together; a job is shown as running exactly while its function executes; the end of a job that nobody cancelled is on disk; purge drops only ended jobs that have `KEEP` newer ones; every job ends |
| `MCJobs_cancel` | 1 job, 1 request, 1 restart | **violated**: an ended job is `running` in its file |
| `MCStorage` | 2 updaters, 1 loader, 1 kill or power cut, the directory written back at any time | never torn; an acknowledged edit is lost to a power cut before its rename had settled or to a stale save alone; implements `AtomicStore`; every call ends |
| `MCCatalog` | 1 ISO, 2 requests, 2 operations of 9 kinds, 2 copy jobs, 1 restart, failing disks, shares, mounts, removals and writes of the catalogue | what is mounted or named as a copy is whole; no stray `.part` that could be removed; `copying` is left behind by stale saves and failed last writes alone; an ISO that stays enabled is mounted again and again |
| `MCUploads` | 2 browsers, 4 calls, 2 ids, 1 chunk, 1 cleanup, 1 crash, expiry, failing writes and removals | one live upload of a file but for one brought back by its own chunk; the reserved name is freed by every failure; a whole file stays; every call ends |
| `MCClients_log` | 1 PC, 3 lines, reads of a line and a half, 1 rotation, 1 crash, 1 failure | what poll has moved past was applied; counts are an interval apart as long as the offsets are saved; every line is applied, left aside or rotated away |
| `MCClients_once` | 2 PCs, 2 request threads, cap 1, 2 boot_once, 2 boots | a boot_once is given once; no concurrent write loses it |
| `MCAutocache` | 3 ISOs of 1 or 2 GB, a disk of 3 or 5 GB, 1 GB to keep free, 2 runs, 1 interference of any kind | every plan is sound, frees no copy too many and skips only what cannot fit; a run leaves `keep_free_gb` free; when all fits the periodic check comes to rest |
| `MCUnattended` | 2 libraries of tweaks, 4 sets of images, 26 changes of a Windows profile and 26 of a Debian one, 3 requests | what was stored can be generated; the answer file of a profile that names an edition and wipes its disk stops nowhere, and writes nothing twice; an edition that is saved is used; the preseed is sound |
| `MCDrivers` | 2 folders, 10 files in up to 6 directories, 1 ISO and the preview, 2 archives, a budget of 6, 2 paths, 3 directories and 2 levels for the setup | the setup meets no incomplete package; nothing that could be offered is lost, but of a folder beyond the limits; what WinPE gets is within the budget, has nothing excluded or foreign in it, and each name that a chosen `.inf` asks for is the own file of one that asks for it |
| `MCDrivers_twins` | 3 folders of 1 to 2 files, the flag `winpe_inject` alone | **violated**: a `.inf` that is injected gets a file of another folder, for which no `.inf` that is injected had asked |
| `MCBoot` | 1 PC, 2 ISOs, 3 answers and 1 made meanwhile, 2 menus, SMB on or off, 2 request threads, 2 requests, 1 restart in the middle of one | scripts go only to labels they have and lead everywhere, and an ISO's label to its own entry; the PC gets the answer that was chosen; `install.cmd` stays open; no ISO gains an answer by itself; the PC comes to rest |

Why the bounds are enough. The hazards are races between two parties over one
object: two jobs, two callers, two requests or a request and the background
thread make every pair meet, and one ISO, one file or one PC is the object they
meet at. A third job or caller adds only repetitions of a pair. Two updaters
and one loader have every order of a stale save. One crash separates a before
and an after; a second one only shortens the after. Three ISOs are the least
with which one candidate needs two victims; two more than fit are the least
that compete for one space. Three log lines with reads of three bytes cut a line
in each of its places.

`MCBoot`: two requests are a deletion and a creation that may take the id again, or
a deletion and a link, one after the other or overlapping. The restart happens only in the middle of a request:
elsewhere it changes nothing of this state. `NetTries` and `LogTries` are 2
instead of 15 and 3: the loop is gone through, repeated and given up. One ISO is
called `grp-1`, as the submenu of a group would be, and one `memtest`, as an entry
of the menu. Deadlock *is* checked in
this run. `WorkedOut`, at the end of `MCBoot`, compares two functions with
themselves: TLC works a function out where it compares it and then keeps it, so
that the scripts of the menu are made once and not in every state.

`MCUnattended`: the patches are one per rule of `validate` that another field
can undo (a target under an edition, an account under an autologon, a recipe
under a swap or a wipe), and three in a row are a change, a second that depends
on it and a third that takes the first back. The images are none known, a client
without LTSC, a server with an LTSC, and one without a name. `MCDrivers`: ten
files give a complete package, one that lacks a file, one whose file is in a
parent or a child, a directory of another architecture, a name that is there
three times and a system file; the budget of six is what the first folder could
take alone, so that it runs short when the second is injected too. The file of the
other architecture is in the third level of a chain of directories: with it the
folder has too many and too deep ones, and it still has too many when the file is
gone, until the folder has been cleaned twice. In
`MCDrivers_twins` three folders are the fewest: one that takes the name of the
`.inf` of the next, whose driver has the name of one of the third.
`MCCatalog`: two operations, of one request or of two, meet in every order, and
the background thread is a third party; what a third operation could do to the
same ISO, the recovery after the restart does.

In every run the interesting case happens: each property has a mutant of the
code, a definition in the module it belongs to, under which TLC finds it
violated by the same configuration (`mutants` in `PROJECT.json`).

Elsewhere than in `MCBoot` the bounds make every behaviour stop in the end, so
deadlock is not checked; the liveness properties say instead what must not stop.
The type invariants are conjuncts of what is proved for `Jobs`, `Storage` and
`Uploads`, and have no run of their own.

### Fairness

- `Jobs`: a thread runs on (weak fairness of `JobThread`), and the function of a
  job returns although it may report again and again (strong fairness of
  `FnEnds`). Python threads are pre-emptive; a job's function is a finite copy
  or scan. Nobody is obliged to start or cancel.
- `Storage`: a thread that can advance does (`Advance`, which has no failure in
  it); nobody makes the file system write its directory back (`Settle`). A caller calls once, so a lock that is waited for is in the end free.
- `Catalog`: request threads, jobs and the background loop run on; the share and
  the helper do not refuse the background thread for ever (strong fairness of
  its `Pick` and `Mount`), without which no periodic remount can succeed.
- `Clients`: the reads and writes of a poll fail `MaxFailures` times, and then
  succeed: with a disk that is full for good no line is ever applied.
- `Uploads`, `Clients`: a lock that is free again and again is got (strong
  fairness), as with a lock that is held for bounded sections by few threads.
- `Autocache`: the check is periodic (`Tick`), a run goes on, and so do the
  copies, one of which advances whenever one can.
- `Boot`: the PC goes on with what it is doing (`PcRuns`: a download, the start,
  a line of the script of Windows PE); it is asked of nobody to choose, and
  nothing of the server.
- `Drivers` and `Unattended` have only safety and action properties.

## Proofs

Checked by TLAPS for all values of the constants, from the named assumptions of
each module alone (`JobsAssumption`, `StorageAssumption`, `UploadsAssumption`,
`ClientsAssumption`, `CatalogAssumption`, `AutocacheAssumption`;
`NamesAssumption`, `FilesAssumption` and `InputsAssumption` of `Drivers`;
`LinksAssumption` and `FilesAssumption` of `Answers`, `AnswerLabelsAssumption` of
`IpxeMenu`, `EnoughLabels` and `MenusAssumption` of `Boot`), all of which TLC
evaluates on the instances of the runs. No theorem has a hypothesis besides.

**DataLemmas** is what several of them need to know about data. The library
states induction for an operator, which no back end can instantiate; here it is
stated for a *set*, of numbers (`SetInduction`, `UpTo`) or of subsets of a finite
set (`SubsetInduction`), which comes from the well-foundedness of `<` on the
numbers and is enough: the set of the numbers up to which a claim holds. From it
follow

- the sums that `MapThenSumSet` computes (`SigmaEmpty`, `SigmaRemove`, `SigmaNat`,
  `SigmaSame`, `SigmaUpdate`, `SigmaMore`): the community module defines a sum by a
  `CHOOSE` of one element after the other, so that it has first to be shown that
  it does not matter which (`SigmaTake`);
- orders: in a finite total order each element has its own rank and every rank is
  taken (`RanksRise`, `RanksAreTaken`), so that the sequence by rank or by key has
  every element once and in order (`RankedIsSorted`, `ListingIsWhole`);
- folds: `FoldLeft(Op, base, s)` is the last of a run of steps of `Op`, from `base`
  over the elements of `s` (`FoldSteps`). `Op` is a constant of `DataLemmas`; a
  module of proofs instantiates it by the operator of its own fold;
- lists: what `Among` keeps of a list (`AmongKeeps`).

**Jobs.** `TypeCorrectness`, `ExclusiveTypesAreExclusive`, `RunningMeansAlive`
and `TheEndIsOnDisk` are `Spec => []Inv` for `TypeOK`, `OneExclusiveJob`,
`RunningIsAlive` and `EndIsOnDisk`. None but the first is inductive. `IInv`
adds:

- `Bookkeeping`: whatever a job has (an entry, a file, a thread, a request about
  it) it has only once started, and threads exist only once the files are
  loaded. Without it `Start` could reuse a number in use.
- `CancelsFlagFirst`: a request past `CancelFlag` is about a job whose flag is
  set. This is why a late save of `cancel` cannot hurt a job that nobody
  cancelled.
- `FinalSnapshot`: between the last snapshot and its save, the snapshot tells
  the status in memory, unless the job was cancelled in between.

Exclusiveness then follows from `RunningIsAlive`: a scan that executes is
registered as running, and `start` refuses. Each action has a step of its own,
and under it one per conjunct.

`PurgesKeepTheNewest` proves the action property `PurgeKeepsTheNewest`. A job is
dropped when `Keep` finished ones are newer than it. Those newer than the newest
job dropped are themselves kept, so every job dropped has `Keep` newer ones
left. That a finite set of jobs has a newest one (`Newest`) comes from the strict
order of the finite subsets, which is well-founded.

**Storage.** `StoreTypeCorrectness`, `NoTornStore`, `UpdatesAreKept` are the
invariants; the inductive one says who holds the lock at which step (`LockInv`),
that a temporary file belongs to one caller at the right step (`TmpInv`), that the
path and the directory on disk name synced files (`EntryInv`), what a caller has
read with respect to the path (`ReadInv`: an updater past its read knows the present
content), and, about the power, that every rename is recent, settled or undone
(`RenameInv`), that an edit whose rename stands is in the file unless a stale save
stands too, and one that has settled in the file a power cut brings back, unless a
stale save has settled (`EditInv`). The last needs both halves: after a power cut
the second is what the first has to say. `Refinement` is `Spec => AtomicSpec`:
`Replace` maps to `Update` or `Overwrite`, `ReadJson` of a loader to `Load`, `Fail`
to `Raise`, `Return`, `Settle`, `Kill` and `PowerCut` to the steps of these names,
and the others stutter.

**Uploads.** `TypeCorrectness`, `OneUpload`, `ReservedName` and `LibraryStays`
prove `TypeOK`, `OneUploadPerFile`, `NameIsFreed` and the action property
`LibraryFileStays`, for any number of browsers, chunks, calls, cleanups, failures
and crashes. As a call is the sequence of the steps it has left, the argument is
about such sequences:

- `Shapes`: which step may follow which (`Shape`: a call that creates, copies,
  renames or makes an upload ends with its "unlock"; "copy" and "rename" follow
  "create" and "copy" only; ...), and that the steps outside the lock
  (`Loose`: the cleanup, a chunk that is noted) are none of these. `ShapeTail`, `ShapePush` and `ShapeResume` show that every step
  leaves such a sequence, `InitShape`, `PutShape`, `FinishShape` and
  `DiscardShape` that every call begins with one.
- `LockInv`: who is past the "lock" of its call holds the lock. Two threads can
  therefore not both be at a step from "create" to "unlock" (`HoldsLock`).
- `NameInv`: whoever assembles has reserved the name, and a reserved name is
  being assembled unless the process has died or a removal has failed. `LibraryFileStays` follows: only
  `UndoAssembly` removes a file of the library, and one that assembles finds its
  own empty one.
- `FreshInv`: who is about to write a state found no live upload, and none came
  since but those brought back (`revived`); so there is one at most besides them.
- `DrawnInv`: the ids still to be drawn fit in the bound of the model.

`Calm` is what all steps but four have in common: what they leave of a call
enters no part of it the invariant speaks of. `CalmKeeps` is proved once, and
each action needs then only a few lines; `Lock`, `Resume`, `WriteState` and the
steps of an assembly have a proof of their own.

**Clients.** `GivenAtMostOnce` is `Spec => []GivenOnce`, and
`TheNextBootGetsIt` the action property `NextBootGetsIt`, for any number of PCs,
requests, log lines, rotations and crashes. The inductive invariant says:

- `LockInv`: between the read and the write of `take_boot_once` the request holds
  the lock, and what it has read is still there; so does `poll` while it works.
- `OnePlace`: a boot_once is in one place: in the file under one PC, with one
  request, or given. A retry of the same PC therefore finds nothing.
- `SetBefore`: what nobody has set yet is nowhere, so that a new one is fresh.
- `Waiting`: what waited for a request when it came still waits, or the request
  has it, or another has taken it, or a user or the cap has dropped it. This is
  `NextBootGetsIt` before the reply.

Most steps only lose boot_onces (`Loses`, `LosesKeeps`: the end of a request, the
cap, `delete`, a poll, a failure, a crash); five steps move one and have lemmas of their own.

`NothingIsPassedOver` and `CountsStayApart` prove `PassedIsApplied` and
`CountsAreApart` of the reader of the log, from an invariant of their own, `LogInv`:

- `Times`: the lines are in the order of their times, in the log and in what poll
  has in hand.
- `Followed`: what lies before the stored offset is applied or was left aside, and
  what poll has in hand is of the log as it is, or else a rotation came in between
  and the next poll will notice it. This fails only when a log truncated in place
  outgrew the offset (`outgrown`).
- `Counting`: nothing still to be applied is earlier than the last count of its PC;
  together with the order of the lines this keeps two counts `Interval` apart. A
  poll that fails keeps this up to the point where it has counted (`Pos`): then the
  offset that is stored is behind the counts, and `unsaved` says so.

A poll applies a chunk by a fold of `ApplyLine`; `AppliesAll` says what it does, one
line after the other (`ApplyOne`), and `ReadBytes` what the cut to whole lines, the
limit of a read and the tail of a first read leave of the log.

**Catalog.** `WholeOrNothing` and `PartsHaveAJob` prove `BootsWhole` and
`NoStrayPart`, for any number of ISOs, requests, jobs, chunks and restarts, whatever
fails.
The inductive invariant says nothing of the steps a request has left: the files
are safe in whatever order requests take them.

- `FilesPlaced`: the files of an ISO were created by jobs of that ISO, and the
  temporary one is neither the copy nor mounted.
- `Alone`: on an ISO that is not in `shared`, one job copies at a time.
- `WriterInv`: the file a job writes is its ISO's; while the job is alone, the
  file holds exactly the chunks copied so far, and neither the final name nor a
  mount reaches it. At the rename the offset is that of the whole file.

All steps but four are `Harmless`: they create, write and rename no file.

`NoneIsForgotten` proves `StuckOnlyByASave`. Its invariant, `OwedInv`, does
speak of the steps that are left: unless a stale save has come in between, an ISO
in state `copying` is in the catalogue and, but for those whose last state could not
be written (`unwritten`), is *owed* a change: a job that copies it has that change
before it, or the recovery of the background thread has the ISO on its list
(`ToReset`), or makes the list yet (`Pending`). A write that fails earlier in the job
leads to the handler, which still has the last one before it. What the list holds is a
`FlattenSeq` over a `SetToSeq`, whose elements have lemmas here. The finiteness of
`Slugs` is needed for that list.

**Autocache.** `RunsKeepTheSpace` is `Spec => []RunsLeaveKeepFree`, and
`EveryPlanIsRight` `Spec => []PlanIsRight`, for any number of ISOs of any sizes,
any disk, any number of runs and request threads.

- `RunInv`: who has passed `_run_lock` holds it (`OneRun`), so one run at most is
  waiting for a copy; and, as long as nobody else copies, the only copy under way
  is the one it waits for, which still fits (`Alone`). The property alone is not
  inductive: it says nothing of the space that a run has found and not yet used.
  Each gigabyte that is written takes as much from what is free as from what is
  missing (`SigmaUpdate`). `Runs` excludes 0, which stands for nobody.
- The plan: the victims and the candidates are their sets in the order of the
  code, each once (`VictimsAreSorted`), for the two comparisons are total orders.
  `PlanUpto` says what the pass over the candidates has done up to the k-th: what
  fits, what was skipped and why, and that without the last copy it frees it would
  lack space; `ConsiderOne` and `OneMore` take it one candidate further.

**Drivers.** For any files, folders, images and limits:

- `NothingGoodIsEverLost` is `Spec => []NothingGoodIsLost`; a folder on which
  `_setup_names` gives up is outside the property, as it is offered nothing. What a descent finds
  below a directory is the set of the topmost directories that can be walked
  (`Topmost`). That is one solution of the equations of the recursive function
  (`TopmostIsDescent`), and by induction on the depth that is left there is one
  solution only (`OneDescent`); so `Descend` is it (`DescendIsTopmost`).
- `NoBrokenIsMet` is `Spec => []SetupMeetsNoBroken`: two topmost directories are
  never one inside the other, what can be walked has no incomplete `.inf` in it,
  and the queue is cut to `MAX_SETUP_PATHS` places that are all different, since two
  folders offered have different first files (`FirstFilesDiffer`, `TurnsDiffer`).
- `WinpeGetsWhatItMay` is `Spec => []InjectionIsSound`. Each of the three folds has
  an invariant: of `_mark_inject`, that what is chosen is of the candidates or the
  own file of a `.inf` (`FollowKeeps`); of both passes of `winpe_inject_files`, that
  the bytes counted are those of the files taken and within the budget (`PutOK`,
  `PutKeeps`); of the second pass, that the names asked for so far have the file of
  one that asks for them, if no file was refused (`Answered`, `OwnKeeps`), which
  needs that a sum over a part is no more than the sum over the whole
  (`SigmaMore`). That every file and every question comes up in the passes is the
  totality of their orders (`FilesInOrder`, `AsksInOrder`).

What these theorems need of the state is little: `LibraryOK`, that only files and
folders there can be are there, and that the flag of what is offered is one of the
three, which is why `InputsAssumption` speaks of the patches: `set_flags` refuses
any other. `FilesAssumption` says that a path is there once.

**Answers, iPXE menu and a PC** (`InstallProofs`). For any ISOs, answers, profiles,
menus and settings, any number of requests, retries and PCs' choices:

- `AnswersAreLinked` is `Spec => NobodyGainsAnAnswer`, for any number of threads. The
  inductive invariant, `LinksIInv`, says what a request has in hand (`Job`); that,
  until two clash, no two are under way of which one deletes or both change links
  (`Apart`); and that, until then or until the service is killed in the middle of a
  request, an ISO is linked to answers that are there, but for the one that is being
  deleted, until the catalogue without it is saved (`LinksHold`, and `LinksFor` what a
  request has loaded). So an answer that is created, under whatever id, is linked to
  no ISO. That `answers_of` drops what is there twice or beyond `MAX_ANSWERS` is why it
  speaks of `LinkedIds`: the id that `answer_id` hides becomes the answer when the list
  is emptied.
- `PcGetsWhatWasChosen` is `Spec => []GetsWhatWasChosen`, for any number of threads as
  well. One half needs nothing of the requests: from the moment the PC comes with its
  choice its scripts name files of that answer only (`OnlyOf`), whatever changes. The
  other half adds to `LinksIInv` that, until two requests clash, the files in a folder
  are of the record that is there (`FilesHold`), and what the PC has (`PcIInv`): its
  scripts have the fields they have (`PcShape`); started by hand it has no file of an
  answer before it; and as long as no request came in between (`Undisturbed`), what it
  has still to load and what it was given make up what the script of its entry would
  give it now. `GivenFits` then says which file that is, by the kind of the answer and
  the type of the ISO.
- `MenusAreAlwaysClosed` is `Spec => []MenusAreClosed`, with any number of threads and
  restarts. What is invariant is little (`MenusIInv`: the settings are of those that
  may be, a menu of the answers that a PC holds is closed); the work is in
  `MenuCloses`, about `menu_script` as a function. Its argument: the groups have
  different names and have every entry, each one in one of them (`GroupsAre`); the
  labels that `_group_labels` gives are different from each other, from the entries
  and from the menu's own (`FreeLabelsAre`, `GroupLabelIs`), and there are enough of
  them; so the main menu lists exactly what is `Listed` (`MainItemsAre`), each of its
  entries has a section (`ChainsAre`, `FixedAre`, `SubmenusAre`), two of one label
  only if an ISO is called as the menu's own (`IsScriptBut`), where the ISO's is the
  first (`FirstIsTheSection`), and each entry of
  the catalogue is in the main menu or in a submenu that the main menu lists. For the
  menu of the answers it is the numbering of their labels, and that there are no
  more answers than labels (`EnoughLabels`).

What the first two say of requests that clash is nothing, and nothing can be said: a
deletion takes the links away after the record, and a creation in between may get
the id; and `update` of the catalogue brings back links it loaded before. These are
the load ... save of `Catalog` once more, and are listed below.

**Only model-checked**:

- all liveness properties (`JobsEnd`, `CallsEnd`, `RequestsEnd`, `EnabledGetsMounted`,
  `LinesGetApplied`, `SettlesWhenAllFits`, `PcReachesAnEnd`): they need fairness and
  ENABLED, which this prover does not reason about;
- the properties of the profiles (`Unattended`): they speak of what two long pure
  functions make of settings with thirty fields, through a dozen folds. TLC goes
  through the combinations of settings that the rules of `validate` relate;
- `ScriptStaysOpen`: it is about the execution of one fixed script in eight variants,
  with no parameter but the numbers of attempts. TLC has executed every path of it,
  and a proof would repeat these paths one by one.

## What the code does not promise

Two disagreements with the code's own comments have a run (`findings` in
`PROJECT.json`): the save of a cancellation overwrites the last save of its job
(`MCJobs_cancel`); and the second pass of `winpe_inject_files` goes over every `.inf`
that is marked in its folder, also over those that were not injected because a
folder before has a `.inf` of that name, whereas the comment above it and the
docstring speak of those injected. Such a `.inf` puts its own files in the place of
others and blocks their names, and one that is injected may get a file that is not
its own (`MCDrivers_twins`, `InjectedInfHasItsFiles`). `InjectionIsSound` says what
does hold. The models have others in them, which the properties exclude by an explicit
premise, or which no property is about.

Files and threads:

- `jobs.py:152`: the status of a job ends before its final save, so that the
  purge of another job may drop it in between; its save then makes the file
  anew, beyond `KEEP` and in no registry until the next start.
- `storage.py:46`: the directory is never synced, so that a power cut may undo the
  last writes of a store, acknowledged as they were (`AckedIsKept`).
- `catalog.py:839`, `autocache.py:451`: when the last write of the state fails, the
  ISO stays `copying`, without a job, until the next start (`unwritten`);
  `catalog.py:837`, `autocache.py:450`: a `.part` that cannot be removed stays until
  the next copy of the ISO or "clear all" (`left`).
- `catalog.py`: a handler that loads the catalogue, and saves it whole after a
  copy job has been interrupted or has ended, brings `copying` back for good,
  without a job (`StuckOnlyByASave` says that nothing else but such a failure does).
- `catalog.py:772`: two requests that both find an ISO not yet `copying` start
  two copies over one `.part` file (`BootsWhole` leaves such an ISO out).
- `catalog.py:832`: an ISO disabled between the look at `enabled` and the mount
  stays mounted; nothing looks for such mounts later. `catalog.py:707`:
  `set_enabled` mounts before it looks whether the ISO is still there.
  `catalog.py:833`: a mount that fails after a complete copy makes the copy an
  error and leaves its file. `catalog.py:654`: `delete_local` loads twice.
- `autocache.py:441`: `reset_interrupted` runs beside the first requests and may
  remove the partial file of a copy just started; `autocache.py:451`: after a
  crash between the rename and the state `ready`, a complete copy is forgotten
  and `clear` of that ISO does not find it.
- `autocache.py:397`: two calls of `start` may both start a job; the second
  finds the lock taken and ends. `autocache.py:307`: past the limit a copy goes
  on while the run that waited for it has ended. `autocache.py:419`: `clear`
  waits ten seconds for a job that it cancels, and goes on without it.
- `autocache.py:256`: a candidate that does not fit in the end has its victims
  evicted all the same (`PlanIsRight` has that premise). When not everything
  fits, nothing excludes that two ISOs replace each other for ever.
- `uploads.py`: a crash in the middle of an assembly leaves the empty file that
  reserves the name, which is then refused to every later upload
  (`NameIsFreed` has the premise `crashes = 0`). `uploads.py:646`: the cleanup
  without the lock may remove the directory of an upload made after it had
  listed the names; its chunks are then asked for again.
- `uploads.py:403`: the `update_json` of a late chunk and the `unlink` of a discard
  have no lock in common, so that an upload may come back when another has taken its
  place (`revived`). `uploads.py:446`: a reserved name that cannot be removed stays.
- `clients.py:461`: a crash between the two writes of `poll`, or a second one that
  fails, counts lines twice (`CountsAreApart` has the premises `crashes = 0` and
  `~unsaved`); `clients.py:421`: a log
  truncated in place that outgrows the offset is taken for the old one
  (`outgrown`); `clients.py:439`: a line longer than one read is never passed;
  `clients.py:263`: `record_boot` adds clients without the cap; `boot.py:64`: a
  boot_once is cleared although its reply may be lost.
- `uploads.py:527`: an archive that fails in the middle takes away the files it
  had replaced. `drivers.py:489`: of nested empty directories `clean_folder` removes
  the innermost, and its parent only the next time. `drivers.py:370`: the flags of a folder that is deleted while
  they are set come back; `drivers.py:392`: the exclusion of a file outlives it.

What a PC gets:

- `answers.py:341`: an update that began before the deletion of an answer makes
  its record again, without a folder. After a deletion that was cut short or
  overlapped another request, an ISO may be linked to a new answer of the same id
  (`NobodyGainsAnAnswer` has these premises).
- An answer that was chosen and is unlinked before the PC asks for its script
  becomes the default one, silently (`GetsWhatWasChosen` excepts it, by `gone`). Where the main file of an answer is missing, its
  address serves an empty file rather than an error. An answer written by hand
  whose name is that of a profile is served as that profile.
- `ipxe_menu.py:91`: a group called "Altro" beside ISOs without a group makes
  two submenus with one label (`TwoAltro` is excluded). An ISO called as a
  command of the menu is (`memtest.iso`) takes its place, although `_group_labels` says
  that labels do not collide. The default `local`, when it is not shown, is not
  what is taken when the time is over: the first item is.
- `winpe.py:346`: the prompt says that `exit` restarts the PC; the script goes
  back to the prompt. `ScriptStaysOpen` states what the comment above it says.
- `winprofile.py:1223`: a profile with a tweak that has left the catalogue can
  no longer be generated, although `winprofile.py:963-974` says that what is stored
  must go on being made into a file (`StoredIsAccepted` says so and that nothing else
  is in the way); a PC then gets the file that was saved, if any.
  `winprofile.py:1671`: a computer name made of a serial number of at least
  nine digits may be all digits, which Windows refuses (`InstallsAlone` excepts names
  made so). A new profile names no edition, and a disk may be left to partition by
  hand: the setup then stops to ask, and `InstallsAlone` speaks of the other profiles. `winprofile.py:1988`: an
  additional user called "administrator" is created as a local account,
  although the one that administers is not.

## Not modelled

`PROJECT.json` lists every component with its status.

- **Sources, privileged helper, updater, installation**: what decides there are
  mounts, fstab, apt and systemd, behind a root script; the Python of `sources`
  is a record with a `load ... save`, the hazard `Storage` and `Catalog` have.
- **Settings, backup, authentication**: whole-file saves of `config.json`, the
  same hazard once more; hashing and sessions are not protocols between parties.
- **Detection, the parsing of `.inf` files and of images**: text and bytes; their
  results are constants here (`IsoType`, `Images`, what a file of `Files`
  promises and declares).
- **Setup logs, logs, system status, theme**: reads of the system and plain
  operations on directories.
- **HTTP API, front end**: the checks of a handler are guards of the action it
  calls; a browser is whoever may call at any time. The pollers and the retries
  of the upload client are therefore contained in `Uploads`.
- Of the parts that are modelled: local ISOs, DHCP transactions and wake on LAN,
  the limits on how many items a profile may have, progress and statistics.

## Plan

Done, in this order: `Jobs`, `Storage` and `AtomicStore` with
`JobsAndStorageProofs`; `Catalog`; `Uploads` with `UploadsProofs`; `Clients`;
`Autocache`; `WinEditions`, `WinProfile`, `DebProfile`, `Unattended`; `Drivers`;
`Answers`, `IpxeMenu`, `WinPE`, `Boot`; then `ClientsProofs` and `CatalogProofs`;
`DataLemmas`, `AutocacheProofs` and `DriversProofs`; `Lists` and `InstallProofs`.

What would come next:

1. `Catalog` extended by local ISOs: `delete_local`, `register_local_file`, the
   upload of an ISO (with `Uploads`).
2. `Sources` with the mounts of the helper as an external component: delete then
   `forget_source`, remount; it composes with `Catalog` over `forget_source`.
3. `Updater`: check-then-start of `apply`, the restart of the service under its
   own job (with the restart of `Jobs`), the 45 min limit.
4. `Settings` and `SetupLogs`; detection as an ordered list of rules.

Abstract specifications worth stating: an upload as one atomic addition of a
file to the library; the catalogue as a map changed by atomic edits, which the
stale saves refute except where `stale` is excluded.

Theorems worth proving next: that `GivenOnce` and `GetsWhatWasChosen` hold together
for a PC that has a boot_once, which needs `Clients` and `Boot` composed; and those of `Unattended`.
