------------------------------ MODULE Drivers ------------------------------
(***************************************************************************)
(* The driver library of services/drivers.py: the folders of DRIVERS_DIR,  *)
(* the flags of drivers.json, and what is made of them when a PC boots an  *)
(* image: the files injected in WinPE (winpe_inject_files), the folders    *)
(* loaded before the setup (setup_load_folders) and the paths the answer   *)
(* file offers the setup (setup_paths).                                    *)
(*                                                                         *)
(* Files lists every file that can be in the library, folder by folder, in *)
(* the alphabetical order of their paths: the file i has a folder, a dir   *)
(* (the sequence of the subfolders that lead to it), a name and a size,    *)
(* and a .inf the names it promises to copy, those of its services and its *)
(* signature.  A file is known by its place in Files.                      *)
(***************************************************************************)
EXTENDS SequencesExt, FiniteSetsExt

CONSTANTS Files,
          Folders,          \* in alphabetical order
          ValidNames,       \* the folders whose name FOLDER_RE accepts
          InfNames,         \* the names that end in .inf
          WinpeNames,       \* in .inf, .sys or .cat (WINPE_EXT)
          UsefulNames,      \* in one of USEFUL_EXT
          SystemNames,      \* the names of WinPE's own System32
          Isos,             \* the images of the catalogue: [slug, group]
          MaxInject,        \* MAX_INJECT_BYTES
          MaxSetupPaths, MaxSetupFiles, MaxSetupDirs, MaxSetupDepth,
          TooLong           \* the <<folder, dir>> whose UNC is over MAX_SETUP_UNC

ASSUME NamesAssumption == InfNames \subseteq WinpeNames /\ WinpeNames \subseteq UsefulNames

ASSUME FilesAssumption ==
    /\ Folders \in Seq(STRING)
    /\ Files \in Seq([folder : ToSet(Folders), dir : Seq(STRING), name : STRING, size : Nat,
                      copied : SUBSET STRING, services : SUBSET STRING,
                      catalogue : SUBSET STRING])
    /\ \A i, j \in DOMAIN Files :
          /\ Files[i].folder = Files[j].folder /\ Files[i].dir = Files[j].dir
          /\ Files[i].name = Files[j].name
          => i = j
    /\ MaxSetupPaths \in Nat /\ MaxInject \in Nat

VARIABLES exists,     \* the folders there are
          present,    \* the files there are
          subfolders, \* the <<folder, dir>> there are, with files or without
          flags       \* drivers.json

vars == <<exists, present, subfolders, flags>>

FileIds == DOMAIN Files
Name(i) == Files[i].name
Dir(i) == Files[i].dir
IsInf(i) == Name(i) \in InfNames
SkipDirs == {"x86", "i386", "ia64", "arm", "arm64", "win32", "32bit", "wow64"}
PreferDirs == {"x64", "amd64", "win11", "win10", "w11", "w10", "winx64", "64bit"}

EveryImage == [mode |-> "all", groups |-> {}, isos |-> {}]
DefaultFlags == [winpe_inject |-> FALSE, setup_load |-> FALSE, excluded |-> {},
                 apply_to |-> EveryImage, setup_offer |-> "auto"]
Offers == {"auto", "mai", "sempre"}
Width == Len(Files) + 1     \* what the first of two keys is multiplied by

(* The elements of S by their keys, all different, which are numbers that  *)
(* order like the tuples Python sorts by.                                  *)
Ordered(S, key(_)) ==
    LET keyed == {<<key(x), x>> : x \in S}
        nth(n) == CHOOSE p \in keyed : Cardinality({q \in keyed : q[1] < p[1]}) = n - 1
    IN [n \in 1..Cardinality(S) |-> nth(n)[2]]

\* _walk lists no more than 2000 of them, and here there are no more.
In(folder) == {i \in present : Files[i].folder = folder}
Ways(S) == UNION {{Files[i].folder} \X {SubSeq(Dir(i), 1, k) : k \in 1..Len(Dir(i))} : i \in S}

(* apply_matches: no image at all is a preview, which filters nothing.     *)
Preview == [slug |-> "", group |-> ""]
ApplyMatches(a, iso) ==
    \/ iso = Preview \/ a.mode = "all"
    \/ a.mode = "groups" /\ iso.group # "" /\ iso.group \in a.groups
    \/ a.mode = "isos" /\ iso.slug \in a.isos

-----------------------------------------------------------------------------
(* What a .inf asks for                                                    *)

Declared(i) == Files[i].copied \union Files[i].services      \* for drvload
Promised(i) == Files[i].copied \union Files[i].catalogue     \* for the setup

Rank(i) == IF Dir(i) = <<>> THEN 0
           ELSE IF ToSet(Dir(i)) \intersect PreferDirs # {} THEN 1 ELSE 2 + Len(Dir(i))
Skipped(i) == ToSet(Dir(i)) \intersect SkipDirs # {}

-----------------------------------------------------------------------------
(* _mark_inject: which files of a folder go in WinPE, where they all end   *)
(* in one directory, without those that were excluded by hand.             *)

Flags(folder) == flags[folder]
Usable(f) == {i \in In(f) \ Flags(f).excluded : ~Skipped(i)}
Infs(f) == {i \in Usable(f) : IsInf(i)}
Candidates(f) == {i \in Usable(f) : Name(i) \in WinpeNames}
(* With the files that a .inf brings along whatever their extension is.    *)
Injectable(f) ==
    Candidates(f)
    \union {j \in Usable(f) : \E i \in Infs(f) :
               /\ Dir(i) = Dir(j)
               /\ Name(j) \in Declared(i) \ (WinpeNames \union SystemNames)}
OwnFiles(i) ==
    {j \in Injectable(Files[i].folder) : Dir(j) = Dir(i) /\ Name(j) \in Declared(i)}

Missing(i) ==
    LET named(n) == {j \in In(Files[i].folder) : Name(j) = n} IN
    {n \in Declared(i) : /\ \A j \in named(n) : Dir(j) # Dir(i)
                         /\ n \in WinpeNames \/ named(n) # {}}

(* The order in which the candidates are preferred: a .inf that has its    *)
(* files, then by the directory (no path has 1000 levels).                 *)
Preference(i) ==
    ((IF IsInf(i) /\ Missing(i) # {} THEN 1000 ELSE 0) + Rank(i)) * Width + i

(* chosen[n] is the file that is injected as n: the preferred one, unless  *)
(* a chosen .inf declares n and has its own beside it; the first .inf that *)
(* declares a name keeps it.                                               *)
FirstChoice(f) ==
    LET cand == {<<Preference(i), i>> : i \in Candidates(f)}
        first(n) == CHOOSE p \in cand : /\ Name(p[2]) = n
                                        /\ \A q \in cand : Name(q[2]) = n => p[1] <= q[1]
    IN [n \in {Name(i) : i \in Candidates(f)} |-> first(n)[2]]
FollowInf(c, i) ==
    LET own == {j \in OwnFiles(i) : Name(j) \notin c.blocked}
        names == {Name(j) : j \in own}
    IN IF c.chosen[Name(i)] # i THEN c
       ELSE [chosen |-> [n \in DOMAIN c.chosen \union names |->
                            IF n \in names THEN CHOOSE j \in own : Name(j) = n
                            ELSE c.chosen[n]],
             blocked |-> c.blocked \union names]
Keepers(f, chosen) == {i \in In(f) : Name(i) \in DOMAIN chosen /\ chosen[Name(i)] = i}
MarkInject(f) ==
    Keepers(f, FoldLeft(FollowInf, [chosen |-> FirstChoice(f), blocked |-> {}],
                        Ordered(Infs(f), Preference)).chosen)

-----------------------------------------------------------------------------
(* winpe_inject_files: the files of all the folders for one image, within  *)
(* a number of bytes.  out[n] is the file injected as n.                   *)

Injecting(iso) ==
    {f \in exists : Flags(f).winpe_inject /\ ApplyMatches(Flags(f).apply_to, iso)}
Chosen(iso) == UNION {MarkInject(f) : f \in Injecting(iso)}
Place(f) == CHOOSE k \in DOMAIN Folders : Folders[k] = f
InjectOrder(i) == (Place(Files[i].folder) * 1000 + Rank(i)) * Width + i

NoFiles == [out |-> <<>>, total |-> 0, blocked |-> {}]
Put(o, i) ==
    LET n == Name(i)
        total == o.total + Files[i].size - (IF n \in DOMAIN o.out THEN Files[o.out[n]].size ELSE 0)
    IN IF total > MaxInject THEN o
       ELSE [o EXCEPT !.out = [m \in DOMAIN o.out \union {n} |-> IF m = n THEN i ELSE o.out[m]],
                      !.total = total]
PutFirst(o, i) == IF Name(i) \in DOMAIN o.out THEN o ELSE Put(o, i)

(* What the .inf files ask for: pairs of a .inf and one of its own files.  *)
(* inf_all_files: the .inf, .sys and .cat first, then the others.          *)
Asks(chosen) == UNION {{i} \X OwnFiles(i) : i \in {k \in chosen : IsInf(k)}}
AskOrder(p) ==
    (InjectOrder(p[1]) * 2 + (IF Name(p[2]) \in WinpeNames THEN 0 ELSE 1)) * Width + p[2]
\* Mutant: a file that is there already is not replaced by the .inf's own.
PutOwnIfNone(o, p) ==
    IF Name(p[2]) \in o.blocked THEN o
    ELSE [PutFirst(o, p[2]) EXCEPT !.blocked = @ \union {Name(p[2])}]

PutOwn(o, p) ==
    IF Name(p[2]) \in o.blocked THEN o
    ELSE [Put(o, p[2]) EXCEPT !.blocked = @ \union {Name(p[2])}]

InjectAll(chosen) ==
    FoldLeft(PutOwn, FoldLeft(PutFirst, NoFiles, Ordered(chosen, InjectOrder)),
             Ordered(Asks(chosen), AskOrder)).out
WinpeInjectFiles(iso) == InjectAll(Chosen(iso))

SetupLoadFolders(iso) ==
    {f \in exists \intersect ValidNames : /\ Flags(f).setup_load
                                          /\ ApplyMatches(Flags(f).apply_to, iso)}

-----------------------------------------------------------------------------
(* _setup_tree: the setup walks each path it is given with its subfolders  *)
(* and stops at the first .inf that has not all the files it promises.     *)

Below(d, here) == {i \in here : IsPrefix(d, Dir(i))}
\* Mutant: a file anywhere in the folder is found.
InfCompleteAnywhere(i, here) == Promised(i) \subseteq {Name(j) : j \in here}

InfComplete(i, here) == Promised(i) \subseteq {Name(j) : j \in Below(Dir(i), here)}
InfsBelow(d, here) == {i \in Below(d, here) : IsInf(i)}
Walkable(d, here) == \A i \in InfsBelow(d, here) : InfComplete(i, here)
Dirs(here) ==
    {<<>>} \union UNION {{SubSeq(Dir(i), 1, k) : k \in 0..Len(Dir(i))} : i \in here}

\* Mutant: a folder is offered whole or not at all.
DescendNowhere(here) ==
    IF InfsBelow(<<>>, here) # {} /\ Walkable(<<>>, here) THEN {<<>>} ELSE {}

(* The descent from the root: it stops at the first subfolder that can be  *)
(* walked and goes on below one that cannot.                               *)
Descend(here) ==
    LET into[d \in Dirs(here)] ==
            IF InfsBelow(d, here) = {} THEN {}
            ELSE IF Walkable(d, here) THEN {d}
            ELSE UNION {into[c] : c \in {x \in Dirs(here) : Len(x) = Len(d) + 1 /\ IsPrefix(d, x)}}
    IN into[<<>>]

(* _setup_names gives up on a folder that has too many files or too many   *)
(* directories, itself and the empty ones too, or one that is too deep, and*)
(* does not see the files that are; setup_tree_of obeys the flag.          *)
TooDeep(dir) == Len(dir) > MaxSetupDepth
Truncated(f) ==
    LET dirs == {p[2] : p \in {q \in subfolders : q[1] = f}} IN
    \/ Cardinality(In(f)) >= MaxSetupFiles
    \/ 1 + Cardinality(dirs) > MaxSetupDirs
    \/ \E d \in dirs : TooDeep(d)
SetupTree(f, offer) ==
    CASE offer = "mai" -> {}
      [] offer = "sempre" -> IF \A i \in In(f) : TooDeep(Dir(i)) THEN {} ELSE {<<>>}
      [] offer = "auto" -> IF Truncated(f) THEN {} ELSE Descend(In(f))

(* setup_paths: when there are too many, those of the folders that were    *)
(* bound to this image by name or by group go first, then in the order of  *)
(* Files: by folder, and by path.                                          *)
Priority(folder) ==
    CASE Flags(folder).apply_to.mode = "isos" -> 0
      [] Flags(folder).apply_to.mode = "groups" -> 1
      [] OTHER -> 2
FirstFile(p) == Min({i \in FileIds : Files[i].folder = p[1] /\ IsPrefix(p[2], Dir(i))})
Offered(iso) ==
    (UNION {{f} \X SetupTree(f, Flags(f).setup_offer) :
              f \in {x \in exists \intersect ValidNames : ApplyMatches(Flags(x).apply_to, iso)}})
    \ TooLong
SetupPaths(iso) ==
    LET place(p) == Priority(p[1]) * Width + FirstFile(p)
        queue == Ordered(Offered(iso), place)
    IN ToSet(SubSeq(queue, 1, IF Len(queue) < MaxSetupPaths THEN Len(queue) ELSE MaxSetupPaths))

-----------------------------------------------------------------------------
(* The operations on the library                                           *)

Init ==
    /\ exists = {} /\ present = {} /\ subfolders = {}
    /\ flags = [f \in ToSet(Folders) |-> DefaultFlags]

CreateFolder(f) ==
    /\ f \in ValidNames \ exists
    /\ exists' = exists \union {f}
    /\ UNCHANGED <<present, subfolders, flags>>

(* The share takes any file, and folders of any name.                      *)
ShareFile(i) ==
    /\ i \notin present
    /\ present' = present \union {i}
    /\ exists' = exists \union {Files[i].folder}
    /\ subfolders' = subfolders \union Ways({i})
    /\ UNCHANGED flags

DeleteFolder(f) ==
    /\ f \in exists \intersect ValidNames
    /\ exists' = exists \ {f}
    /\ present' = present \ In(f)
    /\ subfolders' = {p \in subfolders : p[1] # f}
    /\ flags' = [flags EXCEPT ![f] = DefaultFlags]

DeleteFile(i) ==
    /\ i \in present /\ Files[i].folder \in ValidNames
    /\ present' = present \ {i}
    /\ UNCHANGED <<exists, subfolders, flags>>

SetExcluded(i, out) ==
    LET f == Files[i].folder IN
    /\ f \in exists \intersect ValidNames
    /\ flags' = [flags EXCEPT ![f].excluded = IF out THEN @ \union {i} ELSE @ \ {i}]
    /\ UNCHANGED <<exists, present, subfolders>>

Patched(old, patch) ==
    [k \in DOMAIN old |-> IF k \in DOMAIN patch THEN patch[k] ELSE old[k]]

(* set_flags and set_flags_many: the same patch on the folders there are.  *)
SetFlags(names, patch) ==
    /\ names \intersect exists \intersect ValidNames # {}
    /\ flags' = [f \in DOMAIN flags |->
                    IF f \in names \intersect exists \intersect ValidNames
                    THEN Patched(flags[f], patch) ELSE flags[f]]
    /\ UNCHANGED <<exists, present, subfolders>>

(* The subfolders that have nothing in them go, but not those that had one *)
(* of these: os.walk has looked into them before.                          *)
CleanFolder(f) ==
    LET useful == {i \in present : Files[i].folder = f => Name(i) \in UsefulNames} IN
    /\ f \in exists \intersect ValidNames
    /\ present' = useful
    /\ subfolders' = {p \in subfolders : p[1] = f =>
                         \/ \E i \in useful : <<Files[i].folder, Dir(i)>> = p
                         \/ \E q \in subfolders \ {p} : q[1] = f /\ IsPrefix(p[2], q[2])}
    /\ UNCHANGED <<exists, flags>>

(* extract_zip of services/uploads.py: the files of the archive, members   *)
(* in its order, go in the folder over those that are there; when it is not*)
(* the whole of them, those that were opened go, and the ones they replaced*)
(* are not put back; the subfolders made for them, and for the next one    *)
(* perhaps, stay.                                                          *)
ExtractZip(f, members, opened, whole) ==
    LET out == ToSet(SubSeq(members, 1, opened)) IN
    /\ f \in ValidNames /\ \A i \in ToSet(members) : Files[i].folder = f
    /\ whole => opened = Len(members)
    /\ exists' = exists \union {f}
    /\ present' = IF whole THEN present \union out ELSE present \ out
    /\ \E made \in {opened, Min({opened + 1, Len(members)})} :
          subfolders' = subfolders \union Ways(ToSet(SubSeq(members, 1, made)))
    /\ UNCHANGED flags

CONSTANTS Touched,      \* the files that are shared or deleted one by one
          Patches,      \* the changes of flags that are tried
          Excludable,   \* the files somebody excludes
          Archives      \* sequences of files of one folder

ASSUME InputsAssumption ==
    /\ Touched \subseteq FileIds /\ Excludable \subseteq FileIds
    /\ Archives \subseteq Seq(FileIds)
    /\ \A p \in Patches : "setup_offer" \in DOMAIN p => p.setup_offer \in Offers

Next ==
    \/ \E f \in ToSet(Folders) : CreateFolder(f) \/ DeleteFolder(f) \/ CleanFolder(f)
    \/ \E i \in Touched : ShareFile(i) \/ DeleteFile(i)
    \/ \E i \in Excludable, out \in BOOLEAN : SetExcluded(i, out)
    \/ \E names \in SUBSET ToSet(Folders), patch \in Patches : SetFlags(names, patch)
    \/ \E members \in Archives :
          \E f \in {Files[i].folder : i \in ToSet(members)}, opened \in 0..Len(members) :
              \E whole \in BOOLEAN : ExtractZip(f, members, opened, whole)

Spec == Init /\ [][Next]_vars

-----------------------------------------------------------------------------
(* Properties                                                              *)

(* The setup is never made to walk a folder in which it would meet a .inf  *)
(* that lacks a file it promises, unless the technician said "sempre"; and *)
(* no path it is given is inside another (setup_paths: one incomplete      *)
(* package used to stop every installation).                               *)
SetupMeetsNoBroken ==
    \A iso \in Isos \union {Preview} :
        LET paths == SetupPaths(iso) IN
        /\ Cardinality(paths) <= MaxSetupPaths
        /\ \A p \in paths :
              /\ Flags(p[1]).setup_offer # "mai" /\ ApplyMatches(Flags(p[1]).apply_to, iso)
              /\ Flags(p[1]).setup_offer = "auto" =>
                     \A i \in In(p[1]) :
                         (IsInf(i) /\ IsPrefix(p[2], Dir(i))) =>
                             \A n \in Promised(i) :
                                 \E j \in In(p[1]) : Name(j) = n /\ IsPrefix(Dir(i), Dir(j))
              /\ \A q \in paths \ {p} : p[1] = q[1] => ~IsPrefix(p[2], q[2])

(* Nothing that could be offered is left out: a .inf of a folder on "auto" *)
(* is lost only when the folder has too many files, too many directories or*)
(* too deep a one, empty ones included, or when a broken .inf shares its   *)
(* directory or is below it (_setup_tree); what setup_paths leaves out when*)
(* there are too many paths, or too long ones, comes after.                *)
NothingGoodIsLost ==
    \A f \in exists \intersect ValidNames :
        LET here == In(f) IN
        (Flags(f).setup_offer = "auto" /\ ~Truncated(f)) =>
            \A i \in InfsBelow(<<>>, here) :
                (\A j \in InfsBelow(Dir(i), here) : InfComplete(j, here))
                    <=> \E d \in SetupTree(f, "auto") : IsPrefix(d, Dir(i))

Sizes == [i \in FileIds |-> Files[i].size]
Size(S) == MapThenSumSet(LAMBDA i : Sizes[i], S)
Injected(iso) == Range(WinpeInjectFiles(iso))
AllFits(iso) == Size(UNION {Injectable(f) : f \in Injecting(iso)}) <= MaxInject

(* injected is what WinPE gets for iso, asks what was asked for it.        *)
Sound(injected, asks, iso) ==
    /\ Size(injected) <= MaxInject
    /\ \A i \in injected :
          /\ i \in present \ Flags(Files[i].folder).excluded /\ ~Skipped(i)
          /\ Flags(Files[i].folder).winpe_inject
          /\ ApplyMatches(Flags(Files[i].folder).apply_to, iso)
          /\ Name(i) \notin WinpeNames =>
                 /\ Name(i) \notin SystemNames
                 /\ \E k \in Infs(Files[i].folder) : Dir(k) = Dir(i) /\ Name(i) \in Declared(k)
    /\ AllFits(iso) =>
          \A p \in asks : \E q \in asks : q[2] \in injected /\ Name(q[2]) = Name(p[2])

(* What WinPE gets: within the bytes allowed, nothing that was excluded or *)
(* is for another architecture, nothing that would replace a system file   *)
(* but a driver of that name, no library or program that no .inf beside it *)
(* declares; and unless the bytes run short, each name that a chosen .inf  *)
(* asks for is the own file of a chosen .inf that asks for it, never one   *)
(* that just has that name ("il primo .inf che lo chiede se lo tiene",     *)
(* winpe_inject_files).                                                    *)
InjectionIsSound ==
    \A iso \in Isos \union {Preview} : Sound(Injected(iso), Asks(Chosen(iso)), iso)

(* What the comments of winpe_inject_files promise and it does not keep: a *)
(* .inf that is injected finds its own files ("ogni .inf iniettato tira    *)
(* dentro i file che dichiara, presi dalla sua cartella"), unless another  *)
(* .inf that is injected had asked for that name.                          *)
InjectedInfHasItsFiles ==
    \A iso \in Isos \union {Preview} :
        LET injected == Injected(iso) IN
        AllFits(iso) =>
            \A i \in {k \in injected : IsInf(k)} : \A j \in OwnFiles(i) :
                \E k \in {l \in injected : IsInf(l)} :
                    \E l \in OwnFiles(k) \intersect injected : Name(l) = Name(j)
=============================================================================
