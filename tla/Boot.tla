-------------------------------- MODULE Boot --------------------------------
(***************************************************************************)
(* A PC that boots from the network while the web interface changes what   *)
(* it is offered: blueprints/boot.py with the menus of IpxeMenu.tla, the   *)
(* answers of Answers.tla, the recipes of services/recipes.py and the      *)
(* script of WinPE.tla.  Every script and every file the PC has is of the  *)
(* moment it asked for it.                                                 *)
(***************************************************************************)
EXTENDS Answers, IpxeMenu, WinPE

CONSTANTS Catalogue,          \* the entries, [slug, group, platforms], in their order
          IsoType,            \* slug |-> the family of its recipe, as of _ISO_FAMILY
          Platform,           \* of the PC
          AutoBoots,          \* what clients.py has the PC boot by itself, "" for nothing
          Menus,              \* the settings of PUT /api/menu
          Windows,            \* cfg["windows"], as [smb_export, setup_logs]
          FirstSettings,      \* the <<menu, windows>> there may be at first
          HasDrivers,         \* whether there are drivers to inject
          ProfileName         \* id |-> name, of the Windows profiles

ASSUME EnoughLabels == MaxAnswers <= Len(AnswerLabels)

\* The images are called differently, and there are labels for the groups
\* whatever the images are called.
ASSUME MenusAssumption ==
    /\ Catalogue \in Seq(ToSet(Catalogue))
    /\ \A i, j \in DOMAIN Catalogue : Catalogue[i].slug = Catalogue[j].slug => i = j
    /\ "" \notin SlugsIn(Catalogue)
    /\ GroupLabels \in Seq(STRING) /\ "" \notin ToSet(GroupLabels)
    /\ \A i, j \in DOMAIN GroupLabels : GroupLabels[i] = GroupLabels[j] => i = j
    /\ \A m \in Menus :
          /\ m.groups \in Seq(STRING)
          /\ \A slugs \in SUBSET SlugsIn(Catalogue) :
                Len(FreeLabels(slugs)) > Len(m.groups) + Len(Catalogue)
    /\ \A s \in FirstSettings : s[1] \in Menus

VARIABLES menu, windows, up,  \* the settings, and the ISOs that are mounted
          profiles,           \* the ids of the profiles there are
          pc                  \* the PC

bootVars == <<answerVars, menu, windows, up, profiles, pc>>

-----------------------------------------------------------------------------
(* What the server makes.                                                  *)

(* entries: enabled, present and mounted, and for the platform.            *)
EntriesOf(mounted) ==
    Among(Catalogue, {e \in ToSet(Catalogue) : e.slug \in mounted /\ Platform \in e.platforms})
EntriesNow == EntriesOf(up)

(* The scripts of the menu, worked out once.                               *)
Scripts == [s \in Menus \X (SUBSET Isos) \X AutoBoots |->
               MenuScript(s[1], EntriesOf(s[2]), s[3], TRUE)]

(* flags of winpe.py *)
Flags == [smb_export |-> windows.smb_export, inject |-> windows.smb_export \/ HasDrivers,
          setup_logs |-> windows.smb_export /\ windows.setup_logs]

(* _profilo_della_risposta: by the field of the record, else by its id,    *)
(* else by its name; NoId for an answer that is not made from a profile.   *)
ProfileForAnswer(id) ==
    LET named == {p \in profiles : ProfileName[p] = records[id].name}
    IN IF records[id].kind # "windows" THEN NoId
       ELSE IF records[id].profile \in profiles THEN records[id].profile
       ELSE IF id \in profiles THEN id
       ELSE IF named # {} THEN CHOOSE p \in named : TRUE
       ELSE NoId

(* kernel_args and winpe_files: what the PC is told of the answer.         *)
Family(id, type) == IF records[id].kind # "generic" THEN records[id].kind ELSE type
Url(what, id, name) == [what |-> what, id |-> id, name |-> name]
KernelArgs(id, type) ==
    CASE Family(id, type) \in {"debian", "redhat"} /\ MainFile(id) # "" ->
            <<Url("file", id, MainFile(id))>>
      [] Family(id, type) = "ubuntu" -> <<Url("file", id, "user-data")>>
      [] OTHER -> <<>>
WinpeFiles(id) ==
    LET xml == "autounattend.xml"
        main == IF records[id].kind = "generic" \/ MainFile(id) = "" THEN xml ELSE MainFile(id)
    IN IF records[id].kind # "windows" /\ (records[id].kind # "generic" \/ xml \notin FilesOf(id))
       THEN <<>>
       ELSE IF ProfileForAnswer(id) # NoId THEN <<Url("boot_answer", id, xml)>>
       ELSE <<Url("file", id, main)>>

(* render and _apply_answer: what the PC downloads, and what the system it *)
(* starts is told to download.                                             *)
Render(slug, id) ==
    LET windowsIso == IsoType[slug] = "windows" IN
    [files |-> (IF windowsIso /\ id # NoId THEN WinpeFiles(id) ELSE <<>>)
               \o (IF windowsIso /\ Flags.inject THEN <<Url("inject", NoId, "install.cmd")>> ELSE <<>>)
               \o <<Url("iso", NoId, slug)>>,
     args |-> IF windowsIso \/ id = NoId THEN <<>> ELSE KernelArgs(id, IsoType[slug])]

(* serve_answer_file: the file, or a 404, NoFile; boot_answer: generated   *)
(* from the profile, else the main file, which is empty if it is not there.*)
NoFile == [answer |-> NoId, profile |-> NoId, gen |-> 0]
StaticFile(id, name) ==
    IF id \in DOMAIN records /\ name \in FilesOf(id)
    THEN [answer |-> id, profile |-> NoId, gen |-> files[id][name]] ELSE NoFile
BootAnswer(id) ==
    IF id \notin DOMAIN records THEN NoFile
    ELSE IF ProfileForAnswer(id) # NoId
    THEN [answer |-> id, profile |-> ProfileForAnswer(id), gen |-> records[id].gen]
    ELSE IF MainFile(id) \in FilesOf(id) THEN StaticFile(id, MainFile(id))
    ELSE [NoFile EXCEPT !.answer = id]
Served(url) ==
    IF url.what = "boot_answer" THEN BootAnswer(url.id) ELSE StaticFile(url.id, url.name)

-----------------------------------------------------------------------------
(* The PC: iPXE runs the section "label" of the script "main", or of the   *)
(* menu of the answers "sub" of "slug"; then the PC loads "todo" and       *)
(* starts what it loaded, with "given" as the answer.  It chose as things  *)
(* were after "since" requests, if none was under way; "gone" is that its  *)
(* choice was no longer offered when it came with it.                      *)

PcOff == [at |-> "off", main |-> <<>>, label |-> "", slug |-> "", sub |-> <<>>,
          sublabel |-> "", choice |-> "default", gone |-> FALSE, since |-> 0,
          todo |-> <<>>, args |-> <<>>, given |-> NoFile, pe |-> <<>>]
Now == IF \A r \in Requests : doing[r] = Idle THEN requests ELSE MaxRequests + 1
Admin == UNCHANGED <<answerVars, menu, windows, up, profiles>>
Here == SectionOf(Scripts[pc.main], pc.label)
There == SectionOf(pc.sub, pc.sublabel)

PowerOn == /\ pc.at \in {"off", "shell", "left", "installer"}
           /\ pc' = [PcOff EXCEPT !.at = "bootstrap"]

(* bootstrap_script and boot_menu.  Without the menu it tries twice, and   *)
(* then it is in the shell.                                                *)
GetMenu(auto) ==
    LET script == <<menu, up, auto>> IN
    /\ pc.at = "bootstrap"
    /\ pc' = [pc EXCEPT !.at = "ipxe", !.main = script, !.label = Scripts[script][1].label]
NoMenu == pc.at = "bootstrap" /\ pc' = [pc EXCEPT !.at = "shell"]

(* "choose": an item, the default of it when the time is over, where a     *)
(* default that is not an item is the first one; or ESC.                   *)
Taken(section) == IF Contains(section.items, section.default) THEN section.default
                  ELSE section.items[1]
Selectable(section) == ToSet(section.items) \union section.jumps
ChooseEntry == /\ pc.at = "ipxe" /\ Here.does = <<"menu">>
               /\ \E l \in Selectable(Here) : pc' = [pc EXCEPT !.label = l]
TimedOut == /\ pc.at = "ipxe" /\ Here.does = <<"menu">> /\ Here.timed
            /\ pc' = [pc EXCEPT !.label = Taken(Here)]

Loading(p, slug, id) ==
    [p EXCEPT !.at = "loading", !.slug = slug, !.todo = Render(slug, id).files,
              !.args = Render(slug, id).args]
GoBack(p) == [PcOff EXCEPT !.at = "failed", !.main = p.main, !.label = p.label]

(* boot_entry without "answer": the menu of the answers when there is a    *)
(* choice, else the answer there is.  An ISO that is gone has no script.   *)
ChainEntry ==
    LET slug == Here.does[2] IN
    /\ pc.at = "ipxe" /\ Here.does[1] = "chain"
    /\ LET choices == AnswerChoices(AnswersInfo(links[slug]), links[slug].manual) IN
       pc' = IF slug \notin Isos THEN GoBack(pc)
             ELSE IF Len(choices) < 2
             THEN Loading([pc EXCEPT !.since = Now], slug, ResolveAnswer(links[slug], "default"))
             ELSE [pc EXCEPT !.at = "answers", !.slug = slug, !.sublabel = "menu",
                             !.sub = AnswerMenuScript(menu, choices, DefaultAnswer(links[slug])),
                             !.since = Now]
ChooseAnswer == /\ pc.at = "answers" /\ There.does = <<"menu">>
                /\ \E l \in Selectable(There) : pc' = [pc EXCEPT !.sublabel = l]
AnswerTimedOut == /\ pc.at = "answers" /\ There.does = <<"menu">> /\ There.timed
                  /\ pc' = [pc EXCEPT !.sublabel = Taken(There)]
ChainAnswer ==
    /\ pc.at = "answers" /\ There.does[1] = "answer"
    /\ LET id == There.does[2] IN
       pc' = Loading([pc EXCEPT !.choice = id,
                                !.gone = id # "" /\ ~Contains(AnswersInfo(links[pc.slug]), id)],
                     pc.slug, ResolveAnswer(links[pc.slug], id))
AnswersFailed == pc.at = "answers" /\ There.does = <<"exit">> /\ pc' = GoBack(pc)

(* The menu goes on where its command fails; its other sections.           *)
AfterFailure == /\ pc.at = "failed"
                /\ \E l \in Here.jumps : pc' = [pc EXCEPT !.at = "ipxe", !.label = l]
LeaveMenu ==
    /\ pc.at = "ipxe"
    /\ \/ Here.does[1] \in {"local", "exit", "memtest", "shell"} /\ pc' = [PcOff EXCEPT !.at = "left"]
       \/ Here.does = <<"reboot">> /\ pc' = PcOff
       \/ Here.does[1] \in {"local", "shell", "none"} /\ pc' = GoBack(pc)

(* The downloads, any of which may fail, and what is started then.         *)
Load ==
    LET url == Head(pc.todo)
        got == [pc EXCEPT !.todo = Tail(@)]
    IN /\ pc.at = "loading" /\ pc.todo # <<>>
       /\ pc' = IF url.what = "iso" THEN (IF pc.slug \in up THEN got ELSE GoBack(pc))
                ELSE IF url.what = "inject" THEN [got EXCEPT !.pe = Started(Flags)]
                ELSE IF Served(url) = NoFile THEN GoBack(pc)
                ELSE [got EXCEPT !.given = Served(url)]
LoadFails == pc.at = "loading" /\ pc.todo # <<>> /\ pc' = GoBack(pc)
Start ==
    /\ pc.at = "loading" /\ pc.todo = <<>>
    /\ pc' = IF pc.pe # <<>>
             THEN [PcOff EXCEPT !.at = "winpe", !.slug = pc.slug, !.pe = pc.pe]
             ELSE [pc EXCEPT !.at = "installer", !.main = <<>>, !.label = "", !.sub = <<>>,
                             !.sublabel = ""]
InstallerLoads ==
    /\ pc.at = "installer" /\ pc.args # <<>>
    /\ pc' = [pc EXCEPT !.args = <<>>, !.given = Served(Head(pc.args))]

(* Windows PE runs its script until it waits for somebody; a setup.exe     *)
(* that does its work restarts the PC into what it installed.              *)
Runs == pc' \in {[pc EXCEPT !.pe = o] :
                     o \in Outcomes(pc.pe, windows.smb_export, pc.slug \in up)}
WinpeRuns == pc.at = "winpe" /\ ~Over(pc.pe) /\ ~Waiting(pc.pe) /\ Runs
WinpeGoesOn == pc.at = "winpe" /\ Waiting(pc.pe) /\ Runs
Installed == pc.at = "winpe" /\ Waiting(pc.pe) /\ Line(pc.pe).arg = "setup.exe" /\ pc' = PcOff

PcRuns == Load \/ Start \/ WinpeRuns
PcNext == PcRuns \/ ChainEntry \/ ChainAnswer \/ AnswersFailed \/ AfterFailure \/ InstallerLoads
          \/ PowerOn \/ (\E auto \in AutoBoots : GetMenu(auto)) \/ NoMenu
          \/ ChooseEntry \/ TimedOut \/ ChooseAnswer \/ AnswerTimedOut \/ LeaveMenu
          \/ LoadFails \/ WinpeGoesOn \/ Installed

-----------------------------------------------------------------------------
(* The web interface.                                                      *)

Ask == requests < MaxRequests /\ requests' = requests + 1
Rest == UNCHANGED <<records, files, links, doing, clashed, created, restarts, pc>>
PutMenu(m) == /\ menu' = m /\ m # menu /\ Ask
              /\ Rest /\ UNCHANGED <<windows, up, profiles>>
PutWindows(w) == /\ windows' = w /\ w # windows /\ Ask
                 /\ Rest /\ UNCHANGED <<menu, up, profiles>>
Mount(s) == /\ s \notin up /\ up' = up \union {s} /\ Ask
            /\ Rest /\ UNCHANGED <<menu, windows, profiles>>
Unmount(s) == /\ s \in up /\ up' = up \ {s} /\ Ask
              /\ Rest /\ UNCHANGED <<menu, windows, profiles>>
DropProfile(p) == /\ p \in profiles /\ profiles' = profiles \ {p} /\ Ask
                  /\ Rest /\ UNCHANGED <<menu, windows, up>>
Settings == \/ \E m \in Menus : PutMenu(m)
            \/ \E w \in Windows : PutWindows(w)
            \/ \E s \in Isos : Mount(s) \/ Unmount(s)
            \/ \E p \in profiles : DropProfile(p)

Init == /\ AnswersInit /\ \E s \in FirstSettings : menu = s[1] /\ windows = s[2]
        /\ up = Isos /\ profiles = DOMAIN ProfileName /\ pc = PcOff
Next == \/ AnswersNext /\ UNCHANGED <<menu, windows, up, profiles, pc>>
        \/ Settings
        \/ PcNext /\ Admin
Spec == Init /\ [][Next]_bootVars /\ WF_pc(PcRuns)

-----------------------------------------------------------------------------
(* Properties                                                              *)

(* Whatever the settings and the ISOs, the script of the menu goes only to *)
(* labels it has and leads to every entry, and the label of an entry is    *)
(* that of its own section, which comes before the ones every menu has.    *)
(* No label is there twice, but for an ISO that is called as the menu calls*)
(* one of its own, like memtest.iso, which slugify does not look at: it    *)
(* takes that place (and the menu's own is above one called "menu").  When *)
(* the time is over the default is taken, unless it is a system entry that *)
(* is not shown.  A group called "Altro" beside entries without a group is *)
(* left out: its two submenus get the same label, although _group_labels   *)
(* says they are unique.  The menu of the answers has the default among its*)
(* choices.                                                                *)
TwoAltro == \E e, f \in ToSet(EntriesNow) : e.group = Other /\ f.group = ""
MenuIsClosed(script) ==
    LET main == SectionOf(script, "menu")
        slugs == SlugsIn(EntriesNow)
    IN
    /\ GoesOnly(script)
    /\ LabelledApart(script, slugs \intersect ReservedLabels)
    /\ \A slug \in slugs : /\ slug \in Reached(script)
                           /\ slug # "menu" => SectionOf(script, slug).does = <<"chain", slug>>
    /\ Taken(main) = main.default \/ main.default \in ToSet(SystemEntries) \ menu.show
MenusAreClosed ==
    /\ (pc.at = "bootstrap" /\ ~TwoAltro) =>
          \A auto \in AutoBoots : MenuIsClosed(Scripts[<<menu, up, auto>>])
    /\ pc.sub # <<>> => /\ GoesOnly(pc.sub) /\ LabelledApart(pc.sub, {})
                       /\ Taken(SectionOf(pc.sub, "menu")) = SectionOf(pc.sub, "menu").default

(* A PC that starts with an answer somebody chose for it is given no other *)
(* answer's files, and a start by hand none, whatever is deleted, created  *)
(* or linked meanwhile: unless the answer was gone when the PC came with   *)
(* its choice, where resolve_answer takes the default.  As long as nothing *)
(* changed since the PC came for its ISO, and no two requests were in each *)
(* other's way, what it is given, chosen or the only one there is, is of   *)
(* that answer, generated from the profile when it has one and else as it  *)
(* was written; an answer for Windows is given to no other system, nor one *)
(* for another system to Windows (entry_script, answer_for, boot_answer).  *)
Chosen == IF pc.choice = "default" THEN DefaultAnswer(links[pc.slug]) ELSE pc.choice
GivenIs(id) ==
    LET profile == ProfileForAnswer(id) IN
    /\ pc.given.answer = id /\ pc.given.profile = profile
    /\ pc.given.gen = records[id].gen
OfAnotherSystem(kind, type) == kind # "generic" /\ (kind = "windows") # (type = "windows")
\* The file an installer asks for: of an answer of no kind, perhaps none.
AsksFor(id) == CASE records[id].kind = "generic" -> ""
                 [] records[id].kind = "ubuntu" -> "user-data"
                 [] OTHER -> MainFile(id)
GetsWhatWasChosen ==
    (pc.at \in {"loading", "installer"} /\ pc.todo = <<>> /\ pc.args = <<>>) =>
       /\ pc.choice = "" => pc.given = NoFile
       /\ (pc.choice # "default" /\ ~pc.gone) => pc.given.answer \in {pc.choice, NoId}
       /\ (pc.since = requests /\ ~clashed) =>
             IF Chosen \in {NoId, ""} THEN pc.given = NoFile
             ELSE IF OfAnotherSystem(records[Chosen].kind, IsoType[pc.slug])
             THEN pc.given = NoFile
             ELSE IF AsksFor(Chosen) \in FilesOf(Chosen) THEN GivenIs(Chosen)
             ELSE pc.given.answer \in {Chosen, NoId}

(* install.cmd never comes to its end, runs its sub-programs only when it  *)
(* calls them, and what it writes of the outcome is of this setup.exe.     *)
ScriptStaysOpen ==
    pc.at = "winpe" => StaysOpen(pc.pe) /\ pc.pe.logged # "non avviato"

(* A PC that was started on an entry comes to something a person sees: the *)
(* message that it failed and the menu, an installer, or in Windows PE the *)
(* setup or a prompt (install_cmd).  It needs that the PC goes on with     *)
(* what it is doing, nothing of the server.                                *)
AtRest == \/ pc.at \in {"off", "failed", "installer"}
          \/ pc.at = "winpe" /\ Waiting(pc.pe)
PcReachesAnEnd == pc.at \in {"loading", "winpe"} ~> AtRest
=============================================================================
