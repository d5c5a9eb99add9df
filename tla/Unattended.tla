----------------------------- MODULE Unattended -----------------------------
(***************************************************************************)
(* The life of a Windows and of a Debian profile: what a request stores    *)
(* and the file the profile is made into when a PC boots.  A request       *)
(* changes some fields of the settings and the whole is validated.  The    *)
(* catalogue of the tweaks and the images the profile is used on change    *)
(* under the stored profile.                                               *)
(***************************************************************************)
EXTENDS SequencesExt, FiniteSetsExt

CONSTANTS LtscNames, ServerNames,     \* see WinEditions
          None,                       \* no profile
          Categories,                 \* of the tweaks
          Libraries,                  \* the contents of windows-tweaks.json
          Images,                     \* the images an ISO may have, <<>> if not known
          WinDefaults, DebDefaults,   \* DEFAULTS
          WinPatches, DebPatches,     \* the fields a request may give
          WinStored,                  \* Windows settings that older versions stored
          MaxSaves

Win == INSTANCE WinProfile
Deb == INSTANCE DebProfile

VARIABLES lib,      \* windows-tweaks.json
          win,      \* the stored settings of a Windows profile
          deb,      \* those of a Debian profile
          bound,    \* the images of the ISOs that use the Windows profile
          saves     \* how many requests there were, at most MaxSaves

vars == <<lib, win, deb, bound, saves>>

Cat == Win!LoadTweaks(lib, Categories)

(* deep_merge: what a field that is an object does not give stays.         *)
Nested == {"lang", "extra_user", "join", "disk", "mirror", "network", "root", "user"}
DeepMerge(stored, patch) ==
    [f \in DOMAIN stored |->
        IF f \notin DOMAIN patch THEN stored[f]
        ELSE IF f \in Nested THEN patch[f] @@ stored[f] ELSE patch[f]]

-----------------------------------------------------------------------------
Init ==
    /\ lib \in Libraries
    /\ win \in {None} \union WinStored /\ deb = None
    /\ bound = {} /\ saves = 0

CreateWin(patch) ==
    LET settings == Win!Validate(DeepMerge(WinDefaults, patch), Cat, TRUE) IN
    /\ win = None /\ settings # Win!Refusal
    /\ win' = settings
    /\ UNCHANGED <<lib, deb, bound>>

(* Only update checks the edition against the images the profile is on.    *)
(* The check and the save are one step: a link that another request makes  *)
(* in between is not here.                                                 *)
UpdateWin(patch) ==
    LET settings == Win!Validate(DeepMerge(win, patch), Cat, TRUE) IN
    /\ win # None /\ settings # Win!Refusal
    /\ ~Win!EditionIsRefused(settings.edition, bound)
    /\ win' = settings
    /\ UNCHANGED <<lib, deb, bound>>

CreateDeb(patch) ==
    LET settings == Deb!Validate(DeepMerge(DebDefaults, patch)) IN
    /\ deb = None /\ settings # Deb!Refusal
    /\ deb' = settings
    /\ UNCHANGED <<lib, win, bound>>

UpdateDeb(patch) ==
    LET settings == Deb!Validate(DeepMerge(deb, patch)) IN
    /\ deb # None /\ settings # Deb!Refusal
    /\ deb' = settings
    /\ UNCHANGED <<lib, win, bound>>

Save ==
    /\ saves < MaxSaves /\ saves' = saves + 1
    /\ \/ deb = None /\ \E patch \in WinPatches : CreateWin(patch) \/ UpdateWin(patch)
       \/ win = None /\ \E patch \in DebPatches : CreateDeb(patch) \/ UpdateDeb(patch)

(* Another version of the program brings another catalogue.                *)
Upgrade ==
    /\ win # None /\ lib' \in Libraries \ {lib}
    /\ UNCHANGED <<win, deb, bound, saves>>

(* An ISO gets, or loses, an answer made from the profile (iso_bindings).  *)
Bind(images) ==
    /\ win # None
    /\ bound' = IF images \in bound THEN bound \ {images} ELSE bound \union {images}
    /\ UNCHANGED <<lib, win, deb, saves>>

Next == Save \/ Upgrade \/ \E images \in Images : Bind(images)

Spec == Init /\ [][Next]_vars

-----------------------------------------------------------------------------
(* Properties                                                              *)

(* What was stored can always be made into a file: the settings validate   *)
(* accepted are accepted again and are their own normal form, and so are   *)
(* those of older versions that are here: a disk that is not wiped, a tweak*)
(* that does not fit.  A tweak that has left the catalogue, and nothing    *)
(* else, makes the generation refuse a stored profile, which validate says *)
(* without exception must go on being made into a file.                    *)
StoredIsAccepted ==
    /\ win # None =>
          /\ Win!Accepted(win, Cat, FALSE) <=> ToSet(win.tweaks) \subseteq Win!Ids(Cat)
          /\ LET again == Win!Normal([win EXCEPT !.tweaks = <<>>], Cat)
             IN [again EXCEPT !.disk = win.disk, !.tweaks = win.tweaks] = win
    /\ deb # None => Deb!Validate(deb) = deb

(* Nobody is in front of the PC.  When the profile names an edition, which *)
(* a new one does not (the setup asks then), the file names an image of the*)
(* ISO, of the kind of Windows the profile is for if any is.  Unless the   *)
(* disk is partitioned by hand, where the setup asks, it installs on the   *)
(* partition that takes what is left of the disk it wipes.  The computer   *)
(* name is one Windows takes, unless it is made of a serial number, which  *)
(* may become all digits.  The account that logs on by itself exists; on   *)
(* Windows Server no account lacks a password.                             *)
InstallsAlone ==
    win # None => \A images \in Images :
        LET file == Win!RenderAutounattend(win, Cat, images, <<>>)
            pe == file.pe
            parts == pe.partitions
            chosen == Win!MatchEdition(images, pe.install_from)
            fits(im) == ~Win!TargetWarning(win.target, Win!NameOf(im))
            names == {file.accounts[i].name : i \in DOMAIN file.accounts}
        IN file # Win!Refusal =>
           /\ (win.edition # Win!Ask /\ images # <<>>) =>
                 /\ chosen # Win!NoImage
                 /\ \/ chosen = Win!MatchEdition(images, win.edition)
                    \/ fits(chosen)
                    \/ \A i \in DOMAIN images : ~fits(images[i])
           /\ IF pe.wipe
              THEN /\ {i \in DOMAIN parts : parts[i].size = 0} = {Len(parts)}
                   /\ pe.install_to = Len(parts) /\ parts[Len(parts)].label = "Windows"
                   /\ \E i \in DOMAIN parts : parts[i].format # "" /\ i # Len(parts)
              ELSE parts = <<>> /\ pe.install_to = 0
           /\ \/ file.computer = Win!AnyName
              \/ /\ ~file.computer.star /\ file.computer.length \in 1..Win!MaxComputer
                 /\ file.computer.form = "text" \/ win.computer.form = "serial"
           /\ file.autologon # <<>> =>
                 /\ file.autologon[2] > 0
                 /\ IF file.built_in THEN file.autologon[1] = "administrator"
                    ELSE file.autologon[1] \in names
           /\ Cardinality(names) = Len(file.accounts)
           /\ win.target = "server" =>
                 \A i \in DOMAIN file.accounts : file.accounts[i].password # ""

(* The commands of the file neither repeat nor contradict each other: the  *)
(* same command is there once, each registry value has one writer          *)
(* (_Emessi), every value and every service of a tweak that fits is        *)
(* written, and the default user's hive is loaded while it is written.     *)
WritesOnce ==
    LET file == Win!RenderAutounattend(win, Cat, <<>>, <<>>)
        all == file.specialize \o file.logon
        writes == {i \in DOMAIN all : all[i][1] = "reg add"}
        place(i) == <<IF all[i][2] \in {"HKCU", "PixioDef"} THEN "HKCU" ELSE "HKLM", all[i][3]>>
        at(c, i) == i \in DOMAIN file.specialize /\ file.specialize[i] = c
    IN (win # None /\ file # Win!Refusal) =>
       /\ Cardinality(ToSet(all)) = Len(all)
       /\ \A i, j \in writes : place(i) = place(j) => i = j
       /\ \A t \in ToSet(Win!ChosenTweaks(win, Cat)) :
             /\ \A r \in ToSet(t.reg) : \E i \in writes : place(i) = <<r.scope, r.name>>
             /\ \A sv \in ToSet(t.services) : \E i \in writes : place(i) = <<"HKLM", sv.name>>
       /\ \A i \in writes : all[i][2] = "PixioDef" =>
             \E l \in 1..i, u \in i..Len(all) : /\ at(<<"reg load", "PixioDef">>, l)
                                                /\ at(<<"reg unload", "PixioDef">>, u)

(* A profile that is on images that are known is not updated to an edition *)
(* that none of them has: on one of them at least the file asks for it.    *)
SavedEditionIsUsed ==
    [][(win # None /\ win' # win /\ win'.edition # Win!Ask /\ bound # {} /\ <<>> \notin bound)
       => \E images \in bound :
             LET file == Win!RenderAutounattend(win', Cat, images, <<>>)
             IN file # Win!Refusal /\ file.pe.install_from = win'.edition]_vars

(* The preseed of a stored profile answers each question once; somebody    *)
(* can log in and administer the PC; the keys go to an account that is     *)
(* made; of the partitions it asks for, one is the root, no two have the   *)
(* same place, one takes the space left on the disk and one that left in   *)
(* the group, which the boot loader needs nothing of, and none needs more  *)
(* than it may have (that they all fit on the disk is not said).           *)
PreseedIsSound ==
    LET p == Deb!RenderPreseed(deb)
        has(question, value) == <<question, value>> \in p.answers
        asked(question) == \E a \in p.answers : a[1] = question
        secret(account) == \/ asked(account \o "-password") /\ asked(account \o "-password-again")
                           \/ asked(account \o "-password-crypted")
        rest(lv) == {i \in DOMAIN p.parts : p.parts[i].lv = lv /\ p.parts[i].max = -1}
        mounted == {i \in DOMAIN p.parts : p.parts[i].mount # ""}
    IN deb # None =>
       /\ p # Deb!Refusal
       /\ \A a, b \in p.answers : a[1] = b[1] => a = b
       /\ has("root-login", "true") \/ (has("make-user", "true") /\ has("user-default-groups", "sudo"))
       /\ has("root-login", "true") => secret("root")
       /\ has("make-user", "true") => secret("user")
       /\ \A i \in DOMAIN p.late : p.late[i][1] = "authorized_keys" =>
             \/ has("username", p.late[i][2]) /\ p.late[i][2] # ""
             \/ p.late[i][2] = "root" /\ has("root-login", "true")
       /\ has("method", "crypto") => \A a \in p.answers : a[1] = "passphrase" => a[2] \notin {"", "short"}
       /\ has("choose_recipe", "pixio") <=> p.parts # <<>>
       /\ p.parts # <<>> =>
             /\ Cardinality({i \in mounted : p.parts[i].mount = "/"}) = 1
             /\ \A i, j \in mounted : p.parts[i].mount = p.parts[j].mount => i = j
             /\ Cardinality(rest(FALSE)) = 1
             /\ Cardinality(rest(TRUE)) = IF has("method", "regular") THEN 0 ELSE 1
             /\ ~has("method", "regular") =>
                   \E i \in mounted : p.parts[i].mount = "/boot" /\ ~p.parts[i].lv
             /\ \A i \in DOMAIN p.parts : p.parts[i].max = -1 \/ p.parts[i].min <= p.parts[i].max
=============================================================================
