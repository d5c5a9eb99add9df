----------------------------- MODULE WinProfile -----------------------------
(***************************************************************************)
(* Windows profiles of services/winprofile.py: what validate refuses, how  *)
(* it normalises the rest, and the answer file render_autounattend makes.  *)
(*                                                                         *)
(* A text that is matched with a regular expression or a length is a word: *)
(* "" is the empty one, "bad" one that is refused, any other is accepted.  *)
(* Names that Windows compares without regard to case are lower case here. *)
(* cat is the catalogue of tweaks, a sequence of                           *)
(* [id, platforms, reg, services, enable, disable, commands] as LoadTweaks *)
(* leaves it.                                                              *)
(***************************************************************************)
EXTENDS WinEditions, SequencesExt

MaxComputer == 15
RandomPart == 6          \* secrets.token_hex(3)
MaxLanguages == 5        \* MAX_LANG_INSTALL
MaxGeo == 100000
Platforms == {"10", "10-ltsc", "11", "11-ltsc", "server"}
PlatformsOf(target) == IF target = "client" THEN {"10", "11"} ELSE {target}
HasStore(target) == target = "client"
DiskModes == {"auto-uefi", "auto-bios", "manuale"}
PowerSchemes == {"bilanciato", "prestazioni"}
Starts == {"2", "3", "4"}
LocalGroups == {"Users", "Administrators", "Power Users", "Remote Desktop Users", "Guests"}

Refusal == [refused |-> TRUE]
Default(w, d) == IF w = "" THEN d ELSE w
Given(q) == SelectSeq(q, LAMBDA w : w # "")
Once(q) == FoldLeft(LAMBDA kept, w : IF Contains(kept, w) THEN kept ELSE Append(kept, w),
                    <<>>, q)
Lacks(q, w) == ~Contains(q, w)

-----------------------------------------------------------------------------
(* The catalogue of tweaks.                                                *)

(* _load_tweaks: entries that are malformed, repeated or of an unknown     *)
(* category are dropped, and the platforms of the rest are made sense of.  *)
TweakPlatforms(t) ==
    LET known == t.platforms \intersect Platforms
    IN IF known = {} THEN Platforms ELSE known
LoadTweaks(raw, categories) ==
    FoldLeft(LAMBDA kept, t :
                 IF t.id \in {"", "bad"} \/ t.category \notin categories
                    \/ \E i \in DOMAIN kept : kept[i].id = t.id
                 THEN kept ELSE Append(kept, t),
             <<>>, raw)

Ids(cat) == {cat[i].id : i \in DOMAIN cat}
Compatible(t, target) == TweakPlatforms(t) \intersect PlatformsOf(target) # {}
(* _tweaks_scelti: st.tweaks is in the order of the catalogue already.     *)
ChosenTweaks(st, cat) ==
    SelectSeq(cat, LAMBDA t : Contains(st.tweaks, t.id) /\ Compatible(t, st.target))

-----------------------------------------------------------------------------
(* check_language_install and validate                                     *)

LanguageOk(li) ==
    LET languages == Once(Given(li.languages)) IN
    /\ Lacks(languages, "bad") /\ Len(languages) <= MaxLanguages
    /\ li.source \in {"", "windows-update", "file"}
    /\ li.url # "bad" /\ li.geo \in 0..MaxGeo /\ li.keyboard # "bad"
    /\ li.enabled => /\ languages # <<>>
                     /\ li.source = "file" => li.url # ""
LanguageOf(li) ==
    [li EXCEPT !.languages = Once(Given(@)), !.source = Default(@, "windows-update")]

TargetOf(s) == Default(s.target, "client")

RegionOk(s) ==
    LET keyboards == Given(s.keyboards) IN
    /\ \A f \in {"language", "timezone"} : s[f] # "bad"
    /\ Len(keyboards) <= 4 /\ Lacks(keyboards, "bad")
    /\ s.keyboards # <<>> => keyboards # <<>>
    /\ s.architecture \in {"", "amd64", "x64", "x86"}

EditionOk(v) == v.index <= 32 /\ v.name # "bad"

(* A computer name is [length, star, form]: "PC-*" is 3 characters and the *)
(* star, the star alone is the name Windows makes up.  Its form is "text", *)
(* "serial" (nine digits, then not only digits), "digits", "dash" (it ends *)
(* with one, and no star follows) or "bad".                                *)
AnyName == [length |-> 0, star |-> TRUE, form |-> "text"]
ComputerOk(cn) ==
    \/ cn.length = 0
    \/ /\ cn.length + (IF cn.star THEN 1 ELSE 0) <= MaxComputer
       /\ cn.form \in {"text", "serial"}

(* Windows Server accepts no account without a password.                   *)
AccountOk(name, password, target) ==
    IF name = "" THEN password = ""
    ELSE name # "bad" /\ password # "bad" /\ (target = "server" => password # "")
LogonOk(s) ==
    /\ s.autologon_count \in 0..99999
    /\ s.autologon => s.admin_user # ""
ExtraOk(s) ==
    /\ AccountOk(s.extra_user.name, s.extra_user.password, TargetOf(s))
    /\ s.extra_user.name # "" => /\ s.extra_user.name # s.admin_user
                                 /\ s.extra_user.group \in LocalGroups \union {""}
ExtraOf(eu) ==
    IF eu.name = "" THEN [name |-> "", password |-> "", group |-> "Users"]
    ELSE [eu EXCEPT !.group = Default(@, "Users")]

JoinOk(jd) ==
    jd.enabled => /\ \A f \in {"domain", "user", "password"} : jd[f] \notin {"", "bad"}
                  /\ jd.ou # "bad"
JoinOf(jd) ==
    IF jd.enabled THEN jd
    ELSE [enabled |-> FALSE, domain |-> "", ou |-> "", user |-> "", password |-> ""]

(* A disk that is laid out by the setup has to be wiped: a save refuses    *)
(* the opposite, the generation of a file (strict FALSE) corrects it.      *)
ModeOf(d) == Default(d.mode, "auto-uefi")
\* Mutant: the correction of old profiles is refused like a new one.
DiskOkAlwaysStrict(d, strict) ==
    /\ ModeOf(d) \in DiskModes
    /\ ModeOf(d) # "manuale" => d.wipe
DiskOk(d, strict) ==
    /\ ModeOf(d) \in DiskModes
    /\ ModeOf(d) = "auto-uefi" => d.efi_mb \in 100..2048 /\ d.msr_mb \in 0..128
    /\ d.recovery_mb = 0 \/ d.recovery_mb \in 300..8192
    /\ strict /\ ModeOf(d) # "manuale" => d.wipe
DiskOf(d) ==
    [d EXCEPT !.mode = ModeOf(d), !.wipe = @ \/ ModeOf(d) # "manuale"]

TweaksOk(s, cat, strict) ==
    LET chosen == ToSet(Given(s.tweaks)) IN
    /\ chosen \subseteq Ids(cat)
    /\ strict => \A i \in DOMAIN cat : cat[i].id \in chosen => Compatible(cat[i], TargetOf(s))
TweaksOf(s, cat) ==
    LET wanted == SelectSeq(cat, LAMBDA t : Contains(s.tweaks, t.id))
    IN [i \in DOMAIN wanted |-> wanted[i].id]

ServicesOk(s) ==
    \A i \in DOMAIN s.services : s.services[i].name # "" =>
        s.services[i].name # "bad" /\ s.services[i].start \in Starts \union {""}
ServicesOf(s) ==
    FoldLeft(LAMBDA kept, sv :
                 IF sv.name = "" \/ \E i \in DOMAIN kept : kept[i].name = sv.name
                 THEN kept ELSE Append(kept, [sv EXCEPT !.start = Default(@, "4")]),
             <<>>, s.services)

FeaturesOk(s) ==
    /\ Lacks(s.enable, "bad") /\ Lacks(s.disable, "bad")
    /\ ToSet(Given(s.enable)) \intersect ToSet(Given(s.disable)) = {}

OptionsOk(s) ==
    s.power \in PowerSchemes \union {""} /\ Lacks(s.apps, "bad") /\ Lacks(s.commands, "bad")

Accepted(s, cat, strict) ==
    /\ TargetOf(s) \in Targets
    /\ LanguageOk(s.lang) /\ RegionOk(s) /\ EditionOk(s.edition)
    /\ s.product_key # "bad" /\ s.owner # "bad" /\ ComputerOk(s.computer)
    /\ AccountOk(s.admin_user, s.admin_password, TargetOf(s)) /\ LogonOk(s) /\ ExtraOk(s)
    /\ JoinOk(s.join) /\ DiskOk(s.disk, strict) /\ OptionsOk(s)
    /\ TweaksOk(s, cat, strict) /\ ServicesOk(s) /\ FeaturesOk(s)

Normal(s, cat) ==
    LET language == Default(s.language, "it-IT") IN
    [s EXCEPT
        !.target = TargetOf(s), !.language = language,
        !.keyboards = IF @ = <<>> THEN <<language>> ELSE Given(@),
        !.timezone = Default(@, "W. Europe Standard Time"),
        !.architecture = IF @ = "x86" THEN @ ELSE "amd64",
        !.lang = LanguageOf(@),
        !.computer = IF @.length = 0 THEN AnyName ELSE @,
        !.autologon_count = IF ~s.autologon THEN 0 ELSE IF @ = 0 THEN 9999 ELSE @,
        !.extra_user = ExtraOf(@), !.join = JoinOf(@), !.disk = DiskOf(@),
        !.power = Default(@, "bilanciato"),
        !.apps = Once(Given(@)), !.commands = Given(@),
        !.tweaks = TweaksOf(s, cat), !.services = ServicesOf(s),
        !.enable = Once(Given(@)), !.disable = Once(Given(@))]

Validate(s, cat, strict) == IF Accepted(s, cat, strict) THEN Normal(s, cat) ELSE Refusal

-----------------------------------------------------------------------------
(* The commands of the answer file.  A command is a tuple of strings; an   *)
(* attempt to emit one also names the registry value it writes, if any.    *)

Command(c) == [value |-> <<>>, cmd |-> c]
RegAdd(scope, hive, value, data) ==
    [value |-> <<scope, value>>, cmd |-> <<"reg add", hive, value, data>>]

(* _Emessi: neither a registry value nor a command is written twice, and   *)
(* the first to come wins.                                                 *)
Nothing == [commands |-> {}, values |-> {}, out |-> <<>>]
\* Mutant: only whole commands are remembered, not the values they write.
EmitByCommand(em, attempts) ==
    FoldLeft(LAMBDA e, a :
                 [commands |-> e.commands \union {a.cmd}, values |-> {},
                  out |-> IF a.cmd \in e.commands THEN e.out ELSE Append(e.out, a.cmd)],
             [em EXCEPT !.out = <<>>], attempts)
Emit(em, attempts) ==
    FoldLeft(LAMBDA e, a :
                 IF a.value # <<>> /\ a.value \in e.values THEN e
                 ELSE [commands |-> e.commands \union {a.cmd},
                       values |-> IF a.value = <<>> THEN e.values ELSE e.values \union {a.value},
                       out |-> IF a.cmd \in e.commands THEN e.out ELSE Append(e.out, a.cmd)],
             [em EXCEPT !.out = <<>>], attempts)

Mapped(q, F(_)) == [i \in DOMAIN q |-> F(q[i])]
Only(b, q) == IF b THEN q ELSE <<>>

(* _servizi_da_impostare and _funzionalita_da_applicare: what the tweaks   *)
(* ask for comes before what the profile adds, once for each name.         *)
FirstByName(q) ==
    FoldLeft(LAMBDA kept, x : IF \E i \in DOMAIN kept : kept[i].name = x.name
                              THEN kept ELSE Append(kept, x),
             <<>>, q)
ServicesToSet(st, cat) ==
    FirstByName(FlattenSeq(Mapped(ChosenTweaks(st, cat), LAMBDA t : t.services)) \o st.services)
FeaturesToApply(st, cat) ==
    LET wishes(x) == Mapped(x.enable, LAMBDA f : [name |-> f, on |-> TRUE])
                     \o Mapped(x.disable, LAMBDA f : [name |-> f, on |-> FALSE])
    IN FirstByName(FlattenSeq(Mapped(ChosenTweaks(st, cat), wishes)) \o wishes(st))

(* _comandi_tweak_specialize: the values of the user are written in the    *)
(* hive of the default profile, which is loaded once for all of them.      *)
RegOf(st, cat, scope) ==
    SelectSeq(FlattenSeq(Mapped(ChosenTweaks(st, cat), LAMBDA t : t.reg)),
              LAMBDA r : r.scope = scope)
TweakAttempts(st, cat) ==
    Mapped(RegOf(st, cat, "HKLM"), LAMBDA r : RegAdd("HKLM", "HKLM", r.name, r.data))
    \o Mapped(ServicesToSet(st, cat),
              LAMBDA sv : RegAdd("HKLM", "Services", sv.name, sv.start))
    \o LET user == RegOf(st, cat, "HKCU")
       IN Only(user # <<>>,
               <<Command(<<"reg load", "PixioDef">>)>>
               \o Mapped(user, LAMBDA r : RegAdd("HKCU", "PixioDef", r.name, r.data))
               \o <<Command(<<"reg unload", "PixioDef">>)>>)

(* _pass_specialize: the options of the profile come first.                *)
SpecializeAttempts(st, cat) ==
    Only(st.skip_oobe, <<RegAdd("HKLM", "HKLM", "BypassNRO", "1")>>)
    \o Only(st.hibernate, <<Command(<<"run", "hibernate off">>)>>)
    \o <<Command(<<"powercfg", st.power>>)>>
    \o Only(st.defender, <<RegAdd("HKLM", "HKLM", "SpynetReporting", "0"),
                           RegAdd("HKLM", "HKLM", "SubmitSamplesConsent", "2")>>)
    \o TweakAttempts(st, cat)

(* _comandi_lingua: packages first, then the settings of the first one.    *)
LanguageAttempts(li) ==
    LET first == li.languages[1] IN
    Only(li.enabled /\ li.languages # <<>>,
        (IF li.source = "file"
         THEN <<Command(<<"curl", li.url>>), Command(<<"dism", "add-package">>)>>
         ELSE Mapped(li.languages, LAMBDA tag : Command(<<"Install-Language", tag>>)))
        \o Only(li.set_system,
            <<Command(<<"Set-SystemPreferredUILanguage", first>>),
              Command(<<"Set-WinUILanguageOverride", first>>),
              Command(<<"Set-WinUserLanguageList", first>>),
              Command(<<"Set-Culture", first>>), Command(<<"Set-WinHomeLocation", ToString(li.geo)>>)>>))

(* _pass_oobe: the commands of the first logon.                            *)
LogonAttempts(st, cat) ==
    LanguageAttempts(st.lang)
    \o <<RegAdd("HKCU", "HKCU", "HideFileExt", IF st.hide_ext THEN "1" ELSE "0")>>
    \o Only(HasStore(st.target), Mapped(st.apps, LAMBDA app : Command(<<"Remove-Appx", app>>)))
    \o Mapped(Given(FlattenSeq(Mapped(ChosenTweaks(st, cat), LAMBDA t : t.commands))),
              LAMBDA c : Command(<<"run", c>>))
    \o Mapped(FeaturesToApply(st, cat),
              LAMBDA f : Command(<<IF f.on THEN "enable-feature" ELSE "disable-feature", f.name>>))
    \o Mapped(st.commands, LAMBDA c : Command(<<"run", c>>))

-----------------------------------------------------------------------------
(* The rest of the answer file                                             *)

(* _partizioni_uefi and _partizioni_bios: the partitions in the order they *)
(* are created, which numbers them; size 0 is all that is left of the disk.*)
Partition(type, size, format, label) ==
    [type |-> type, size |-> size, format |-> format, label |-> label]
Partitions(d) ==
    CASE d.mode = "auto-uefi" ->
            Only(d.recovery_mb > 0,
                 <<Partition("Primary", d.recovery_mb, "NTFS", "Ripristino")>>)
            \o <<Partition("EFI", d.efi_mb, "FAT32", "Sistema")>>
            \o Only(d.msr_mb > 0, <<Partition("MSR", d.msr_mb, "", "")>>)
            \o <<Partition("Primary", 0, "NTFS", "Windows")>>
      [] d.mode = "auto-bios" ->
            <<Partition("Primary", 500, "NTFS", "Riservato di sistema"),
              Partition("Primary", 0, "NTFS", "Windows")>>
      [] d.mode = "manuale" -> <<>>
\* Mutant: the number of Windows does not count the recovery partition.
WindowsPartitionAfterMsr(d) ==
    IF d.mode = "manuale" THEN 0 ELSE IF d.mode = "auto-uefi" /\ d.msr_mb > 0 THEN 3 ELSE 2

(* What the functions return as the number of the partition of Windows.    *)
WindowsPartition(d) ==
    CASE d.mode = "auto-uefi" -> 2 + (IF d.recovery_mb > 0 THEN 1 ELSE 0)
                                   + (IF d.msr_mb > 0 THEN 1 ELSE 0)
      [] d.mode = "auto-bios" -> 2
      [] d.mode = "manuale" -> 0

(* risolvi_nome_computer: Windows takes no star but a lone one; the name   *)
(* that takes its place is cut to the length NetBIOS allows.  What is left *)
(* of a serial number is its digits, and the random part may be digits too:*)
(* "chance" is a name that is, or is not, all digits.                      *)
ResolvedName(cn) ==
    IF ~cn.star \/ cn.length = 0 THEN cn
    ELSE [length |-> (IF cn.length < MaxComputer - RandomPart THEN cn.length
                      ELSE MaxComputer - RandomPart) + RandomPart,
          star |-> FALSE, form |-> IF cn.form = "serial" THEN "chance" ELSE "text"]

(* _pass_windows_pe: paths are those of the drivers offered to the setup;  *)
(* the manual layout of the disk leaves the setup to ask.                  *)
WindowsPE(st, paths) ==
    [language |-> st.language, keyboards |-> st.keyboards,
     drivers |-> IF st.drivers THEN paths ELSE <<>>,
     labconfig |-> st.bypass,
     wipe |-> st.disk.mode # "manuale", partitions |-> Partitions(st.disk),
     install_from |-> st.edition, install_to |-> WindowsPartition(st.disk),
     product_key |-> st.product_key]

(* The accounts of _pass_oobe: the built-in one only gets its password.    *)
LocalAccounts(st) ==
    Only(st.admin_user \notin {"", "administrator"},
         <<[name |-> st.admin_user, password |-> st.admin_password, group |-> "Administrators"]>>)
    \o Only(st.extra_user.name # "", <<st.extra_user>>)
AutoLogon(st) == IF st.autologon THEN <<st.admin_user, st.autologon_count>> ELSE <<>>

Autounattend(st, cat, paths) ==
    LET specialize == Emit(Nothing, SpecializeAttempts(st, cat))
        logon == Emit(specialize, LogonAttempts(st, cat))
    IN [pe |-> WindowsPE(st, paths),
        computer |-> ResolvedName(st.computer), timezone |-> st.timezone,
        owner |-> st.owner, join |-> st.join,
        specialize |-> specialize.out,
        skip_oobe |-> st.skip_oobe,
        built_in |-> st.admin_user = "administrator",
        accounts |-> LocalAccounts(st), autologon |-> AutoLogon(st),
        logon |-> logon.out]

(* The settings are validated again, but not strictly, and the edition is  *)
(* made one of the image's when its images are known.                      *)
RenderAutounattend(s, cat, images, paths) ==
    LET st == Normal(s, cat)
        fitted == [st EXCEPT !.edition = EditionForImage(@, images, st.target)]
    IN IF ~Accepted(s, cat, FALSE) THEN Refusal ELSE Autounattend(fitted, cat, paths)
=============================================================================
