----------------------------- MODULE DebProfile -----------------------------
(***************************************************************************)
(* Debian profiles of services/debprofile.py: what validate refuses and    *)
(* how it normalises the rest, and the preseed render_preseed makes of it. *)
(*                                                                         *)
(* A text the code matches with a regular expression is a word: "" is the  *)
(* empty one, "bad" one its expression refuses, "Ok" one in capitals that  *)
(* it accepts, "ok" any other.  A password is "", "short" (less than 8     *)
(* characters), "ok", or "crypt" (an accepted hash).  A preseed is the set *)
(* of the answers in it, pairs of a question and its value, beside the     *)
(* partitions and the final commands.                                      *)
(***************************************************************************)
EXTENDS Integers, Sequences

MaxSwap == 131072   \* MAX_SWAP_MB
MaxDns == 3
Recipes == {"atomic", "home", "multi", "lvm", "crypto"}
Filesystems == {"ext4", "xfs", "btrfs"}
Reserved == {"root", "daemon", "bin", "sys", "sync", "nobody", "debian"}

Refusal == [refused |-> TRUE]

Matches(w) == w \notin {"", "bad"}
Lower(w) == IF w = "Ok" THEN "ok" ELSE w
Default(w, d) == IF w = "" THEN d ELSE w
Elements(q) == {q[i] : i \in DOMAIN q}

-----------------------------------------------------------------------------
(* validate *)

SystemOk(s) ==
    /\ Matches(s.hostname)
    /\ s.domain # "bad"
    /\ \A f \in {"locale", "keyboard", "timezone", "suite"} : s[f] # "bad"
SystemOf(s) ==
    [s EXCEPT !.hostname = Lower(@), !.domain = Lower(@),
              !.locale = Default(@, "it_IT.UTF-8"), !.keyboard = Default(@, "it"),
              !.timezone = Default(@, "Europe/Rome"), !.suite = Default(@, "stable")]

MirrorOk(m) == \A f \in {"host", "directory", "proxy"} : m[f] # "bad"
MirrorOf(m) == [host |-> Lower(Default(m.host, "deb.debian.org")),
                directory |-> IF m.directory \in {"", "/"} THEN "/debian" ELSE m.directory,
                proxy |-> m.proxy]

Static(n) == n.mode = "static"
NetworkOk(n) ==
    /\ n.mode \in {"", "dhcp", "static"}
    /\ Static(n) => /\ \A f \in {"ip", "netmask", "gateway"} : Matches(n[f])
                    /\ Len(n.dns) \in 1..MaxDns
                    /\ \A d \in Elements(n.dns) : Matches(d)
NetworkOf(n) ==
    IF Static(n) THEN n
    ELSE [mode |-> "dhcp", ip |-> "", netmask |-> "", gateway |-> "", dns |-> <<>>]

\* Mutant: a user without sudo is accepted although root is disabled.
AccountOkWithoutSudo(root, user) ==
    /\ root.enabled => root.password # ""
    /\ IF user.username = "" THEN root.enabled /\ user.password = ""
       ELSE user.username # "bad" /\ Lower(user.username) \notin Reserved /\ user.password # ""
AccountOk(root, user) ==
    /\ root.enabled => root.password # ""
    /\ IF user.username = "" THEN root.enabled /\ user.password = "" /\ user.fullname = ""
       ELSE /\ user.username # "bad"
            /\ Lower(user.username) \notin Reserved
            /\ user.password # ""
            /\ user.sudo \/ root.enabled
RootOf(root) == [root EXCEPT !.password = IF root.enabled THEN @ ELSE ""]
UserOf(user) ==
    IF user.username = "" THEN [user EXCEPT !.fullname = "", !.password = ""]
    ELSE [user EXCEPT !.username = Lower(@)]

DiskOk(d) ==
    /\ d.device \notin {"bad", "partition"}
    /\ d.recipe \in Recipes \union {""}
    /\ d.filesystem \in Filesystems \union {""}
    /\ d.swap_mb = 0 \/ d.swap_mb \in 128..MaxSwap
    /\ d.recipe = "crypto" => d.crypto_password \notin {"", "short"}
DiskOf(d) ==
    [d EXCEPT !.device = Default(@, "auto"), !.recipe = Default(@, "atomic"),
              !.filesystem = Default(@, "ext4"),
              !.crypto_password = IF d.recipe = "crypto" THEN @ ELSE ""]

PackagesOk(s) == "bad" \notin s.tasks \union s.packages
GrubOk(s) == s.grub_device \notin {"bad", "partition"}

(* An empty line is no key; a key is refused unless somebody can have it.  *)
KeysOf(s) == s.ssh_keys \ {""}
KeysOk(s) ==
    /\ "bad" \notin KeysOf(s)
    /\ KeysOf(s) # {} => s.user.username # "" \/ s.root.enabled

(* A line of the final commands is a "comment", a "command", one that says *)
(* "in-target" itself, an empty one or one with a "backslash".             *)
LateOf(s) == SelectSeq(s.late_command, LAMBDA line : line # "")
LateOk(s) == "backslash" \notin Elements(s.late_command)

Accepted(s) ==
    /\ SystemOk(s) /\ MirrorOk(s.mirror) /\ NetworkOk(s.network)
    /\ AccountOk(s.root, s.user) /\ DiskOk(s.disk)
    /\ PackagesOk(s) /\ GrubOk(s) /\ KeysOk(s) /\ LateOk(s)
Normal(s) ==
    [SystemOf(s) EXCEPT !.mirror = MirrorOf(@), !.network = NetworkOf(@),
                        !.root = RootOf(@), !.user = UserOf(@), !.disk = DiskOf(@),
                        !.grub_device = Default(@, "default"),
                        !.ssh_keys = KeysOf(s), !.late_command = LateOf(s)]
Validate(s) == IF Accepted(s) THEN Normal(s) ELSE Refusal

-----------------------------------------------------------------------------
(* render_preseed, from settings that were validated *)

Flag(b) == IF b THEN "true" ELSE "false"
Only(b, answers) == IF b THEN answers ELSE {}

LocaleAnswers(s) ==
    {<<"locale", s.locale>>, <<"xkb-keymap", s.keyboard>>, <<"time/zone", s.timezone>>}

NetworkAnswers(s) ==
    LET n == s.network IN
    {<<"get_hostname", s.hostname>>, <<"get_domain", s.domain>>,
     <<"disable_autoconfig", Flag(Static(n))>>}
    \union Only(Static(n),
        {<<"disable_dhcp", "true">>, <<"confirm_static", "true">>,
         <<"get_ipaddress", n.ip>>, <<"get_netmask", n.netmask>>,
         <<"get_gateway", n.gateway>>, <<"get_nameservers", n.dns>>})

MirrorAnswers(s) ==
    {<<"mirror/country", "manual">>, <<"mirror/hostname", s.mirror.host>>,
     <<"mirror/directory", s.mirror.directory>>, <<"mirror/proxy", s.mirror.proxy>>,
     <<"mirror/suite", s.suite>>}

(* A hash is given as it is, a password in clear is asked for twice.       *)
PasswordLines(account, pw) ==
    IF pw = "crypt" THEN {<<account \o "-password-crypted", pw>>}
    ELSE {<<account \o "-password", pw>>, <<account \o "-password-again", pw>>}

AccountAnswers(s) ==
    LET named == s.user.username # "" IN
    {<<"root-login", Flag(s.root.enabled)>>, <<"make-user", Flag(named)>>}
    \union Only(s.root.enabled, PasswordLines("root", s.root.password))
    \union Only(named,
        {<<"user-fullname", Default(s.user.fullname, s.user.username)>>,
         <<"username", s.user.username>>,
         <<"user-default-groups", IF s.user.sudo THEN "sudo" ELSE "">>}
        \union PasswordLines("user", s.user.password))

Method(d) == IF d.recipe \in {"lvm", "crypto"} THEN d.recipe ELSE "regular"
Lvm(d) == Method(d) # "regular"

DiskAnswers(s) ==
    LET d == s.disk IN
    {<<"disk", d.device>>, <<"method", Method(d)>>, <<"default_filesystem", d.filesystem>>,
     <<"device_remove_lvm", Flag(d.wipe)>>, <<"device_remove_md", Flag(d.wipe)>>,
     <<"choose_recipe", IF d.swap_mb > 0 THEN "pixio"
                        ELSE IF Lvm(d) THEN "atomic" ELSE d.recipe>>,
     <<"confirm", "true">>, <<"confirm_nooverwrite", "true">>}
    \union Only(d.wipe, {<<"confirm_write_new_label", "true">>, <<"lvm/confirm", "true">>,
                         <<"lvm/confirm_nooverwrite", "true">>})
    \union Only(Lvm(d), {<<"guided_size", "max">>, <<"new_vg_name", "vg0">>})
    \union Only(d.recipe = "crypto", {<<"passphrase", d.crypto_password>>,
                                      <<"passphrase-again", d.crypto_password>>})

PackageAnswers(s) ==
    {<<"tasksel", s.tasks>>, <<"participate", Flag(s.popcon)>>}
    \union Only(s.packages # {}, {<<"pkgsel/include", s.packages>>})

GrubAnswers(s) ==
    {<<"bootdev", IF s.grub_device = "auto" THEN "default" ELSE s.grub_device>>}

EndAnswers(s) ==
    IF s.reboot_after THEN {<<"exit/halt", "false">>, <<"exit/poweroff", "false">>}
    ELSE {<<"exit/halt", "true">>}

(* _expert_recipe: the partitions of a profile with a fixed swap.  A size  *)
(* of -1 is all the space that is left; "lv" is a volume of the group, for *)
(* which "pv" is the physical one.                                         *)
Part(kind, min, prio, max, fs, mount, lv) ==
    [kind |-> kind, min |-> min, prio |-> prio, max |-> max, fs |-> fs,
     mount |-> mount, lv |-> lv]
Data(d, min, prio, max, mount) == Part("data", min, prio, max, d.filesystem, mount, Lvm(d))

DataParts(d) ==
    CASE d.recipe \in {"atomic", "lvm", "crypto"} -> <<Data(d, 4000, 10000, -1, "/")>>
      [] d.recipe = "home" -> <<Data(d, 8000, 20000, 30000, "/"),
                                Data(d, 4000, 30000, -1, "/home")>>
      [] d.recipe = "multi" -> <<Data(d, 4000, 10000, 20000, "/"),
                                 Data(d, 2000, 5000, 10000, "/var"),
                                 Data(d, 500, 1000, 2000, "/tmp"),
                                 Data(d, 4000, 20000, -1, "/home")>>
ExpertRecipe(d) ==
    <<Part("efi", 538, 538, 1075, "free", "", FALSE),
      Part("biosgrub", 1, 1, 1, "free", "", FALSE)>>
    \o (IF Lvm(d) THEN <<Part("data", 512, 1024, 1024, "ext4", "/boot", FALSE),
                         Part("pv", 1000, 5000, -1, "ext4", "", FALSE)>>
                  ELSE <<>>)
    \o (IF d.swap_mb > 0
        THEN <<Part("swap", d.swap_mb, d.swap_mb, d.swap_mb, "linux-swap", "", Lvm(d))>>
        ELSE <<>>)
    \o DataParts(d)

(* _late_command: the keys for the user, or for root without one, then the *)
(* lines of the profile, without its comments.                             *)
KeyOwner(s) == Default(s.user.username, "root")
LateCommand(s) ==
    (IF s.ssh_keys = {} THEN <<>>
     ELSE <<<<"install -d", KeyOwner(s)>>, <<"authorized_keys", KeyOwner(s)>>,
            <<"chown", KeyOwner(s)>>>>)
    \o LET lines == SelectSeq(s.late_command, LAMBDA line : line # "comment")
       IN [i \in 1..Len(lines) |-> <<"in-target", lines[i]>>]

Preseed(s) ==
    [answers |-> LocaleAnswers(s) \union NetworkAnswers(s) \union MirrorAnswers(s)
                 \union AccountAnswers(s) \union DiskAnswers(s)
                 \union PackageAnswers(s) \union GrubAnswers(s) \union EndAnswers(s),
     parts |-> IF s.disk.swap_mb > 0 THEN ExpertRecipe(s.disk) ELSE <<>>,
     late |-> LateCommand(s)]

(* The settings are validated again although they were when they were      *)
(* stored: a profile whose settings are refused cannot be rendered.        *)
RenderPreseed(s) == IF Accepted(s) THEN Preseed(Normal(s)) ELSE Refusal
=============================================================================
