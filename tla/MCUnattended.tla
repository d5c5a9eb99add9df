---------------------------- MODULE MCUnattended ----------------------------
(* Unattended with two catalogues of tweaks and four kinds of image.       *)
EXTENDS Unattended

Reg(scope, name, data) == [scope |-> scope, name |-> name, data |-> data]
Tweak(id, platforms, reg, services, commands) ==
    [id |-> id, category |-> "privacy", platforms |-> platforms, reg |-> reg,
     services |-> services, enable |-> <<"hyperv">>, disable |-> <<>>, commands |-> commands]
Telemetry ==
    Tweak("telemetry", {"10", "11"},
          <<Reg("HKLM", "SpynetReporting", "0"), Reg("HKLM", "DiagTrack", "4"),
            Reg("HKCU", "HideFileExt", "0")>>,
          <<[name |-> "DiagTrack", start |-> "4"], [name |-> "SysMain", start |-> "3"]>>,
          <<"hibernate off", "">>)
Hello == Tweak("hello", {}, <<Reg("HKCU", "Hello", "1")>>, <<>>, <<"hibernate off", "run hello">>)
ServerOnly == Tweak("manager", {"server"}, <<Reg("HKLM", "ServerManager", "1")>>, <<>>, <<>>)
MCLibraries ==
    {<<Telemetry, Hello, ServerOnly, Hello>>, <<ServerOnly, [Hello EXCEPT !.platforms = {"server"}]>>}

MCWinDefaults ==
    [target |-> "client", language |-> "it-IT", keyboards |-> <<"it-IT">>,
     timezone |-> "W. Europe Standard Time", architecture |-> "amd64",
     lang |-> [enabled |-> FALSE, languages |-> <<"it-IT">>, source |-> "windows-update",
               url |-> "", set_system |-> TRUE, geo |-> 118, keyboard |-> "it-IT"],
     edition |-> [index |-> 0, name |-> ""], product_key |-> "", owner |-> "",
     computer |-> [length |-> 0, star |-> TRUE, form |-> "text"],
     admin_user |-> "amministratore", admin_password |-> "",
     autologon |-> FALSE, autologon_count |-> 0,
     extra_user |-> [name |-> "", password |-> "", group |-> "Users"],
     join |-> [enabled |-> FALSE, domain |-> "", ou |-> "", user |-> "", password |-> ""],
     disk |-> [mode |-> "auto-uefi", wipe |-> TRUE, efi_mb |-> 300, msr_mb |-> 16,
               recovery_mb |-> 750],
     skip_oobe |-> TRUE, hibernate |-> TRUE, power |-> "bilanciato", defender |-> FALSE,
     hide_ext |-> TRUE, apps |-> <<>>, commands |-> <<>>, tweaks |-> <<>>,
     services |-> <<>>, enable |-> <<>>, disable |-> <<>>, drivers |-> TRUE, bypass |-> FALSE]

MCWinStored ==
    {[MCWinDefaults EXCEPT !.disk = [@ EXCEPT !.wipe = FALSE], !.target = "11-ltsc",
                           !.tweaks = <<"telemetry">>]}

MCWinPatches ==
    {[target |-> "server"], [target |-> "11-ltsc"],
     [edition |-> [index |-> 0, name |-> "pro"]], [edition |-> [index |-> 3, name |-> ""]],
     [edition |-> [index |-> 0, name |-> ""]],
     [disk |-> [mode |-> "auto-bios", recovery_mb |-> 0]],
     [disk |-> [mode |-> "manuale", wipe |-> FALSE]],
     [disk |-> [msr_mb |-> 0]], [disk |-> [recovery_mb |-> 0, wipe |-> FALSE]],
     [admin_user |-> "administrator", admin_password |-> "pw", autologon |-> TRUE],
     [admin_user |-> "", autologon |-> TRUE], [autologon |-> TRUE, autologon_count |-> 0],
     [extra_user |-> [name |-> "anna", password |-> "", group |-> ""]],
     [extra_user |-> [name |-> "amministratore", password |-> "pw"]],
     [computer |-> [length |-> 12, star |-> TRUE, form |-> "text"]],
     [computer |-> [length |-> 15, star |-> TRUE, form |-> "text"]],
     [computer |-> [length |-> 8, star |-> FALSE, form |-> "digits"]],
     [computer |-> [length |-> 12, star |-> TRUE, form |-> "serial"]],
     [tweaks |-> <<"hello", "telemetry">>], [tweaks |-> <<"manager">>], [tweaks |-> <<"gone">>],
     [services |-> <<[name |-> "SysMain", start |-> ""], [name |-> "SysMain", start |-> "2"]>>,
      commands |-> <<"hibernate off", "">>],
     [defender |-> TRUE, hide_ext |-> FALSE, disable |-> <<"hyperv">>],
     [apps |-> <<"xbox", "xbox">>, lang |-> [enabled |-> TRUE, languages |-> <<"it-IT", "it-IT">>]],
     [lang |-> [enabled |-> TRUE, source |-> "file"]],
     [join |-> [enabled |-> TRUE, domain |-> "corp", user |-> "u"]]}

Im(index, name, display) == [index |-> index, name |-> name, display |-> display]
MCImages ==
    {<<>>, <<Im(1, "home", "home"), Im(2, "pro", "pro")>>,
     <<Im(2, "server std", ""), Im(1, "ltsc 2024", "pro")>>, <<Im(3, "", "")>>}

MCDebDefaults ==
    [hostname |-> "debian", domain |-> "", locale |-> "it_IT.UTF-8", keyboard |-> "it",
     timezone |-> "Europe/Rome", suite |-> "stable",
     mirror |-> [host |-> "deb.debian.org", directory |-> "/debian", proxy |-> ""],
     network |-> [mode |-> "dhcp", ip |-> "", netmask |-> "", gateway |-> "", dns |-> <<>>],
     root |-> [enabled |-> FALSE, password |-> ""],
     user |-> [fullname |-> "Amministratore", username |-> "admin", password |-> "", sudo |-> TRUE],
     disk |-> [device |-> "auto", recipe |-> "atomic", swap_mb |-> 0, filesystem |-> "ext4",
               wipe |-> TRUE, crypto_password |-> ""],
     tasks |-> {"standard", "ssh-server"}, packages |-> {}, popcon |-> FALSE,
     grub_device |-> "default", late_command |-> <<>>, reboot_after |-> TRUE, ssh_keys |-> {}]

MCDebPatches ==
    {[user |-> [password |-> "ok"]], [user |-> [password |-> "crypt", sudo |-> FALSE]],
     [user |-> [username |-> "Ok", fullname |-> "", password |-> "ok"]],
     [user |-> [username |-> "root", password |-> "ok"]],
     [user |-> [username |-> "", fullname |-> "", password |-> ""]],
     [root |-> [enabled |-> TRUE, password |-> "ok"]], [root |-> [enabled |-> FALSE]],
     [root |-> [enabled |-> TRUE, password |-> "ok"],
      user |-> [username |-> "", fullname |-> "", password |-> ""]],
     [network |-> [mode |-> "static", ip |-> "ip", netmask |-> "mask", gateway |-> "gw",
                   dns |-> <<"d1", "d2">>]],
     [network |-> [mode |-> "static", dns |-> <<>>]], [network |-> [mode |-> ""]],
     [mirror |-> [host |-> "Ok", directory |-> "/"], domain |-> "Ok"],
     [disk |-> [recipe |-> "home"]], [disk |-> [recipe |-> "multi", wipe |-> FALSE]],
     [disk |-> [recipe |-> "lvm"]], [disk |-> [recipe |-> "crypto", crypto_password |-> "ok"]],
     [disk |-> [recipe |-> "crypto", crypto_password |-> "short"]],
     [disk |-> [swap_mb |-> 1024]], [disk |-> [swap_mb |-> 64]], [disk |-> [device |-> "partition"]],
     [ssh_keys |-> {"", "key"}], [ssh_keys |-> {"bad"}], [grub_device |-> "auto", reboot_after |-> FALSE],
     [late_command |-> <<"comment", "", "command">>], [late_command |-> <<"backslash">>],
     [packages |-> {"vim"}]}
=============================================================================
