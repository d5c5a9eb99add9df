------------------------------- MODULE MCBoot -------------------------------
(* Two Windows answers, one made from a profile, on a Windows image that   *)
(* is called as a submenu would be; and an answer of Debian on an image    *)
(* that is called as an entry of the menu.                                 *)
EXTENDS Boot

E(slug, group) == [slug |-> slug, group |-> group, platforms |-> {"efi"}]
MCCatalogue == <<E("grp-1", "Windows"), E("memtest", "")>>
MCIsos == {"grp-1", "memtest"}
MCIsoType == ("grp-1" :> "windows") @@ ("memtest" :> "debian")
MCGroupLabels == <<"grp-1", "grp-2", "grp-3", "grp-4", "grp-5">>
MCAnswerLabels == <<"ans-1", "ans-2", "ans-3", "ans-4", "ans-5", "ans-6", "ans-7", "ans-8">>
MCIdsOf == [ufficio |-> <<"ufficio", "ufficio-2">>, banco |-> <<"banco">>]

Menu(submenus, threshold, default, timeout, groups, show, answer_timeout) ==
    [submenus |-> submenus, threshold |-> threshold, default |-> default, timeout |-> timeout,
     groups |-> groups, show |-> show, answer_timeout |-> answer_timeout]
Submenus == Menu("always", 8, "grp-1", 10, <<"Windows">>, {"memtest", "local"}, 10)
Flat == Menu("auto", 8, "gone", 0, <<>>, {"shell", "reboot"}, 0)
Smb(on) == [smb_export |-> on, setup_logs |-> TRUE]
MCMenus == {Submenus, Flat}
MCWindows == {Smb(TRUE), Smb(FALSE)}
MCFirstSettings == {<<Submenus, Smb(TRUE)>>}
MCProfileName == [ufficio |-> "ufficio"]

Answer(name, kind, profile, gen) ==
    [name |-> name, kind |-> kind, profile |-> profile, main |-> MainFileOf[kind], gen |-> gen]
Link(answers, id, manual) == [answers |-> answers, answer_id |-> id, manual |-> manual]
MCInitialAnswers ==
    {[records |-> [ufficio |-> Answer("ufficio", "windows", "ufficio", 1),
                   banco |-> Answer("banco", "windows", "", 2),
                   server |-> Answer("server", "debian", "", 3)],
      files |-> [ufficio |-> [f \in {"autounattend.xml"} |-> 1],
                 banco |-> [f \in {"autounattend.xml"} |-> 2],
                 server |-> [f \in {"preseed.cfg"} |-> 3]],
      links |-> [s \in MCIsos |->
                    IF s = "grp-1" THEN Link(<<"ufficio", "banco">>, "banco", TRUE)
                    ELSE Link(<<"server">>, "server", FALSE)]]}
MCNewAnswers == {[name |-> "ufficio", kind |-> "windows", profile |-> "", content |-> TRUE]}
MCUpdates == [ufficio |-> {[profile |-> ""]}, banco |-> {[content |-> TRUE, name |-> "ufficio"]},
              server |-> {}]
MCPatches == ("grp-1" :> {[answers |-> <<"banco">>, manual |-> FALSE], [answer_id |-> "ufficio"],
                          [answer_id |-> NoId]}) @@ ("memtest" :> {})

\* TLC works a function out where it compares it, and then keeps it.
ASSUME WorkedOut == Commands = Commands /\ Scripts = Scripts
=============================================================================
