------------------------------ MODULE MCDrivers ------------------------------
EXTENDS Drivers

F(folder, dir, name, size, copied, services, catalogue) ==
    [folder |-> folder, dir |-> dir, name |-> name, size |-> size,
     copied |-> copied, services |-> services, catalogue |-> catalogue]
File(folder, dir, name, size) == F(folder, dir, name, size, {}, {}, {})

MCFiles ==
    <<F("a", <<>>, "raid.inf", 1, {"raid.sys", "log.dll"}, {}, {}),
      File("a", <<>>, "raid.sys", 1),
      F("a", <<"x64">>, "raid.inf", 1, {"raid.sys"}, {"pci.sys"}, {"raid.cat"}),
      File("a", <<"x64">>, "raid.sys", 2),
      File("a", <<"x64", "sig">>, "raid.cat", 1),
      F("a", <<"x86", "old", "w">>, "raid.inf", 1, {}, {}, {}),
      F("b", <<>>, "net.inf", 1, {"raid.sys", "input.dll", "log.dll"}, {}, {}),
      File("b", <<>>, "input.dll", 1),
      File("b", <<>>, "log.dll", 1),
      File("b", <<>>, "raid.sys", 1)>>
MCFolders == <<"a", "b">>
MCIsos == {[slug |-> "w11", group |-> "pc"]}
MCPatches ==
    {[winpe_inject |-> TRUE],
     [setup_offer |-> "mai", apply_to |-> [mode |-> "isos", groups |-> {}, isos |-> {"srv"}]]}
MCArchives == {<<4, 1, 2, 5, 3>>, <<9, 7, 8>>}

(* Three folders, of which the second has a .inf of the same name as the   *)
(* first and a .sys of the same name as the third.                         *)
MCTwins ==
    <<File("a", <<>>, "raid.inf", 1),
      F("b", <<>>, "raid.inf", 1, {"raid.sys"}, {}, {}),
      File("b", <<>>, "raid.sys", 1),
      F("c", <<>>, "net.inf", 1, {"raid.sys"}, {}, {}),
      File("c", <<>>, "raid.sys", 1)>>
MCTwinFolders == <<"a", "b", "c">>
MCTwinArchives == {<<1>>, <<2, 3>>, <<4, 5>>}
MCInject == {[winpe_inject |-> TRUE]}
=============================================================================
