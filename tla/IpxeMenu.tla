------------------------------ MODULE IpxeMenu ------------------------------
(***************************************************************************)
(* The scripts of services/ipxe_menu.py.  A script is the sequence of its  *)
(* sections: a label, the labels its menu lists, the one that is taken     *)
(* when nobody chooses, whether that happens by itself after a while, and  *)
(* the labels its other commands go to; what it does is "menu" for a menu, *)
(* a slug or an answer for a chain to the script of an entry, or the name  *)
(* of a command.  An entry is [slug, group, platforms]; the settings m are *)
(* cfg["menu"], with show the system entries that are shown.               *)
(***************************************************************************)
EXTENDS Lists, FiniteSetsExt

CONSTANTS GroupLabels,      \* grp-1, grp-2, ...
          AnswerLabels      \* ans-1, ans-2, ...

MaxAnswerTimeout == 120
SubmenuModes == {"auto", "always", "never"}
SystemEntries == <<"memtest", "local", "shell", "reboot">>
ReservedLabels == {"menu", "memtest", "local", "shell", "reboot", "exit", "failed"}
Other == "Altro"

\* The labels of the answers are as many as they are, and none is another's.
ASSUME AnswerLabelsAssumption ==
    /\ Len(AnswerLabels) \in Nat /\ DOMAIN AnswerLabels = 1..Len(AnswerLabels)
    /\ \A i, j \in DOMAIN AnswerLabels : AnswerLabels[i] = AnswerLabels[j] => i = j
    /\ \A i \in DOMAIN AnswerLabels : AnswerLabels[i] \notin {"menu", "failed", "manuale"}

Section(label, items, default, timed, jumps, does) ==
    [label |-> label, items |-> items, default |-> default, timed |-> timed,
     jumps |-> jumps, does |-> does]
Command(label, jumps, does) == Section(label, <<>>, "", FALSE, jumps, does)
Mapped(q, F(_)) == [i \in DOMAIN q |-> F(q[i])]
SlugsIn(ents) == {ents[i].slug : i \in DOMAIN ents}

(* group_entries: the groups of the settings first, then the others as     *)
(* they come, then the entries without one.                                *)
GroupNames(ents, m) ==
    LET all == m.groups \o Mapped(ents, LAMBDA e : e.group)
    IN Among(Once(all), ToSet(all) \ {""})
OfGroup(ents, g) == Among(ents, {e \in ToSet(ents) : e.group = g})
GroupEntries(ents, m) ==
    LET grouped == Mapped(GroupNames(ents, m),
                          LAMBDA g : [name |-> g, ents |-> OfGroup(ents, g)])
        ungrouped == OfGroup(ents, "")
    IN Among(grouped, {x \in ToSet(grouped) : x.ents # <<>>})
       \o (IF ungrouped = <<>> THEN <<>> ELSE <<[name |-> Other, ents |-> ungrouped]>>)

(* submenu_threshold, answer_timeout and submenus_on make sense of whatever*)
(* the settings have, a file edited by hand included.                      *)
SubmenuThreshold(m) == IF m.threshold = 0 THEN 8 ELSE Max({1, Min({100, m.threshold})})
AnswerTimeout(m) == Max({0, Min({MaxAnswerTimeout, m.answer_timeout})})
SubmenusOn(m, count) ==
    CASE m.submenus = "always" -> TRUE
      [] m.submenus = "never" -> FALSE
      [] OTHER -> count > SubmenuThreshold(m)

(* _group_labels: by the name of the group, a label that is not taken.     *)
FreeLabels(taken) == Among(GroupLabels, ToSet(GroupLabels) \ (taken \union ReservedLabels))
\* Mutant: the labels of the groups do not look at what is taken.
GroupLabelByNumber(grouped, taken, name) ==
    GroupLabels[Max({i \in DOMAIN grouped : grouped[i].name = name})]
GroupLabel(grouped, taken, name) ==
    FreeLabels(taken)[Max({i \in DOMAIN grouped : grouped[i].name = name})]

Entry(e) == Command(e.slug, {"failed"}, <<"chain", e.slug>>)

(* _submenu: no timeout, and back to the main menu.                        *)
Submenu(label, group, default) ==
    Section(label, Mapped(group.ents, LAMBDA e : e.slug) \o <<"menu">>,
            IF default \in SlugsIn(group.ents) THEN default ELSE group.ents[1].slug,
            FALSE, {"menu"}, <<"menu">>)

(* menu_script: auto is the slug this PC boots by itself, "" if none, and  *)
(* memtest whether there is one for the platform.                          *)
DefaultEntry(m, ents) ==
    IF m.default \in SlugsIn(ents) \union (ReservedLabels \ {"menu", "failed"})
    THEN m.default ELSE "local"
MainItems(m, ents, grouped, subs, default) ==
    (IF subs
     THEN (IF default \in SlugsIn(ents) THEN <<default>> ELSE <<>>)
          \o Mapped(grouped, LAMBDA g : GroupLabel(grouped, SlugsIn(ents), g.name))
     ELSE Joined(Mapped(grouped, LAMBDA g : Mapped(g.ents, LAMBDA e : e.slug))))
    \o Among(SystemEntries, m.show) \o <<"exit">>
MenuScript(m, ents, auto, memtest) ==
    LET grouped == GroupEntries(ents, m)
        subs == grouped # <<>> /\ SubmenusOn(m, Len(ents))
        default == DefaultEntry(m, ents)
        main == Section("menu", MainItems(m, ents, grouped, subs, default), default,
                        m.timeout > 0, {"menu", IF m.timeout > 0 THEN default ELSE "local"},
                        <<"menu">>)
    IN (IF auto = "" THEN <<>>
        ELSE <<Section("", <<>>, "", TRUE, {"menu"}, <<"chain", auto>>)>>)
       \o <<main>>
       \o (IF subs THEN Mapped(grouped, LAMBDA g :
                            Submenu(GroupLabel(grouped, SlugsIn(ents), g.name), g, default))
                   ELSE <<>>)
       \o Mapped(ents, Entry)
       \o <<Command("memtest", {"menu"}, <<IF memtest THEN "memtest" ELSE "none">>),
            Command("local", {"menu"}, <<"local">>), Command("shell", {"menu"}, <<"shell">>),
            Command("reboot", {}, <<"reboot">>), Command("exit", {}, <<"exit">>),
            Command("failed", {"menu"}, <<"none">>)>>

(* answer_choices and answer_menu_script: info are the answers an ISO has, *)
(* default the one of them that is preferred; "" is the manual start.      *)
AnswerChoices(info, manual) ==
    [n \in DOMAIN info |-> [label |-> AnswerLabels[n], answer |-> info[n]]]
    \o (IF info # <<>> /\ manual THEN <<[label |-> "manuale", answer |-> ""]>> ELSE <<>>)
AnswerMenuScript(m, choices, default) ==
    LET preferred == Among(choices, {c \in ToSet(choices) : c.answer # "" /\ c.answer = default})
        first == IF preferred = <<>> THEN choices[1].label ELSE preferred[1].label
    IN <<Section("menu", Mapped(choices, LAMBDA c : c.label), first, AnswerTimeout(m) > 0,
                 {first, "failed"}, <<"menu">>)>>
       \o Mapped(choices, LAMBDA c : Command(c.label, {"failed"}, <<"answer", c.answer>>))
       \o <<Command("failed", {}, <<"exit">>)>>

-----------------------------------------------------------------------------
(* What a script must be                                                   *)

Labels(script) == {script[i].label : i \in DOMAIN script}
SectionOf(script, label) ==
    script[Min({i \in DOMAIN script : script[i].label = label})]

(* Every command goes to a label that is there; and no label but of some   *)
(* is there twice.                                                         *)
GoesOnly(script) ==
    \A i \in DOMAIN script :
        ToSet(script[i].items) \union script[i].jumps
            \union (IF script[i].items = <<>> THEN {} ELSE {script[i].default})
        \subseteq Labels(script)
LabelledApart(script, but) ==
    \A i, j \in DOMAIN script :
        script[i].label = script[j].label => i = j \/ script[i].label \in but

(* The labels a person gets to from the menu, in one or two choices.       *)
Offered(script, label) == ToSet(SectionOf(script, label).items)
Reached(script) ==
    Offered(script, "menu") \union UNION {Offered(script, l) : l \in Offered(script, "menu")}
=============================================================================
