------------------------------- MODULE WinPE -------------------------------
(***************************************************************************)
(* install.cmd, the script that services/winpe.py generates for a Windows  *)
(* PE and that runs in it.  Generated, it is a sequence of the commands    *)
(* that decide where it goes: labels, jumps, calls, and the few others     *)
(* whose outcome they depend on.  cmd.exe, which runs it, is not ours.     *)
(* The flags f are [smb_export, inject, setup_logs].                       *)
(***************************************************************************)
EXTENDS SequencesExt, FiniteSetsExt

CONSTANTS NetTries, LogTries      \* 15 and 3 in the code

ASSUME TriesAssumption == NetTries \in Nat \ {0} /\ LogTries \in Nat \ {0}

-----------------------------------------------------------------------------
(* The script.                                                             *)

Label(l) == [op |-> "label", arg |-> l, to |-> ""]
Goto(l) == [op |-> "goto", arg |-> "", to |-> l]
If(cond, l) == [op |-> "if", arg |-> cond, to |-> l]
CallSub(l) == [op |-> "call", arg |-> "", to |-> l]
Do(what) == [op |-> "do", arg |-> what, to |-> ""]
Esito(value) == [op |-> "esito", arg |-> value, to |-> ""]
Eof == ":eof"

When(cond, q) == IF cond THEN q ELSE <<>>
\* Mutant: the prompt that is closed ends the script.
PromptOnce == <<Do("cmd.exe"), Goto(Eof)>>
Prompt == <<Do("cmd.exe"), Goto("prompt")>>
\* Mutant: the attempts are not counted.
AttemptUncounted(drive) == <<Do("net use " \o drive)>>
Attempt(drive) == <<Do("tries + 1"), Do("net use " \o drive)>>

(* raccolta_log: the part that copies the logs to the share [pxelog].      *)
RaccoltaLog ==
    <<Label("pixio_log"), Do("tries = 0"),
      Label("pixio_log_retry")>> \o Attempt("P:")
    \o <<If("ok", "pixio_log_ok"), If("log tries", "pixio_log_ko"), Goto("pixio_log_retry"),
      Label("pixio_log_ok"), Do("riepilogo"), CallSub("pixio_copia"), CallSub("pixio_copia"),
      Do("net use P: /delete"), Goto(Eof),
      Label("pixio_log_ko"), Goto(Eof),
      Label("pixio_copia"), If("no logs", Eof), Do("xcopy"), Goto(Eof)>>

(* install_cmd *)
FromShare(f) ==
    <<Do("tries = 0"), Label("retry")>> \o Attempt("S:")
    \o <<If("ok", "ok"), If("net tries", "diagnosi"), Goto("retry"),
      Label("ok"), If("no setup.exe", "senzasetup"),
      Do("setup.exe"), Esito("%ERRORLEVEL%"), Goto("fine_setup"),
      Label("diagnosi"), Do("net use S:")>> \o Prompt
    \o <<Label("senzasetup")>>
    \o When(f.setup_logs, <<Esito("setup.exe non trovato"), CallSub("pixio_log")>>)
    \o Prompt
InstallCmd(f) ==
    When(f.setup_logs, <<Esito("non avviato")>>)
    \o <<If("no address", "senzarete")>>
    \o (IF f.smb_export THEN FromShare(f) ELSE <<Do("setup.exe"), Goto("fine_setup")>>)
    \o <<Label("fine_setup")>> \o When(f.setup_logs, <<CallSub("pixio_log")>>) \o Prompt
    \o <<Label("senzarete"), Do("pause")>> \o Prompt
    \o <<Label("prompt")>> \o Prompt
    \o <<Label("end"), Goto("prompt")>>
    \o When(f.setup_logs, RaccoltaLog)

(* The scripts, worked out once.                                           *)
Commands == [f \in [smb_export : BOOLEAN, inject : BOOLEAN, setup_logs : BOOLEAN] |->
                InstallCmd(f)]

-----------------------------------------------------------------------------
(* What cmd.exe does with it: pe is [flags, pos, back, tries, ok, esito,   *)
(* logged], with back the places that the calls return to.                 *)

Started(f) == [flags |-> f, pos |-> 1, back |-> <<>>, tries |-> 0, ok |-> FALSE,
               esito |-> "", logged |-> ""]
Over(pe) == pe.pos > Len(Commands[pe.flags])
Line(pe) == Commands[pe.flags][pe.pos]
PositionOf(pe, l) ==
    Min({i \in DOMAIN Commands[pe.flags] :
            Commands[pe.flags][i].op = "label" /\ Commands[pe.flags][i].arg = l})
NextLine(pe) == [pe EXCEPT !.pos = @ + 1]
Jump(pe, l) ==
    IF l # Eof THEN [pe EXCEPT !.pos = PositionOf(pe, l)]
    ELSE IF pe.back = <<>> THEN [pe EXCEPT !.pos = Len(Commands[pe.flags]) + 1]
    ELSE [pe EXCEPT !.pos = Last(pe.back), !.back = Front(@)]

(* cmd.exe, pause and setup.exe wait for a person, or for as long as they  *)
(* like.                                                                   *)
Waiting(pe) == ~Over(pe) /\ Line(pe).op = "do" /\ Line(pe).arg \in {"cmd.exe", "pause", "setup.exe"}

(* The outcomes of a line, where share says whether the server exports the *)
(* shares and mounted whether the image is there.                          *)
Tests(pe, cond, share, mounted) ==
    CASE cond = "ok" -> {pe.ok}
      [] cond = "net tries" -> {pe.tries >= NetTries}
      [] cond = "log tries" -> {pe.tries >= LogTries}
      [] cond = "no setup.exe" -> IF share /\ mounted THEN {FALSE} ELSE {TRUE}
      [] OTHER -> BOOLEAN                        \* no address, no logs
Doing(pe, what, share) ==
    CASE what = "tries = 0" -> {[pe EXCEPT !.tries = 0]}
      [] what = "tries + 1" -> {[pe EXCEPT !.tries = @ + 1]}
      [] what \in {"net use S:", "net use P:"} ->
            {[pe EXCEPT !.ok = up] : up \in IF share THEN BOOLEAN ELSE {FALSE}}
      [] what = "riepilogo" -> {[pe EXCEPT !.logged = pe.esito]}
      [] OTHER -> {pe}
(* A loop that is left does not read its counter and its outcome again.    *)
Forgotten(pe) == [pe EXCEPT !.tries = 0, !.ok = FALSE]
Outcomes(pe, share, mounted) ==
    LET line == Line(pe) IN
    CASE line.op = "goto" -> {Jump(pe, line.to)}
      [] line.op = "call" -> {Jump([pe EXCEPT !.back = Append(@, pe.pos + 1)], line.to)}
      [] line.op = "if" -> {IF yes THEN Jump(Forgotten(pe), line.to) ELSE NextLine(pe) :
                               yes \in Tests(pe, line.arg, share, mounted)}
      [] line.op = "do" -> {NextLine(d) : d \in Doing(pe, line.arg, share)}
      [] line.op = "esito" -> {NextLine([pe EXCEPT !.esito = line.arg])}
      [] OTHER -> {NextLine(pe)}

(* The sub-programs are only ever run by a call, and the script never ends:*)
(* Windows PE would restart the PC, and nobody could read why.             *)
StaysOpen(pe) ==
    /\ ~Over(pe)
    /\ LET sub == {i \in DOMAIN Commands[pe.flags] :
                      Commands[pe.flags][i] = Label("pixio_log")}
       IN (\E i \in sub : pe.pos >= i) <=> pe.back # <<>>
=============================================================================
