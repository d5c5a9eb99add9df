------------------------------ MODULE Clients ------------------------------
(***************************************************************************)
(* The PXE clients of pixio/services/clients.py: CLIENTS_FILE, written by  *)
(* the requests of the PCs (boot.ipxe and boot/<slug>.ipxe, in             *)
(* blueprints/boot.py) and of the users, and by the background thread,     *)
(* which follows the log of dnsmasq from the offset it has saved.          *)
(*                                                                         *)
(* The log is a sequence of bytes; a line is its number and a newline.     *)
(* logrotate truncates it.  Every writer holds _lock; poll holds it for    *)
(* several steps and writes two files, one after the other.  A boot_once   *)
(* is named by the number of the request that set it, instead of the slug  *)
(* it holds.  Addresses, architectures and hardware are left out.          *)
(*                                                                         *)
(* A write of a file may fail; one of a user, or of a PC that asks for an  *)
(* entry, is then as good as not done, and has no action here.             *)
(***************************************************************************)
EXTENDS Integers, FiniteSets, SequencesExt

CONSTANTS
    Macs,            \* the PCs
    Requests,        \* the request threads
    Bg,              \* the background thread
    Nobody,          \* the owner of a free lock
    MaxClients,      \* MAX_CLIENTS
    MaxRead,         \* MAX_READ_PER_POLL
    Tail1,           \* FIRST_READ_TAIL
    Interval,        \* COUNT_MIN_INTERVAL
    MaxLines,        \* bound: how many lines dnsmasq logs
    MaxRotations,    \* bound: how often the log is rotated
    MaxArms,         \* bound: how often a boot_once is set
    MaxBoots,        \* bound: how many boots ask for the menu
    MaxCrashes,      \* bound: how often the process dies
    MaxFailures,     \* bound: how often poll cannot write
    Disarming        \* whether users cancel and delete

Lines   == 1..MaxLines
NL      == 0
Arms    == 1..MaxArms
None    == 0
NoInode == 0
Threads == Requests \cup {Bg}

ASSUME ClientsAssumption ==
    /\ Macs # {}
    /\ Bg \notin Requests
    /\ Nobody \notin Threads
    /\ MaxClients \in Nat \ {0}
    /\ MaxRead \in Nat /\ MaxRead >= 2       \* a whole line fits
    /\ Tail1 \in Nat \ {0} /\ Interval \in Nat \ {0}
    /\ MaxLines \in Nat /\ MaxRotations \in Nat /\ MaxArms \in Nat
    /\ MaxBoots \in Nat /\ MaxCrashes \in Nat /\ MaxFailures \in Nat
    /\ Disarming \in BOOLEAN

VARIABLES
    clients,   \* CLIENTS_FILE
    state,     \* clients_state.json: inode, offset, when a PC was counted
    log,       \* the bytes of the log of dnsmasq
    inode,     \* its inode
    cut,       \* the log was rotated since a state that knows it was saved
    outgrown,  \* history: a rotated log grew during a poll, or past the
               \* saved offset, so that the rotation could go unnoticed
    rotations, \* how often it was rotated
    line,      \* what dnsmasq has logged: a PC and a time
    clock,     \* the time
    lock,      \* who holds _lock
    poll,      \* where poll is, and its local variables
    req,       \* where a request for the menu is, and its local variables
    applied,   \* history: the lines that have been applied
    passed,    \* history: the lines the first read has left aside
    tally,     \* history: the times at which a PC was counted
    unsaved,   \* history: lines were counted, and the state was not saved
    given,     \* history: the boots that were given a boot_once
    taken,     \* history: the boot_once that take_boot_once has cleared
    dropped,   \* history: those replaced, cancelled, deleted or evicted
    arms, boots, crashes, failures

logfile == <<log, inode, outgrown, rotations, line, clock>>
dnsmasq == <<logfile, cut>>
lives   == <<applied, passed, tally, unsaved>>
onces   == <<given, taken, dropped>>
bounds  == <<arms, boots, crashes, failures>>
vars    == <<clients, state, dnsmasq, lock, poll, req, lives, onces, bounds>>

Unknown   == [known |-> FALSE, kept |-> FALSE, once |-> None, seen |-> 0]
NewClient == [Unknown EXCEPT !.known = TRUE]
Known     == {m \in Macs : clients[m].known}

\* Mutant: the client is made anew.
SeenAtAnew(c, t) == [NewClient EXCEPT !.seen = t]

\* A client that setdefault finds or makes, last seen at t.
SeenAt(c, t) == [(IF c.known THEN c ELSE NewClient) EXCEPT !.seen = t]

Idle     == [pc |-> "idle", offset |-> 0, inode |-> NoInode, chunk |-> <<>>,
             counted |-> [m \in Macs |-> 0]]
NoBoot   == [pc |-> "idle", mac |-> CHOOSE m \in Macs : TRUE, once |-> None,
             pending |-> None]

Init ==
    /\ clients = [m \in Macs |-> Unknown]
    /\ state = [inode |-> NoInode, offset |-> 0, counted |-> [m \in Macs |-> 0]]
    /\ log = <<>>
    /\ inode = 1
    /\ cut = FALSE /\ outgrown = FALSE
    /\ rotations = 0
    /\ line = <<>>
    /\ clock = Interval
    /\ lock = Nobody
    /\ poll = Idle
    /\ req = [r \in Requests |-> NoBoot]
    /\ applied = {} /\ passed = {} /\ unsaved = FALSE
    /\ tally = [m \in Macs |-> <<>>]
    /\ given = [a \in Arms |-> 0]
    /\ taken = {} /\ dropped = {}
    /\ arms = 0 /\ boots = 0 /\ crashes = 0 /\ failures = 0

-----------------------------------------------------------------------------
(* dnsmasq and logrotate.                                                  *)

\* A rotated log of n bytes is taken for a longer version of the old one.
Unnoticed(n) ==
    poll.pc # "idle" \/ (state.inode = inode /\ state.offset \in 1..n)

\* A PXE request of a PC is logged, at once or after a while.
Log(m) ==
    /\ Len(line) < MaxLines
    /\ \E t \in {clock, clock + Interval} :
         /\ clock' = t
         /\ line' = Append(line, [mac |-> m, at |-> t])
    /\ log' = log \o <<Len(line'), NL>>
    /\ outgrown' = (outgrown \/ (cut /\ Unnoticed(Len(log'))))
    /\ UNCHANGED <<clients, state, inode, cut, rotations, lock, poll, req, lives,
                   onces, bounds>>

\* copytruncate, or a file made anew.
Rotate ==
    /\ rotations < MaxRotations
    /\ log # <<>>
    /\ log' = <<>>
    /\ ~cut /\ cut' = TRUE
    /\ rotations' = rotations + 1
    /\ inode' \in {inode, inode + 1}
    /\ UNCHANGED <<clients, state, outgrown, line, clock, lock, poll, req, lives,
                   onces, bounds>>

-----------------------------------------------------------------------------
(* poll, under the lock all along.                                         *)

Acquire(t) == lock = Nobody /\ lock' = t
Release    == lock' = Nobody

SaveState(ino, offset, counted) ==
    /\ state' = [inode |-> ino, offset |-> offset, counted |-> counted]
    /\ cut' = (cut /\ (ino # inode \/ offset > Len(log)))
    /\ poll' = Idle

\* Mutant: a file of another inode goes unnoticed.
StartOffsetAnyInode ==
    IF state.inode = NoInode
    THEN IF Len(log) > Tail1 THEN Len(log) - Tail1 ELSE 0
    ELSE IF Len(log) < state.offset THEN 0 ELSE state.offset

\* Mutant: a truncated file goes unnoticed.
StartOffsetAnySize ==
    IF state.inode = NoInode
    THEN IF Len(log) > Tail1 THEN Len(log) - Tail1 ELSE 0
    ELSE IF state.inode # inode THEN 0 ELSE state.offset

\* The offset to read from: the tail of a log seen for the first time, the
\* start of one that was rotated, else where the last poll has stopped.
StartOffset ==
    CASE state.inode = NoInode                               ->
           IF Len(log) > Tail1 THEN Len(log) - Tail1 ELSE 0
      [] state.inode \notin {NoInode, inode}
           \/ (state.inode = inode /\ Len(log) < state.offset) -> 0
      [] OTHER                                               -> state.offset

\* Up to os.stat; with nothing to read only a new offset or inode is saved.
PollStat ==
    /\ poll.pc = "idle"
    /\ IF StartOffset < Len(log)
       THEN /\ Acquire(Bg)
            /\ poll' = [Idle EXCEPT !.pc = "read", !.offset = StartOffset,
                                    !.inode = inode, !.counted = state.counted]
            /\ UNCHANGED <<state, cut>>
       ELSE /\ lock = Nobody /\ UNCHANGED lock
            /\ state.inode # inode \/ state.offset # StartOffset
            /\ SaveState(inode, StartOffset, state.counted)
    /\ UNCHANGED <<clients, logfile, req, lives, onces, bounds>>

\* The end of the first line and of the last one in some bytes.
FirstNL(s) == SelectInSeq(s, LAMBDA b : b = NL)
LastNL(s)  == SelectLastInSeq(s, LAMBDA b : b = NL)

\* The file is opened and read; a line begun before the tail is left aside,
\* and so is one that is not complete.
PollRead ==
    LET data == SubSeq(log, poll.offset + 1,
                       IF poll.offset + MaxRead < Len(log)
                       THEN poll.offset + MaxRead ELSE Len(log))
        skip == IF state.inode = NoInode /\ poll.offset > 0
                THEN FirstNL(data) ELSE 0
        rest == SubSeq(data, skip + 1, Len(data))
        off  == poll.offset + skip
    IN  /\ poll.pc = "read"
        /\ passed' = IF state.inode = NoInode
                     THEN {log[i] : i \in 1..(IF off < Len(log) THEN off
                                              ELSE Len(log))} \ {NL}
                     ELSE passed
        /\ IF LastNL(rest) = 0
           THEN SaveState(poll.inode, off, state.counted) /\ Release
           ELSE /\ poll' = [poll EXCEPT !.pc = "apply", !.offset = off,
                                  !.chunk = SubSeq(rest, 1, LastNL(rest))]
                /\ UNCHANGED <<state, cut, lock>>
        /\ UNCHANGED <<clients, logfile, req, applied, tally, unsaved, onces, bounds>>

\* _apply_line for a PXE request: the PC is counted once per Interval.
ApplyLine(acc, k) ==
    LET m == line[k].mac
        t == line[k].at
        last == acc.counted[m]
        counts == t - last >= Interval \/ t < last
    IN  IF k # NL /\ counts
        THEN [counted |-> [acc.counted EXCEPT ![m] = t],
              tally   |-> [acc.tally EXCEPT ![m] = Append(@, t)]]
        ELSE acc

\* The client of m after the lines in some bytes: seen at its last one.
SeenIn(m, s) ==
    LET i == SelectLastInSeq(s, LAMBDA k : k # NL /\ line[k].mac = m)
    IN  IF i = 0 THEN clients[m] ELSE SeenAt(clients[m], line[s[i]].at)

\* Clients are updated with one update_json, the counts in memory.
PollApply ==
    LET acc == FoldLeft(ApplyLine, [counted |-> poll.counted, tally |-> tally],
                        poll.chunk)
    IN  /\ poll.pc = "apply"
        /\ clients' = [m \in Macs |-> SeenIn(m, poll.chunk)]
        /\ tally' = acc.tally
        /\ applied' = applied \cup (ToSet(poll.chunk) \ {NL})
        /\ poll' = [poll EXCEPT !.pc = "save", !.counted = acc.counted]
        /\ UNCHANGED <<state, dnsmasq, lock, req, passed, unsaved, onces, bounds>>

\* Mutant: the times of the counts are not saved.
PollSaveOffset ==
    /\ poll.pc = "save"
    /\ SaveState(poll.inode, poll.offset + Len(poll.chunk), state.counted)
    /\ Release
    /\ UNCHANGED <<clients, logfile, req, lives, onces, bounds>>

PollSave ==
    /\ poll.pc = "save"
    /\ SaveState(poll.inode, poll.offset + Len(poll.chunk), poll.counted)
    /\ Release
    /\ UNCHANGED <<clients, logfile, req, lives, onces, bounds>>

\* The log cannot be read, or one of the two files not written: the poll is
\* given up.  What the first has of the lines stays, when it is the second.
PollFails ==
    /\ poll.pc # "idle"
    /\ failures < MaxFailures
    /\ failures' = failures + 1
    /\ unsaved' = (unsaved \/ poll.pc = "save")
    /\ poll' = Idle
    /\ Release
    /\ UNCHANGED <<clients, state, dnsmasq, req, applied, passed, tally, onces, arms,
                   boots, crashes>>

Poll == PollStat \/ PollRead \/ PollApply \/ PollSave

-----------------------------------------------------------------------------
(* A PC asks for the menu, boot_menu; the reply carries the boot_once.     *)

AskMenu(r, m) ==
    /\ req[r].pc = "idle"
    /\ boots < MaxBoots
    /\ boots' = boots + 1
    /\ req' = [req EXCEPT ![r] = [pc |-> "take", mac |-> m, once |-> None,
                                  pending |-> clients[m].once]]
    /\ UNCHANGED <<clients, state, dnsmasq, lock, poll, lives, onces, arms, crashes,
                   failures>>

\* Mutant: the boot_once is read without the lock.
TakeReadUnlocked(r) ==
    LET once == clients[req[r].mac].once IN
    /\ req[r].pc = "take"
    /\ req' = [req EXCEPT ![r].pc = IF once = None THEN "see" ELSE "clear",
                          ![r].once = once]
    /\ UNCHANGED <<clients, state, dnsmasq, lock, poll, lives, onces, bounds>>

\* take_boot_once reads; with nothing to give it stops there.
TakeRead(r) ==
    LET once == clients[req[r].mac].once IN
    /\ req[r].pc = "take"
    /\ lock = Nobody
    /\ IF once = None
       THEN req' = [req EXCEPT ![r].pc = "see"] /\ UNCHANGED lock
       ELSE req' = [req EXCEPT ![r].pc = "clear", ![r].once = once] /\ Acquire(r)
    /\ UNCHANGED <<clients, state, dnsmasq, poll, lives, onces, bounds>>

TakeClear(r) ==
    LET m == req[r].mac IN
    /\ req[r].pc = "clear"
    /\ clients' = [clients EXCEPT ![m].once = None]
    /\ taken' = taken \cup {req[r].once}
    /\ req' = [req EXCEPT ![r].pc = "see"]
    /\ Release
    /\ UNCHANGED <<state, dnsmasq, poll, lives, given, dropped, bounds>>

\* The boot_once is not cleared: boot_menu swallows it and replies without.
TakeFails(r) ==
    /\ req[r].pc = "clear"
    /\ req' = [req EXCEPT ![r] = NoBoot]
    /\ Release
    /\ UNCHANGED <<clients, state, dnsmasq, poll, lives, onces, bounds>>

\* The PCs without a name and an auto_boot, the longest not seen first, that
\* record_seen drops when there are too many.
Victims(d, m) ==
    LET all   == {k \in Macs : d[k].known}
        loose == {k \in all \ {m} : ~d[k].kept}
        n     == IF Cardinality(all) > MaxClients
                 THEN Cardinality(all) - MaxClients ELSE 0
    IN  {V \in SUBSET loose :
           /\ Cardinality(V) = IF Cardinality(loose) < n THEN Cardinality(loose)
                               ELSE n
           /\ \A v \in V, k \in loose \ V : d[v].seen <= d[k].seen}

\* record_seen.
See(r) ==
    LET m == req[r].mac
        d == [clients EXCEPT ![m] = SeenAt(@, clock)]
    IN  /\ req[r].pc = "see"
        /\ lock = Nobody
        /\ \E V \in Victims(d, m) :
             /\ clients' = [k \in Macs |-> IF k \in V THEN Unknown ELSE d[k]]
             /\ dropped' = dropped \cup ({d[k].once : k \in V} \ {None})
        /\ req' = [req EXCEPT ![r].pc = "reply"]
        /\ UNCHANGED <<state, dnsmasq, lock, poll, lives, given, taken,
                       bounds>>

\* The PC is not recorded; boot_menu replies with what it has taken.
SeeFails(r) ==
    /\ req[r].pc = "see"
    /\ lock = Nobody
    /\ req' = [req EXCEPT ![r].pc = "reply"]
    /\ UNCHANGED <<clients, state, dnsmasq, lock, poll, lives, onces, bounds>>

\* The reply reaches the PC, which then asks for the entry, or gets lost.
Reply(r) ==
    LET a == req[r].once IN
    /\ req[r].pc = "reply"
    /\ req' = [req EXCEPT ![r] = NoBoot]
    /\ given' = IF a = None THEN given ELSE [given EXCEPT ![a] = @ + 1]
    /\ UNCHANGED <<clients, state, dnsmasq, lock, poll, lives, taken,
                   dropped, bounds>>

\* A PC asks for an entry: record_boot makes the client that is not there.
AskEntry(m) ==
    /\ lock = Nobody
    /\ clients' = [clients EXCEPT ![m] = SeenAt(@, clock)]
    /\ UNCHANGED <<state, dnsmasq, lock, poll, req, lives, onces, bounds>>

-----------------------------------------------------------------------------
(* The users: update and delete, each one update_json under the lock.      *)

Arm(m) ==
    /\ lock = Nobody
    /\ arms < MaxArms
    /\ clients[m].known
    /\ arms' = arms + 1
    /\ clients' = [clients EXCEPT ![m].once = arms']
    /\ dropped' = dropped \cup ({clients[m].once} \ {None})
    /\ UNCHANGED <<state, dnsmasq, lock, poll, req, lives, given, taken,
                   boots, crashes, failures>>

Disarm(m) ==
    /\ Disarming
    /\ lock = Nobody
    /\ clients[m].once # None
    /\ \/ clients' = [clients EXCEPT ![m].once = None]
       \/ clients' = [clients EXCEPT ![m] = Unknown]          \* delete
    /\ dropped' = dropped \cup {clients[m].once}
    /\ UNCHANGED <<state, dnsmasq, lock, poll, req, lives, given, taken,
                   bounds>>

\* A name or an auto_boot is given.
Keep(m) ==
    /\ lock = Nobody
    /\ clients[m].known /\ ~clients[m].kept
    /\ clients' = [clients EXCEPT ![m].kept = TRUE]
    /\ UNCHANGED <<state, dnsmasq, lock, poll, req, lives, onces, bounds>>

-----------------------------------------------------------------------------
Crash ==
    /\ crashes < MaxCrashes
    /\ crashes' = crashes + 1
    /\ lock' = Nobody
    /\ poll' = Idle
    /\ req' = [r \in Requests |-> NoBoot]
    /\ UNCHANGED <<clients, state, dnsmasq, lives, onces, arms, boots, failures>>

Menu(r) == TakeRead(r) \/ TakeClear(r) \/ See(r) \/ Reply(r)
MenuFails(r) == TakeFails(r) \/ SeeFails(r)

Next ==
    \/ \E m \in Macs : Log(m)
    \/ Rotate
    \/ Poll \/ PollFails
    \/ \E r \in Requests : (\E m \in Macs : AskMenu(r, m)) \/ Menu(r) \/ MenuFails(r)
    \/ \E m \in Macs : AskEntry(m) \/ Arm(m) \/ Disarm(m) \/ Keep(m)
    \/ Crash

Spec == Init /\ [][Next]_vars

\* The background thread polls for ever, and a request goes on to its reply:
\* the lock, free again and again, is got by whoever waits for it.
FairSpec == Spec /\ SF_vars(Poll) /\ \A r \in Requests : SF_vars(Menu(r))

-----------------------------------------------------------------------------
(* A boot_once "vale per un solo avvio": however many requests a PC makes  *)
(* at one time, whatever poll and the users write meanwhile, the menu      *)
(* gives it to one boot at most.                                           *)
GivenOnce == \A a \in Arms : given[a] <= 1

(* A PC that asks for the menu with a boot_once waiting for it is given    *)
(* it, unless another request of that PC has taken it or a user or the cap *)
(* has dropped it in the meantime: no concurrent write loses it.  A boot   *)
(* that fails to clear it is not given it: it waits for the next.          *)
NextBootGetsIt ==
    [][ \A r \in Requests :
          req[r].pc = "reply" /\ req'[r].pc = "idle" /\ crashes' = crashes
            /\ req[r].pending # None /\ req[r].once # req[r].pending
          => req[r].pending \in taken \cup dropped ]_vars

(* Every complete line of the log that poll has moved past was applied,    *)
(* but for those the first read leaves aside: "incrementale, con gestione  *)
(* della rotazione" (clients.py:407).  A log truncated in place that has   *)
(* outgrown the offset before the next poll looks like the old one.        *)
PassedIsApplied ==
    ~outgrown /\ state.inode = inode /\ state.offset <= Len(log) =>
      \A i \in 1..state.offset : log[i] \in applied \cup passed \cup {NL}

CountedApart(m) ==
    \A i, j \in DOMAIN tally[m] : i < j => tally[m][j] - tally[m][i] >= Interval

(* A PC is counted at most once in an Interval, however poll cuts the log  *)
(* into pieces, is given up and begun again, and the log is rotated.  Not  *)
(* so when the state is lost that goes with the counts, by a crash or by   *)
(* a failed write of it (clients.py:461), or after a rotation poll could   *)
(* not notice: then poll may read the log once more.                       *)
CountsAreApart ==
    crashes = 0 /\ ~unsaved /\ ~outgrown => \A m \in Macs : CountedApart(m)

(* A line is applied in the end, or left aside, or rotated away unread, as *)
(* far as no log has outgrown its offset.                                  *)
LinesGetApplied ==
    \A k \in Lines :
        k \in ToSet(log)
          ~> k \in applied \cup passed \/ k \notin ToSet(log) \/ outgrown
=============================================================================
