--------------------------- MODULE ClientsProofs ---------------------------
(***************************************************************************)
(* Proofs about module Clients, for any number of PCs, requests, lines of  *)
(* the log, rotations and crashes: first of the boot_once of a PC, then of *)
(* what poll makes of the log.                                             *)
(***************************************************************************)
EXTENDS Clients, FiniteSetTheorems, SequenceTheorems, TLAPS

Onces == Arms \cup {None}

\* A value of the map of clients, as far as its boot_once goes.
ClientOK(c) ==
    /\ DOMAIN c = {"known", "kept", "once", "seen"}
    /\ c.once \in Onces
    /\ ~c.known => c.once = None

Pcs == {"idle", "take", "clear", "see", "reply"}

(* The shape of the clients, of the requests and of the bookkeeping.       *)
Shape ==
    /\ DOMAIN clients = Macs
    /\ \A m \in Macs : ClientOK(clients[m])
    /\ req \in [Requests -> [pc : Pcs, mac : Macs, once : Onces, pending : Onces]]
    /\ given \in [Arms -> Nat]
    /\ arms \in 0..MaxArms

\* Request r has a boot_once that nobody else can be given any more.
Carries(r) == req[r].pc \in {"see", "reply"} /\ req[r].once # None

(* poll holds the lock while it is under way, and so does a request between*)
(* the two steps of take_boot_once: what it has read is still there.       *)
LockInv ==
    /\ poll.pc # "idle" => lock = Bg
    /\ \A r \in Requests :
         req[r].pc = "clear" =>
           /\ lock = r
           /\ req[r].once # None
           /\ clients[req[r].mac].once = req[r].once
    /\ \A r \in Requests : req[r].pc \in {"idle", "take"} => req[r].once = None

(* A boot_once is in one place: with one PC, with one request, or given.   *)
OnePlace ==
    /\ \A m, n \in Macs :
         clients[m].once # None /\ clients[m].once = clients[n].once => m = n
    /\ \A m \in Macs, r \in Requests : Carries(r) => clients[m].once # req[r].once
    /\ \A r, q \in Requests :
         Carries(r) /\ Carries(q) /\ req[r].once = req[q].once => r = q
    /\ \A a \in Arms : given[a] # 0 =>
         /\ given[a] = 1
         /\ \A m \in Macs : clients[m].once # a
         /\ \A r \in Requests : Carries(r) => req[r].once # a

(* What has not been set yet is nowhere.                                   *)
SetBefore ==
    /\ \A m \in Macs : clients[m].once <= arms
    /\ \A r \in Requests : req[r].once <= arms
    /\ \A a \in Arms : a > arms => given[a] = 0

(* What was waiting for a request when it came is still there for it, or   *)
(* with it, or somebody has taken or dropped it.                           *)
Waiting ==
    \A r \in Requests :
      req[r].pc # "idle" /\ req[r].pending # None =>
        \/ req[r].pending \in taken \cup dropped
        \/ req[r].pc = "take" /\ clients[req[r].mac].once = req[r].pending
        \/ req[r].pc # "take" /\ req[r].once = req[r].pending

(* The inductive invariant. *)
IInv == Shape /\ LockInv /\ OnePlace /\ SetBefore /\ Waiting

(* A client that is seen keeps its boot_once, a new one has none. *)
LEMMA SeenAtKeeps ==
    ASSUME NEW c, ClientOK(c), NEW t
    PROVE  ClientOK(SeenAt(c, t)) /\ SeenAt(c, t).once = c.once
<1> DEFINE b == IF c.known THEN c ELSE NewClient
<1>1. ClientOK(NewClient) /\ NewClient.once = None
    BY DEF ClientOK, NewClient, Unknown, Onces
<1>2. ClientOK(b) /\ b.once = c.once
    BY <1>1 DEF ClientOK
<1> HIDE DEF b
<1>3. ClientOK([b EXCEPT !.seen = t]) /\ [b EXCEPT !.seen = t].once = c.once
    <2>1. DOMAIN [b EXCEPT !.seen = t] = DOMAIN b
        OBVIOUS
    <2>2. \A x \in DOMAIN b : x # "seen" => [b EXCEPT !.seen = t][x] = b[x]
        OBVIOUS
    <2>3. [b EXCEPT !.seen = t].once = b.once /\ [b EXCEPT !.seen = t].known = b.known
        BY <1>2, <2>2 DEF ClientOK
    <2> QED
        BY <1>2, <2>1, <2>3 DEF ClientOK
<1> QED
    BY <1>3 DEF SeenAt, b

(* The initial state satisfies IInv. *)
LEMMA InitIInv == Init => IInv
<1> SUFFICES ASSUME Init PROVE IInv
    OBVIOUS
<1> USE ClientsAssumption DEF Init
<1>1. \A m \in Macs : clients[m] = Unknown
    OBVIOUS
<1>2. ClientOK(Unknown) /\ Unknown.once = None
    BY DEF ClientOK, Unknown, Onces
<1>3. /\ NoBoot \in [pc : Pcs, mac : Macs, once : Onces, pending : Onces]
      /\ NoBoot.pc = "idle" /\ NoBoot.once = None
    BY DEF NoBoot, Pcs, Onces
<1>4. \A r \in Requests : req[r] = NoBoot
    OBVIOUS
<1>5. \A a \in Arms : given[a] = 0
    OBVIOUS
<1>6. Shape
    BY <1>1, <1>2, <1>3 DEF Shape
<1>7. LockInv
    <2>1. poll.pc = "idle"
        BY DEF Idle
    <2> QED
        BY <1>3, <1>4, <2>1 DEF LockInv
<1>8. OnePlace
    BY <1>1, <1>2, <1>3, <1>4, <1>5 DEF OnePlace, Carries
<1>9. SetBefore
    BY <1>1, <1>2, <1>3, <1>4, <1>5 DEF SetBefore, None
<1>10. Waiting
    BY <1>3, <1>4 DEF Waiting
<1> QED
    BY <1>6, <1>7, <1>8, <1>9, <1>10 DEF IInv

-----------------------------------------------------------------------------
(* Most steps leave every boot_once where it is, or lose it: the PC had    *)
(* none, or it is noted in dropped; a request goes on from "see" to its    *)
(* reply, or dies; no request in the middle of take_boot_once is touched.  *)
Loses ==
    /\ arms' = arms /\ given' = given
    /\ taken \cup dropped \subseteq taken' \cup dropped'
    /\ poll'.pc # "idle" => lock' = Bg
    /\ DOMAIN clients' = Macs
    /\ \A m \in Macs :
         /\ ClientOK(clients'[m])
         /\ \/ clients'[m].once = clients[m].once
            \/ /\ clients'[m].once = None
               /\ clients[m].once # None => clients[m].once \in dropped'
    /\ req' = [r \in Requests |-> req'[r]]
    /\ \A r \in Requests :
         \/ req'[r] = req[r]
         \/ req[r].pc = "see" /\ req'[r] = [req[r] EXCEPT !.pc = "reply"]
         \/ req'[r] = NoBoot
    /\ \A r \in Requests : req'[r].pc = "clear" =>
         lock' = lock /\ clients'[req[r].mac].once = clients[req[r].mac].once

\* The boot of a request that has not come.
LEMMA NoBootType ==
    /\ NoBoot \in [pc : Pcs, mac : Macs, once : Onces, pending : Onces]
    /\ NoBoot.pc = "idle" /\ NoBoot.once = None /\ NoBoot.pending = None
  BY ClientsAssumption DEF NoBoot, Pcs, Onces

\* Such a step keeps the invariant.
LEMMA LosesKeeps == IInv /\ Loses => IInv'
<1> SUFFICES ASSUME IInv, Loses PROVE IInv'
    OBVIOUS
<1> USE DEF IInv
<1> DEFINE Boot == [pc : Pcs, mac : Macs, once : Onces, pending : Onces]
<1>1. \A r \in Requests :
        /\ req[r] \in Boot /\ req'[r] \in Boot
        /\ \/ req'[r] = req[r]
           \/ /\ req[r].pc = "see" /\ req'[r].pc = "reply"
              /\ req'[r].mac = req[r].mac /\ req'[r].once = req[r].once
              /\ req'[r].pending = req[r].pending
           \/ req'[r].pc = "idle" /\ req'[r].once = None
    <2> TAKE r \in Requests
    <2>1. req[r] \in Boot
        BY DEF Shape
    <2>2. CASE req'[r] = [req[r] EXCEPT !.pc = "reply"] /\ req[r].pc = "see"
        BY <2>1, <2>2 DEF Pcs
    <2> QED
        BY <2>1, <2>2, NoBootType DEF Loses
<1>2. \A m \in Macs : clients'[m].once \in {clients[m].once, None}
    BY DEF Loses
<1>3. \A r \in Requests : Carries(r)' => Carries(r) /\ req'[r].once = req[r].once
    BY <1>1 DEF Carries
<1>4. Shape'
    <2>1. req' \in [Requests -> Boot]
        BY <1>1 DEF Loses
    <2> QED
        BY <2>1 DEF Shape, Loses
<1>5. LockInv'
    BY <1>1 DEF LockInv, Loses
<1>6. OnePlace'
    <2>1. \A m, n \in Macs :
            clients'[m].once # None /\ clients'[m].once = clients'[n].once => m = n
        BY <1>2 DEF OnePlace
    <2>2. \A m \in Macs, r \in Requests :
            Carries(r)' => clients'[m].once # req'[r].once
        BY <1>2, <1>3 DEF OnePlace, Carries
    <2>3. \A r, q \in Requests :
            Carries(r)' /\ Carries(q)' /\ req'[r].once = req'[q].once => r = q
        BY <1>3 DEF OnePlace
    <2>4. ASSUME NEW a \in Arms, given'[a] # 0
          PROVE  /\ given'[a] = 1
                 /\ \A m \in Macs : clients'[m].once # a
                 /\ \A r \in Requests : Carries(r)' => req'[r].once # a
        <3>1. given[a] # 0 /\ given'[a] = given[a]
            BY <2>4 DEF Loses
        <3>2. a # None
            BY DEF Arms, None
        <3> QED
            BY <1>2, <1>3, <3>1, <3>2 DEF OnePlace
    <2> QED
        BY <2>1, <2>2, <2>3, <2>4 DEF OnePlace
<1>7. SetBefore'
    BY <1>1, <1>2 DEF SetBefore, Loses, Shape, None
<1>8. Waiting'
    <2> SUFFICES ASSUME NEW r \in Requests, req'[r].pc # "idle",
                        req'[r].pending # None
                 PROVE  \/ req'[r].pending \in taken' \cup dropped'
                        \/ /\ req'[r].pc = "take"
                           /\ clients'[req'[r].mac].once = req'[r].pending
                        \/ req'[r].pc # "take" /\ req'[r].once = req'[r].pending
        BY DEF Waiting
    <2>1. CASE req'[r] = req[r]
        <3>1. CASE req[r].pc = "take" /\ clients[req[r].mac].once = req[r].pending
            <4>1. req[r].mac \in Macs
                BY <1>1
            <4> QED
                BY <2>1, <3>1, <4>1 DEF Loses
        <3> QED
            BY <2>1, <3>1 DEF Waiting, Loses
    <2>2. CASE req[r].pc = "see" /\ req'[r].pc = "reply"
        BY <1>1, <2>2 DEF Waiting, Loses
    <2> QED
        BY <1>1, <2>1, <2>2
<1> QED
    BY <1>4, <1>5, <1>6, <1>7, <1>8

\* A client that is left alone, or only seen, keeps its boot_once.
Quiet ==
    /\ arms' = arms /\ given' = given /\ req' = req
    /\ taken' = taken /\ dropped' = dropped
    /\ DOMAIN clients' = Macs
    /\ \A m \in Macs : clients'[m] = clients[m]
                       \/ \E t : clients'[m] = SeenAt(clients[m], t)

LEMMA QuietLoses ==
    IInv /\ Quiet
      /\ (poll'.pc # "idle" => lock' = Bg)
      /\ (lock' = lock \/ lock \in {Bg, Nobody}) => Loses
<1> SUFFICES ASSUME IInv, Quiet, poll'.pc # "idle" => lock' = Bg,
                    lock' = lock \/ lock \in {Bg, Nobody}
             PROVE  Loses
    OBVIOUS
<1>1. \A m \in Macs : ClientOK(clients'[m]) /\ clients'[m].once = clients[m].once
    BY SeenAtKeeps DEF IInv, Shape, Quiet
<1>2. req' = [r \in Requests |-> req'[r]]
    BY DEF IInv, Shape, Quiet
<1>3. ASSUME NEW r \in Requests, req'[r].pc = "clear"
      PROVE  lock' = lock /\ clients'[req[r].mac].once = clients[req[r].mac].once
    <2>1. lock = r /\ req[r].mac \in Macs
        BY <1>3 DEF IInv, Shape, LockInv, Quiet
    <2>2. lock # Bg /\ lock # Nobody
        BY <2>1, ClientsAssumption DEF Threads
    <2> QED
        BY <1>1, <2>1, <2>2
<1> QED
    BY <1>1, <1>2, <1>3 DEF Loses, Quiet

(* dnsmasq and the rotation do not touch the clients. *)
LEMMA LogKeeps == IInv /\ ((\E m \in Macs : Log(m)) \/ Rotate) => Loses
<1> SUFFICES ASSUME IInv, (\E m \in Macs : Log(m)) \/ Rotate PROVE Loses
    OBVIOUS
<1>1. clients' = clients /\ poll' = poll /\ lock' = lock /\ Quiet
    BY DEF Log, Rotate, Quiet, onces, lives, bounds, IInv, Shape
<1> QED
    BY <1>1, QuietLoses DEF IInv, LockInv

(* poll sees the PCs of the lines it applies, under the lock. *)
LEMMA PollKeeps == IInv /\ (Poll \/ PollFails) => Loses
<1> SUFFICES ASSUME IInv, Poll \/ PollFails PROVE Loses
    OBVIOUS
<1> USE DEF onces, lives, bounds
<1>i. Idle.pc = "idle"
    BY DEF Idle
<1>s. \A x, y, z : SaveState(x, y, z) => poll'.pc = "idle"
    BY <1>i DEF SaveState
<1>q. ASSUME NEW m \in Macs, NEW ks
      PROVE SeenIn(m, ks) = clients[m] \/ \E t : SeenIn(m, ks) = SeenAt(clients[m], t)
    BY DEF SeenIn
<1>1. CASE PollStat
    <2>1. clients' = clients /\ Quiet
        BY <1>1 DEF PollStat, Quiet, IInv, Shape, logfile
    <2>2. lock = Nobody
        BY <1>1 DEF PollStat, Acquire
    <2>3. poll'.pc # "idle" => lock' = Bg
        BY <1>1, <1>s DEF PollStat, Acquire
    <2> QED
        BY <2>1, <2>2, <2>3, QuietLoses
<1>2. CASE PollRead
    <2>1. poll.pc = "read" /\ clients' = clients /\ Quiet
        BY <1>2 DEF PollRead, Quiet, IInv, Shape, logfile
    <2>2. lock = Bg
        BY <2>1 DEF IInv, LockInv
    <2>3. poll'.pc = "idle" \/ lock' = lock
        BY <1>2, <1>s DEF PollRead
    <2> QED
        BY <2>1, <2>2, <2>3, QuietLoses
<1>3. CASE PollApply
    <2>1. poll.pc = "apply" /\ lock' = lock
        BY <1>3 DEF PollApply
    <2>2. Quiet
        BY <1>3, <1>q DEF PollApply, Quiet
    <2>3. lock = Bg
        BY <2>1 DEF IInv, LockInv
    <2> QED
        BY <2>1, <2>2, <2>3, QuietLoses
<1>4. CASE PollSave
    <2>1. poll.pc = "save" /\ clients' = clients /\ Quiet
        BY <1>4 DEF PollSave, Quiet, IInv, Shape, logfile
    <2>2. lock = Bg
        BY <2>1 DEF IInv, LockInv
    <2>3. poll'.pc = "idle"
        BY <1>4, <1>s DEF PollSave
    <2> QED
        BY <2>1, <2>2, <2>3, QuietLoses
<1>5. CASE PollFails
    <2>1. poll.pc # "idle" /\ clients' = clients /\ Quiet
        BY <1>5 DEF PollFails, Quiet, IInv, Shape
    <2>2. lock = Bg
        BY <2>1 DEF IInv, LockInv
    <2>3. poll'.pc = "idle"
        BY <1>5, <1>i DEF PollFails
    <2> QED
        BY <2>1, <2>2, <2>3, QuietLoses
<1> QED
    BY <1>1, <1>2, <1>3, <1>4, <1>5 DEF Poll

(* A PC that asks for an entry is seen. *)
LEMMA AskEntryKeeps == IInv /\ (\E m \in Macs : AskEntry(m)) => Loses
<1> SUFFICES ASSUME IInv, NEW m \in Macs, AskEntry(m) PROVE Loses
    OBVIOUS
<1>1. poll' = poll /\ lock' = lock /\ Quiet
    BY DEF AskEntry, Quiet, onces, bounds, IInv, Shape
<1> QED
    BY <1>1, QuietLoses DEF IInv, LockInv

(* See: the PCs dropped beyond the cap take their boot_once with them. *)
LEMMA SeeKeeps == IInv /\ (\E r \in Requests : See(r)) => Loses
<1> SUFFICES ASSUME IInv, NEW r \in Requests, See(r) PROVE Loses
    OBVIOUS
<1> USE DEF bounds
<1> DEFINE m == req[r].mac
           d == [clients EXCEPT ![m] = SeenAt(@, clock)]
<1>0. m \in Macs
    BY DEF IInv, Shape
<1>1. \A k \in Macs : ClientOK(d[k]) /\ d[k].once = clients[k].once
    BY <1>0, SeenAtKeeps DEF IInv, Shape
<1>2. PICK V \in Victims(d, m) :
        /\ clients' = [k \in Macs |-> IF k \in V THEN Unknown ELSE d[k]]
        /\ dropped' = dropped \cup ({d[k].once : k \in V} \ {None})
    BY DEF See
<1>3. ClientOK(Unknown) /\ Unknown.once = None
    BY DEF ClientOK, Unknown, Onces
<1>4. ASSUME NEW k \in Macs
      PROVE  /\ ClientOK(clients'[k])
             /\ \/ clients'[k].once = clients[k].once
                \/ /\ clients'[k].once = None
                   /\ clients[k].once # None => clients[k].once \in dropped'
    <2> HIDE DEF d
    <2>1. CASE k \in V
        BY <1>1, <1>2, <1>3, <2>1
    <2>2. CASE k \notin V
        BY <1>1, <1>2, <2>2
    <2> QED
        BY <2>1, <2>2
<1>5. /\ lock = Nobody /\ lock' = lock /\ poll' = poll
      /\ arms' = arms /\ given' = given /\ taken' = taken
      /\ req[r].pc = "see" /\ req' = [req EXCEPT ![r].pc = "reply"]
    BY DEF See
<1>6. \A q \in Requests :
        req'[q] = req[q] \/ (req[q].pc = "see" /\ req'[q] = [req[q] EXCEPT !.pc = "reply"])
    BY <1>5 DEF IInv, Shape
<1>7. req' = [q \in Requests |-> req'[q]]
    BY <1>5 DEF IInv, Shape
<1>8. ASSUME NEW q \in Requests, req'[q].pc = "clear" PROVE FALSE
    <2>1. req[q].pc = "clear"
        BY <1>5, <1>6, <1>8 DEF IInv, Shape
    <2> QED
        BY <1>5, <2>1, ClientsAssumption DEF IInv, LockInv, Threads
<1>9. poll'.pc # "idle" => lock' = Bg
    BY <1>5 DEF IInv, LockInv
<1>10. DOMAIN clients' = Macs /\ taken \cup dropped \subseteq taken' \cup dropped'
    BY <1>2, <1>5
<1> QED
    BY <1>4, <1>5, <1>6, <1>7, <1>8, <1>9, <1>10 DEF Loses

(* A request that cannot write loses nothing: it goes on to its reply, or  *)
(* ends without what it has read.                                          *)
LEMMA FailuresKeep == IInv /\ (\E r \in Requests : MenuFails(r)) => Loses
<1> SUFFICES ASSUME IInv, NEW r \in Requests, MenuFails(r) PROVE Loses
    OBVIOUS
<1> USE DEF IInv, onces, bounds
<1>1. /\ clients' = clients /\ arms' = arms /\ given' = given /\ taken' = taken
      /\ dropped' = dropped /\ poll' = poll
    BY DEF MenuFails, TakeFails, SeeFails
<1>2. /\ DOMAIN clients' = Macs
      /\ \A m \in Macs : ClientOK(clients'[m]) /\ clients'[m].once = clients[m].once
    BY <1>1 DEF Shape
<1>3. CASE TakeFails(r)
    <2>1. req[r].pc = "clear" /\ lock = r
        BY <1>3 DEF TakeFails, LockInv
    <2>2. poll'.pc = "idle"
        BY <1>1, <2>1, ClientsAssumption DEF LockInv, Threads
    <2>3. /\ req' = [q \in Requests |-> req'[q]]
          /\ req'[r] = NoBoot /\ \A q \in Requests \ {r} : req'[q] = req[q]
        BY <1>3 DEF TakeFails, Shape
    <2>4. ASSUME NEW q \in Requests PROVE req'[q].pc # "clear"
        BY <2>1, <2>3, NoBootType DEF LockInv
    <2> QED
        BY <1>1, <1>2, <2>2, <2>3, <2>4 DEF Loses
<1>4. CASE SeeFails(r)
    <2>1. req[r].pc = "see" /\ lock = Nobody /\ lock' = lock
        BY <1>4 DEF SeeFails
    <2>2. poll'.pc = "idle"
        BY <1>1, <2>1, ClientsAssumption DEF LockInv, Threads
    <2>3. /\ req' = [q \in Requests |-> req'[q]]
          /\ req'[r] = [req[r] EXCEPT !.pc = "reply"]
          /\ \A q \in Requests \ {r} : req'[q] = req[q]
        BY <1>4 DEF SeeFails, Shape
    <2> QED
        BY <1>1, <1>2, <2>1, <2>2, <2>3 DEF Loses
<1> QED
    BY <1>3, <1>4 DEF MenuFails

(* A user cancels a boot_once, or deletes its PC, or names it. *)
LEMMA UsersKeep == IInv /\ (\E m \in Macs : Disarm(m) \/ Keep(m)) => Loses
<1> SUFFICES ASSUME IInv, NEW m \in Macs, Disarm(m) \/ Keep(m) PROVE Loses
    OBVIOUS
<1> USE DEF onces, bounds
<1>0. /\ lock = Nobody /\ lock' = lock /\ poll' = poll /\ req' = req
      /\ arms' = arms /\ given' = given /\ taken' = taken
    BY DEF Disarm, Keep
<1>1. DOMAIN clients' = Macs /\ dropped \subseteq dropped'
    BY DEF Disarm, Keep, IInv, Shape
<1>2. \A k \in Macs \ {m} : clients'[k] = clients[k]
    BY DEF Disarm, Keep, IInv, Shape
<1>3. ClientOK(Unknown) /\ Unknown.once = None
    BY DEF ClientOK, Unknown, Onces
<1>4. /\ ClientOK(clients'[m])
      /\ \/ clients'[m].once = clients[m].once
         \/ /\ clients'[m].once = None
            /\ clients[m].once \in dropped'
    <2> DEFINE c == clients[m]
    <2>1. ClientOK(c)
        BY DEF IInv, Shape
    <2>2. /\ ClientOK([c EXCEPT !.once = None])
          /\ [c EXCEPT !.once = None].once = None
        BY <2>1 DEF ClientOK, Onces
    <2>3. c.known => /\ ClientOK([c EXCEPT !.kept = TRUE])
                     /\ [c EXCEPT !.kept = TRUE].once = c.once
        BY <2>1 DEF ClientOK
    <2>4. CASE Disarm(m)
        <3>1. clients'[m] \in {[c EXCEPT !.once = None], Unknown}
            BY <2>4 DEF Disarm, IInv, Shape
        <3>2. c.once \in dropped'
            BY <2>4 DEF Disarm
        <3> QED
            BY <1>3, <2>2, <3>1, <3>2
    <2>5. CASE Keep(m)
        <3>1. clients'[m] = [c EXCEPT !.kept = TRUE] /\ c.known
            BY <2>5 DEF Keep, IInv, Shape
        <3> QED
            BY <2>3, <3>1
    <2> QED
        BY <2>4, <2>5
<1>5. req' = [r \in Requests |-> req'[r]]
    BY <1>0 DEF IInv, Shape
<1>6. \A r \in Requests : req'[r].pc # "clear"
    BY <1>0, ClientsAssumption DEF IInv, LockInv, Threads
<1>7. poll'.pc # "idle" => lock' = Bg
    BY <1>0 DEF IInv, LockInv
<1>8. \A k \in Macs : ClientOK(clients[k])
    BY DEF IInv, Shape
<1> QED
    BY <1>0, <1>1, <1>2, <1>4, <1>5, <1>6, <1>7, <1>8 DEF Loses

(* The process dies, and every request with it. *)
LEMMA CrashKeeps == IInv /\ Crash => Loses
<1> SUFFICES ASSUME IInv, Crash PROVE Loses
    OBVIOUS
<1> USE DEF onces
<1>1. poll'.pc = "idle" /\ \A r \in Requests : req'[r] = NoBoot
    BY DEF Crash, Idle
<1>2. req' = [r \in Requests |-> req'[r]]
    BY DEF Crash
<1> QED
    BY <1>1, <1>2, NoBootType DEF Crash, Loses, IInv, Shape

-----------------------------------------------------------------------------
(* The five steps that set a boot_once, take it and give it.               *)

(* A request comes: what waits for its PC is what it has seen. *)
LEMMA AskMenuKeeps ==
    ASSUME IInv, NEW r \in Requests, NEW m \in Macs, AskMenu(r, m) PROVE IInv'
<1> USE DEF IInv, lives, onces
<1>0. req \in [Requests -> [pc : Pcs, mac : Macs, once : Onces, pending : Onces]]
    BY DEF Shape
<1>1. /\ req[r].pc = "idle" /\ req[r].once = None
      /\ clients' = clients /\ lock' = lock /\ poll' = poll /\ given' = given
      /\ taken' = taken /\ dropped' = dropped /\ arms' = arms
      /\ req'[r] = [pc |-> "take", mac |-> m, once |-> None,
                    pending |-> clients[m].once]
      /\ \A q \in Requests \ {r} : req'[q] = req[q]
    BY <1>0 DEF AskMenu, LockInv
<1>2. Shape'
    <2>1. clients[m].once \in Onces
        BY DEF Shape, ClientOK
    <2>2. [pc |-> "take", mac |-> m, once |-> None, pending |-> clients[m].once]
            \in [pc : Pcs, mac : Macs, once : Onces, pending : Onces]
        BY <2>1 DEF Pcs, Onces
    <2>3. req' \in [Requests -> [pc : Pcs, mac : Macs, once : Onces, pending : Onces]]
        BY <2>2 DEF AskMenu, Shape
    <2> QED
        BY <1>1, <2>3 DEF Shape
<1>3. LockInv'
    BY <1>1 DEF LockInv
<1>4. \A q \in Requests : Carries(q)' => Carries(q) /\ req'[q].once = req[q].once
    BY <1>1 DEF Carries
<1>5. OnePlace'
    BY <1>1, <1>4 DEF OnePlace
<1>6. SetBefore'
    <2>1. None <= arms
        BY DEF Shape, None
    <2> QED
        BY <1>1, <2>1 DEF SetBefore
<1>7. Waiting'
    BY <1>1 DEF Waiting
<1> QED
    BY <1>2, <1>3, <1>5, <1>6, <1>7

(* take_boot_once reads, and holds the lock when there is something. *)
LEMMA TakeReadKeeps ==
    ASSUME IInv, NEW r \in Requests, TakeRead(r) PROVE IInv'
<1> USE DEF IInv, lives, onces, bounds
<1> DEFINE once == clients[req[r].mac].once
           Boot == [pc : Pcs, mac : Macs, once : Onces, pending : Onces]
<1>0. req \in [Requests -> Boot]
    BY DEF Shape
<1>1. /\ req[r].pc = "take" /\ req[r].once = None /\ lock = Nobody
      /\ clients' = clients /\ poll' = poll /\ given' = given
      /\ taken' = taken /\ dropped' = dropped /\ arms' = arms
    BY DEF TakeRead, LockInv
<1>2. \A q \in Requests : req[q].pc # "clear"
    BY <1>1, ClientsAssumption DEF LockInv, Threads
<1>3. once \in Onces /\ once <= arms
    <2>1. req[r].mac \in Macs
        BY <1>0
    <2> QED
        BY <2>1 DEF Shape, ClientOK, SetBefore
<1>4. /\ req'[r].mac = req[r].mac /\ req'[r].pending = req[r].pending
      /\ req'[r].once = once
      /\ req' \in [Requests -> Boot]
      /\ \A q \in Requests \ {r} : req'[q] = req[q]
      /\ IF once = None THEN req'[r].pc = "see" /\ lock' = lock
                        ELSE req'[r].pc = "clear" /\ lock' = r
    <2>1. CASE once = None
        BY <1>0, <1>1, <2>1 DEF TakeRead, Pcs
    <2>2. CASE once # None
        BY <1>0, <1>3, <2>2 DEF TakeRead, Acquire, Pcs
    <2> QED
        BY <2>1, <2>2
<1> HIDE DEF once
<1>5. Shape'
    BY <1>1, <1>4 DEF Shape
<1>6. LockInv'
    <2>1. poll'.pc = "idle"
        BY <1>1, ClientsAssumption DEF LockInv, Threads
    <2>2. ASSUME NEW q \in Requests, req'[q].pc = "clear"
          PROVE  lock' = q /\ req'[q].once # None
                 /\ clients'[req'[q].mac].once = req'[q].once
        <3>1. q = r
            BY <1>2, <1>4, <2>2
        <3> QED
            BY <1>1, <1>4, <2>2, <3>1 DEF once
    <2>3. \A q \in Requests : req'[q].pc \in {"idle", "take"} => req'[q].once = None
        BY <1>4 DEF LockInv
    <2> QED
        BY <2>1, <2>2, <2>3 DEF LockInv
<1>7. \A q \in Requests : Carries(q)' => Carries(q) /\ req'[q].once = req[q].once
    BY <1>4 DEF Carries
<1>8. OnePlace'
    BY <1>1, <1>7 DEF OnePlace
<1>9. SetBefore'
    BY <1>1, <1>3, <1>4 DEF SetBefore
<1>10. Waiting'
    <2> SUFFICES ASSUME NEW q \in Requests, req'[q].pc # "idle", req'[q].pending # None,
                        req'[q].pending \notin taken' \cup dropped'
                 PROVE  \/ /\ req'[q].pc = "take"
                           /\ clients'[req'[q].mac].once = req'[q].pending
                        \/ req'[q].pc # "take" /\ req'[q].once = req'[q].pending
        BY DEF Waiting
    <2>1. CASE q = r
        <3>1. once = req[r].pending
            BY <1>1, <1>4, <2>1 DEF Waiting, once
        <3> QED
            BY <1>4, <2>1, <3>1
    <2>2. CASE q # r
        BY <1>1, <1>4, <2>2 DEF Waiting
    <2> QED
        BY <2>1, <2>2
<1> QED
    BY <1>5, <1>6, <1>8, <1>9, <1>10

(* ... and clears it: what was with the PC is now with the request alone. *)
LEMMA TakeClearKeeps ==
    ASSUME IInv, NEW r \in Requests, TakeClear(r) PROVE IInv'
<1> USE DEF IInv, lives, bounds
<1> DEFINE m == req[r].mac
           a == req[r].once
           Boot == [pc : Pcs, mac : Macs, once : Onces, pending : Onces]
<1>0. req \in [Requests -> Boot] /\ m \in Macs
    BY DEF Shape
<1>1. /\ req[r].pc = "clear" /\ lock = r /\ a # None /\ clients[m].once = a
      /\ lock' = Nobody /\ poll' = poll /\ given' = given
      /\ taken' = taken \cup {a} /\ dropped' = dropped /\ arms' = arms
    BY DEF TakeClear, LockInv, Release
<1>2. /\ ClientOK(clients'[m]) /\ clients'[m].once = None
      /\ \A k \in Macs \ {m} : clients'[k] = clients[k]
      /\ DOMAIN clients' = Macs
    <2> DEFINE c == clients[m]
    <2>1. ClientOK(c)
        BY <1>0 DEF Shape
    <2>2. /\ ClientOK([c EXCEPT !.once = None])
          /\ [c EXCEPT !.once = None].once = None
        BY <2>1 DEF ClientOK, Onces
    <2>3. clients' = [clients EXCEPT ![m].once = None]
        BY DEF TakeClear
    <2> QED
        BY <1>0, <2>2, <2>3 DEF Shape
<1>3. /\ req' \in [Requests -> Boot]
      /\ req'[r].pc = "see" /\ req'[r].mac = m /\ req'[r].once = a
      /\ req'[r].pending = req[r].pending
      /\ \A q \in Requests \ {r} : req'[q] = req[q]
    BY <1>0 DEF TakeClear, Pcs
<1>4. Shape'
    BY <1>1, <1>2, <1>3 DEF Shape
<1>5. \A q \in Requests \ {r} : req'[q].pc # "clear"
    BY <1>1, <1>3 DEF LockInv
<1>6. LockInv'
    <2>1. poll'.pc = "idle"
        BY <1>1, ClientsAssumption DEF LockInv, Threads
    <2>2. \A q \in Requests : req'[q].pc # "clear"
        BY <1>3, <1>5
    <2>3. \A q \in Requests : req'[q].pc \in {"idle", "take"} => req'[q].once = None
        BY <1>3 DEF LockInv
    <2> QED
        BY <2>1, <2>2, <2>3 DEF LockInv
<1>7. /\ \A q \in Requests \ {r} : Carries(q)' => Carries(q)
      /\ \A q \in Requests : req'[q].once = req[q].once
    BY <1>3 DEF Carries
<1>8. \A k \in Macs : clients'[k].once = None
                      \/ (k # m /\ clients'[k].once = clients[k].once)
    BY <1>2
<1>9. \A q \in Requests \ {r} : Carries(q) => req[q].once # a
    BY <1>0, <1>1 DEF OnePlace
<1>10. \A k \in Macs : clients'[k].once # a
    BY <1>0, <1>1, <1>8 DEF OnePlace
<1> HIDE DEF m, a
<1>11. OnePlace'
    <2>1. \A k, n \in Macs :
            clients'[k].once # None /\ clients'[k].once = clients'[n].once => k = n
        BY <1>8 DEF OnePlace
    <2>2. \A k \in Macs, q \in Requests :
            Carries(q)' => clients'[k].once # req'[q].once
        <3> SUFFICES ASSUME NEW k \in Macs, NEW q \in Requests, Carries(q)'
                     PROVE  clients'[k].once # req'[q].once
            OBVIOUS
        <3>1. CASE q = r
            BY <1>3, <1>10, <3>1
        <3>2. CASE q # r
            <4>1. Carries(q) /\ req'[q].once = req[q].once /\ req[q].once # None
                BY <1>7, <3>2 DEF Carries
            <4> QED
                BY <1>8, <4>1 DEF OnePlace
        <3> QED
            BY <3>1, <3>2
    <2>3. \A p, q \in Requests :
            Carries(p)' /\ Carries(q)' /\ req'[p].once = req'[q].once => p = q
        BY <1>3, <1>7, <1>9 DEF OnePlace, a
    <2>4. ASSUME NEW b \in Arms, given'[b] # 0
          PROVE  /\ given'[b] = 1
                 /\ \A k \in Macs : clients'[k].once # b
                 /\ \A q \in Requests : Carries(q)' => req'[q].once # b
        <3>1. given[b] # 0 /\ given'[b] = given[b] /\ b # None
            BY <1>1, <2>4 DEF Arms, None
        <3>2. b # a
            BY <1>0, <1>1, <3>1 DEF OnePlace
        <3>3. \A q \in Requests : Carries(q)' => req'[q].once # b
            BY <1>3, <1>7, <3>1, <3>2 DEF OnePlace
        <3> QED
            BY <1>8, <3>1, <3>3 DEF OnePlace
    <2> QED
        BY <2>1, <2>2, <2>3, <2>4 DEF OnePlace
<1>12. SetBefore'
    <2>1. None <= arms
        BY DEF Shape, None
    <2> QED
        BY <1>1, <1>7, <1>8, <2>1 DEF SetBefore
<1>13. Waiting'
    <2> SUFFICES ASSUME NEW q \in Requests, req'[q].pc # "idle", req'[q].pending # None,
                        req'[q].pending \notin taken' \cup dropped'
                 PROVE  \/ /\ req'[q].pc = "take"
                           /\ clients'[req'[q].mac].once = req'[q].pending
                        \/ req'[q].pc # "take" /\ req'[q].once = req'[q].pending
        BY DEF Waiting
    <2>1. CASE q = r
        <3>1. req[r].pending \notin taken \cup dropped
            BY <1>1, <1>3, <2>1
        <3>2. a = req[r].pending
            BY <1>1, <1>3, <2>1, <3>1 DEF Waiting, a
        <3> QED
            BY <1>3, <2>1, <3>2
    <2>2. CASE q # r
        <3>1. req'[q] = req[q] /\ req[q].pending \notin taken \cup dropped \cup {a}
            BY <1>1, <1>3, <2>2
        <3>2. CASE req[q].pc = "take"
            <4>1. clients[req[q].mac].once = req[q].pending
                BY <3>1, <3>2 DEF Waiting
            <4>2. req[q].mac # m /\ req[q].mac \in Macs
                BY <1>0, <1>1, <3>1, <4>1
            <4> QED
                BY <1>2, <3>1, <3>2, <4>1, <4>2
        <3>3. CASE req[q].pc # "take"
            BY <3>1, <3>3 DEF Waiting
        <3> QED
            BY <3>2, <3>3
    <2> QED
        BY <2>1, <2>2
<1> QED
    BY <1>4, <1>6, <1>11, <1>12, <1>13

(* The reply gives what the request carries, which is then nowhere else. *)
LEMMA ReplyKeeps ==
    ASSUME IInv, NEW r \in Requests, Reply(r) PROVE IInv'
<1> USE DEF IInv, lives, bounds
<1> DEFINE a == req[r].once
           Boot == [pc : Pcs, mac : Macs, once : Onces, pending : Onces]
<1>0. req \in [Requests -> Boot]
    BY DEF Shape
<1>1. /\ req[r].pc = "reply" /\ lock' = lock /\ poll' = poll /\ arms' = arms
      /\ clients' = clients /\ taken' = taken /\ dropped' = dropped
    BY DEF Reply
<1>2. /\ req' \in [Requests -> Boot]
      /\ req'[r].pc = "idle" /\ req'[r].once = None
      /\ \A q \in Requests \ {r} : req'[q] = req[q]
    BY <1>0, NoBootType DEF Reply
<1>3. a \in Onces
    BY <1>0
<1>4. /\ given' \in [Arms -> Nat]
      /\ \A b \in Arms : b # a => given'[b] = given[b]
      /\ a # None => given'[a] = given[a] + 1
    BY <1>3 DEF Reply, Shape, Onces
<1>5. a # None => a \in Arms /\ Carries(r) /\ given[a] = 0
    <2> SUFFICES ASSUME a # None PROVE a \in Arms /\ Carries(r) /\ given[a] = 0
        OBVIOUS
    <2>1. a \in Arms /\ Carries(r)
        BY <1>1, <1>3 DEF Onces, Carries
    <2> QED
        BY <2>1 DEF OnePlace
<1>6. \A q \in Requests : Carries(q)' => q # r /\ Carries(q) /\ req'[q].once = req[q].once
    BY <1>2 DEF Carries
<1>7. \A q \in Requests : q # r /\ Carries(q) /\ a # None => req[q].once # a
    BY <1>5 DEF OnePlace
<1>8. \A k \in Macs : a # None => clients[k].once # a
    BY <1>5 DEF OnePlace
<1>s. a <= arms
    BY DEF SetBefore
<1> HIDE DEF a
<1>9. Shape'
    BY <1>1, <1>2, <1>4 DEF Shape
<1>10. LockInv'
    BY <1>1, <1>2 DEF LockInv
<1>11. OnePlace'
    <2>1. \A k \in Macs, q \in Requests :
            Carries(q)' => clients'[k].once # req'[q].once
        BY <1>1, <1>6 DEF OnePlace
    <2>2. \A p, q \in Requests :
            Carries(p)' /\ Carries(q)' /\ req'[p].once = req'[q].once => p = q
        BY <1>6 DEF OnePlace
    <2>3. ASSUME NEW b \in Arms, given'[b] # 0
          PROVE  /\ given'[b] = 1
                 /\ \A k \in Macs : clients'[k].once # b
                 /\ \A q \in Requests : Carries(q)' => req'[q].once # b
        <3>0. b # None
            BY DEF Arms, None
        <3>1. CASE b = a
            <4>1. given'[b] = 1
                BY <1>4, <1>5, <3>0, <3>1
            <4> QED
                BY <1>1, <1>6, <1>7, <1>8, <3>0, <3>1, <4>1
        <3>2. CASE b # a
            BY <1>1, <1>4, <1>6, <2>3, <3>2 DEF OnePlace
        <3> QED
            BY <3>1, <3>2
    <2>4. \A k, n \in Macs :
            clients'[k].once # None /\ clients'[k].once = clients'[n].once => k = n
        BY <1>1 DEF OnePlace
    <2> QED
        BY <2>1, <2>2, <2>3, <2>4 DEF OnePlace
<1>12. SetBefore'
    <2>1. None <= arms
        BY DEF Shape, None
    <2>2. \A b \in Arms : b > arms => given'[b] = 0
        <3> SUFFICES ASSUME NEW b \in Arms, b > arms PROVE given'[b] = 0
            OBVIOUS
        <3>1. b # a
            BY <1>s, <1>3 DEF Shape, Arms, Onces, None
        <3> QED
            BY <1>4, <3>1 DEF SetBefore
    <2> QED
        BY <1>1, <1>2, <2>1, <2>2 DEF SetBefore
<1>13. Waiting'
    BY <1>1, <1>2 DEF Waiting
<1> QED
    BY <1>9, <1>10, <1>11, <1>12, <1>13

(* A boot_once is set: it is a new one, and the one it replaces is noted. *)
LEMMA ArmKeeps == ASSUME IInv, NEW m \in Macs, Arm(m) PROVE IInv'
<1> USE DEF IInv, lives
<1> DEFINE a == arms + 1
<1>0. /\ req' = req /\ lock = Nobody /\ lock' = lock /\ poll' = poll
      /\ given' = given /\ taken' = taken /\ arms' = a
      /\ dropped' = dropped \cup ({clients[m].once} \ {None})
    BY DEF Arm
<1>1. a \in Arms /\ a \in 0..MaxArms /\ arms \in Nat /\ a # None /\ ~(a <= arms)
    BY ClientsAssumption DEF Arm, Shape, Arms, None
<1>2. /\ ClientOK(clients'[m]) /\ clients'[m].once = a
      /\ \A k \in Macs \ {m} : clients'[k] = clients[k]
      /\ DOMAIN clients' = Macs
    <2> DEFINE c == clients[m]
    <2> HIDE DEF a
    <2>1. ClientOK(c) /\ c.known
        BY DEF Shape, Arm
    <2>2. /\ ClientOK([c EXCEPT !.once = a])
          /\ [c EXCEPT !.once = a].once = a
        BY <1>1, <2>1 DEF ClientOK, Onces
    <2>3. clients' = [clients EXCEPT ![m].once = a]
        BY DEF Arm, a
    <2> QED
        BY <2>2, <2>3 DEF Shape
<1>3. /\ \A k \in Macs : clients[k].once # a
      /\ \A r \in Requests : req[r].once # a
      /\ given[a] = 0
    <2>1. a > arms
        BY <1>1
    <2> QED
        BY <1>1, <2>1 DEF SetBefore
<1>w. \A x \in Onces : x <= arms => x <= a
    BY <1>1 DEF Onces, Arms, None
<1>x. \A b \in Arms : b > a => b > arms
    BY <1>1 DEF Arms
<1>y. a <= a
    BY <1>1
<1> HIDE DEF a
<1>4. Shape'
    BY <1>0, <1>1, <1>2 DEF Shape
<1>5. LockInv'
    <2>1. \A r \in Requests : req[r].pc # "clear"
        BY <1>0, ClientsAssumption DEF LockInv, Threads
    <2> QED
        BY <1>0, <2>1 DEF LockInv
<1>6. OnePlace'
    <2>1. \A k \in Macs : (clients'[k].once = a /\ k = m)
                          \/ (k # m /\ clients'[k].once = clients[k].once)
        BY <1>2
    <2>2. \A r \in Requests : Carries(r)' <=> Carries(r)
        BY <1>0 DEF Carries
    <2>3. \A k, n \in Macs :
            clients'[k].once # None /\ clients'[k].once = clients'[n].once => k = n
        BY <1>3, <2>1 DEF OnePlace
    <2>4. \A k \in Macs, r \in Requests :
            Carries(r)' => clients'[k].once # req'[r].once
        BY <1>0, <1>3, <2>1, <2>2 DEF OnePlace
    <2>5. ASSUME NEW b \in Arms, given'[b] # 0
          PROVE  /\ given'[b] = 1
                 /\ \A k \in Macs : clients'[k].once # b
                 /\ \A r \in Requests : Carries(r)' => req'[r].once # b
        <3>1. b # a
            BY <1>0, <1>3, <2>5
        <3> QED
            BY <1>0, <2>1, <2>2, <2>5, <3>1 DEF OnePlace
    <2>6. \A r, q \in Requests :
            Carries(r)' /\ Carries(q)' /\ req'[r].once = req'[q].once => r = q
        BY <1>0, <2>2 DEF OnePlace
    <2> QED
        BY <2>3, <2>4, <2>5, <2>6 DEF OnePlace
<1>7. SetBefore'
    <2>1. \A k \in Macs : clients'[k].once <= arms'
        BY <1>0, <1>2, <1>w, <1>y DEF SetBefore, Shape, ClientOK
    <2>2. \A r \in Requests : req'[r].once <= arms'
        BY <1>0, <1>w DEF SetBefore, Shape
    <2>3. \A b \in Arms : b > arms' => given'[b] = 0
        BY <1>0, <1>x DEF SetBefore
    <2> QED
        BY <2>1, <2>2, <2>3 DEF SetBefore
<1>8. Waiting'
    <2> SUFFICES ASSUME NEW r \in Requests, req'[r].pc # "idle", req'[r].pending # None,
                        req'[r].pending \notin taken' \cup dropped'
                 PROVE  \/ /\ req'[r].pc = "take"
                           /\ clients'[req'[r].mac].once = req'[r].pending
                        \/ req'[r].pc # "take" /\ req'[r].once = req'[r].pending
        BY DEF Waiting
    <2>1. req'[r] = req[r] /\ req[r].mac \in Macs
        BY <1>0 DEF Shape
    <2>2. CASE req[r].pc = "take"
        <3>1. clients[req[r].mac].once = req[r].pending
            BY <1>0, <2>1, <2>2 DEF Waiting
        <3>2. req[r].mac # m
            BY <1>0, <2>1, <3>1
        <3> QED
            BY <1>2, <2>1, <2>2, <3>1, <3>2
    <2>3. CASE req[r].pc # "take"
        BY <1>0, <2>1, <2>3 DEF Waiting
    <2> QED
        BY <2>2, <2>3
<1> QED
    BY <1>4, <1>5, <1>6, <1>7, <1>8

-----------------------------------------------------------------------------
(* Every step keeps IInv. *)
LEMMA IInvStep == IInv /\ [Next]_vars => IInv'
<1> SUFFICES ASSUME IInv, [Next]_vars PROVE IInv'
    OBVIOUS
<1>1. CASE (\E m \in Macs : Log(m)) \/ Rotate
    BY <1>1, LogKeeps, LosesKeeps
<1>2. CASE Poll \/ PollFails
    BY <1>2, PollKeeps, LosesKeeps
<1>3. ASSUME NEW r \in Requests,
             (\E m \in Macs : AskMenu(r, m)) \/ Menu(r) \/ MenuFails(r)
      PROVE  IInv'
    BY <1>3, AskMenuKeeps, TakeReadKeeps, TakeClearKeeps, SeeKeeps, ReplyKeeps,
       FailuresKeep, LosesKeeps DEF Menu
<1>4. ASSUME NEW m \in Macs, AskEntry(m) \/ Arm(m) \/ Disarm(m) \/ Keep(m)
      PROVE  IInv'
    BY <1>4, AskEntryKeeps, ArmKeeps, UsersKeep, LosesKeeps
<1>5. CASE Crash
    BY <1>5, CrashKeeps, LosesKeeps
<1>6. CASE UNCHANGED vars
    <2>1. Quiet /\ poll' = poll /\ lock' = lock
        BY <1>6 DEF vars, onces, bounds, Quiet, IInv, Shape
    <2> QED
        BY <2>1, QuietLoses, LosesKeeps DEF IInv, LockInv
<1> QED
    BY <1>1, <1>2, <1>3, <1>4, <1>5, <1>6 DEF Next

(* IInv is an invariant of the specification. *)
LEMMA InductiveInvariant == Spec => []IInv
<1> QED
    BY InitIInv, IInvStep, PTL DEF Spec

(* However many requests, polls, edits, evictions and crashes there are,   *)
(* the menu gives a boot_once to one boot at most.                         *)
THEOREM GivenAtMostOnce == Spec => []GivenOnce
<1>1. IInv => GivenOnce
    <2> SUFFICES ASSUME IInv, NEW a \in Arms PROVE given[a] <= 1
        BY DEF GivenOnce
    <2>1. given[a] = 0 \/ given[a] = 1
        BY DEF IInv, OnePlace
    <2> QED
        BY <2>1
<1> QED
    BY <1>1, InductiveInvariant, PTL

(* A boot_once that waits for a PC when it asks is given to that boot, or  *)
(* somebody has taken or dropped it: no concurrent write loses it.         *)
THEOREM TheNextBootGetsIt == Spec => NextBootGetsIt
<1>1. IInv /\ [Next]_vars =>
        [ \A r \in Requests :
            req[r].pc = "reply" /\ req'[r].pc = "idle" /\ crashes' = crashes
              /\ req[r].pending # None /\ req[r].once # req[r].pending
            => req[r].pending \in taken \cup dropped ]_vars
    BY DEF IInv, Waiting
<1> QED
    BY <1>1, InductiveInvariant, PTL DEF Spec, NextBootGetsIt

-----------------------------------------------------------------------------
(* The lines of a piece of the log, applied one after the other.           *)

INSTANCE DataLemmas WITH Op <- ApplyLine

\* Where the first and the last line of some bytes end.
LEMMA NewLines ==
    ASSUME NEW T, NEW s \in Seq(T)
    PROVE  FirstNL(s) \in 0..Len(s) /\ LastNL(s) \in 0..Len(s)
<1> DEFINE I == {i \in 1..Len(s) : s[i] = NL}
<1>1. Len(s) \in Nat
    OBVIOUS
<1>2. /\ FirstNL(s) = IF I # {} THEN Min(I) ELSE 0
      /\ LastNL(s) = IF I # {} THEN Max(I) ELSE 0
    BY DEF FirstNL, LastNL, SelectInSeq, SelectLastInSeq
<1>3. \A i \in I : i \in 0..Len(s)
    BY <1>1
<1>4. I # {} => Min(I) \in I /\ Max(I) \in I
    BY <1>1, <1>3, FirstAndLast
<1> HIDE DEF I
<1> QED
    BY <1>1, <1>2, <1>3, <1>4

Acc == [counted : [Macs -> Nat], tally : [Macs -> Seq(Nat)]]

Apart(s) == \A i, j \in DOMAIN s : i < j => s[j] - s[i] >= Interval

\* No PC was counted after the last time it is said to be.
Tallied(acc) ==
    \A m \in Macs : /\ Apart(acc.tally[m])
                    /\ \A i \in DOMAIN acc.tally[m] : acc.tally[m][i] <= acc.counted[m]

InOrder(s) == \A i, j \in 1..Len(s) :
                i <= j /\ s[i] # NL /\ s[j] # NL => line[s[i]].at <= line[s[j]].at

LinesOK == line \in Seq([mac : Macs, at : Nat])

\* One byte: a PC is counted at the time of its line, or not at all, and if
\* the line is no earlier than the last count, not too soon after it.
LEMMA ApplyOne ==
    ASSUME LinesOK, NEW acc \in Acc, NEW b \in 0..Len(line), NEW r,
           r = ApplyLine(acc, b)
    PROVE  /\ r \in Acc
           /\ \A m \in Macs : r.counted[m] = acc.counted[m]
                              \/ (b # NL /\ r.counted[m] = line[b].at)
           /\ Tallied(acc) /\ (b # NL => \A m \in Macs : acc.counted[m] <= line[b].at)
              => Tallied(r)
<1>1. CASE r = acc
    BY <1>1
<1>2. CASE r # acc
    <2>1. b # NL /\ b \in 1..Len(line)
        BY <1>2 DEF ApplyLine, LinesOK, NL
    <2>l. line[b] \in [mac : Macs, at : Nat]
        <3>1. line \in Seq([mac : Macs, at : Nat])
            BY DEF LinesOK
        <3> QED
            BY <2>1, <3>1, ElementOfSeq
    <2>2. PICK w \in Macs : w = line[b].mac
        BY <2>l
    <2>3. PICK t \in Nat : t = line[b].at
        BY <2>l
    <2>4. /\ acc.counted \in [Macs -> Nat] /\ acc.tally \in [Macs -> Seq(Nat)]
          /\ acc.counted[w] \in Nat /\ acc.tally[w] \in Seq(Nat)
        BY DEF Acc
    <2>5. /\ t - acc.counted[w] >= Interval \/ t < acc.counted[w]
          /\ r = [counted |-> [acc.counted EXCEPT ![w] = t],
                  tally   |-> [acc.tally EXCEPT ![w] = Append(@, t)]]
        BY <1>2, <2>2, <2>3 DEF ApplyLine
    <2>6. PICK u \in Seq(Nat) : u = acc.tally[w]
        BY <2>4
    <2>7. /\ Append(u, t) \in Seq(Nat) /\ DOMAIN u = 1..Len(u) /\ Len(u) \in Nat
          /\ DOMAIN Append(u, t) = 1..Len(u) + 1
          /\ Append(u, t)[Len(u) + 1] = t
          /\ \A i \in 1..Len(u) : Append(u, t)[i] = u[i]
        OBVIOUS
    <2>8. /\ r.counted \in [Macs -> Nat] /\ r.tally \in [Macs -> Seq(Nat)]
          /\ r.counted[w] = t /\ r.tally[w] = Append(u, t)
          /\ \A m \in Macs : m # w => /\ r.counted[m] = acc.counted[m]
                                      /\ r.tally[m] = acc.tally[m]
        BY <2>4, <2>5, <2>6, <2>7
    <2>9. r \in Acc
        BY <2>5, <2>8 DEF Acc
    <2>10. ASSUME Tallied(acc), \A m \in Macs : acc.counted[m] <= line[b].at
           PROVE  Tallied(r)
        <3>1. t >= acc.counted[w] /\ t - acc.counted[w] >= Interval
            BY <2>3, <2>4, <2>5, <2>10
        <3>2. \A i \in 1..Len(u) : u[i] \in Nat /\ u[i] <= acc.counted[w]
            BY <2>6, <2>7, <2>10 DEF Tallied
        <3>3. Interval \in Nat
            BY ClientsAssumption
        <3>4. \A i \in 1..Len(u) : t - u[i] >= Interval /\ u[i] <= t
            BY <2>4, <3>1, <3>2, <3>3
        <3>5. Apart(u)
            BY <2>6, <2>10 DEF Tallied
        <3>6. Apart(Append(u, t))
            <4> SUFFICES ASSUME NEW i \in 1..Len(u) + 1, NEW j \in 1..Len(u) + 1, i < j
                         PROVE  Append(u, t)[j] - Append(u, t)[i] >= Interval
                BY <2>7 DEF Apart
            <4>1. i \in 1..Len(u)
                BY <2>7
            <4>2. CASE j = Len(u) + 1
                BY <2>7, <3>4, <4>1, <4>2
            <4>3. CASE j # Len(u) + 1
                <5>1. j \in 1..Len(u)
                    BY <2>7, <4>3
                <5> QED
                    BY <2>7, <3>5, <4>1, <5>1 DEF Apart
            <4> QED
                BY <4>2, <4>3
        <3>7. \A i \in 1..Len(u) + 1 : Append(u, t)[i] <= t
            <4> SUFFICES ASSUME NEW i \in 1..Len(u) + 1 PROVE Append(u, t)[i] <= t
                OBVIOUS
            <4>1. CASE i = Len(u) + 1
                BY <2>7, <4>1
            <4>2. CASE i # Len(u) + 1
                <5>1. i \in 1..Len(u)
                    BY <2>7, <4>2
                <5> QED
                    BY <2>7, <3>4, <5>1
            <4> QED
                BY <4>1, <4>2
        <3> SUFFICES ASSUME NEW m \in Macs
                     PROVE  /\ Apart(r.tally[m])
                            /\ \A i \in DOMAIN r.tally[m] : r.tally[m][i] <= r.counted[m]
            BY DEF Tallied
        <3>8. CASE m = w
            BY <2>7, <2>8, <3>6, <3>7, <3>8
        <3>9. CASE m # w
            BY <2>8, <2>10, <3>9 DEF Tallied
        <3> QED
            BY <3>8, <3>9
    <2> QED
        BY <2>1, <2>3, <2>8, <2>9, <2>10
<1> QED
    BY <1>1, <1>2

\* All the bytes, in the order of their times.
LEMMA AppliesAll ==
    ASSUME LinesOK, NEW acc \in Acc, NEW s \in Seq(0..Len(line)), NEW r,
           r = Folded(acc, s)
    PROVE  /\ r \in Acc
           /\ \A m \in Macs :
                \/ r.counted[m] = acc.counted[m]
                \/ \E j \in 1..Len(s) : s[j] # NL /\ r.counted[m] = line[s[j]].at
           /\ Tallied(acc) /\ InOrder(s)
              /\ (\A m \in Macs, j \in 1..Len(s) :
                    s[j] # NL => acc.counted[m] <= line[s[j]].at)
              => Tallied(r)
<1>1. PICK f : Steps(f, acc, s) /\ Folded(acc, s) = f[Len(s)]
    <2>1. PICK B : B = 0..Len(line)
        OBVIOUS
    <2>2. s \in Seq(B)
        BY <2>1
    <2> QED
        BY <2>2, FoldSteps
<1> DEFINE n == Len(s)
           From(k, m) == \/ f[k].counted[m] = acc.counted[m]
                         \/ \E j \in 1..k : s[j] # NL /\ f[k].counted[m] = line[s[j]].at
           Right == /\ Tallied(acc) /\ InOrder(s)
                    /\ \A m \in Macs, j \in 1..n :
                          s[j] # NL => acc.counted[m] <= line[s[j]].at
           U == {k \in Nat : /\ f[k] \in Acc
                             /\ \A m \in Macs : From(k, m)
                             /\ Right => Tallied(f[k])}
<1>2. n \in Nat
    OBVIOUS
<1>3. 0 \in U
    BY <1>1 DEF Steps
<1>4. ASSUME NEW k \in Nat, k < n, k \in U PROVE k + 1 \in U
    <2>k. k < n
        BY <1>4
    <2>1. k + 1 \in 1..n /\ k + 1 \in Nat /\ (k + 1) - 1 = k /\ k \in 0..n
        <3> HIDE DEF n
        <3> QED
            BY <1>2, <2>k
    <2>2. f[k + 1] = ApplyLine(f[k], s[k + 1])
        BY <1>1, <2>1 DEF Steps
    <2>3. s[k + 1] \in 0..Len(line)
        BY <2>1
    <2>4. f[k] \in Acc /\ (\A m \in Macs : From(k, m)) /\ (Right => Tallied(f[k]))
        BY <1>4
    <2>5. /\ f[k + 1] \in Acc
          /\ \A m \in Macs : f[k + 1].counted[m] = f[k].counted[m]
                             \/ (s[k + 1] # NL /\ f[k + 1].counted[m] = line[s[k + 1]].at)
          /\ Tallied(f[k]) /\ (s[k + 1] # NL => \A m \in Macs : f[k].counted[m] <= line[s[k + 1]].at)
              => Tallied(f[k + 1])
        <3> HIDE DEF U, Right, From, n
        <3>1. PICK g, h, e : g = f[k + 1] /\ h = f[k] /\ e = s[k + 1]
            OBVIOUS
        <3>2. h \in Acc /\ e \in 0..Len(line) /\ g = ApplyLine(h, e)
            BY <2>2, <2>3, <2>4, <3>1
        <3>3. /\ g \in Acc
              /\ \A m \in Macs : g.counted[m] = h.counted[m]
                                 \/ (e # NL /\ g.counted[m] = line[e].at)
              /\ Tallied(h) /\ (e # NL => \A m \in Macs : h.counted[m] <= line[e].at)
                  => Tallied(g)
            BY <3>2, ApplyOne
        <3> QED
            BY <3>1, <3>3
    <2>6. \A j \in 1..k : j \in 1..k + 1 /\ j \in 1..n /\ j <= k + 1
        BY <2>1
    <2>7. \A m \in Macs : From(k + 1, m)
        BY <2>1, <2>4, <2>5, <2>6
    <2>8. ASSUME Right PROVE Tallied(f[k + 1])
        <3>1. ASSUME NEW m \in Macs, s[k + 1] # NL
              PROVE  f[k].counted[m] <= line[s[k + 1]].at
            <4>1. CASE f[k].counted[m] = acc.counted[m]
                BY <2>1, <2>8, <3>1, <4>1
            <4>2. CASE \E j \in 1..k : s[j] # NL /\ f[k].counted[m] = line[s[j]].at
                BY <2>1, <2>6, <2>8, <3>1, <4>2 DEF InOrder
            <4> QED
                BY <2>4, <4>1, <4>2
        <3> QED
            BY <2>4, <2>5, <2>8, <3>1
    <2> QED
        BY <2>1, <2>5, <2>7, <2>8
<1>5. n \in U
    <2> HIDE DEF U, n
    <2>1. \A k \in 0..n : k \in U
        BY <1>2, <1>3, <1>4, UpTo
    <2> QED
        BY <1>2, <2>1
<1> HIDE DEF U
<1> QED
    BY <1>1, <1>5 DEF U

-----------------------------------------------------------------------------
(* The log: what is invariant about it.                                    *)

\* Every line that ends in the first n bytes was applied or left aside.
Covered(n) == \A i \in 1..n : log[i] \in applied \cup passed \cup {NL}

\* The shape of the log and of what poll keeps about it.
Typed ==
    /\ clock \in Nat /\ inode \in Nat \ {NoInode} /\ crashes \in Nat
    /\ cut \in BOOLEAN /\ outgrown \in BOOLEAN
    /\ LinesOK
    /\ log \in Seq(0..Len(line))
    /\ state \in [inode : 0..inode, offset : Nat, counted : [Macs -> Nat]]
    /\ poll \in [pc : {"idle", "read", "apply", "save"}, offset : Nat, inode : 0..inode,
                 chunk : Seq(0..Len(line)), counted : [Macs -> Nat]]
    /\ tally \in [Macs -> Seq(Nat)]
    /\ unsaved \in BOOLEAN

\* The lines are in the order of their times.
Times ==
    /\ \A k \in 1..Len(line) : line[k].at <= clock
    /\ InOrder(log)
    /\ poll.pc = "apply" => InOrder(poll.chunk)

\* How far the log was applied.
Pos == IF poll.pc = "save" THEN poll.offset + Len(poll.chunk)
       ELSE IF state.inode = inode /\ state.offset <= Len(log) THEN state.offset
       ELSE 0

\* What poll has in hand is of the log as it is.
Fresh ==
    /\ poll.inode = inode
    /\ poll.offset + Len(poll.chunk) <= Len(log)
    /\ poll.pc \in {"read", "apply"} => Pos <= poll.offset
    /\ poll.pc = "read" => /\ poll.chunk = <<>>
                           /\ state.inode # NoInode => Covered(poll.offset)
    /\ poll.pc = "apply" => /\ Covered(poll.offset)
                            /\ \A i \in 1..Len(poll.chunk) :
                                  poll.chunk[i] = log[poll.offset + i]
    /\ poll.pc = "save" => Covered(poll.offset + Len(poll.chunk))

\* What poll has moved past is applied, and a rotation will be noticed.
Followed ==
    ~outgrown =>
      /\ ~cut /\ state.inode = inode => state.offset <= Len(log)
      /\ state.inode = inode /\ state.offset <= Len(log) => Covered(state.offset)
      /\ poll.pc = "idle" \/ Fresh \/ (cut /\ log = <<>>)

\* The times of the counts so far.
Counts == IF poll.pc = "save" THEN poll.counted ELSE state.counted

\* What is still to be applied is not earlier than what was counted.
Counting ==
    crashes = 0 /\ ~unsaved /\ ~outgrown =>
      /\ poll.pc \in {"read", "apply"} => poll.counted = state.counted
      /\ Tallied([counted |-> Counts, tally |-> tally])
      /\ \A m \in Macs :
           /\ Counts[m] <= clock
           /\ \A i \in 1..Len(log) :
                i > Pos /\ log[i] # NL => Counts[m] <= line[log[i]].at
           /\ poll.pc = "apply" =>
                \A i \in 1..Len(poll.chunk) :
                  poll.chunk[i] # NL => Counts[m] <= line[poll.chunk[i]].at

\* The inductive invariant of the log.
LogInv == Typed /\ Times /\ Followed /\ Counting

\* It holds when dnsmasq has logged nothing yet.
LEMMA InitLogInv == Init => LogInv
<1> SUFFICES ASSUME Init PROVE LogInv
    OBVIOUS
<1> USE ClientsAssumption DEF Init
<1>1. /\ log = <<>> /\ line = <<>> /\ Len(log) = 0 /\ Len(line) = 0
      /\ inode = 1 /\ ~cut /\ ~outgrown /\ poll.pc = "idle" /\ state.offset = 0
      /\ \A m \in Macs : state.counted[m] = 0 /\ tally[m] = <<>>
    BY DEF Idle
<1>2. Typed
    <2>1. Idle \in [pc : {"idle", "read", "apply", "save"}, offset : Nat, inode : 0..inode,
                    chunk : Seq(0..Len(line)), counted : [Macs -> Nat]]
        BY <1>1 DEF Idle, NoInode
    <2>2. line \in Seq([mac : Macs, at : Nat]) /\ log \in Seq(0..Len(line))
        BY <1>1
    <2>3. state \in [inode : 0..inode, offset : Nat, counted : [Macs -> Nat]]
        BY <1>1 DEF NoInode
    <2>4. tally \in [Macs -> Seq(Nat)]
        <3>1. <<>> \in Seq(Nat)
            OBVIOUS
        <3> QED
            BY <3>1
    <2>5. clock \in Nat /\ inode \in Nat \ {NoInode} /\ crashes \in Nat
        BY <1>1 DEF NoInode
    <2>6. poll = Idle
        OBVIOUS
    <2> QED
        BY <1>1, <2>1, <2>2, <2>3, <2>4, <2>5, <2>6 DEF Typed, LinesOK
<1>3. Times
    BY <1>1 DEF Times, InOrder
<1>4. Followed
    BY <1>1 DEF Followed, Covered
<1>5. Counting
    <2>1. \A m \in Macs : Counts[m] = 0
        BY <1>1 DEF Counts
    <2>2. Tallied([counted |-> Counts, tally |-> tally])
        BY <1>1 DEF Tallied, Apart
    <2> QED
        BY <1>1, <2>1, <2>2 DEF Counting
<1> QED
    BY <1>2, <1>3, <1>4, <1>5 DEF LogInv

\* What poll finds when it reads.
LEMMA ReadBytes ==
    ASSUME Typed, PollRead
    PROVE  \E off \in Nat, c \in Seq(0..Len(line)) :
             /\ off >= poll.offset
             /\ state.inode # NoInode \/ log = <<>> => off = poll.offset
             /\ log = <<>> => c = <<>>
             /\ poll.offset <= Len(log) => off + Len(c) <= Len(log)
             /\ \A i \in 1..Len(c) : off + i \in 1..Len(log) /\ c[i] = log[off + i]
             /\ IF state.inode = NoInode
                THEN off <= Len(log) => \A i \in 1..off : log[i] \in passed' \cup {NL}
                ELSE passed' = passed
             /\ \/ c = <<>> /\ SaveState(poll.inode, off, state.counted)
                \/ /\ poll' = [poll EXCEPT !.pc = "apply", !.offset = off, !.chunk = c]
                   /\ UNCHANGED <<state, cut>>
<1> DEFINE B == 0..Len(line)
           last == IF poll.offset + MaxRead < Len(log)
                   THEN poll.offset + MaxRead ELSE Len(log)
<1>1. /\ log \in Seq(B) /\ Len(log) \in Nat /\ poll.offset \in Nat
      /\ MaxRead \in Nat /\ last \in Nat /\ last <= Len(log)
    BY SMTT(30), ClientsAssumption DEF Typed
<1>2. PICK data : data = SubSeq(log, poll.offset + 1, last)
    OBVIOUS
<1>3. PICK skip : skip = IF state.inode = NoInode /\ poll.offset > 0
                         THEN FirstNL(data) ELSE 0
    OBVIOUS
<1>4. PICK rest : rest = SubSeq(data, skip + 1, Len(data))
    OBVIOUS
<1>5. PICK off : off = poll.offset + skip
    OBVIOUS
<1>6. PICK k : k = LastNL(rest)
    OBVIOUS
<1>7. PICK c : c = SubSeq(rest, 1, k)
    OBVIOUS
<1>8. /\ passed' = IF state.inode = NoInode
                   THEN {log[i] : i \in 1..(IF off < Len(log) THEN off
                                            ELSE Len(log))} \ {NL}
                   ELSE passed
      /\ IF k = 0
         THEN SaveState(poll.inode, off, state.counted)
         ELSE /\ poll' = [poll EXCEPT !.pc = "apply", !.offset = off, !.chunk = c]
              /\ UNCHANGED <<state, cut>>
    BY <1>2, <1>3, <1>4, <1>5, <1>6, <1>7 DEF PollRead
<1> HIDE DEF last
<1>9. /\ data \in Seq(B) /\ Len(data) \in Nat
      /\ Len(data) = IF poll.offset + 1 <= last THEN last - poll.offset ELSE 0
      /\ \A i \in 1..Len(data) : poll.offset + i \in 1..Len(log)
                                 /\ data[i] = log[poll.offset + i]
    <2>1. \A i \in (poll.offset + 1)..last : log[i] \in B
        BY <1>1
    <2>2. poll.offset + 1 \in Int /\ last \in Int
        BY <1>1
    <2> HIDE DEF B
    <2>3. /\ data \in Seq(B)
          /\ Len(data) = IF poll.offset + 1 <= last THEN last - (poll.offset + 1) + 1 ELSE 0
          /\ \A i \in 1..last - (poll.offset + 1) + 1 :
                data[i] = log[(poll.offset + 1) + i - 1]
        BY <1>2, <2>1, <2>2, SubSeqProperties
    <2>4. last - (poll.offset + 1) + 1 = last - poll.offset
        BY <1>1
    <2>5. ASSUME NEW i \in 1..Len(data)
          PROVE  poll.offset + i \in 1..Len(log) /\ data[i] = log[poll.offset + i]
        <3>1. poll.offset + 1 <= last /\ i \in 1..last - poll.offset
            BY <1>1, <2>3, <2>4
        <3>2. (poll.offset + 1) + i - 1 = poll.offset + i /\ i \in Int
            BY <1>1, <3>1
        <3>3. poll.offset + i \in 1..Len(log)
            BY <1>1, <3>1
        <3>4. data[i] = log[(poll.offset + 1) + i - 1]
            BY <2>3, <2>4, <3>1
        <3> QED
            BY <3>2, <3>3, <3>4
    <2> QED
        BY <1>1, <2>3, <2>4, <2>5
<1>10. skip \in 0..Len(data)
    BY <1>3, <1>9, NewLines
<1>11. /\ rest \in Seq(B) /\ Len(rest) = Len(data) - skip
       /\ \A i \in 1..Len(rest) : rest[i] = data[skip + i]
    <2>1. \A i \in (skip + 1)..Len(data) : data[i] \in B
        BY <1>9, <1>10
    <2>2. skip + 1 \in Int /\ Len(data) \in Int
        BY <1>9, <1>10
    <2> HIDE DEF B
    <2>3. /\ rest \in Seq(B)
          /\ Len(rest) = IF skip + 1 <= Len(data) THEN Len(data) - (skip + 1) + 1 ELSE 0
          /\ \A i \in 1..Len(data) - (skip + 1) + 1 : rest[i] = data[(skip + 1) + i - 1]
        BY <1>4, <2>1, <2>2, SubSeqProperties
    <2>4. Len(data) - (skip + 1) + 1 = Len(data) - skip
        BY <1>9, <1>10
    <2>5. Len(rest) = Len(data) - skip
        BY <1>9, <1>10, <2>3
    <2>6. ASSUME NEW i \in 1..Len(rest) PROVE rest[i] = data[skip + i]
        <3>1. (skip + 1) + i - 1 = skip + i
            BY <1>10
        <3> QED
            BY <2>3, <2>4, <2>5, <3>1
    <2> QED
        BY <2>3, <2>5, <2>6
<1>12. k \in 0..Len(rest)
    BY <1>6, <1>11, NewLines
<1>13. /\ c \in Seq(B) /\ Len(c) = k
       /\ \A i \in 1..Len(c) : c[i] = rest[i]
    <2>0. k \in Nat /\ Len(rest) \in Nat /\ k <= Len(rest)
        BY <1>9, <1>10, <1>11, <1>12
    <2>1. k \in Nat /\ \A i \in 1..k : rest[i] \in B
        BY <1>11, <2>0
    <2>2. 1 \in Int /\ k \in Int
        BY <2>1
    <2> HIDE DEF B
    <2>3. /\ c \in Seq(B)
          /\ Len(c) = IF 1 <= k THEN k - 1 + 1 ELSE 0
          /\ \A i \in 1..k - 1 + 1 : c[i] = rest[1 + i - 1]
        BY <1>7, <2>1, <2>2, SubSeqProperties
    <2>4. k - 1 + 1 = k /\ Len(c) = k
        BY <2>1, <2>3
    <2>5. ASSUME NEW i \in 1..Len(c) PROVE c[i] = rest[i]
        <3>1. 1 + i - 1 = i
            BY <2>1, <2>4
        <3> QED
            BY <2>3, <2>4, <3>1
    <2> QED
        BY <2>3, <2>4, <2>5
<1> HIDE DEF B
<1>14. off \in Nat /\ off >= poll.offset
    BY <1>1, <1>5, <1>9, <1>10
<1>15. state.inode # NoInode => off = poll.offset
    BY <1>1, <1>3, <1>5
<1>16. log = <<>> => off = poll.offset /\ c = <<>>
    <2> SUFFICES ASSUME log = <<>> PROVE off = poll.offset /\ c = <<>>
        OBVIOUS
    <2>1. Len(log) = 0
        OBVIOUS
    <2>2. Len(data) = 0
        BY <1>1, <1>9, <2>1
    <2>3. skip = 0 /\ k = 0
        BY <1>10, <1>11, <1>12, <2>2
    <2>4. c = <<>>
        BY <1>13, <2>3, EmptySeq
    <2> QED
        BY <1>1, <1>5, <2>3, <2>4
<1>17. poll.offset <= Len(log) => off + Len(c) <= Len(log)
    <2>1. PICK p, ll, d : p = poll.offset /\ ll = Len(log) /\ d = Len(data)
        OBVIOUS
    <2>2. /\ p \in Nat /\ ll \in Nat /\ d \in Nat /\ last \in Nat /\ last <= ll
          /\ d = IF p + 1 <= last THEN last - p ELSE 0
          /\ skip \in 0..d /\ off = p + skip
        BY <1>1, <1>5, <1>9, <1>10, <2>1
    <2>3. Len(c) \in Nat /\ Len(c) <= d - skip
        BY <1>9, <1>10, <1>11, <1>12, <1>13, <2>1
    <2>4. PICK lc : lc = Len(c)
        OBVIOUS
    <2>5. lc \in Nat /\ lc <= d - skip
        BY <2>3, <2>4
    <2>6. p <= ll => off + lc <= ll
        BY <2>2, <2>5
    <2> QED
        BY <2>1, <2>4, <2>6
<1>18. ASSUME NEW i \in 1..Len(c)
       PROVE  off + i \in 1..Len(log) /\ c[i] = log[off + i]
    <2>0. /\ Len(rest) \in Nat /\ Len(data) \in Nat /\ skip \in Nat /\ i \in Nat
          /\ 1 <= i /\ i <= k /\ k <= Len(rest) /\ Len(rest) = Len(data) - skip
        BY <1>9, <1>10, <1>11, <1>12, <1>13
    <2>1. i \in 1..Len(rest) /\ skip + i \in 1..Len(data) /\ i \in Nat /\ skip \in Nat
        BY <1>12, <2>0
    <2>2. poll.offset + (skip + i) = off + i
        BY <1>1, <1>5, <2>1
    <2> QED
        BY <1>9, <1>11, <1>13, <2>1, <2>2
<1>19. IF state.inode = NoInode
       THEN off <= Len(log) => \A i \in 1..off : log[i] \in passed' \cup {NL}
       ELSE passed' = passed
    <2>1. CASE state.inode = NoInode
        <3> SUFFICES ASSUME off <= Len(log), NEW i \in 1..off
                     PROVE  log[i] \in passed' \cup {NL}
            BY <2>1
        <3>1. i \in 1..(IF off < Len(log) THEN off ELSE Len(log))
            BY <1>1, <1>14
        <3> QED
            BY <1>8, <2>1, <3>1
    <2> QED
        BY <1>8, <2>1
<1>20. \/ c = <<>> /\ SaveState(poll.inode, off, state.counted)
       \/ /\ poll' = [poll EXCEPT !.pc = "apply", !.offset = off, !.chunk = c]
          /\ UNCHANGED <<state, cut>>
    <2>1. k = 0 => c = <<>>
        BY <1>13, EmptySeq
    <2> QED
        BY <1>8, <2>1
<1> QED
    BY <1>13, <1>14, <1>15, <1>16, <1>17, <1>18, <1>19, <1>20 DEF B

\* A sequence over fewer values is one over more.
LEMMA Widen ==
    ASSUME NEW S, NEW T, S \subseteq T, NEW s \in Seq(S)
    PROVE  s \in Seq(T)
  OBVIOUS

\* What the log has in common with the one before a line was added.
LEMMA LogBytes ==
    ASSUME Typed, NEW m \in Macs, Log(m)
    PROVE  \E t \in Nat :
             /\ t >= clock /\ clock' = t
             /\ line' = Append(line, [mac |-> m, at |-> t])
             /\ Len(line') = Len(line) + 1 /\ LinesOK'
             /\ \A k \in 1..Len(line) : line'[k] = line[k]
             /\ line'[Len(line')].at = t
             /\ log' \in Seq(0..Len(line')) /\ Len(log') = Len(log) + 2
             /\ \A i \in 1..Len(log) : log'[i] = log[i]
             /\ log'[Len(log) + 1] = Len(line') /\ log'[Len(log) + 2] = NL
<1>1. PICK t \in {clock, clock + Interval} :
        clock' = t /\ line' = Append(line, [mac |-> m, at |-> t])
    BY DEF Log
<1>2. t \in Nat /\ t >= clock
    BY ClientsAssumption DEF Typed
<1>3. line \in Seq([mac : Macs, at : Nat]) /\ Len(line) \in Nat
    BY DEF Typed, LinesOK
<1>4. [mac |-> m, at |-> t] \in [mac : Macs, at : Nat]
    BY <1>2
<1>5. /\ line' \in Seq([mac : Macs, at : Nat]) /\ Len(line') = Len(line) + 1
      /\ \A k \in 1..Len(line) : line'[k] = line[k]
      /\ line'[Len(line) + 1] = [mac |-> m, at |-> t]
    <2> HIDE <1>1
    <2>1. line' = Append(line, [mac |-> m, at |-> t])
        BY <1>1
    <2> QED
        BY <1>3, <1>4, <2>1, AppendProperties
<1>6. /\ log \in Seq(0..Len(line)) /\ Len(log) \in Nat
      /\ log' = log \o <<Len(line'), NL>>
    BY DEF Typed, Log
<1>7. log \in Seq(0..Len(line'))
    <2>1. 0..Len(line) \subseteq 0..Len(line')
        BY <1>3, <1>5
    <2> QED
        BY <1>6, <2>1, Widen
<1>8. <<Len(line'), NL>> \in Seq(0..Len(line')) /\ Len(<<Len(line'), NL>>) = 2
    BY <1>3, <1>5 DEF NL
<1>9. /\ log' \in Seq(0..Len(line')) /\ Len(log') = Len(log) + 2
      /\ \A i \in 1..Len(log) : log'[i] = log[i]
      /\ log'[Len(log) + 1] = Len(line') /\ log'[Len(log) + 2] = NL
    BY <1>6, <1>7, <1>8
<1> QED
    BY <1>1, <1>2, <1>3, <1>5, <1>9 DEF LinesOK

\* Another line does not change the order of those that are there.
LEMMA StillInOrder ==
    ASSUME Typed, NEW s \in Seq(0..Len(line)), InOrder(s),
           \A k \in 1..Len(line) : line'[k] = line[k]
    PROVE  \A i, j \in 1..Len(s) :
              i <= j /\ s[i] # NL /\ s[j] # NL => line'[s[i]].at <= line'[s[j]].at
<1>1. \A i \in 1..Len(s) : s[i] # NL => s[i] \in 1..Len(line)
    <2>1. Len(line) \in Nat
        BY DEF Typed, LinesOK
    <2>2. \A i \in 1..Len(s) : s[i] \in 0..Len(line)
        OBVIOUS
    <2> QED
        BY <2>1, <2>2 DEF NL
<1> QED
    BY <1>1 DEF InOrder

\* dnsmasq logs a line, which nobody has read and nothing is later than.
LEMMA LogStep == ASSUME LogInv, NEW m \in Macs, Log(m) PROVE LogInv'
<1> USE DEF LogInv
<1>1. PICK t \in Nat :
             /\ t >= clock /\ clock' = t
             /\ line' = Append(line, [mac |-> m, at |-> t])
             /\ Len(line') = Len(line) + 1 /\ LinesOK'
             /\ \A k \in 1..Len(line) : line'[k] = line[k]
             /\ line'[Len(line')].at = t
             /\ log' \in Seq(0..Len(line')) /\ Len(log') = Len(log) + 2
             /\ \A i \in 1..Len(log) : log'[i] = log[i]
             /\ log'[Len(log) + 1] = Len(line') /\ log'[Len(log) + 2] = NL
    BY LogBytes
<1>2. /\ state' = state /\ inode' = inode /\ cut' = cut /\ poll' = poll
      /\ applied' = applied /\ passed' = passed /\ tally' = tally
      /\ unsaved' = unsaved /\ crashes' = crashes
      /\ outgrown' = (outgrown \/ (cut /\ Unnoticed(Len(log'))))
    BY DEF Log, lives, bounds
<1>3. /\ Len(line) \in Nat /\ Len(log) \in Nat /\ log \in Seq(0..Len(line))
      /\ \A i \in 1..Len(log) : log[i] \in 0..Len(line)
      /\ clock \in Nat /\ LinesOK
      /\ state.offset \in Nat /\ state.inode \in 0..inode /\ inode \in Nat
      /\ state.counted \in [Macs -> Nat] /\ poll.counted \in [Macs -> Nat]
      /\ poll.offset \in Nat /\ poll.chunk \in Seq(0..Len(line)) /\ Len(poll.chunk) \in Nat
    <2>1. /\ line \in Seq([mac : Macs, at : Nat]) /\ log \in Seq(0..Len(line))
          /\ poll.chunk \in Seq(0..Len(line))
        BY DEF Typed, LinesOK
    <2>2. \A i \in 1..Len(log) : log[i] \in 0..Len(line)
        BY <2>1, ElementOfSeq
    <2>3. /\ clock \in Nat /\ LinesOK
          /\ state.offset \in Nat /\ state.inode \in 0..inode /\ inode \in Nat
          /\ state.counted \in [Macs -> Nat] /\ poll.counted \in [Macs -> Nat]
          /\ poll.offset \in Nat
        BY DEF Typed
    <2> QED
        BY <2>1, <2>2, <2>3
<1>l. /\ Len(line) \in Nat /\ Len(line') = Len(line) + 1 /\ Len(line') \in Nat
      /\ Len(log) \in Nat /\ Len(log') = Len(log) + 2 /\ Len(log') \in Nat
      /\ t \in Nat /\ clock \in Nat /\ clock <= t
    BY <1>1, <1>3
<1>4. \A k \in 1..Len(line) : line[k].at \in Nat
    <2> TAKE k \in 1..Len(line)
    <2>1. line[k] \in [mac : Macs, at : Nat]
        BY <1>3, ElementOfSeq DEF LinesOK
    <2> QED
        BY <2>1
<1>5. Typed'
    <2>1. poll.chunk \in Seq(0..Len(line'))
        <3>1. 0..Len(line) \subseteq 0..Len(line')
            BY <1>l
        <3> QED
            BY <1>3, <3>1, Widen
    <2>2. /\ poll' \in [pc : {"idle", "read", "apply", "save"}, offset : Nat,
                        inode : 0..inode', chunk : Seq(0..Len(line')),
                        counted : [Macs -> Nat]]
        BY <1>2, <2>1 DEF Typed
    <2>3. outgrown' \in BOOLEAN
        BY <1>2 DEF Typed, Unnoticed
    <2> QED
        BY <1>1, <1>2, <2>2, <2>3 DEF Typed
<1>6. \A i \in 1..Len(log') : i \in 1..Len(log) \/ i = Len(log) + 1 \/ i = Len(log) + 2
    BY <1>l
<1>7. \A k \in 1..Len(line) : line'[k].at <= t
    <2> TAKE k \in 1..Len(line)
    <2>1. line'[k].at = line[k].at /\ line[k].at \in Nat
        BY <1>1, <1>4
    <2>2. line[k].at <= clock
        BY DEF Times
    <2> QED
        BY <1>l, <2>1, <2>2
<1>8. \A i \in 1..Len(log') : log'[i] # NL => line'[log'[i]].at <= t
    <2>1. \A i \in 1..Len(log) : log[i] # NL => log[i] \in 1..Len(line)
        BY <1>3 DEF NL
    <2> TAKE i \in 1..Len(log')
    <2>2. CASE i \in 1..Len(log)
        <3>1. log'[i] = log[i]
            BY <1>1, <2>2
        <3> QED
            BY <1>7, <2>1, <2>2, <3>1
    <2>3. CASE i = Len(log) + 1
        <3>1. line'[log'[i]].at = t
            BY <1>1, <2>3
        <3> QED
            BY <1>l, <3>1
    <2>4. CASE i = Len(log) + 2
        BY <1>1, <2>4
    <2> QED
        BY <1>6, <2>2, <2>3, <2>4
<1>9. Times'
    <2>1. \A k \in 1..Len(line') : line'[k].at <= clock'
        <3>1. \A k \in 1..Len(line') : k \in 1..Len(line) \/ k = Len(line')
            BY <1>1, <1>3
        <3> QED
            BY <1>1, <1>7, <3>1
    <2>2. InOrder(log)'
        <3> SUFFICES ASSUME NEW i \in 1..Len(log'), NEW j \in 1..Len(log'), i <= j,
                            log'[i] # NL, log'[j] # NL
                     PROVE  line'[log'[i]].at <= line'[log'[j]].at
            BY DEF InOrder
        <3>1. CASE j \in 1..Len(log)
            <4>1. i \in 1..Len(log)
                BY <1>3, <3>1
            <4>2. line'[log[i]].at <= line'[log[j]].at
                BY <1>1, <1>3, <3>1, <4>1, StillInOrder DEF Times
            <4> QED
                BY <1>1, <3>1, <4>1, <4>2
        <3>2. CASE j = Len(log) + 1
            BY <1>1, <1>8, <3>2
        <3>3. CASE j = Len(log) + 2
            BY <1>1, <3>3
        <3> QED
            BY <1>6, <3>1, <3>2, <3>3
    <2>3. poll'.pc = "apply" => InOrder(poll.chunk)'
        BY <1>1, <1>2, <1>3, StillInOrder DEF Times, InOrder
    <2> QED
        BY <1>2, <2>1, <2>2, <2>3 DEF Times
<1>10. \A n \in Nat : Covered(n) /\ n <= Len(log) =>
                      \A i \in 1..n : log'[i] \in applied \cup passed \cup {NL}
    <2> SUFFICES ASSUME NEW n \in Nat, Covered(n), n <= Len(log), NEW i \in 1..n
                 PROVE  log'[i] \in applied \cup passed \cup {NL}
        OBVIOUS
    <2>1. i \in 1..Len(log)
        BY <1>l
    <2>2. log'[i] = log[i]
        BY <1>1, <2>1
    <2> QED
        BY <2>2 DEF Covered
<1>11. ASSUME ~outgrown'
       PROVE  /\ ~outgrown /\ (cut => ~Unnoticed(Len(log')))
              /\ state.inode = inode /\ state.offset <= Len(log')
                 => state.offset <= Len(log) \/ state.offset = 0
    <2>1. ~outgrown /\ (cut => ~Unnoticed(Len(log')))
        BY <1>2, <1>11
    <2>2. CASE cut
        BY <1>1, <1>3, <2>1, <2>2 DEF Unnoticed
    <2>3. CASE ~cut
        BY <2>1, <2>3 DEF Followed
    <2> QED
        BY <2>1, <2>2, <2>3
<1>12. Followed'
    <2> SUFFICES ASSUME ~outgrown'
                 PROVE  /\ ~cut /\ state.inode = inode => state.offset <= Len(log')
                        /\ state.inode = inode /\ state.offset <= Len(log')
                             => \A i \in 1..state.offset :
                                  log'[i] \in applied \cup passed \cup {NL}
                        /\ poll.pc = "idle" \/ Fresh'
        BY <1>2 DEF Followed, Covered
    <2>1. ~cut /\ state.inode = inode => state.offset <= Len(log')
        BY <1>1, <1>3, <1>11 DEF Followed
    <2>2. state.inode = inode /\ state.offset <= Len(log')
             => \A i \in 1..state.offset : log'[i] \in applied \cup passed \cup {NL}
        BY <1>3, <1>10, <1>11 DEF Followed
    <2>3. ASSUME poll.pc # "idle" PROVE Fresh'
        <3>1. ~cut
            BY <1>11, <2>3 DEF Unnoticed
        <3>2. Fresh
            BY <1>11, <2>3, <3>1 DEF Followed
        <3>3. /\ poll.inode = inode /\ poll.offset + Len(poll.chunk) <= Len(log')
              /\ poll.offset <= Len(log) /\ poll.offset + Len(poll.chunk) \in Nat
            <4>1. poll.inode = inode /\ poll.offset + Len(poll.chunk) <= Len(log)
                BY <3>2 DEF Fresh
            <4>2. poll.offset \in Nat /\ Len(poll.chunk) \in Nat
                BY <1>3
            <4> QED
                BY <1>l, <4>1, <4>2
        <3>4. poll.pc = "apply" => \A i \in 1..Len(poll.chunk) :
                                     poll.chunk[i] = log'[poll.offset + i]
            <4> SUFFICES ASSUME poll.pc = "apply", NEW i \in 1..Len(poll.chunk)
                         PROVE  poll.chunk[i] = log'[poll.offset + i]
                OBVIOUS
            <4>2. /\ poll.offset \in Nat /\ Len(poll.chunk) \in Nat
                  /\ poll.offset + Len(poll.chunk) <= Len(log)
                BY <1>3, <3>2 DEF Fresh
            <4>1. poll.offset + i \in 1..Len(log)
                BY <1>l, <4>2
            <4> QED
                BY <1>1, <3>2, <4>1 DEF Fresh
        <3>5. poll.pc \in {"read", "apply"} => Pos' <= poll.offset
            <4>1. /\ poll.pc # "save" =>
                       \/ Pos' = 0
                       \/ /\ state.inode = inode /\ state.offset <= Len(log)
                          /\ Pos' = Pos
                BY <1>1, <1>2, <1>11 DEF Pos
            <4> QED
                BY <1>3, <3>2, <4>1 DEF Fresh
        <3> QED
            BY <1>2, <1>3, <1>10, <3>2, <3>3, <3>4, <3>5 DEF Fresh, Covered
    <2> QED
        BY <2>1, <2>2, <2>3
<1>13. Counting'
    <2> SUFFICES ASSUME crashes = 0, ~unsaved, ~outgrown'
                 PROVE  /\ poll.pc \in {"read", "apply"} => poll.counted = state.counted
                        /\ Tallied([counted |-> Counts, tally |-> tally])
                        /\ \A w \in Macs :
                             /\ Counts[w] <= t
                             /\ \A i \in 1..Len(log') :
                                  i > Pos' /\ log'[i] # NL => Counts[w] <= line'[log'[i]].at
                             /\ poll.pc = "apply" =>
                                  \A i \in 1..Len(poll.chunk) :
                                    poll.chunk[i] # NL
                                      => Counts[w] <= line'[poll.chunk[i]].at
        BY <1>1, <1>2 DEF Counting, Counts, Tallied
    <2>1. ~outgrown
        BY <1>11
    <2>2. Counts \in [Macs -> Nat]
        BY <1>3 DEF Counts
    <2>3. \A w \in Macs : Counts[w] <= t
        BY <1>1, <1>3, <2>1, <2>2 DEF Counting
    <2>4. Pos' = Pos
        BY <1>1, <1>2, <1>3, <1>11 DEF Pos
    <2>5. ASSUME NEW w \in Macs, NEW i \in 1..Len(log'), i > Pos', log'[i] # NL
          PROVE  Counts[w] <= line'[log'[i]].at
        <3>1. CASE i \in 1..Len(log)
            <4>2. log[i] = log'[i] /\ log[i] # NL
                BY <1>1, <2>5, <3>1
            <4>3. log[i] \in 0..Len(line)
                BY <1>3, <3>1
            <4>1. log[i] \in 1..Len(line)
                BY <1>l, <4>2, <4>3 DEF NL
            <4> QED
                BY <1>1, <2>1, <2>4, <2>5, <3>1, <4>1 DEF Counting
        <3>2. CASE i = Len(log) + 1
            BY <1>1, <2>3, <3>2
        <3> QED
            BY <1>1, <1>6, <2>5, <3>1, <3>2
    <2>6. ASSUME poll.pc = "apply", NEW w \in Macs, NEW i \in 1..Len(poll.chunk),
                 poll.chunk[i] # NL
          PROVE  Counts[w] <= line'[poll.chunk[i]].at
        <3>1. poll.chunk[i] \in 1..Len(line)
            <4>1. poll.chunk[i] \in 0..Len(line)
                BY <1>3, ElementOfSeq
            <4> QED
                BY <1>l, <2>6, <4>1 DEF NL
        <3> QED
            BY <1>1, <2>1, <2>6, <3>1 DEF Counting
    <2> QED
        BY <2>1, <2>3, <2>5, <2>6 DEF Counting
<1> QED
    BY <1>5, <1>9, <1>12, <1>13

\* The kinds of the variables, as far as the steps of poll need them.
LEMMA LogTypes ==
    ASSUME Typed
    PROVE  /\ line \in Seq([mac : Macs, at : Nat]) /\ Len(line) \in Nat
           /\ log \in Seq(0..Len(line)) /\ Len(log) \in Nat
           /\ clock \in Nat /\ inode \in Nat /\ inode # NoInode
           /\ state.inode \in 0..inode /\ state.offset \in Nat
           /\ state.counted \in [Macs -> Nat]
           /\ poll.inode \in 0..inode /\ poll.offset \in Nat
           /\ poll.chunk \in Seq(0..Len(line)) /\ Len(poll.chunk) \in Nat
           /\ poll.counted \in [Macs -> Nat]
           /\ poll.pc \in {"idle", "read", "apply", "save"}
           /\ Counts \in [Macs -> Nat]
<1>1. /\ line \in Seq([mac : Macs, at : Nat]) /\ log \in Seq(0..Len(line))
      /\ poll.chunk \in Seq(0..Len(line))
    BY DEF Typed, LinesOK
<1>2. /\ clock \in Nat /\ inode \in Nat /\ inode # NoInode
      /\ state.inode \in 0..inode /\ state.offset \in Nat
      /\ state.counted \in [Macs -> Nat]
      /\ poll.inode \in 0..inode /\ poll.offset \in Nat
      /\ poll.counted \in [Macs -> Nat]
      /\ poll.pc \in {"idle", "read", "apply", "save"}
    BY DEF Typed
<1> QED
    BY <1>1, <1>2 DEF Counts

\* The offset poll starts from is in the log, and nothing before it is owed.
LEMMA StartsRight ==
    ASSUME Typed
    PROVE  /\ StartOffset \in Nat /\ StartOffset <= Len(log)
           /\ poll.pc = "idle" => Pos <= StartOffset
           /\ \/ state.inode = NoInode \/ StartOffset = 0
              \/ /\ state.inode = inode /\ state.offset <= Len(log)
                 /\ StartOffset = state.offset
           /\ StartOffset >= Len(log) =>
                \/ StartOffset = 0
                \/ /\ state.inode = inode /\ state.offset <= Len(log)
                   /\ StartOffset = state.offset
<1>1. Tail1 \in Nat /\ Tail1 # 0
    BY ClientsAssumption
<1>2. /\ Len(log) \in Nat /\ inode \in Nat /\ inode # NoInode
      /\ state.inode \in 0..inode /\ state.offset \in Nat
    BY LogTypes
<1>3. CASE state.inode = NoInode
    <2>1. StartOffset = IF Len(log) > Tail1 THEN Len(log) - Tail1 ELSE 0
        BY <1>2, <1>3 DEF StartOffset
    <2>2. poll.pc = "idle" => Pos = 0
        BY <1>2, <1>3 DEF Pos
    <2> QED
        BY <1>1, <1>2, <1>3, <2>1, <2>2
<1>4. CASE state.inode # NoInode
          /\ (state.inode # inode \/ Len(log) < state.offset)
    <2>1. StartOffset = 0
        BY <1>2, <1>4 DEF StartOffset
    <2>2. poll.pc = "idle" => Pos = 0
        BY <1>2, <1>4 DEF Pos
    <2> QED
        BY <1>2, <2>1, <2>2
<1>5. CASE state.inode # NoInode /\ state.inode = inode /\ ~(Len(log) < state.offset)
    <2>1. StartOffset = state.offset
        BY <1>2, <1>5 DEF StartOffset
    <2>2. poll.pc = "idle" => Pos = state.offset
        BY <1>2, <1>5 DEF Pos
    <2> QED
        BY <1>2, <1>5, <2>1, <2>2
<1> QED
    BY <1>3, <1>4, <1>5

\* A rotated log has no bytes left to be wrong about.
LEMMA RotateStep == ASSUME LogInv, Rotate PROVE LogInv'
<1> USE DEF LogInv
<1>1. /\ state' = state /\ line' = line /\ clock' = clock /\ poll' = poll
      /\ outgrown' = outgrown /\ applied' = applied /\ passed' = passed
      /\ tally' = tally /\ unsaved' = unsaved /\ crashes' = crashes
      /\ log' = <<>> /\ cut' = TRUE /\ inode' \in {inode, inode + 1}
    BY DEF Rotate, lives, bounds
<1>2. Len(log') = 0
    BY <1>1
<1>3. inode \in Nat /\ inode' \in Nat /\ inode' # NoInode /\ inode <= inode'
    BY <1>1, LogTypes DEF NoInode
<1>4. Typed'
    <2>1. 0..inode \subseteq 0..inode'
        BY <1>3
    <2>2. /\ state' \in [inode : 0..inode', offset : Nat, counted : [Macs -> Nat]]
          /\ poll' \in [pc : {"idle", "read", "apply", "save"}, offset : Nat,
                        inode : 0..inode', chunk : Seq(0..Len(line')),
                        counted : [Macs -> Nat]]
        BY <1>1, <2>1 DEF Typed
    <2>3. log' \in Seq(0..Len(line'))
        BY <1>1
    <2> QED
        BY <1>1, <1>3, <2>2, <2>3 DEF Typed, LinesOK
<1>5. Times'
    BY <1>1, <1>2 DEF Times, InOrder
<1>6. Followed'
    <2>1. state.offset \in Nat
        BY LogTypes
    <2> QED
        BY <1>1, <1>2, <2>1 DEF Followed, Covered
<1>7. Counting'
    BY <1>1, <1>2 DEF Counting, Counts, Tallied
<1> QED
    BY <1>4, <1>5, <1>6, <1>7

\* Saving keeps what is counted and is right about what is covered.
LEMMA SaveStep ==
    ASSUME LogInv, NEW ino \in 0..inode, NEW off \in Nat, NEW counted,
           counted = Counts, SaveState(ino, off, counted),
           log' = log, line' = line, clock' = clock, inode' = inode,
           outgrown' = outgrown, applied' = applied, tally' = tally, unsaved' = unsaved,
           crashes' = crashes,
           ~outgrown => \/ /\ ino = inode /\ off <= Len(log) /\ Pos <= off
                           /\ \A i \in 1..off : log[i] \in applied \cup passed' \cup {NL}
                        \/ cut /\ log = <<>>
    PROVE  LogInv'
<1> USE DEF LogInv
<1>1. /\ state' = [inode |-> ino, offset |-> off, counted |-> Counts]
      /\ cut' = (cut /\ (ino # inode \/ off > Len(log)))
      /\ poll' = Idle /\ poll'.pc = "idle"
    BY DEF SaveState, Idle
<1>2. /\ Len(log) \in Nat /\ inode \in Nat /\ Counts \in [Macs -> Nat]
      /\ clock \in Nat /\ Typed
    BY LogTypes
<1>3. Typed'
    <2>1. Idle \in [pc : {"idle", "read", "apply", "save"}, offset : Nat,
                    inode : 0..inode', chunk : Seq(0..Len(line')),
                    counted : [Macs -> Nat]]
        BY <1>2 DEF Idle, NoInode
    <2>2. cut' \in BOOLEAN
        BY <1>1 DEF Typed
    <2>3. state' \in [inode : 0..inode', offset : Nat, counted : [Macs -> Nat]]
        BY <1>1, <1>2
    <2> QED
        BY <1>1, <1>2, <2>1, <2>2, <2>3 DEF Typed, LinesOK
<1>4. Times'
    BY <1>1 DEF Times, InOrder
<1>5. Followed'
    <2> SUFFICES ASSUME ~outgrown
                 PROVE  /\ ~cut' /\ ino = inode => off <= Len(log)
                        /\ ino = inode /\ off <= Len(log) =>
                             \A i \in 1..off : log[i] \in applied \cup passed' \cup {NL}
        BY <1>1 DEF Followed, Covered
    <2>1. CASE cut /\ log = <<>>
        <3>1. Len(log) = 0
            BY <2>1
        <3>2. ~cut' => ~(ino # inode \/ off > Len(log))
            BY <1>1, <2>1
        <3>3. off <= Len(log) => off = 0
            BY <3>1
        <3>4. \A i \in 1..0 : FALSE
            OBVIOUS
        <3> QED
            BY <3>1, <3>2, <3>3, <3>4
    <2>2. CASE ~(cut /\ log = <<>>)
        BY <2>2
    <2> QED
        BY <2>1, <2>2
<1>6. Counting'
    <2> SUFFICES ASSUME crashes = 0, ~unsaved, ~outgrown
                 PROVE  /\ Tallied([counted |-> Counts, tally |-> tally])
                        /\ \A m \in Macs :
                             /\ Counts[m] <= clock
                             /\ \A i \in 1..Len(log) :
                                  i > Pos' /\ log[i] # NL => Counts[m] <= line[log[i]].at
        <3>1. Counts' = Counts
            BY <1>1 DEF Counts
        <3> QED
            BY <1>1, <3>1 DEF Counting, Tallied
    <2>1. CASE cut /\ log = <<>>
        <3>1. Len(log) = 0
            BY <2>1
        <3> QED
            BY <3>1 DEF Counting
    <2>2. CASE ino = inode /\ off <= Len(log) /\ Pos <= off
        <3>1. Pos' = off
            BY <1>1, <2>2 DEF Pos
        <3>2. Pos \in Nat
            BY LogTypes DEF Pos
        <3> SUFFICES ASSUME NEW m \in Macs, NEW i \in 1..Len(log), i > off, log[i] # NL
                     PROVE  Counts[m] <= line[log[i]].at
            BY <3>1 DEF Counting
        <3>3. i > Pos
            BY <1>2, <2>2, <3>2
        <3> QED
            BY <3>3 DEF Counting
    <2> QED
        BY <2>1, <2>2
<1> QED
    BY <1>3, <1>4, <1>5, <1>6

\* poll finds its offset, or has nothing to read and saves it.
LEMMA PollStatStep == ASSUME LogInv, PollStat PROVE LogInv'
<1> USE DEF LogInv
<1>1. /\ log' = log /\ line' = line /\ clock' = clock /\ inode' = inode
      /\ outgrown' = outgrown /\ applied' = applied /\ passed' = passed
      /\ tally' = tally /\ unsaved' = unsaved /\ crashes' = crashes /\ poll.pc = "idle"
    BY DEF PollStat, logfile, lives, bounds
<1>2. /\ Len(log) \in Nat /\ inode \in Nat /\ inode \in 0..inode /\ state.inode \in 0..inode
      /\ state.counted \in [Macs -> Nat] /\ Counts = state.counted
    BY <1>1, LogTypes DEF Counts
<1>3. /\ StartOffset \in Nat /\ StartOffset <= Len(log) /\ Pos <= StartOffset
      /\ \/ state.inode = NoInode \/ StartOffset = 0
         \/ /\ state.inode = inode /\ state.offset <= Len(log)
            /\ StartOffset = state.offset
      /\ StartOffset >= Len(log) =>
           \/ StartOffset = 0
           \/ /\ state.inode = inode /\ state.offset <= Len(log)
              /\ StartOffset = state.offset
    BY <1>1, StartsRight
<1>4. CASE StartOffset < Len(log)
    <2>1. /\ poll' = [Idle EXCEPT !.pc = "read", !.offset = StartOffset,
                                  !.inode = inode, !.counted = state.counted]
          /\ state' = state /\ cut' = cut
        BY <1>4 DEF PollStat
    <2>2. /\ poll'.pc = "read" /\ poll'.offset = StartOffset /\ poll'.inode = inode
          /\ poll'.chunk = <<>> /\ Len(poll'.chunk) = 0 /\ poll'.counted = state.counted
        BY <2>1 DEF Idle
    <2>3. Typed'
        <3>1. poll' = [pc |-> "read", offset |-> StartOffset, inode |-> inode,
                       chunk |-> <<>>, counted |-> state.counted]
            BY <2>1 DEF Idle
        <3>2. poll' \in [pc : {"idle", "read", "apply", "save"}, offset : Nat,
                         inode : 0..inode', chunk : Seq(0..Len(line')),
                         counted : [Macs -> Nat]]
            BY <1>1, <1>2, <1>3, <3>1
        <3> QED
            BY <1>1, <2>1, <3>2 DEF Typed, LinesOK
    <2>4. Times'
        BY <1>1, <2>2 DEF Times, InOrder
    <2>5. Followed'
        <3> SUFFICES ASSUME ~outgrown PROVE Fresh'
            BY <1>1, <2>1 DEF Followed, Covered
        <3>1. state.inode # NoInode => Covered(StartOffset)
            BY <1>3 DEF Followed, Covered
        <3>2. Pos' = Pos
            BY <1>1, <2>1, <2>2 DEF Pos
        <3> QED
            BY <1>1, <1>2, <1>3, <2>1, <2>2, <3>1, <3>2 DEF Fresh, Covered
    <2>6. Counting'
        <3> SUFFICES ASSUME crashes = 0, ~unsaved, ~outgrown
                     PROVE  /\ Tallied([counted |-> Counts, tally |-> tally])
                            /\ \A m \in Macs :
                                 /\ Counts[m] <= clock
                                 /\ \A i \in 1..Len(log) :
                                      i > Pos /\ log[i] # NL
                                        => Counts[m] <= line[log[i]].at
            <4>1. Counts' = Counts /\ Pos' = Pos
                BY <1>1, <1>2, <2>1, <2>2 DEF Counts, Pos
            <4> QED
                BY <1>1, <2>1, <2>2, <4>1 DEF Counting, Tallied
        <3> QED
            BY DEF Counting
    <2> QED
        BY <2>3, <2>4, <2>5, <2>6
<1>5. CASE ~(StartOffset < Len(log))
    <2>1. SaveState(inode, StartOffset, state.counted)
        BY <1>5 DEF PollStat
    <2>2. ~outgrown => \A i \in 1..StartOffset : log[i] \in applied \cup passed' \cup {NL}
        BY <1>1, <1>2, <1>3, <1>5 DEF Followed, Covered
    <2> QED
        BY <1>1, <1>2, <1>3, <2>1, <2>2, SaveStep
<1> QED
    BY <1>4, <1>5

\* poll reads some lines, or only part of one and saves where it begins.
LEMMA PollReadStep == ASSUME LogInv, PollRead PROVE LogInv'
<1> USE DEF LogInv
<1>1. /\ log' = log /\ line' = line /\ clock' = clock /\ inode' = inode
      /\ outgrown' = outgrown /\ applied' = applied
      /\ tally' = tally /\ unsaved' = unsaved /\ crashes' = crashes /\ poll.pc = "read"
    BY DEF PollRead, logfile, lives, bounds
<1>2. PICK off \in Nat, c \in Seq(0..Len(line)) :
             /\ off >= poll.offset
             /\ state.inode # NoInode \/ log = <<>> => off = poll.offset
             /\ log = <<>> => c = <<>>
             /\ poll.offset <= Len(log) => off + Len(c) <= Len(log)
             /\ \A i \in 1..Len(c) : off + i \in 1..Len(log) /\ c[i] = log[off + i]
             /\ IF state.inode = NoInode
                THEN off <= Len(log) => \A i \in 1..off : log[i] \in passed' \cup {NL}
                ELSE passed' = passed
             /\ \/ c = <<>> /\ SaveState(poll.inode, off, state.counted)
                \/ /\ poll' = [poll EXCEPT !.pc = "apply", !.offset = off, !.chunk = c]
                   /\ UNCHANGED <<state, cut>>
    BY ReadBytes
<1>3. /\ Len(log) \in Nat /\ inode \in Nat /\ inode # NoInode
      /\ poll.inode \in 0..inode /\ poll.offset \in Nat /\ Len(c) \in Nat
      /\ state.counted \in [Macs -> Nat] /\ state.counted = Counts /\ Pos \in Nat
    BY <1>1, LogTypes DEF Counts, Pos
<1>4. ASSUME ~outgrown, Fresh
      PROVE  /\ poll.inode = inode /\ off + Len(c) <= Len(log) /\ off <= Len(log)
             /\ Pos <= off
             /\ \A i \in 1..off : log[i] \in applied \cup passed' \cup {NL}
    <2>1. poll.inode = inode /\ poll.offset <= Len(log)
        <3>1. Len(poll.chunk) = 0 /\ poll.offset + Len(poll.chunk) <= Len(log)
            BY <1>1, <1>4 DEF Fresh
        <3> QED
            BY <1>3, <1>4, <3>1 DEF Fresh
    <2>2. off + Len(c) <= Len(log) /\ off <= Len(log) /\ Pos <= off
        <3>1. Pos <= poll.offset
            BY <1>1, <1>4 DEF Fresh
        <3> QED
            BY <1>2, <1>3, <2>1, <3>1
    <2>3. CASE state.inode = NoInode
        BY <1>2, <2>2, <2>1, <2>3
    <2>4. CASE state.inode # NoInode
        <3>1. Covered(poll.offset)
            BY <1>1, <1>4, <2>4 DEF Fresh
        <3>2. off = poll.offset /\ passed' = passed
            BY <1>2, <2>4
        <3> QED
            BY <2>1, <2>2, <3>1, <3>2 DEF Covered
    <2> QED
        BY <2>1, <2>2, <2>3, <2>4
<1>5. ~outgrown => Fresh \/ (cut /\ log = <<>>)
    BY <1>1 DEF Followed
<1>6. CASE c = <<>> /\ SaveState(poll.inode, off, state.counted)
    BY <1>1, <1>3, <1>4, <1>5, <1>6, SaveStep
<1>7. CASE /\ c # <<>> \/ ~SaveState(poll.inode, off, state.counted)
           /\ poll' = [poll EXCEPT !.pc = "apply", !.offset = off, !.chunk = c]
           /\ UNCHANGED <<state, cut>>
    <2>1. /\ poll'.pc = "apply" /\ poll'.offset = off /\ poll'.chunk = c
          /\ poll'.inode = poll.inode /\ poll'.counted = poll.counted
        BY <1>7 DEF Typed
    <2>2. Typed'
        <3>1. poll' \in [pc : {"idle", "read", "apply", "save"}, offset : Nat,
                         inode : 0..inode', chunk : Seq(0..Len(line')),
                         counted : [Macs -> Nat]]
            BY <1>1, <1>7 DEF Typed
        <3> QED
            BY <1>1, <1>7, <3>1 DEF Typed, LinesOK
    <2>3. InOrder(c)
        <3> SUFFICES ASSUME NEW i \in 1..Len(c), NEW j \in 1..Len(c), i <= j,
                            c[i] # NL, c[j] # NL
                     PROVE  line[c[i]].at <= line[c[j]].at
            BY DEF InOrder
        <3>1. /\ off + i \in 1..Len(log) /\ c[i] = log[off + i]
              /\ off + j \in 1..Len(log) /\ c[j] = log[off + j]
            BY <1>2
        <3>2. off + i <= off + j
            BY <1>3
        <3> QED
            BY <3>1, <3>2 DEF Times, InOrder
    <2>4. Times'
        BY <1>1, <2>1, <2>3 DEF Times, InOrder
    <2>5. Followed'
        <3> SUFFICES ASSUME ~outgrown PROVE Followed'
            BY <1>1 DEF Followed
        <3>1. CASE Fresh
            <4>1. /\ ~cut /\ state.inode = inode => state.offset <= Len(log)
                  /\ state.inode = inode /\ state.offset <= Len(log)
                       => \A i \in 1..state.offset : log[i] \in applied \cup passed' \cup {NL}
                BY <1>2, <1>3 DEF Followed, Covered
            <4>2. \A i \in 1..off : log[i] \in applied \cup passed' \cup {NL}
                BY <1>4, <3>1
            <4>3. poll.inode = inode /\ off + Len(c) <= Len(log)
                BY <1>4, <3>1
            <4>4. \A i \in 1..Len(c) : c[i] = log[off + i]
                BY <1>2
            <4>5. Pos' <= off
                <5>1. Pos' = Pos
                    BY <1>1, <1>7, <2>1 DEF Pos
                <5> QED
                    BY <1>4, <3>1, <5>1
            <4>6. Fresh'
                BY <1>1, <2>1, <4>2, <4>3, <4>4, <4>5 DEF Fresh, Covered
            <4> QED
                BY <1>1, <1>7, <4>1, <4>6 DEF Followed, Covered
        <3>2. CASE cut /\ log = <<>>
            <4>1. Len(log) = 0
                BY <3>2
            <4>2. state.offset \in Nat
                BY LogTypes
            <4> QED
                BY <1>1, <1>7, <3>2, <4>1, <4>2 DEF Followed, Covered
        <3> QED
            BY <1>5, <3>1, <3>2
    <2>6. Counting'
        <3> SUFFICES ASSUME crashes = 0, ~unsaved, ~outgrown
                     PROVE  /\ poll.counted = state.counted
                            /\ Tallied([counted |-> Counts, tally |-> tally])
                            /\ \A m \in Macs :
                                 /\ Counts[m] <= clock
                                 /\ \A i \in 1..Len(log) :
                                      i > Pos /\ log[i] # NL
                                        => Counts[m] <= line[log[i]].at
                                 /\ \A i \in 1..Len(c) :
                                      c[i] # NL => Counts[m] <= line[c[i]].at
            <4>1. Counts' = Counts /\ Pos' = Pos
                BY <1>1, <1>3, <1>7, <2>1 DEF Counts, Pos
            <4> QED
                BY <1>1, <1>7, <2>1, <4>1 DEF Counting, Tallied
        <3>2. \A m \in Macs, i \in 1..Len(c) : c[i] # NL => Counts[m] <= line[c[i]].at
            <4> SUFFICES ASSUME NEW m \in Macs, NEW i \in 1..Len(c), c[i] # NL
                         PROVE  Counts[m] <= line[c[i]].at
                OBVIOUS
            <4>1. off + i \in 1..Len(log) /\ c[i] = log[off + i]
                BY <1>2
            <4>2. off + i > Pos
                <5>1. log # <<>>
                    BY <4>1
                <5>2. Fresh
                    BY <1>5, <5>1
                <5> QED
                    BY <1>1, <1>2, <1>3, <5>2 DEF Fresh
            <4> QED
                BY <4>1, <4>2 DEF Counting
        <3> QED
            BY <1>1, <3>2 DEF Counting
    <2> QED
        BY <2>2, <2>4, <2>5, <2>6
<1> QED
    BY <1>2, <1>6, <1>7

\* poll saves what it has applied.
LEMMA PollSaveStep == ASSUME LogInv, PollSave PROVE LogInv'
<1> USE DEF LogInv
<1> DEFINE off == poll.offset + Len(poll.chunk)
<1>1. /\ log' = log /\ line' = line /\ clock' = clock /\ inode' = inode
      /\ outgrown' = outgrown /\ applied' = applied /\ passed' = passed
      /\ tally' = tally /\ unsaved' = unsaved /\ crashes' = crashes /\ poll.pc = "save"
      /\ SaveState(poll.inode, off, poll.counted)
    BY DEF PollSave, logfile, lives, bounds
<1>2. /\ off \in Nat /\ poll.inode \in 0..inode /\ poll.counted = Counts /\ Pos = off
    BY <1>1, LogTypes DEF Counts, Pos
<1>3. ~outgrown => \/ /\ poll.inode = inode /\ off <= Len(log) /\ Pos <= off
                      /\ \A i \in 1..off : log[i] \in applied \cup passed' \cup {NL}
                   \/ cut /\ log = <<>>
    BY <1>1, <1>2 DEF Followed, Fresh, Covered
<1> HIDE DEF off
<1> QED
    BY <1>1, <1>2, <1>3, SaveStep

\* A crash forgets the poll; the counts are not followed any further.
LEMMA CrashStep == ASSUME LogInv, Crash PROVE LogInv'
<1> USE DEF LogInv
<1>1. /\ log' = log /\ line' = line /\ clock' = clock /\ inode' = inode
      /\ outgrown' = outgrown /\ applied' = applied /\ passed' = passed
      /\ tally' = tally /\ unsaved' = unsaved /\ cut' = cut /\ state' = state
      /\ crashes' = crashes + 1 /\ poll' = Idle
    BY DEF Crash, dnsmasq, logfile, lives
<1>2. Typed'
    <2>1. Idle \in [pc : {"idle", "read", "apply", "save"}, offset : Nat,
                    inode : 0..inode', chunk : Seq(0..Len(line')),
                    counted : [Macs -> Nat]]
        BY <1>1, LogTypes DEF Idle, NoInode
    <2>2. crashes' \in Nat
        BY <1>1 DEF Typed
    <2> QED
        BY <1>1, <2>1, <2>2 DEF Typed, LinesOK
<1>3. poll'.pc = "idle"
    BY <1>1 DEF Idle
<1>4. Times'
    BY <1>1, <1>3 DEF Times, InOrder
<1>5. Followed'
    BY <1>1, <1>3 DEF Followed, Covered
<1>6. Counting'
    <2>1. crashes' # 0
        BY <1>1 DEF Typed
    <2> QED
        BY <2>1 DEF Counting
<1> QED
    BY <1>2, <1>4, <1>5, <1>6

\* A poll that is given up goes back to what is saved: what was applied since
\* is behind the saved offset, but the counts are only if they were saved.
LEMMA PollFailsStep == ASSUME LogInv, PollFails PROVE LogInv'
<1> USE DEF LogInv
<1>1. /\ log' = log /\ line' = line /\ clock' = clock /\ inode' = inode
      /\ outgrown' = outgrown /\ applied' = applied /\ passed' = passed
      /\ tally' = tally /\ cut' = cut /\ state' = state /\ crashes' = crashes
      /\ unsaved' = (unsaved \/ poll.pc = "save") /\ poll' = Idle
    BY DEF PollFails, dnsmasq, logfile
<1>2. Typed'
    <2>1. Idle \in [pc : {"idle", "read", "apply", "save"}, offset : Nat,
                    inode : 0..inode', chunk : Seq(0..Len(line')),
                    counted : [Macs -> Nat]]
        BY <1>1, LogTypes DEF Idle, NoInode
    <2>2. unsaved' \in BOOLEAN
        BY <1>1
    <2> QED
        BY <1>1, <2>1, <2>2 DEF Typed, LinesOK
<1>3. poll'.pc = "idle"
    BY <1>1 DEF Idle
<1>4. Times'
    BY <1>1, <1>3 DEF Times, InOrder
<1>5. Followed'
    BY <1>1, <1>3 DEF Followed, Covered
<1>6. Counting'
    <2> SUFFICES ASSUME crashes = 0, ~unsaved', ~outgrown
                 PROVE  Counting'
        BY <1>1 DEF Counting
    <2>1. ~unsaved /\ poll.pc # "save"
        BY <1>1
    <2>2. Counts' = Counts /\ Pos' = Pos
        BY <1>1, <1>3, <2>1 DEF Counts, Pos
    <2> QED
        BY <1>1, <1>3, <2>1, <2>2 DEF Counting, Tallied
<1> QED
    BY <1>2, <1>4, <1>5, <1>6

\* The requests and the users leave the log and poll alone.
LEMMA OthersStep ==
    ASSUME LogInv, UNCHANGED <<log, line, clock, inode, cut, outgrown, state, poll,
                               applied, passed, tally, unsaved, crashes>>
    PROVE  LogInv'
<1> USE DEF LogInv
<1>1. Typed'
    BY DEF Typed, LinesOK
<1>2. Times'
    BY DEF Times, InOrder
<1>3. Followed'
    BY DEF Followed, Fresh, Covered, Pos
<1>4. Counting'
    <2>1. Counts' = Counts /\ Pos' = Pos
        BY DEF Counts, Pos
    <2> QED
        BY <2>1 DEF Counting, Tallied
<1> QED
    BY <1>1, <1>2, <1>3, <1>4

\* poll applies the lines it has read.
LEMMA PollApplyStep == ASSUME LogInv, PollApply PROVE LogInv'
<1> USE DEF LogInv
<1> DEFINE acc == [counted |-> poll.counted, tally |-> tally]
           c == poll.chunk
<1>1. PICK r : r = Folded(acc, c)
    OBVIOUS
<1>2. /\ log' = log /\ line' = line /\ clock' = clock /\ inode' = inode
      /\ outgrown' = outgrown /\ passed' = passed /\ cut' = cut /\ state' = state
      /\ crashes' = crashes /\ unsaved' = unsaved /\ poll.pc = "apply"
      /\ applied' = applied \cup (ToSet(c) \ {NL})
      /\ tally' = r.tally
      /\ poll' = [poll EXCEPT !.pc = "save", !.counted = r.counted]
    BY <1>1 DEF PollApply, Folded, dnsmasq, logfile, bounds
<1>3. /\ LinesOK /\ acc \in Acc /\ c \in Seq(0..Len(line)) /\ Len(c) \in Nat
      /\ Len(log) \in Nat /\ poll.offset \in Nat /\ Pos \in Nat
      /\ Counts = state.counted /\ poll.counted \in [Macs -> Nat] /\ clock \in Nat
      /\ Len(line) \in Nat
    BY <1>2, LogTypes DEF Typed, Acc, Counts, Pos
<1> HIDE DEF c
<1>4. /\ r \in Acc
      /\ \A m \in Macs :
           \/ r.counted[m] = poll.counted[m]
           \/ \E j \in 1..Len(c) : c[j] # NL /\ r.counted[m] = line[c[j]].at
      /\ Tallied(acc) /\ InOrder(c)
         /\ (\A m \in Macs, j \in 1..Len(c) :
                    c[j] # NL => poll.counted[m] <= line[c[j]].at)
         => Tallied(r)
    <2>1. acc.counted = poll.counted
        OBVIOUS
    <2>2. PICK a : a = acc
        OBVIOUS
    <2> HIDE DEF acc
    <2>3. a \in Acc /\ r = Folded(a, c)
        BY <1>1, <1>3, <2>2
    <2>4. /\ r \in Acc
          /\ \A m \in Macs :
                \/ r.counted[m] = a.counted[m]
                \/ \E j \in 1..Len(c) : c[j] # NL /\ r.counted[m] = line[c[j]].at
          /\ Tallied(a) /\ InOrder(c)
              /\ (\A m \in Macs, j \in 1..Len(c) :
                    c[j] # NL => a.counted[m] <= line[c[j]].at)
              => Tallied(r)
        BY <1>3, <2>3, AppliesAll
    <2> QED
        BY <2>1, <2>2, <2>4
<1>5. /\ poll'.pc = "save" /\ poll'.offset = poll.offset /\ poll'.chunk = c
      /\ poll'.inode = poll.inode /\ poll'.counted = r.counted
    BY <1>2 DEF Typed, c
<1>6. r.counted \in [Macs -> Nat] /\ r.tally \in [Macs -> Seq(Nat)]
    BY <1>4 DEF Acc
<1>7. Typed'
    <2>1. poll' \in [pc : {"idle", "read", "apply", "save"}, offset : Nat,
                     inode : 0..inode', chunk : Seq(0..Len(line')),
                     counted : [Macs -> Nat]]
        BY <1>2, <1>6 DEF Typed
    <2> QED
        BY <1>2, <1>6, <2>1 DEF Typed, LinesOK
<1>8. Times'
    BY <1>2, <1>5 DEF Times, InOrder
<1>9. \A i \in 1..Len(c) : c[i] \in applied' \cup {NL}
    <2>1. DOMAIN c = 1..Len(c)
        BY <1>3
    <2> QED
        BY <1>2, <2>1 DEF ToSet
<1>10. Followed'
    <2> SUFFICES ASSUME ~outgrown PROVE Followed'
        BY <1>2 DEF Followed
    <2>1. /\ ~cut /\ state.inode = inode => state.offset <= Len(log)
          /\ state.inode = inode /\ state.offset <= Len(log)
               => \A i \in 1..state.offset : log[i] \in applied' \cup passed \cup {NL}
        BY <1>2 DEF Followed, Covered
    <2>2. CASE Fresh
        <3>1. /\ poll.inode = inode /\ poll.offset + Len(c) <= Len(log)
              /\ \A i \in 1..poll.offset : log[i] \in applied \cup passed \cup {NL}
              /\ \A i \in 1..Len(c) : c[i] = log[poll.offset + i]
            BY <1>2, <2>2 DEF Fresh, Covered, c
        <3>2. ASSUME NEW i \in 1..poll.offset + Len(c)
              PROVE  log[i] \in applied' \cup passed \cup {NL}
            <4>1. CASE i \in 1..poll.offset
                BY <1>2, <3>1, <4>1
            <4>2. CASE i \notin 1..poll.offset
                <5>1. i - poll.offset \in 1..Len(c) /\ poll.offset + (i - poll.offset) = i
                    BY <1>3, <4>2
                <5>2. log[i] = c[i - poll.offset]
                    BY <3>1, <5>1
                <5> QED
                    BY <1>9, <5>1, <5>2
            <4> QED
                BY <4>1, <4>2
        <3>3. Fresh'
            BY <1>2, <1>5, <3>1, <3>2 DEF Fresh, Covered
        <3> QED
            BY <1>2, <2>1, <3>3 DEF Followed, Covered
    <2>3. CASE cut /\ log = <<>>
        BY <1>2, <2>1, <2>3 DEF Followed, Covered
    <2> QED
        BY <1>2, <2>2, <2>3 DEF Followed
<1>11. Counting'
    <2> SUFFICES ASSUME crashes = 0, ~unsaved, ~outgrown
                 PROVE  /\ Tallied([counted |-> r.counted, tally |-> r.tally])
                        /\ \A m \in Macs :
                             /\ r.counted[m] <= clock
                             /\ \A i \in 1..Len(log) :
                                  i > poll.offset + Len(c) /\ log[i] # NL
                                    => r.counted[m] <= line[log[i]].at
        <3>1. Counts' = r.counted /\ Pos' = poll.offset + Len(c)
            BY <1>5 DEF Counts, Pos
        <3> QED
            BY <1>2, <1>5, <3>1 DEF Counting, Tallied
    <2>1. poll.counted = Counts
        BY <1>2, <1>3 DEF Counting
    <2>2. /\ Tallied(acc) /\ InOrder(c)
          /\ \A m \in Macs, j \in 1..Len(c) :
                    c[j] # NL => poll.counted[m] <= line[c[j]].at
        BY <1>2, <2>1 DEF Counting, Times, c
    <2>3. Tallied([counted |-> r.counted, tally |-> r.tally])
        <3>1. Tallied(r)
            BY <1>4, <2>2
        <3> QED
            BY <3>1 DEF Tallied
    <2>4. \A j \in 1..Len(c) : c[j] # NL => c[j] \in 1..Len(line)
        <3>1. \A j \in 1..Len(c) : c[j] \in 0..Len(line)
            BY <1>3, ElementOfSeq
        <3> QED
            BY <1>3, <3>1 DEF NL
    <2>5. ASSUME NEW m \in Macs PROVE r.counted[m] <= clock
        <3>1. CASE r.counted[m] = poll.counted[m]
            BY <2>1, <3>1 DEF Counting
        <3>2. CASE \E j \in 1..Len(c) : c[j] # NL /\ r.counted[m] = line[c[j]].at
            BY <2>4, <3>2 DEF Times
        <3> QED
            BY <1>4, <3>1, <3>2
    <2>6. ASSUME NEW m \in Macs, NEW i \in 1..Len(log), i > poll.offset + Len(c),
                 log[i] # NL
          PROVE  r.counted[m] <= line[log[i]].at
        <3>1. i > Pos
            <4>1. log # <<>>
                BY <1>3
            <4>2. Fresh
                BY <1>2, <4>1 DEF Followed
            <4> QED
                BY <1>2, <1>3, <2>6, <4>2 DEF Fresh
        <3>2. CASE r.counted[m] = poll.counted[m]
            BY <2>1, <2>6, <3>1, <3>2 DEF Counting
        <3>3. ASSUME NEW j \in 1..Len(c), c[j] # NL, r.counted[m] = line[c[j]].at
              PROVE  r.counted[m] <= line[log[i]].at
            <4>1. log # <<>>
                BY <1>3
            <4>2. Fresh
                BY <1>2, <4>1 DEF Followed
            <4>3. c[j] = log[poll.offset + j] /\ poll.offset + Len(c) <= Len(log)
                BY <1>2, <4>2 DEF Fresh, c
            <4>4. poll.offset + j \in 1..Len(log) /\ poll.offset + j <= i
                <5>1. /\ poll.offset \in Nat /\ Len(c) \in Nat /\ Len(log) \in Nat
                      /\ i > poll.offset + Len(c) /\ poll.offset + Len(c) <= Len(log)
                    BY <1>3, <2>6, <4>3
                <5>2. PICK o, lc, ll : o = poll.offset /\ lc = Len(c) /\ ll = Len(log)
                    OBVIOUS
                <5>3. /\ o \in Nat /\ lc \in Nat /\ ll \in Nat
                      /\ j \in 1..lc /\ i \in 1..ll /\ i > o + lc /\ o + lc <= ll
                    BY <5>1, <5>2
                <5>4. o + j \in 1..ll /\ o + j <= i
                    BY <5>3
                <5> QED
                    BY <5>2, <5>4
            <4> QED
                BY <2>6, <3>3, <4>3, <4>4 DEF Times, InOrder
        <3> QED
            BY <1>4, <3>2, <3>3
    <2> QED
        BY <2>3, <2>5, <2>6
<1> QED
    BY <1>7, <1>8, <1>10, <1>11

\* Every step keeps LogInv.
LEMMA LogInvStep == LogInv /\ [Next]_vars => LogInv'
<1> SUFFICES ASSUME LogInv, [Next]_vars PROVE LogInv'
    OBVIOUS
<1> USE DEF dnsmasq, logfile, lives, bounds
<1>1. CASE \E m \in Macs : Log(m)
    BY <1>1, LogStep
<1>2. CASE Rotate
    BY <1>2, RotateStep
<1>3. CASE Poll \/ PollFails
    BY <1>3, PollStatStep, PollReadStep, PollApplyStep, PollSaveStep, PollFailsStep DEF Poll
<1>4. ASSUME NEW r \in Requests,
             (\E m \in Macs : AskMenu(r, m)) \/ Menu(r) \/ MenuFails(r)
      PROVE  LogInv'
    <2>1. UNCHANGED <<log, line, clock, inode, cut, outgrown, state, poll,
                      applied, passed, tally, unsaved, crashes>>
        BY <1>4 DEF AskMenu, Menu, MenuFails, TakeRead, TakeClear, TakeFails, See,
           SeeFails, Reply
    <2> QED
        BY <2>1, OthersStep
<1>5. ASSUME NEW m \in Macs, AskEntry(m) \/ Arm(m) \/ Disarm(m) \/ Keep(m)
      PROVE  LogInv'
    <2>1. UNCHANGED <<log, line, clock, inode, cut, outgrown, state, poll,
                      applied, passed, tally, unsaved, crashes>>
        BY <1>5 DEF AskEntry, Arm, Disarm, Keep
    <2> QED
        BY <2>1, OthersStep
<1>6. CASE Crash
    BY <1>6, CrashStep
<1>7. CASE UNCHANGED vars
    BY <1>7, OthersStep DEF vars
<1> QED
    BY <1>1, <1>2, <1>3, <1>4, <1>5, <1>6, <1>7 DEF Next

\* LogInv is an invariant of the specification.
LEMMA LogInvariant == Spec => []LogInv
<1> QED
    BY InitLogInv, LogInvStep, PTL DEF Spec

(* Whatever is cut, rotated, lost or begun again, poll moves past no line  *)
(* of the log that it has not applied, or left aside at its first read.    *)
THEOREM NothingIsPassedOver == Spec => []PassedIsApplied
<1>1. LogInv => PassedIsApplied
    BY DEF LogInv, Followed, Covered, PassedIsApplied
<1> QED
    BY <1>1, LogInvariant, PTL

(* While the process lives, no PC is counted twice in an Interval.         *)
THEOREM CountsStayApart == Spec => []CountsAreApart
<1>1. LogInv => CountsAreApart
    BY DEF LogInv, Counting, Tallied, Apart, CountedApart, CountsAreApart
<1> QED
    BY <1>1, LogInvariant, PTL
=============================================================================
