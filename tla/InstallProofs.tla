---------------------------- MODULE InstallProofs ----------------------------
(***************************************************************************)
(* What a PC is installed with: the answers an ISO is linked to, and the   *)
(* one a PC starts with.                                                   *)
(***************************************************************************)
EXTENDS Boot, DataLemmas

-----------------------------------------------------------------------------
(* The lists of answers.                                                   *)

(* f holds what Once has kept of the first elements of q.             *)
OnceRun(f, q, n) == f = [k \in 0..n |-> IF k = 0 THEN <<>> ELSE KeepNew(f[k - 1], q[k])]

\* There is one, and Once is its last value.
LEMMA OnceRuns ==
    ASSUME NEW T, NEW q \in Seq(T)
    PROVE  \E f : /\ f[0] = <<>> /\ Once(q) = f[Len(q)]
                 /\ \A k \in 1..Len(q) : f[k] = KeepNew(f[k - 1], q[k])
<1> DEFINE Good(g, k) == OnceRun(g, q, k)
           U == {k \in Nat : \E g : Good(g, k)}
           f == CHOOSE g : Good(g, Len(q))
<1>1. 0 \in U
    <2>1. Good([k \in 0..0 |-> <<>>], 0)
        BY DEF OnceRun
    <2> HIDE DEF Good
    <2> QED
        BY <2>1
<1>2. ASSUME NEW k \in U PROVE k + 1 \in U
    <2>1. PICK g : Good(g, k)
        OBVIOUS
    <2>2. k \in Nat
        OBVIOUS
    <2> DEFINE h == [i \in 0..k + 1 |-> IF i \in 0..k THEN g[i] ELSE KeepNew(g[k], q[i])]
    <2>3. ASSUME NEW i \in 0..k + 1
          PROVE  h[i] = IF i = 0 THEN <<>> ELSE KeepNew(h[i - 1], q[i])
        <3>1. CASE i \in 0..k
            <4>1. h[i] = g[i] /\ (i # 0 => i - 1 \in 0..k /\ h[i - 1] = g[i - 1])
                BY <2>2, <3>1
            <4>2. g[i] = IF i = 0 THEN <<>> ELSE KeepNew(g[i - 1], q[i])
                BY <2>1, <3>1 DEF OnceRun
            <4> HIDE DEF h, Good
            <4> QED
                BY <4>1, <4>2
        <3>2. CASE i \notin 0..k
            <4>1. i = k + 1 /\ i # 0 /\ i - 1 = k
                BY <2>2, <3>2
            <4>2. h[i] = KeepNew(g[k], q[i])
                BY <3>2
            <4>3. h[k] = g[k]
                BY <2>2
            <4> HIDE DEF h, Good
            <4> QED
                BY <4>1, <4>2, <4>3
        <3> QED
            BY <3>1, <3>2
    <2>4. h = [i \in 0..k + 1 |-> h[i]]
        OBVIOUS
    <2> HIDE DEF h
    <2>5. Good(h, k + 1)
        BY <2>3, <2>4 DEF OnceRun
    <2> HIDE DEF Good
    <2> QED
        BY <2>2, <2>5
<1>3. U = Nat
    <2> HIDE DEF U
    <2>1. U \in SUBSET Nat
        BY DEF U
    <2> QED
        BY <1>1, <1>2, <2>1, SetInduction
<1>4. Len(q) \in Nat
    OBVIOUS
<1>5. Good(f, Len(q))
    <2> HIDE DEF Good
    <2>1. \E g : Good(g, Len(q))
        BY <1>3, <1>4
    <2> QED
        BY <2>1
<1>6. Once(q) = f[Len(q)]
    BY DEF Once, OnceRun
<1> HIDE DEF f
<1>7. \A k \in 0..Len(q) : f[k] = IF k = 0 THEN <<>> ELSE KeepNew(f[k - 1], q[k])
    BY <1>5 DEF OnceRun
<1>8. /\ 0 \in 0..Len(q)
      /\ \A k \in 1..Len(q) : k \in 0..Len(q) /\ k # 0
    BY <1>4
<1>9. f[0] = <<>> /\ \A k \in 1..Len(q) : f[k] = KeepNew(f[k - 1], q[k])
    BY <1>7, <1>8
<1> QED
    BY <1>6, <1>9

\* Once has the elements of q.
LEMMA OnceKeeps ==
    ASSUME NEW T, NEW q \in Seq(T)
    PROVE  Once(q) \in Seq(T) /\ ToSet(Once(q)) = ToSet(q)
<1>1. PICK f : /\ f[0] = <<>> /\ Once(q) = f[Len(q)]
               /\ \A k \in 1..Len(q) : f[k] = KeepNew(f[k - 1], q[k])
    BY OnceRuns
<1>2. Once(q) = f[Len(q)]
    BY <1>1
<1>0. Len(q) \in Nat /\ DOMAIN q = 1..Len(q) /\ \A i \in 1..Len(q) : q[i] \in T
    OBVIOUS
<1> DEFINE Kept(k) ==
               /\ f[k] \in Seq(T)
               /\ \A x : (\E j \in 1..Len(f[k]) : f[k][j] = x) <=> \E i \in 1..k : q[i] = x
           U == {k \in Nat : k <= Len(q) => Kept(k)}
<1>3. 0 \in U
    <2>1. Kept(0)
        BY <1>1
    <2> HIDE DEF Kept
    <2> QED
        BY <2>1
<1>4. ASSUME NEW k \in U PROVE k + 1 \in U
    <2> SUFFICES ASSUME k + 1 <= Len(q) PROVE Kept(k + 1)
        <3> HIDE DEF Kept
        <3> QED
            OBVIOUS
    <2>1. k \in Nat /\ k + 1 \in 1..Len(q) /\ (k + 1) - 1 = k /\ q[k + 1] \in T
        BY <1>0
    <2>2. Kept(k)
        BY <1>0, <2>1
    <2>3. f[k + 1] = IF Contains(f[k], q[k + 1]) THEN f[k] ELSE Append(f[k], q[k + 1])
        BY <1>1, <2>1 DEF KeepNew
    <2>4. \A x : (\E i \in 1..k + 1 : q[i] = x) <=> (x = q[k + 1] \/ \E i \in 1..k : q[i] = x)
        BY <2>1
    <2>5. Contains(f[k], q[k + 1]) <=> \E j \in 1..Len(f[k]) : f[k][j] = q[k + 1]
        BY DEF Contains
    <2>6. CASE Contains(f[k], q[k + 1])
        BY <2>2, <2>3, <2>4, <2>5, <2>6
    <2>7. CASE ~Contains(f[k], q[k + 1])
        <3>1. f[k + 1] = Append(f[k], q[k + 1]) /\ f[k] \in Seq(T)
            BY <2>2, <2>3, <2>7
        <3>2. f[k + 1] \in Seq(T)
            BY <2>1, <3>1
        <3>3. \A x : (\E j \in 1..Len(f[k + 1]) : f[k + 1][j] = x)
                        <=> (x = q[k + 1] \/ \E j \in 1..Len(f[k]) : f[k][j] = x)
            <4> HIDE DEF Kept, U
            <4> QED
                BY <2>1, <3>1, AppendAdds
        <3> QED
            BY <2>2, <2>4, <3>2, <3>3
    <2> QED
        BY <2>6, <2>7
<1>5. U = Nat
    <2> HIDE DEF U
    <2>1. U \in SUBSET Nat
        BY DEF U
    <2> QED
        BY <1>3, <1>4, <2>1, SetInduction
<1>6. Kept(Len(q))
    <2> HIDE DEF Kept
    <2> QED
        BY <1>0, <1>5
<1>7. DOMAIN Once(q) = 1..Len(Once(q))
    BY <1>2, <1>6
<1>8. \A x : x \in ToSet(Once(q)) <=> \E i \in 1..Len(Once(q)) : Once(q)[i] = x
    BY <1>7 DEF ToSet
<1>9. \A x : x \in ToSet(q) <=> \E i \in 1..Len(q) : q[i] = x
    BY <1>0 DEF ToSet
<1>10. \A x : x \in ToSet(Once(q)) <=> x \in ToSet(q)
    BY <1>2, <1>6, <1>8, <1>9
<1> QED
    BY <1>2, <1>6, <1>10

\* A sequence that is cut short has some of its elements.
LEMMA CutShort ==
    ASSUME NEW T, NEW q \in Seq(T), NEW m \in Nat
    PROVE  LET cut == SubSeq(q, 1, Min({Len(q), m}))
           IN cut \in Seq(T) /\ ToSet(cut) \subseteq ToSet(q) /\ Len(cut) <= m
<1> DEFINE n == Min({Len(q), m})
           cut == SubSeq(q, 1, n)
<1>1. Len(q) \in Nat /\ n \in {Len(q), m} /\ n <= Len(q) /\ n <= m
    <2>1. Len(q) \in Nat
        OBVIOUS
    <2>2. \E x \in {Len(q), m} : \A y \in {Len(q), m} : x <= y
        BY <2>1
    <2> QED
        BY <2>1, <2>2 DEF Min
<1> HIDE DEF n
<1>2. cut \in Seq(T) /\ Len(cut) = n /\ \A i \in 1..n : cut[i] = q[i]
    BY <1>1
<1>3. ToSet(cut) \subseteq ToSet(q)
    BY <1>1, <1>2 DEF ToSet
<1> QED
    BY <1>1, <1>2, <1>3 DEF n

\* answers_of gives ids an ISO is linked to, no more than it may have.
LEMMA AnswersOfAreLinked ==
    ASSUME NEW e \in Links
    PROVE  /\ AnswersOf(e) \in Seq(Ids) /\ Len(AnswersOf(e)) <= MaxAnswers
           /\ ToSet(AnswersOf(e)) \subseteq ToSet(e.answers) \union ({e.answer_id} \ {NoId})
           /\ LinkedIds(e) \subseteq ToSet(e.answers) \union ({e.answer_id} \ {NoId})
<1> DEFINE ids == IF e.answers = <<>> /\ e.answer_id # NoId THEN <<e.answer_id>>
                  ELSE Once(e.answers)
<1>1. e.answers \in Seq(Ids) /\ e.answer_id \in Ids \union {NoId}
    BY DEF Links
<1>2. ids \in Seq(Ids) /\ ToSet(ids) \subseteq ToSet(e.answers) \union ({e.answer_id} \ {NoId})
    <2>1. CASE e.answers = <<>> /\ e.answer_id # NoId
        <3>1. ids = <<e.answer_id>> /\ e.answer_id \in Ids
            BY <1>1, <2>1
        <3>2. ToSet(<<e.answer_id>>) = {e.answer_id}
            BY DEF ToSet
        <3> HIDE DEF ids
        <3> QED
            BY <2>1, <3>1, <3>2
    <2>2. CASE ~(e.answers = <<>> /\ e.answer_id # NoId)
        <3>1. ids = Once(e.answers)
            BY <2>2
        <3> HIDE DEF ids
        <3> QED
            BY <1>1, <3>1, OnceKeeps
    <2> QED
        BY <2>1, <2>2
<1>3. AnswersOf(e) = SubSeq(ids, 1, Min({Len(ids), MaxAnswers}))
    BY DEF AnswersOf
<1> HIDE DEF ids
<1>4. /\ AnswersOf(e) \in Seq(Ids) /\ Len(AnswersOf(e)) <= MaxAnswers
      /\ ToSet(AnswersOf(e)) \subseteq ToSet(ids)
    <2>1. MaxAnswers \in Nat
        BY DEF MaxAnswers
    <2> QED
        BY <1>2, <1>3, <2>1, CutShort
<1> QED
    BY <1>2, <1>4 DEF LinkedIds

\* The elements of a sequence of ids.
LEMMA ElementsOf ==
    ASSUME NEW T, NEW q \in Seq(T)
    PROVE  /\ ToSet(q) \subseteq T
           /\ \A x : Contains(q, x) <=> x \in ToSet(q)
           /\ q # <<>> => q[1] \in ToSet(q)
           /\ q = <<>> <=> ToSet(q) = {}
<1>1. Len(q) \in Nat /\ DOMAIN q = 1..Len(q) /\ \A i \in 1..Len(q) : q[i] \in T
    OBVIOUS
<1>2. ToSet(q) = {q[i] : i \in 1..Len(q)}
    BY <1>1 DEF ToSet
<1>3. q # <<>> => 1 \in 1..Len(q)
    BY <1>1
<1>4. q = <<>> => 1..Len(q) = {}
    OBVIOUS
<1> QED
    BY <1>1, <1>2, <1>3, <1>4 DEF Contains

\* detach_answer: an ISO loses the answer, and nothing else shows up.
LEMMA DetachedLeaves ==
    ASSUME NEW e \in Links, NEW aid
    PROVE  /\ Detached(e, aid) \in Links
           /\ LinkedIds(Detached(e, aid)) \subseteq LinkedIds(e) \ {aid}
           /\ ToSet(AnswersOf(Detached(e, aid))) \subseteq ToSet(AnswersOf(e))
<1> DEFINE before == AnswersOf(e)
           after == Among(before, ToSet(before) \ {aid})
           first == IF after = <<>> THEN NoId ELSE after[1]
           id == IF e.answer_id # NoId /\ ~Contains(after, e.answer_id) THEN first
                 ELSE e.answer_id
           d == [e EXCEPT !.answers = after, !.answer_id = id]
<1>1. e.answer_id \in Ids \union {NoId} /\ before \in Seq(Ids)
    BY AnswersOfAreLinked DEF Links
<1>2. after \in Seq(Ids) /\ ToSet(after) = ToSet(before) \ {aid}
    <2> HIDE DEF before
    <2> QED
        BY <1>1, AmongKeeps
<1>3. Detached(e, aid) = IF after = before /\ e.answer_id # aid THEN e ELSE d
    BY DEF Detached
<1>4. CASE after = before /\ e.answer_id # aid
    <2>1. Detached(e, aid) = e
        BY <1>3, <1>4
    <2>2. aid \notin ToSet(before)
        <3> HIDE DEF before, after
        <3> QED
            BY <1>2, <1>4
    <2> QED
        BY <1>4, <2>1, <2>2 DEF LinkedIds
<1>5. CASE ~(after = before /\ e.answer_id # aid)
    <2>1. Detached(e, aid) = d
        BY <1>3, <1>5
    <2>2. first = NoId \/ first \in ToSet(after)
        <3> HIDE DEF after, before
        <3> QED
            BY <1>2, ElementsOf
    <2>3. id = NoId \/ id \in ToSet(after)
        <3> HIDE DEF after, before, first
        <3> QED
            BY <1>2, <2>2, ElementsOf
    <2>4. id \in Ids \union {NoId}
        <3> HIDE DEF after, before, first, id
        <3> QED
            BY <1>2, <2>3, ElementsOf
    <2>5. d \in Links /\ d.answers = after /\ d.answer_id = id
        <3> HIDE DEF after, before, first, id
        <3> QED
            BY <1>2, <2>4 DEF Links
    <2> HIDE DEF d, id, first, after, before
    <2>6. LinkedIds(d) \subseteq ToSet(after) /\ ToSet(AnswersOf(d)) \subseteq ToSet(after)
        BY <2>3, <2>5, AnswersOfAreLinked
    <2>7. ToSet(after) \subseteq LinkedIds(e) \ {aid} /\ ToSet(after) \subseteq ToSet(AnswersOf(e))
        BY <1>2 DEF LinkedIds, before
    <2> QED
        BY <2>1, <2>5, <2>6, <2>7
<1> QED
    BY <1>4, <1>5

\* _apply_answers_patch: an ISO is linked to what it was and to what was
\* given.
LEMMA PatchedIsLinked ==
    ASSUME NEW e \in Links, NEW patch, NEW R, LinkedIds(e) \subseteq R,
           Has(patch, "answers") => patch.answers \in Seq(Ids) /\ ToSet(patch.answers) \subseteq R,
           Has(patch, "answer_id") =>
               patch.answer_id = NoId \/ patch.answer_id \in R \intersect Ids,
           Has(patch, "manual") => patch.manual \in BOOLEAN
    PROVE  Patched(e, patch) \in Links /\ LinkedIds(Patched(e, patch)) \subseteq R
<1> DEFINE list == LinkedBy(e, patch)
           manual == IF Has(patch, "manual") THEN patch.manual ELSE e.manual
           wanted == IF Has(patch, "answer_id") THEN patch.answer_id ELSE e.answer_id
           first == IF list = <<>> THEN NoId ELSE list[1]
           id == IF Contains(list, wanted) THEN wanted ELSE first
<1>1. /\ e.answer_id \in Ids \union {NoId} /\ e.manual \in BOOLEAN /\ e.answers \in Seq(Ids)
      /\ AnswersOf(e) \in Seq(Ids) /\ ToSet(AnswersOf(e)) \subseteq R
    BY AnswersOfAreLinked DEF Links, LinkedIds
<1>2. manual \in BOOLEAN
    BY <1>1
<1>3. CASE ~Has(patch, "answers") /\ ~Has(patch, "answer_id")
    <2>1. Patched(e, patch) = [e EXCEPT !.manual = manual]
        BY <1>3 DEF Patched
    <2>2. Patched(e, patch) \in Links /\ Patched(e, patch).answers = e.answers
          /\ Patched(e, patch).answer_id = e.answer_id
        <3> HIDE DEF manual
        <3> QED
            BY <1>2, <2>1 DEF Links
    <2>3. AnswersOf(Patched(e, patch)) = AnswersOf(e)
        BY <2>2 DEF AnswersOf
    <2> QED
        BY <2>2, <2>3 DEF LinkedIds
<1>4. CASE Has(patch, "answers") \/ Has(patch, "answer_id")
    <2>1. Patched(e, patch) = [answers |-> list, manual |-> manual, answer_id |-> id]
        BY <1>4 DEF Patched
    <2>2. list \in Seq(Ids) /\ ToSet(list) \subseteq R
        <3>1. CASE Has(patch, "answers")
            <4>1. list = Once(patch.answers)
                BY <3>1 DEF LinkedBy
            <4> HIDE DEF list
            <4> QED
                BY <3>1, <4>1, OnceKeeps
        <3>2. CASE ~Has(patch, "answers") /\ patch.answer_id = NoId
            <4>1. list = <<>>
                BY <1>4, <3>2 DEF LinkedBy
            <4> HIDE DEF list
            <4>2. list \in Seq(Ids)
                BY <4>1
            <4> QED
                BY <4>1, <4>2, ElementsOf
        <3>3. CASE ~Has(patch, "answers") /\ patch.answer_id # NoId
                   /\ Contains(AnswersOf(e), patch.answer_id)
            <4>1. list = AnswersOf(e)
                BY <1>4, <3>3 DEF LinkedBy
            <4> QED
                BY <1>1, <4>1
        <3>4. CASE ~Has(patch, "answers") /\ patch.answer_id # NoId
                   /\ ~Contains(AnswersOf(e), patch.answer_id)
            <4> DEFINE q == <<patch.answer_id>> \o AnswersOf(e)
            <4>1. list = SubSeq(q, 1, Min({Len(q), MaxAnswers}))
                BY <1>4, <3>4 DEF LinkedBy
            <4>2. patch.answer_id \in R \intersect Ids
                BY <1>4, <3>4
            <4>3. q \in Seq(Ids) /\ ToSet(q) \subseteq R
                <5>1. q \in Seq(Ids) /\ Len(q) = Len(AnswersOf(e)) + 1 /\ q[1] = patch.answer_id
                      /\ \A i \in 1..Len(q) : i = 1 \/ q[i] = AnswersOf(e)[i - 1]
                    BY <1>1, <4>2
                <5>2. \A i \in 1..Len(AnswersOf(e)) : AnswersOf(e)[i] \in R
                    BY <1>1 DEF ToSet
                <5> HIDE DEF q
                <5>3. Len(AnswersOf(e)) \in Nat /\ DOMAIN q = 1..Len(q)
                    BY <1>1, <5>1
                <5>4. \A i \in 1..Len(q) : i = 1 \/ i - 1 \in 1..Len(AnswersOf(e))
                    BY <5>1, <5>3
                <5> QED
                    BY <4>2, <5>1, <5>2, <5>3, <5>4 DEF ToSet
            <4>4. MaxAnswers \in Nat
                BY DEF MaxAnswers
            <4> HIDE DEF q, list
            <4> QED
                BY <4>1, <4>3, <4>4, CutShort
        <3> QED
            BY <1>4, <3>1, <3>2, <3>3, <3>4
    <2> HIDE DEF list
    <2>3. first = NoId \/ first \in ToSet(list)
        BY <2>2, ElementsOf
    <2>4. id = NoId \/ id \in ToSet(list)
        <3> HIDE DEF first, wanted
        <3> QED
            BY <2>2, <2>3, ElementsOf
    <2>5. id \in Ids \union {NoId}
        <3> HIDE DEF id
        <3> QED
            BY <2>2, <2>4, ElementsOf
    <2> HIDE DEF id, manual
    <2>6. Patched(e, patch) \in Links /\ Patched(e, patch).answers = list
          /\ Patched(e, patch).answer_id = id
        BY <1>2, <2>1, <2>2, <2>5 DEF Links
    <2> QED
        BY <2>2, <2>4, <2>6, AnswersOfAreLinked
<1> QED
    BY <1>3, <1>4

-----------------------------------------------------------------------------
(* Requests that work with the answers.                                    *)

\* None of the requests that must not overlap do.
Apart ==
    /\ \A q, r \in Requests : (q # r /\ Deleting(doing[q])) => doing[r] = Idle
    /\ \A q, r \in Requests : (doing[q].op = "save" /\ doing[r].op = "save") => q = r

\* What a thread has of the request it is at.
Job(d) ==
    \/ d = Idle
    \/ \E op \in {"create folder", "create record"} : \E aid, new, gen :
          d = [op |-> op, id |-> aid, new |-> new, gen |-> gen]
    \/ \E aid, patch, gen : d = [op |-> "update record", id |-> aid, patch |-> patch, gen |-> gen]
    \/ \E op \in {"delete record", "detach"} : \E aid : d = [op |-> op, id |-> aid]
    \/ \E patched : \E ls \in [Isos -> Links] :
          d = [op |-> "save", patched |-> patched, links |-> ls]

AnswersShape ==
    /\ restarts \in Nat
    /\ links \in [Isos -> Links]
    /\ doing = [r \in Requests |-> doing[r]]
    /\ \A r \in Requests : Job(doing[r])

\* An ISO is linked to answers that are there: but for the one a request is
\* deleting, until the catalogue without it is saved.
AllLinked(ls, R) == \A s \in Isos : LinkedIds(ls[s]) \subseteq R
Cutting(d) == d.op = "detach" \/ (d.op = "save" /\ d.patched = {})
LinksHold ==
    (\A r \in Requests : ~Cutting(doing[r])) => AllLinked(links, DOMAIN records)
LinksFor(d, ls, R) ==
    /\ d.op = "detach" => AllLinked(ls, R \union {d.id})
    /\ d.op = "save" =>
          /\ AllLinked(d.links, R)
          /\ \A s \in Isos : s \in d.patched
                \/ ToSet(AnswersOf(d.links[s])) \subseteq ToSet(AnswersOf(ls[s]))
LinksAreThere ==
    LinksHold /\ \A r \in Requests : LinksFor(doing[r], links, DOMAIN records)

LinksIInv == /\ AnswersShape /\ (~clashed => Apart)
             /\ (restarts = 0 /\ ~clashed) => LinksAreThere

\* By what it is at, what a thread has.
LEMMA JobAt ==
    ASSUME NEW d, Job(d)
    PROVE  /\ d.op = "create folder" =>
                 \E aid, new, gen :
                    d = [op |-> "create folder", id |-> aid, new |-> new, gen |-> gen]
           /\ d.op = "create record" =>
                 \E aid, new, gen :
                    d = [op |-> "create record", id |-> aid, new |-> new, gen |-> gen]
           /\ d.op = "update record" =>
                 \E aid, patch, gen :
                    d = [op |-> "update record", id |-> aid, patch |-> patch, gen |-> gen]
           /\ d.op \in {"delete record", "detach"} => \E aid : d = [op |-> d.op, id |-> aid]
           /\ d.op = "save" => d.links \in [Isos -> Links]
           /\ d.op = "idle" => d = Idle
<1>1. CASE d = Idle
    <2>1. d.op = "idle"
        BY <1>1 DEF Idle
    <2> QED
        BY <1>1, <2>1
<1>2. ASSUME NEW op \in {"create folder", "create record"}, NEW aid, NEW new, NEW gen,
             d = [op |-> op, id |-> aid, new |-> new, gen |-> gen]
      PROVE  /\ d.op = op
             /\ \E i, n, g : d = [op |-> op, id |-> i, new |-> n, gen |-> g]
    BY <1>2
<1>3. ASSUME NEW aid, NEW patch, NEW gen,
             d = [op |-> "update record", id |-> aid, patch |-> patch, gen |-> gen]
      PROVE  d.op = "update record"
    BY <1>3
<1>4. ASSUME NEW op \in {"delete record", "detach"}, NEW aid, d = [op |-> op, id |-> aid]
      PROVE  d.op = op /\ \E i : d = [op |-> op, id |-> i]
    BY <1>4
<1>5. ASSUME NEW patched, NEW ls \in [Isos -> Links],
             d = [op |-> "save", patched |-> patched, links |-> ls]
      PROVE  d.op = "save" /\ d.links = ls
    BY <1>5
<1>6. CASE \E op \in {"create folder", "create record"} : \E aid, new, gen :
               d = [op |-> op, id |-> aid, new |-> new, gen |-> gen]
    <2>1. PICK op \in {"create folder", "create record"} :
                   d.op = op /\ \E i, n, g : d = [op |-> op, id |-> i, new |-> n, gen |-> g]
        BY <1>2, <1>6
    <2>2. CASE op = "create folder"
        BY <2>1, <2>2
    <2>3. CASE op = "create record"
        BY <2>1, <2>3
    <2> QED
        BY <2>2, <2>3
<1>7. CASE \E aid, patch, gen :
               d = [op |-> "update record", id |-> aid, patch |-> patch, gen |-> gen]
    BY <1>3, <1>7
<1>8. CASE \E op \in {"delete record", "detach"} : \E aid : d = [op |-> op, id |-> aid]
    <2>1. PICK op \in {"delete record", "detach"} :
                   d.op = op /\ \E i : d = [op |-> op, id |-> i]
        BY <1>4, <1>8
    <2> QED
        BY <2>1
<1>9. CASE \E patched : \E ls \in [Isos -> Links] :
               d = [op |-> "save", patched |-> patched, links |-> ls]
    <2>1. d.op = "save" /\ d.links \in [Isos -> Links]
        BY <1>5, <1>9
    <2> QED
        BY <2>1
<1> QED
    BY <1>1, <1>6, <1>7, <1>8, <1>9 DEF Job

\* A request that goes on.
LEMMA DeletedJob ==
    ASSUME NEW d, NEW op, d = [op |-> d.op, id |-> d.id]
    PROVE  [d EXCEPT !.op = op] = [op |-> op, id |-> d.id]
    OBVIOUS

\* What PatchOk has checked.
LEMMA PatchGives ==
    ASSUME NEW s \in Isos, NEW patch \in Patches[s],
           NEW e, PatchOk(e, patch)
    PROVE  /\ Has(patch, "answers") =>
                 patch.answers \in Seq(Ids) /\ ToSet(patch.answers) \subseteq DOMAIN records
           /\ Has(patch, "answer_id") =>
                 patch.answer_id = NoId \/ patch.answer_id \in DOMAIN records \intersect Ids
           /\ Has(patch, "manual") => patch.manual \in BOOLEAN
    BY LinksAssumption DEF PatchOk

\* The requests keep the shape, whatever they overlap.
LEMMA ShapeStep ==
    ASSUME AnswersShape, AnswersNext
    PROVE  AnswersShape'
<1> USE DEF AnswersShape
<1>1. CASE Restart
    <2>a. restarts' = restarts + 1 /\ doing' = [r \in Requests |-> Idle] /\ UNCHANGED links
        BY <1>1, Zenon DEF Restart
    <2>1. restarts' \in Nat
        BY <2>a
    <2>2. Job(Idle)
        BY DEF Job
    <2> QED
        BY <2>a, <2>1, <2>2
<1>2. ASSUME NEW r \in Requests, NEW job, Begin(r, job), Job(job), UNCHANGED links
      PROVE  AnswersShape'
    <2>1. doing' = [q \in Requests |-> IF q = r THEN job ELSE doing[q]] /\ restarts' = restarts
        BY <1>2 DEF Begin
    <2>2. \A q \in Requests : doing'[q] = job \/ doing'[q] = doing[q]
        BY <2>1
    <2>3. \A q \in Requests : Job(doing'[q])
        BY <1>2, <2>2
    <2> QED
        BY <1>2, <2>1, <2>3
<1>3. ASSUME NEW r \in Requests, NEW job, doing' = [doing EXCEPT ![r] = job], Job(job),
             UNCHANGED restarts, links' \in [Isos -> Links]
      PROVE  AnswersShape'
    <2>1. doing' = [q \in Requests |-> IF q = r THEN job ELSE doing[q]]
        BY <1>3
    <2>2. \A q \in Requests : doing'[q] = job \/ doing'[q] = doing[q]
        BY <2>1
    <2>3. \A q \in Requests : Job(doing'[q])
        BY <1>3, <2>2
    <2> QED
        BY <1>3, <2>1, <2>3
<1>4. ASSUME NEW r \in Requests, Request(r) PROVE AnswersShape'
    <2>1. ASSUME NEW new \in NewAnswers, CreateFindId(r, new) PROVE AnswersShape'
        <3>1. PICK aid : Begin(r, [op |-> "create folder", id |-> aid, new |-> new, gen |-> 0])
                        /\ UNCHANGED links
            BY <2>1 DEF CreateFindId
        <3>2. Job([op |-> "create folder", id |-> aid, new |-> new, gen |-> 0])
            BY DEF Job
        <3> QED
            BY <1>2, <3>1, <3>2
    <2>2. ASSUME NEW aid \in Ids, DeleteFolder(r, aid) PROVE AnswersShape'
        <3>1. Job([op |-> "delete record", id |-> aid])
            BY DEF Job
        <3> QED
            BY <1>2, <2>2, <3>1 DEF DeleteFolder
    <2>3. ASSUME NEW aid \in Ids, NEW change \in Updates[aid], UpdateStart(r, aid, change)
          PROVE  AnswersShape'
        <3>1. PICK patch, gen :
                 /\ Begin(r, [op |-> "update record", id |-> aid, patch |-> patch, gen |-> gen])
                 /\ UNCHANGED links
            BY <2>3 DEF UpdateStart
        <3>2. Job([op |-> "update record", id |-> aid, patch |-> patch, gen |-> gen])
            BY DEF Job
        <3> QED
            BY <1>2, <3>1, <3>2
    <2>4. ASSUME NEW aid \in Ids, NEW n, DeleteFile(r, aid, n) PROVE AnswersShape'
        BY <2>4 DEF DeleteFile
    <2>5. ASSUME NEW s \in Isos, NEW patch \in Patches[s], PatchLoad(r, s, patch)
          PROVE  AnswersShape'
        <3> DEFINE new == [links EXCEPT ![s] = Patched(@, patch)]
        <3>1. Begin(r, Saving({s}, new)) /\ UNCHANGED links /\ PatchOk(links[s], patch)
            BY <2>5 DEF PatchLoad
        <3>2. Patched(links[s], patch) \in Links
            <4>1. links[s] \in Links
                OBVIOUS
            <4>2. LinkedIds(links[s]) \subseteq LinkedIds(links[s]) \union DOMAIN records
                OBVIOUS
            <4> QED
                BY <3>1, <4>1, <4>2, PatchGives, PatchedIsLinked
        <3>3. new \in [Isos -> Links]
            BY <3>2
        <3> HIDE DEF new
        <3>4. Job(Saving({s}, new))
            BY <3>3 DEF Job, Saving
        <3> QED
            BY <1>2, <3>1, <3>4
    <2> QED
        BY <1>4, <2>1, <2>2, <2>3, <2>4, <2>5 DEF Request
<1>5. ASSUME NEW r \in Requests, Step(r) PROVE AnswersShape'
    <2> DEFINE d == doing[r]
    <2>0. Job(Idle) /\ Job(d) /\ links \in [Isos -> Links]
        BY DEF Job
    <2>1. CASE CreateFolder(r)
        <3>2. UNCHANGED <<restarts, links>>
            BY <2>1 DEF CreateFolder, Counters
        <3>3. CASE End(r)
            BY <1>3, <2>0, <3>2, <3>3 DEF End
        <3> DEFINE job == [op |-> "create record", id |-> d.id, new |-> d.new,
                           gen |-> created + 1]
        <3>4. CASE doing' = [doing EXCEPT ![r] = job]
            <4>1. Job(job)
                BY DEF Job
            <4> HIDE DEF job
            <4> QED
                BY <1>3, <2>0, <3>2, <3>4, <4>1
        <3> QED
            BY <2>1, <3>3, <3>4 DEF CreateFolder
    <2>2. CASE CreateRecord(r)
        BY <1>3, <2>0, <2>2 DEF CreateRecord, End, Counters
    <2>3. CASE UpdateRecord(r)
        BY <1>3, <2>0, <2>3 DEF UpdateRecord, End, Counters
    <2>4. CASE DeleteRecord(r)
        <3>1. PICK aid : d = [op |-> "delete record", id |-> aid]
            BY <2>0, <2>4, JobAt DEF DeleteRecord
        <3>a. doing' = [doing EXCEPT ![r] = [d EXCEPT !.op = "detach"]]
            BY <2>4 DEF DeleteRecord, Go
        <3>c. d = [op |-> d.op, id |-> d.id]
            BY <3>1
        <3>b. [d EXCEPT !.op = "detach"] = [op |-> "detach", id |-> d.id]
            <4> HIDE DEF d
            <4> QED
                BY <3>c, DeletedJob, Zenon
        <3>2. doing' = [doing EXCEPT ![r] = [op |-> "detach", id |-> d.id]]
            BY <3>a, <3>b
        <3>3. Job([op |-> "detach", id |-> d.id])
            BY DEF Job
        <3> QED
            BY <1>3, <2>0, <2>4, <3>2, <3>3 DEF DeleteRecord, Counters
    <2>5. CASE Detach(r)
        <3> DEFINE left == [s \in Isos |-> Detached(links[s], doing[r].id)]
        <3>1. left \in [Isos -> Links]
            BY <2>0, DetachedLeaves
        <3>2. Job(Saving({}, left))
            BY <3>1 DEF Job, Saving
        <3>3. /\ doing' = [doing EXCEPT ![r] = IF left = links THEN Idle ELSE Saving({}, left)]
              /\ UNCHANGED <<restarts, links>>
            BY <2>5 DEF Detach, Counters
        <3> HIDE DEF left
        <3> QED
            BY <1>3, <2>0, <3>2, <3>3
    <2>6. CASE Save(r)
        <3>1. d.links \in [Isos -> Links]
            BY <2>0, <2>6, JobAt DEF Save
        <3> QED
            BY <1>3, <2>0, <2>6, <3>1 DEF Save, End, Counters
    <2> QED
        BY <1>5, <2>1, <2>2, <2>3, <2>4, <2>5, <2>6 DEF Step
<1> QED
    BY <1>1, <1>4, <1>5 DEF AnswersNext

\* What came between two others stays apart from them.
LEMMA ApartStep ==
    ASSUME AnswersShape, ~clashed => Apart, AnswersNext
    PROVE  /\ ~clashed' => ~clashed /\ Apart'
           /\ \A r \in Requests : \A job : (Begin(r, job) /\ ~clashed') =>
                  \A q \in Requests : /\ ~Deleting(doing[q])
                                      /\ Deleting(job) => (q = r \/ doing[q] = Idle)
                                      /\ job.op = "save" => doing[q].op # "save"
<1>0. doing = [r \in Requests |-> doing[r]]
    BY DEF AnswersShape
<1>1. Idle.op = "idle" /\ ~Deleting(Idle)
    BY DEF Idle, Deleting
<1>2. ASSUME NEW r \in Requests, NEW job, Begin(r, job), ~clashed'
      PROVE  /\ ~clashed /\ Apart'
             /\ \A q \in Requests : /\ ~Deleting(doing[q])
                                    /\ Deleting(job) => (q = r \/ doing[q] = Idle)
                                    /\ job.op = "save" => doing[q].op # "save"
    <2>1. ~clashed /\ ~Clashes(r, job) /\ doing[r] = Idle /\ doing' = [doing EXCEPT ![r] = job]
        BY <1>2 DEF Begin
    <2>2. \A q \in Requests \ {r} :
             doing[q] = Idle \/ (/\ ~Deleting(job) /\ ~Deleting(doing[q])
                               /\ ~(job.op = "save" /\ doing[q].op = "save"))
        BY <2>1 DEF Clashes
    <2>3. \A q \in Requests : /\ ~Deleting(doing[q])
                              /\ Deleting(job) => (q = r \/ doing[q] = Idle)
                              /\ job.op = "save" => doing[q].op # "save"
        BY <1>1, <2>1, <2>2
    <2>4. \A q \in Requests : doing'[q] = IF q = r THEN job ELSE doing[q]
        BY <1>0, <2>1
    <2>5. \A q, t \in Requests : (q # t /\ Deleting(doing'[q])) => doing'[t] = Idle
        BY <2>3, <2>4
    <2>6. \A q, t \in Requests : (doing'[q].op = "save" /\ doing'[t].op = "save") => q = t
        BY <2>1, <2>3, <2>4 DEF Apart
    <2>7. Apart'
        BY <2>5, <2>6 DEF Apart, Deleting
    <2> QED
        BY <2>1, <2>3, <2>7
<1>3. ASSUME NEW r \in Requests, NEW job, doing' = [doing EXCEPT ![r] = job], UNCHANGED clashed,
             doing[r].op # "idle", Deleting(job) => Deleting(doing[r]),
             job.op = "save" => Deleting(doing[r]), ~clashed'
      PROVE  Apart'
    <2>1. Apart
        BY <1>3
    <2>2. \A q \in Requests : doing'[q] = IF q = r THEN job ELSE doing[q]
        BY <1>0, <1>3
    <2>3. \A q, t \in Requests : (q # t /\ Deleting(doing'[q])) => doing'[t] = Idle
        <3> SUFFICES ASSUME NEW q \in Requests, NEW t \in Requests, q # t, Deleting(doing'[q])
                     PROVE  doing'[t] = Idle
            OBVIOUS
        <3>1. Deleting(doing[q])
            BY <1>3, <2>2
        <3>2. doing[t] = Idle
            BY <2>1, <3>1 DEF Apart
        <3>3. t # r
            BY <1>1, <1>3, <3>2
        <3> QED
            BY <2>2, <3>2, <3>3
    <2>4. \A q, t \in Requests : (doing'[q].op = "save" /\ doing'[t].op = "save") => q = t
        <3>1. Deleting(doing[r]) => \A q \in Requests : q = r \/ doing[q] = Idle
            BY <2>1 DEF Apart
        <3> QED
            BY <1>1, <1>3, <2>1, <2>2, <3>1 DEF Apart
    <2> QED
        BY <2>3, <2>4 DEF Apart, Deleting
<1>4. CASE Restart
    <2>1. doing' = [r \in Requests |-> Idle] /\ UNCHANGED clashed
        BY <1>4, Zenon DEF Restart
    <2>2. \A r \in Requests : doing'[r] = Idle
        BY <2>1
    <2>3. Apart'
        BY <1>1, <2>2 DEF Apart, Deleting
    <2>4. \A r \in Requests : \A job : ~Begin(r, job)
        <3>1. restarts' = restarts + 1 /\ restarts \in Nat
            BY <1>4, Zenon DEF Restart, AnswersShape
        <3> QED
            BY <3>1 DEF Begin
    <2> QED
        BY <2>1, <2>3, <2>4
<1>5. ASSUME NEW r \in Requests, Request(r) PROVE ~clashed' => ~clashed /\ Apart'
    <2>1. CASE \E job : Begin(r, job)
        BY <1>2, <2>1
    <2>2. CASE UNCHANGED <<doing, clashed>>
        BY <2>2 DEF Apart, Deleting
    <2> QED
        BY <1>5, <2>1, <2>2 DEF Request, CreateFindId, DeleteFolder, UpdateStart, PatchLoad, DeleteFile
<1>6. ASSUME NEW r \in Requests, Step(r) PROVE ~clashed' => ~clashed /\ Apart'
    <2> DEFINE d == doing[r]
    <2>0. UNCHANGED clashed
        BY <1>6 DEF Step, CreateFolder, CreateRecord, UpdateRecord, DeleteRecord, Detach, Save, Counters
    <2>a. d.op # "idle"
        BY <1>6 DEF Step, CreateFolder, CreateRecord, UpdateRecord, DeleteRecord, Detach, Save
    <2>1. CASE End(r)
        BY <2>a, <1>1, <1>3, <2>0, <2>1 DEF End
    <2>2. ASSUME NEW aid, NEW new, NEW gen,
                 doing' = [doing EXCEPT ![r] = [op |-> "create record", id |-> aid, new |-> new,
                                                gen |-> gen]]
          PROVE  ~clashed' => Apart'
        <3>1. PICK job : job = [op |-> "create record", id |-> aid, new |-> new, gen |-> gen]
            OBVIOUS
        <3>2. job.op = "create record"
            BY <3>1
        <3>3. ~Deleting(job)
            BY <3>2 DEF Deleting
        <3> QED
            BY <1>3, <2>0, <2>a, <2>2, <3>1, <3>2, <3>3
    <2>3. CASE DeleteRecord(r)
        <3>1. d.op = "delete record" /\ doing' = [doing EXCEPT ![r] = [d EXCEPT !.op = "detach"]]
            BY <2>3 DEF DeleteRecord, Go
        <3>2. Job(d)
            BY DEF AnswersShape
        <3>3. PICK aid : d = [op |-> d.op, id |-> aid]
            BY <3>1, <3>2, JobAt
        <3>4. d = [op |-> d.op, id |-> d.id]
            BY <3>3
        <3>5. PICK job : job = [d EXCEPT !.op = "detach"]
            OBVIOUS
        <3>6. job = [op |-> "detach", id |-> d.id]
            <4> HIDE DEF d
            <4> QED
                BY <3>4, <3>5, DeletedJob, Zenon
        <3>7. job.op = "detach" /\ Deleting(d)
            BY <3>1, <3>6 DEF Deleting
        <3> QED
            BY <1>3, <2>0, <2>a, <3>1, <3>5, <3>7
    <2>4. CASE Detach(r)
        <3> DEFINE left == [s \in Isos |-> Detached(links[s], doing[r].id)]
        <3>1. d.op = "detach" /\ doing' = [doing EXCEPT ![r] = IF left = links THEN Idle ELSE Saving({}, left)]
            BY <2>4 DEF Detach
        <3>2. Deleting(d)
            BY <3>1 DEF Deleting
        <3> HIDE DEF left
        <3> QED
            BY <1>3, <2>0, <2>a, <3>1, <3>2
    <2> QED
        BY <1>6, <2>0, <2>1, <2>2, <2>3, <2>4
           DEF Step, CreateFolder, CreateRecord, UpdateRecord, Save
<1>7. ~clashed' => ~clashed /\ Apart'
    BY <1>4, <1>5, <1>6 DEF AnswersNext
<1> QED
    BY <1>2, <1>7

\* What NobodyGainsAnAnswer says of a step.
GainsByLink ==
    (restarts' = 0 /\ ~clashed' /\ ~UNCHANGED <<records, links>>) => \A s \in Isos :
        LET was == ToSet(AnswersInfo(links[s]))
            is == ToSet(AnswersInfo(links[s])')
        IN is \subseteq was \/ \E r \in Requests : doing[r].op = "save" /\ s \in doing[r].patched

\* An answer that is linked and there is offered, and no other.
LEMMA InfoIsThere ==
    ASSUME NEW e \in Links, NEW R
    PROVE  ToSet(Among(AnswersOf(e), R)) = ToSet(AnswersOf(e)) \intersect R
    BY AnswersOfAreLinked, AmongKeeps

\* When the answers there are change and the links do not, the ISOs offer
\* what they offered, as long as they are linked to what there was.
LEMMA SameLinks ==
    ASSUME AnswersShape, AllLinked(links, DOMAIN records), UNCHANGED links
    PROVE  GainsByLink
<1> SUFFICES ASSUME NEW s \in Isos
             PROVE  ToSet(AnswersInfo(links[s])') \subseteq ToSet(AnswersInfo(links[s]))
    BY DEF GainsByLink
<1>1. links[s] \in Links /\ links'[s] = links[s]
    BY DEF AnswersShape
<1>2. ToSet(AnswersOf(links[s])) \subseteq DOMAIN records
    BY DEF AllLinked, LinkedIds
<1>3. AnswersInfo(links[s])' = Among(AnswersOf(links[s]), DOMAIN records')
    BY <1>1 DEF AnswersInfo
<1>4. AnswersInfo(links[s]) = Among(AnswersOf(links[s]), DOMAIN records)
    BY DEF AnswersInfo
<1> QED
    BY <1>1, <1>2, <1>3, <1>4, InfoIsThere

\* Nor do they when answers only go.
LEMMA FewerRecords ==
    ASSUME AnswersShape, DOMAIN records' \subseteq DOMAIN records, UNCHANGED links
    PROVE  GainsByLink
<1> SUFFICES ASSUME NEW s \in Isos
             PROVE  ToSet(AnswersInfo(links[s])') \subseteq ToSet(AnswersInfo(links[s]))
    BY DEF GainsByLink
<1>1. links[s] \in Links /\ links'[s] = links[s]
    BY DEF AnswersShape
<1>2. AnswersInfo(links[s])' = Among(AnswersOf(links[s]), DOMAIN records')
    BY <1>1 DEF AnswersInfo
<1>3. AnswersInfo(links[s]) = Among(AnswersOf(links[s]), DOMAIN records)
    BY DEF AnswersInfo
<1> QED
    BY <1>1, <1>2, <1>3, InfoIsThere

\* What a thread has of the links stays so as answers come.
LEMMA LinksGrow ==
    ASSUME NEW d, NEW ls, NEW R, NEW S, R \subseteq S, LinksFor(d, ls, R)
    PROVE  LinksFor(d, ls, S)
    BY DEF LinksFor, AllLinked

\* Until requests overlap the links are kept, and what a step gives an ISO
\* was linked by a user.
LEMMA LinksStep ==
    ASSUME LinksIInv, [Next]_bootVars
    PROVE  LinksIInv' /\ GainsByLink
<1> DEFINE Kept == (restarts' = 0 /\ ~clashed') => LinksAreThere' /\ GainsByLink
<1>0. AnswersShape /\ restarts \in Nat /\ (~clashed => Apart)
      /\ ((restarts = 0 /\ ~clashed) => LinksAreThere)
    BY DEF LinksIInv, AnswersShape
<1>1. ASSUME UNCHANGED <<records, links, doing>>
      PROVE  (LinksAreThere => LinksAreThere') /\ GainsByLink /\ (Apart => Apart')
    BY <1>1 DEF LinksAreThere, LinksHold, LinksFor, Cutting, AllLinked, GainsByLink, Apart, Deleting
<1>2. ASSUME AnswersNext PROVE LinksIInv' /\ GainsByLink
    <2>0. AnswersShape' /\ (~clashed' => ~clashed /\ Apart')
        BY <1>0, <1>2, ShapeStep, ApartStep
    <2>1. CASE Restart
        <3>1. restarts' # 0
            BY <1>0, <2>1 DEF Restart
        <3> QED
            BY <2>0, <3>1 DEF GainsByLink, LinksIInv
    <2>2. ASSUME NEW r \in Requests, Request(r) \/ Step(r) PROVE Kept
        <3>0. restarts' = restarts
            <4>1. CASE Request(r)
                BY <4>1 DEF Request, CreateFindId, DeleteFolder, UpdateStart, DeleteFile, PatchLoad,
                            Begin
            <4>2. CASE Step(r)
                BY <4>2 DEF Step, CreateFolder, CreateRecord, UpdateRecord, DeleteRecord, Detach,
                            Save, Counters
            <4> QED
                BY <2>2, <4>1, <4>2
        <3> SUFFICES ASSUME restarts = 0, ~clashed' PROVE LinksAreThere' /\ GainsByLink
            BY <3>0
        <3> DEFINE d == doing[r]
        <3>1. /\ LinksHold /\ Apart /\ links \in [Isos -> Links] /\ Job(d)
              /\ \A q \in Requests : LinksFor(doing[q], links, DOMAIN records)
              /\ doing = [q \in Requests |-> doing[q]]
            BY <1>0, <2>0 DEF AnswersShape, LinksAreThere
        <3>3. Idle.op = "idle"
            BY DEF Idle
        <3>4. \A f, x, v : DOMAIN f \subseteq DOMAIN With(f, x, v)
            BY DEF With
        <3>a. \A c : Cutting(c) => Deleting(c)
            BY DEF Cutting, Deleting
        \* A request that begins, and one that goes on.
        <3>b. ASSUME NEW job, Begin(r, job)
              PROVE  /\ AllLinked(links, DOMAIN records)
                     /\ \A q \in Requests : /\ Deleting(job) => (q = r \/ doing[q] = Idle)
                                            /\ job.op = "save" => doing[q].op # "save"
            <4>1. \A q \in Requests : /\ ~Deleting(doing[q])
                                      /\ Deleting(job) => (q = r \/ doing[q] = Idle)
                                      /\ job.op = "save" => doing[q].op # "save"
                BY <1>0, <1>2, <3>b, ApartStep
            <4> QED
                BY <3>1, <3>a, <4>1 DEF LinksHold
        <3>c. ASSUME d.op # "idle", ~Cutting(d) PROVE AllLinked(links, DOMAIN records)
            <4>1. \A q \in Requests : q # r => ~Deleting(doing[q])
                BY <3>1, <3>3, <3>c DEF Apart
            <4> QED
                BY <3>1, <3>a, <3>c, <4>1 DEF LinksHold
        <3>d. ASSUME Deleting(d) PROVE \A q \in Requests : q = r \/ doing[q] = Idle
            BY <3>1, <3>d DEF Apart
        <3>e. ASSUME NEW job, doing' = [doing EXCEPT ![r] = job]
              PROVE  \A q \in Requests : doing'[q] = IF q = r THEN job ELSE doing[q]
            BY <3>1, <3>e
        \* A step that begins or ends with the links as they are.
        <3>2. ASSUME AllLinked(links, DOMAIN records), UNCHANGED links,
                     DOMAIN records \subseteq DOMAIN records',
                     NEW job, doing' = [doing EXCEPT ![r] = job],
                     LinksFor(job, links, DOMAIN records)
              PROVE  LinksAreThere' /\ GainsByLink
            <4>1. LinksHold'
                BY <3>2 DEF LinksHold, AllLinked
            <4>2. \A q \in Requests : LinksFor(doing'[q], links, DOMAIN records')
                BY <3>1, <3>2, <3>e, LinksGrow
            <4>3. \A q \in Requests : LinksFor(doing'[q], links', DOMAIN records')
                BY <3>2, <4>2
            <4>4. LinksAreThere'
                BY <4>1, <4>3 DEF LinksAreThere, LinksFor, AllLinked
            <4> QED
                BY <1>0, <3>2, <4>4, SameLinks
        \* Nor does the job say anything of the links.
        <3>f. ASSUME NEW job, job.op \notin {"detach", "save"}
              PROVE  LinksFor(job, links, DOMAIN records)
            BY <3>f DEF LinksFor
        <3>5. ASSUME NEW new \in NewAnswers, CreateFindId(r, new)
              PROVE  LinksAreThere' /\ GainsByLink
            <4>1. PICK job : /\ Begin(r, job) /\ job.op = "create folder"
                             /\ UNCHANGED <<links, records>>
                BY <3>5 DEF CreateFindId
            <4>2. doing' = [doing EXCEPT ![r] = job]
                BY <4>1 DEF Begin
            <4> QED
                BY <3>2, <3>b, <3>f, <4>1, <4>2
        <3>6. ASSUME NEW aid \in Ids, DeleteFolder(r, aid)
              PROVE  LinksAreThere' /\ GainsByLink
            <4>1. PICK job : /\ Begin(r, job) /\ job.op = "delete record"
                             /\ UNCHANGED <<links, records>>
                BY <3>6 DEF DeleteFolder
            <4>2. doing' = [doing EXCEPT ![r] = job]
                BY <4>1 DEF Begin
            <4> QED
                BY <3>2, <3>b, <3>f, <4>1, <4>2
        <3>7. ASSUME NEW aid \in Ids, NEW change \in Updates[aid], UpdateStart(r, aid, change)
              PROVE  LinksAreThere' /\ GainsByLink
            <4>1. PICK job : /\ Begin(r, job) /\ job.op = "update record"
                             /\ UNCHANGED <<links, records>>
                BY <3>7 DEF UpdateStart
            <4>2. doing' = [doing EXCEPT ![r] = job]
                BY <4>1 DEF Begin
            <4> QED
                BY <3>2, <3>b, <3>f, <4>1, <4>2
        <3>8. ASSUME NEW aid \in Ids, NEW n, DeleteFile(r, aid, n)
              PROVE  LinksAreThere' /\ GainsByLink
            <4>1. UNCHANGED <<records, links, doing>>
                BY <3>8 DEF DeleteFile
            <4> QED
                BY <1>0, <1>1, <2>0, <4>1
        <3>9. ASSUME NEW s \in Isos, NEW patch \in Patches[s], PatchLoad(r, s, patch)
              PROVE  LinksAreThere' /\ GainsByLink
            <4> DEFINE new == [links EXCEPT ![s] = Patched(@, patch)]
            <4>0. PICK job : job = Saving({s}, new)
                OBVIOUS
            <4>2. /\ Begin(r, job) /\ doing' = [doing EXCEPT ![r] = job]
                  /\ UNCHANGED <<records, links>> /\ PatchOk(links[s], patch)
                BY <3>9, <4>0 DEF PatchLoad, Begin
            <4>1. AllLinked(links, DOMAIN records)
                BY <3>b, <4>2
            <4>3. links[s] \in Links /\ LinkedIds(links[s]) \subseteq DOMAIN records
                BY <3>1, <4>1 DEF AllLinked
            <4>4. LinkedIds(Patched(links[s], patch)) \subseteq DOMAIN records
                BY <4>2, <4>3, PatchGives, PatchedIsLinked
            <4>5. \A t \in Isos : new[t] = IF t = s THEN Patched(links[s], patch) ELSE links[t]
                BY <3>1
            <4>6. AllLinked(new, DOMAIN records)
                BY <4>1, <4>4, <4>5 DEF AllLinked
            <4> HIDE DEF new
            <4>7. job.op = "save" /\ job.patched = {s} /\ job.links = new
                BY <4>0 DEF Saving
            <4>8. \A t \in Isos : t \in job.patched
                     \/ ToSet(AnswersOf(job.links[t])) \subseteq ToSet(AnswersOf(links[t]))
                BY <4>5, <4>7
            <4>9. LinksFor(job, links, DOMAIN records)
                BY <4>6, <4>7, <4>8 DEF LinksFor
            <4> QED
                BY <3>2, <4>1, <4>2, <4>9
        <3>10. CASE CreateFolder(r)
            <4>1. AllLinked(links, DOMAIN records) /\ UNCHANGED <<links, records>>
                BY <3>c, <3>10 DEF CreateFolder, Cutting
            <4>2. CASE End(r)
                BY <3>2, <3>3, <3>f, <4>1, <4>2 DEF End
            <4> DEFINE job == [op |-> "create record", id |-> d.id, new |-> d.new,
                               gen |-> created + 1]
            <4>3. CASE doing' = [doing EXCEPT ![r] = job]
                <5>1. job.op = "create record"
                    OBVIOUS
                <5> HIDE DEF job
                <5> QED
                    BY <3>2, <3>f, <4>1, <4>3, <5>1
            <4> QED
                BY <3>10, <4>2, <4>3 DEF CreateFolder
        <3>11. CASE CreateRecord(r)
            <4>1. AllLinked(links, DOMAIN records) /\ UNCHANGED links
                BY <3>c, <3>11 DEF CreateRecord, Cutting
            <4>2. DOMAIN records \subseteq DOMAIN records'
                BY <3>4, <3>11 DEF CreateRecord
            <4> QED
                BY <3>2, <3>3, <3>f, <3>11, <4>1, <4>2 DEF CreateRecord, End
        <3>12. CASE UpdateRecord(r)
            <4>1. AllLinked(links, DOMAIN records) /\ UNCHANGED links
                BY <3>c, <3>12 DEF UpdateRecord, Cutting
            <4>2. DOMAIN records \subseteq DOMAIN records'
                BY <3>4, <3>12 DEF UpdateRecord
            <4> QED
                BY <3>2, <3>3, <3>f, <3>12, <4>1, <4>2 DEF UpdateRecord, End
        <3>13. CASE DeleteRecord(r)
            <4>1. d.op = "delete record" /\ UNCHANGED links
                BY <3>13 DEF DeleteRecord
            <4>2. AllLinked(links, DOMAIN records)
                BY <3>c, <4>1 DEF Cutting
            <4>3. DOMAIN records' = DOMAIN records \ {d.id}
                BY <3>13 DEF DeleteRecord, Without
            <4>4. PICK aid : d = [op |-> "delete record", id |-> aid]
                BY <3>1, <4>1, JobAt
            <4>5. PICK job : job = [d EXCEPT !.op = "detach"]
                OBVIOUS
            <4>6. d = [op |-> d.op, id |-> d.id] /\ doing' = [doing EXCEPT ![r] = job]
                BY <3>13, <4>4, <4>5 DEF DeleteRecord, Go
            <4>7. job = [op |-> "detach", id |-> d.id]
                <5> HIDE DEF d
                <5> QED
                    BY <4>5, <4>6, DeletedJob, Zenon
            <4>8. job.op = "detach" /\ job.id = d.id
                BY <4>7
            <4>9. \A q \in Requests : doing'[q] = job \/ doing'[q] = Idle
                BY ZenonT(40), <3>d, <3>e, <4>1, <4>6 DEF Deleting
            <4>10. \A q \in Requests : LinksFor(doing'[q], links', DOMAIN records')
                <5>1. AllLinked(links', DOMAIN records' \union {d.id})
                    BY <4>1, <4>2, <4>3 DEF AllLinked
                <5>2. LinksFor(job, links', DOMAIN records')
                    BY <4>8, <5>1 DEF LinksFor
                <5>3. LinksFor(Idle, links', DOMAIN records')
                    BY <3>3 DEF LinksFor
                <5> QED
                    BY <4>9, <5>2, <5>3
            <4>11. LinksHold'
                <5>1. doing'[r] = job
                    BY <3>e, <4>6
                <5> QED
                    BY <4>8, <5>1 DEF LinksHold, Cutting
            <4>12. LinksAreThere'
                BY <4>10, <4>11 DEF LinksAreThere, LinksFor, AllLinked
            <4> QED
                BY <1>0, <4>1, <4>3, <4>12, FewerRecords
        <3>14. CASE Detach(r)
            <4> DEFINE left == [s \in Isos |-> Detached(links[s], d.id)]
            <4>0. d.op = "detach" /\ LinksFor(d, links, DOMAIN records)
                BY <3>1, <3>14 DEF Detach
            <4>1. AllLinked(links, DOMAIN records \union {d.id}) /\ UNCHANGED <<links, records>>
                BY <3>14, <4>0 DEF Detach, LinksFor
            <4>2. PICK job : /\ job = IF left = links THEN Idle ELSE Saving({}, left)
                             /\ doing' = [doing EXCEPT ![r] = job]
                BY <3>14 DEF Detach
            <4>3. /\ AllLinked(left, DOMAIN records)
                  /\ \A s \in Isos : ToSet(AnswersOf(left[s])) \subseteq ToSet(AnswersOf(links[s]))
                <5> SUFFICES ASSUME NEW s \in Isos
                             PROVE  /\ LinkedIds(left[s]) \subseteq DOMAIN records
                                    /\ ToSet(AnswersOf(left[s])) \subseteq ToSet(AnswersOf(links[s]))
                    BY DEF AllLinked
                <5>1. left[s] = Detached(links[s], d.id) /\ links[s] \in Links
                    BY <3>1
                <5>2. LinkedIds(links[s]) \subseteq DOMAIN records \union {d.id}
                    BY <4>1 DEF AllLinked
                <5> HIDE DEF d, left
                <5> QED
                    BY <5>1, <5>2, DetachedLeaves
            <4>4. GainsByLink
                BY <4>1 DEF GainsByLink
            <4> HIDE DEF left
            <4>5. \A q \in Requests : doing'[q] = IF q = r THEN job ELSE Idle
                BY <3>d, <3>e, <4>0, <4>2 DEF Deleting
            <4>6. LinksFor(Idle, links, DOMAIN records)
                BY <3>3 DEF LinksFor
            <4>7. CASE left = links
                <5>1. AllLinked(links, DOMAIN records) /\ \A q \in Requests : doing'[q] = Idle
                    BY <4>2, <4>3, <4>5, <4>7
                <5> QED
                    BY <4>1, <4>4, <4>6, <5>1 DEF LinksAreThere, LinksHold, LinksFor, AllLinked
            <4>8. CASE left # links
                <5>1. job = Saving({}, left) /\ doing'[r] = job
                    BY <4>2, <4>5, <4>8
                <5>2. job.op = "save" /\ job.links = left /\ job.patched = {}
                    BY <5>1 DEF Saving
                <5>3. LinksFor(job, links, DOMAIN records)
                    BY <4>3, <5>2 DEF LinksFor
                <5>4. \A q \in Requests : LinksFor(doing'[q], links', DOMAIN records')
                    BY <4>1, <4>5, <4>6, <5>3
                <5>5. LinksHold'
                    BY <5>1, <5>2 DEF LinksHold, Cutting
                <5> QED
                    BY <4>4, <5>4, <5>5 DEF LinksAreThere, LinksFor, AllLinked
            <4> QED
                BY <4>7, <4>8
        <3>15. CASE Save(r)
            <4>1. /\ d.op = "save" /\ links' = d.links /\ UNCHANGED records
                  /\ doing' = [doing EXCEPT ![r] = Idle]
                BY <3>15 DEF Save, End
            <4>2. d.links \in [Isos -> Links]
                BY <3>1, <4>1, JobAt
            <4>3. /\ AllLinked(d.links, DOMAIN records)
                  /\ \A s \in Isos : s \in d.patched
                        \/ ToSet(AnswersOf(d.links[s])) \subseteq ToSet(AnswersOf(links[s]))
                BY <3>1, <4>1 DEF LinksFor
            <4>4. \A q \in Requests : doing'[q].op \notin {"detach", "save"}
                <5>1. \A q \in Requests : q # r => ~Deleting(doing[q]) /\ doing[q].op # "save"
                    BY <3>1, <3>3, <4>1 DEF Apart
                <5> QED
                    BY ZenonT(40), <3>3, <3>e, <4>1, <5>1 DEF Deleting
            <4>5. LinksAreThere'
                <5>1. AllLinked(links, DOMAIN records)'
                    BY <4>1, <4>3 DEF AllLinked
                <5> QED
                    BY <4>4, <5>1 DEF LinksAreThere, LinksHold, LinksFor
            <4>6. GainsByLink
                <5> SUFFICES ASSUME NEW s \in Isos, s \notin d.patched
                             PROVE  ToSet(AnswersInfo(links[s])') \subseteq ToSet(AnswersInfo(links[s]))
                    BY <4>1 DEF GainsByLink
                <5>1. links[s] \in Links /\ d.links[s] \in Links
                    BY <3>1, <4>2
                <5>2. AnswersInfo(links[s])' = Among(AnswersOf(d.links[s]), DOMAIN records)
                    BY <4>1 DEF AnswersInfo
                <5>3. AnswersInfo(links[s]) = Among(AnswersOf(links[s]), DOMAIN records)
                    BY DEF AnswersInfo
                <5>4. ToSet(AnswersOf(d.links[s])) \subseteq ToSet(AnswersOf(links[s]))
                    BY <4>3
                <5> HIDE DEF d
                <5> QED
                    BY <5>1, <5>2, <5>3, <5>4, InfoIsThere
            <4> QED
                BY <4>5, <4>6
        <3> QED
            BY <2>2, <3>5, <3>6, <3>7, <3>8, <3>9, <3>10, <3>11, <3>12, <3>13, <3>14, <3>15
               DEF Request, Step
    <2>3. Kept
        BY <1>2, <2>1, <2>2 DEF AnswersNext, LinksIInv
    <2> QED
        BY <2>0, <2>3 DEF LinksIInv, GainsByLink
<1>3. CASE AnswersNext
    BY <1>2, <1>3
<1>4. CASE UNCHANGED <<records, links, doing, clashed, restarts>>
    <2>1. AnswersShape'
        BY <1>0, <1>4 DEF AnswersShape
    <2> QED
        BY <1>0, <1>1, <1>4, <2>1 DEF LinksIInv
<1>5. CASE Settings
    BY <1>4, <1>5 DEF Settings, PutMenu, PutWindows, Mount, Unmount, DropProfile, Rest
<1>6. CASE PcNext /\ Admin
    BY <1>4, <1>6 DEF Admin, answerVars
<1>7. CASE UNCHANGED bootVars
    BY <1>4, <1>7 DEF bootVars, answerVars
<1> QED
    BY <1>3, <1>5, <1>6, <1>7 DEF Next

\* At first nothing is under way.
LEMMA LinksAtFirst ==
    ASSUME Init
    PROVE  LinksIInv
<1>1. PICK first \in InitialAnswers : records = first.records /\ links = first.links
    BY DEF Init, AnswersInit
<1>2. doing = [r \in Requests |-> Idle] /\ restarts = 0
    BY DEF Init, AnswersInit
<1>3. links \in [Isos -> Links] /\ AllLinked(links, DOMAIN records)
    BY <1>1, LinksAssumption DEF AllLinked
<1>4. Idle.op = "idle" /\ Job(Idle) /\ \A r \in Requests : doing[r] = Idle
    BY <1>2 DEF Idle, Job
<1>5. AnswersShape
    BY <1>2, <1>3, <1>4 DEF AnswersShape
<1>6. LinksAreThere /\ Apart
    BY <1>3, <1>4 DEF LinksAreThere, LinksHold, LinksFor, Apart, Deleting
<1> QED
    BY <1>5, <1>6 DEF LinksIInv

(* NobodyGainsAnAnswer of Answers.tla, of the whole service and any number *)
(* of threads: until two requests overlap that no lock keeps apart, or one *)
(* is cut short, an ISO offers no answer that nobody linked it to, whatever*)
(* is created under an id that was deleted.                                *)
THEOREM AnswersAreLinked == Spec => NobodyGainsAnAnswer
<1>1. Init => LinksIInv
    BY LinksAtFirst
<1>2. LinksIInv /\ [Next]_bootVars => LinksIInv' /\ [GainsByLink]_answerVars
    BY LinksStep
<1> QED
    BY <1>1, <1>2, PTL DEF Spec, NobodyGainsAnAnswer, GainsByLink

-----------------------------------------------------------------------------
(* The menus of iPXE.                                                      *)

\* The position of a label is one of the script's.
LEMMA FirstIn ==
    ASSUME NEW n \in Nat, NEW S \in SUBSET (1..n), S # {}
    PROVE  Min(S) \in S /\ \A i \in S : Min(S) <= i
<1>1. S \in SUBSET (0..n)
    OBVIOUS
<1> QED
    BY <1>1, FirstAndLast

\* A script has a section for each of its labels.
LEMMA SectionIsThere ==
    ASSUME NEW script, Len(script) \in Nat, DOMAIN script = 1..Len(script),
           NEW label \in Labels(script)
    PROVE  \E i \in DOMAIN script : script[i].label = label /\ SectionOf(script, label) = script[i]
<1> DEFINE S == {i \in DOMAIN script : script[i].label = label}
<1>1. S \in SUBSET (1..Len(script)) /\ S # {}
    BY DEF Labels
<1>2. SectionOf(script, label) = script[Min(S)]
    BY DEF SectionOf
<1>3. Min(S) \in S
    <2> HIDE DEF S
    <2> QED
        BY <1>1, FirstIn
<1> QED
    BY <1>2, <1>3

\* The choices of an answer: each with a label of its own.
ChoicesOf(choices, T) ==
    /\ choices # <<>>
    /\ \E L : choices \in Seq([label : L, answer : T])
    /\ \A i, j \in DOMAIN choices : choices[i].label = choices[j].label => i = j
    /\ \A i \in DOMAIN choices : choices[i].label \notin {"menu", "failed"}

\* A script of which each command goes somewhere and each label is one section's.
Closed(script) == GoesOnly(script) /\ LabelledApart(script, {})

\* A menu of answers: it closes, and when the time is over it goes on in it.
MenuOfAnswers(sub) ==
    /\ Len(sub) \in Nat /\ DOMAIN sub = 1..Len(sub) /\ sub # <<>>
    /\ Closed(sub) /\ "menu" \in Labels(sub)
    /\ Taken(SectionOf(sub, "menu")) = SectionOf(sub, "menu").default
    /\ \A i \in DOMAIN sub : sub[i].does = <<"menu">> => Taken(sub[i]) \in Labels(sub)
AnswersIn(sub, ids) ==
    \A i \in DOMAIN sub : sub[i].does[1] = "answer" => sub[i].does[2] \in ids

\* answer_menu_script: closed, with the preferred answer among its choices,
\* and no other answer than those.
LEMMA AnswerMenuIsClosed ==
    ASSUME NEW m, NEW default, NEW T, NEW choices, ChoicesOf(choices, T)
    PROVE  /\ MenuOfAnswers(AnswerMenuScript(m, choices, default))
           /\ AnswersIn(AnswerMenuScript(m, choices, default), T)
<1> PICK L : choices \in Seq([label : L, answer : T])
    BY DEF ChoicesOf
<1>0. /\ choices # <<>>
      /\ \A i, j \in DOMAIN choices : choices[i].label = choices[j].label => i = j
      /\ \A i \in DOMAIN choices : choices[i].label \notin {"menu", "failed"}
    BY DEF ChoicesOf
<1> DEFINE n == Len(choices)
           preferred == Among(choices, {c \in ToSet(choices) : c.answer # "" /\ c.answer = default})
           first == IF preferred = <<>> THEN choices[1].label ELSE preferred[1].label
           items == Mapped(choices, LAMBDA c : c.label)
           top == Section("menu", items, first, AnswerTimeout(m) > 0, {first, "failed"}, <<"menu">>)
           answers == Mapped(choices, LAMBDA c : Command(c.label, {"failed"}, <<"answer", c.answer>>))
           last == Command("failed", {}, <<"exit">>)
           s == AnswerMenuScript(m, choices, default)
<1> DEFINE R == [label : L, answer : T]
<1>1. n \in Nat /\ DOMAIN choices = 1..n /\ n >= 1 /\ \A i \in 1..n : choices[i] \in R
    <2>1. choices \in Seq(R)
        OBVIOUS
    <2> HIDE DEF R
    <2>2. n \in Nat /\ DOMAIN choices = 1..n /\ \A i \in 1..n : choices[i] \in R
        BY <2>1
    <2>3. n # 0
        BY <1>0, <2>1
    <2> QED
        BY <2>2, <2>3
<1>2. s = <<top>> \o answers \o <<last>>
    BY DEF AnswerMenuScript
<1>3. DOMAIN items = 1..n /\ \A i \in 1..n : items[i] = choices[i].label
    BY <1>1 DEF Mapped
<1>4. DOMAIN answers = 1..n /\ \A i \in 1..n :
         answers[i] = Command(choices[i].label, {"failed"}, <<"answer", choices[i].answer>>)
    BY <1>1 DEF Mapped
<1>5. first \in {choices[i].label : i \in 1..n}
    <2>1. preferred \in Seq(R) /\ ToSet(preferred) \subseteq ToSet(choices)
        <3> DEFINE C == {c \in ToSet(choices) : c.answer # "" /\ c.answer = default}
        <3>1. preferred = Among(choices, C) /\ choices \in Seq(R)
            OBVIOUS
        <3> HIDE DEF C, R, preferred
        <3>2. preferred \in Seq(R) /\ ToSet(preferred) = ToSet(choices) \intersect C
            BY <3>1, AmongKeeps
        <3> QED
            BY <3>2
    <2>2. preferred # <<>> => preferred[1] \in ToSet(choices)
        <3> HIDE DEF preferred, R
        <3>1. preferred # <<>> => 1 \in DOMAIN preferred
            BY <2>1
        <3> QED
            BY <2>1, <3>1 DEF ToSet
    <2>3. \A c \in ToSet(choices) : c.label \in {choices[i].label : i \in 1..n}
        BY <1>1 DEF ToSet
    <2>4. choices[1].label \in {choices[i].label : i \in 1..n}
        BY <1>1
    <2> HIDE DEF preferred
    <2> QED
        BY <2>2, <2>3, <2>4
<1> HIDE DEF first
<1>6. answers \in Seq({answers[i] : i \in 1..n}) /\ Len(answers) = n
    <2>1. answers = [i \in DOMAIN choices |->
                        Command(choices[i].label, {"failed"}, <<"answer", choices[i].answer>>)]
        BY DEF Mapped
    <2>2. answers \in [1..n -> {answers[i] : i \in 1..n}]
        <3> HIDE DEF answers
        <3> QED
            BY <1>1, <2>1
    <2>3. PICK X : X = {answers[i] : i \in 1..n}
        OBVIOUS
    <2>4. PICK k \in Nat : k = n
        BY <1>1
    <2> HIDE DEF answers, n
    <2>5. answers \in [1..k -> X]
        BY <2>2, <2>3, <2>4
    <2> QED
        BY SMTT(30), <2>3, <2>4, <2>5
<1> HIDE DEF answers, items, top, last, s
<1>7. /\ Len(s) = n + 2 /\ DOMAIN s = 1..n + 2 /\ s[1] = top /\ s[n + 2] = last
      /\ \A i \in 1..n : s[i + 1] = answers[i]
    BY <1>1, <1>2, <1>6
<1>8. \A i \in DOMAIN s : i = 1 \/ i = n + 2 \/ (i - 1 \in 1..n /\ i = (i - 1) + 1)
    BY <1>1, <1>7
<1>9. /\ top.label = "menu" /\ top.items = items /\ top.default = first
      /\ top.jumps = {first, "failed"} /\ top.does = <<"menu">>
    BY DEF top, Section
<1>10. /\ last.label = "failed" /\ last.items = <<>> /\ last.jumps = {} /\ last.does = <<"exit">>
    BY DEF last, Command, Section
<1>11. \A i \in 1..n : /\ answers[i].label = choices[i].label /\ answers[i].items = <<>>
                       /\ answers[i].jumps = {"failed"}
                       /\ answers[i].does = <<"answer", choices[i].answer>>
    <2> SUFFICES ASSUME NEW i \in 1..n
                 PROVE  /\ answers[i].label = choices[i].label /\ answers[i].items = <<>>
                        /\ answers[i].jumps = {"failed"}
                        /\ answers[i].does = <<"answer", choices[i].answer>>
        OBVIOUS
    <2>1. answers[i] = Section(choices[i].label, <<>>, "", FALSE, {"failed"},
                               <<"answer", choices[i].answer>>)
        BY <1>4 DEF Command
    <2>2. PICK a : a = answers[i]
        OBVIOUS
    <2>3. PICK l, x : l = choices[i].label /\ x = <<"answer", choices[i].answer>>
        OBVIOUS
    <2>4. a = Section(l, <<>>, "", FALSE, {"failed"}, x)
        BY <2>1, <2>2, <2>3
    <2>5. a.label = l /\ a.items = <<>> /\ a.jumps = {"failed"} /\ a.does = x
        BY <2>4 DEF Section
    <2> QED
        BY <2>2, <2>3, <2>5
<1>12. \A i \in 1..n : s[i + 1].label = choices[i].label
    BY <1>7, <1>11
<1>13. \A i \in DOMAIN s : s[i].label =
          IF i = 1 THEN "menu" ELSE IF i = n + 2 THEN "failed" ELSE choices[i - 1].label
    BY <1>1, <1>7, <1>8, <1>9, <1>10, <1>12
<1>14. \A i, j \in DOMAIN s : s[i].label = s[j].label => i = j
    <2> SUFFICES ASSUME NEW i \in DOMAIN s, NEW j \in DOMAIN s, s[i].label = s[j].label
                 PROVE  i = j
        OBVIOUS
    <2>1. CASE i \in {1, n + 2} \/ j \in {1, n + 2}
        BY <1>0, <1>1, <1>7, <1>8, <1>13, <2>1
    <2>2. CASE i \notin {1, n + 2} /\ j \notin {1, n + 2}
        <3>1. i - 1 \in 1..n /\ j - 1 \in 1..n /\ choices[i - 1].label = choices[j - 1].label
            BY <1>8, <1>13, <2>2
        <3>2. i - 1 = j - 1
            BY <1>0, <1>1, <3>1
        <3> QED
            BY <1>7, <3>2
    <2> QED
        BY <2>1, <2>2
<1>15. {"menu", "failed"} \subseteq Labels(s) /\ \A i \in 1..n : choices[i].label \in Labels(s)
    <2>1. 1 \in DOMAIN s /\ n + 2 \in DOMAIN s /\ \A i \in 1..n : i + 1 \in DOMAIN s
        BY <1>1, <1>7
    <2>2. s[1].label = "menu" /\ s[n + 2].label = "failed"
        BY <1>7, <1>9, <1>10
    <2>3. \A i \in DOMAIN s : s[i].label \in Labels(s)
        BY DEF Labels
    <2> QED
        BY <1>12, <2>1, <2>2, <2>3
<1>16. first \in Labels(s) /\ ToSet(items) \subseteq Labels(s)
    BY <1>3, <1>5, <1>15 DEF ToSet
<1>17. Closed(s)
    <2>1. LabelledApart(s, {})
        BY <1>14 DEF LabelledApart
    <2>2. ASSUME NEW i \in DOMAIN s
          PROVE  ToSet(s[i].items) \union s[i].jumps
                     \union (IF s[i].items = <<>> THEN {} ELSE {s[i].default})
                   \subseteq Labels(s)
        <3>0. ToSet(<<>>) = {}
            BY DEF ToSet
        <3>1. CASE i = 1
            BY <1>7, <1>9, <1>15, <1>16, <3>1
        <3>2. CASE i = n + 2
            BY <1>7, <1>10, <3>0, <3>2
        <3>3. CASE i - 1 \in 1..n /\ i = (i - 1) + 1
            <4>0. s[i] = answers[i - 1]
                BY <1>7, <3>3
            <4>1. s[i].items = <<>> /\ s[i].jumps = {"failed"}
                BY <1>11, <3>3, <4>0
            <4> QED
                BY <1>15, <3>0, <4>1
        <3> QED
            BY <1>8, <2>2, <3>1, <3>2, <3>3
    <2> QED
        BY <2>1, <2>2 DEF Closed, GoesOnly
<1>18. Contains(items, first) /\ Taken(top) = first
    <2>1. PICK i \in 1..n : items[i] = first
        BY <1>3, <1>5
    <2>2. Len(items) = n
        BY <1>1, <1>3
    <2>3. Contains(items, first)
        BY <2>1, <2>2 DEF Contains
    <2> QED
        BY <1>9, <2>3 DEF Taken
<1>19. SectionOf(s, "menu") = top
    <2>0. "menu" \in Labels(s) /\ Len(s) \in Nat /\ DOMAIN s = 1..Len(s)
        BY <1>1, <1>7, <1>15
    <2>1. PICK i \in DOMAIN s : s[i].label = "menu" /\ SectionOf(s, "menu") = s[i]
        BY <2>0, SectionIsThere
    <2>2. 1 \in DOMAIN s
        BY <1>1, <1>7
    <2>3. i = 1
        BY <1>7, <1>9, <1>14, <2>1, <2>2
    <2> QED
        BY <1>7, <2>1, <2>3
<1>20. ASSUME NEW i \in DOMAIN s
       PROVE  /\ s[i].does = <<"menu">> => Taken(s[i]) \in Labels(s)
              /\ s[i].does[1] = "answer" => \E j \in DOMAIN choices : s[i].does[2] = choices[j].answer
    <2>1. CASE i = 1
        BY <1>7, <1>9, <1>16, <1>18, <2>1
    <2>2. CASE i = n + 2
        BY <1>7, <1>10, <2>2
    <2>3. CASE i - 1 \in 1..n /\ i = (i - 1) + 1
        <3>1. s[i].does = <<"answer", choices[i - 1].answer>>
            BY <1>7, <1>11, <2>3
        <3> QED
            BY <1>1, <2>3, <3>1
    <2> QED
        BY <1>8, <1>20, <2>1, <2>2, <2>3
<1>21. Len(s) \in Nat /\ DOMAIN s = 1..Len(s) /\ s # <<>>
    BY <1>1, <1>7
<1>22. Taken(SectionOf(s, "menu")) = SectionOf(s, "menu").default
    BY <1>9, <1>18, <1>19
<1>23. MenuOfAnswers(s)
    BY <1>15, <1>17, <1>20, <1>21, <1>22 DEF MenuOfAnswers
<1>24. AnswersIn(s, T)
    <2>1. \A j \in DOMAIN choices : choices[j].answer \in T
        BY <1>1
    <2> QED
        BY <1>20, <2>1 DEF AnswersIn
<1> QED
    BY <1>23, <1>24 DEF s

-----------------------------------------------------------------------------
(* The files of the answers.                                               *)

\* A file is named, and of the answer that has its folder.
FilesAre ==
    /\ \A id \in DOMAIN records : IsRecord(records[id])
    /\ \A id \in DOMAIN files : \A n \in DOMAIN files[id] :
          /\ n # ""
          /\ id \in DOMAIN records => files[id][n] = records[id].gen
\* As long as a request is creating an answer there is no record of it, and
\* its folder is that request's.
JobHas(d, recs, dirs) ==
    /\ d.op = "create folder" => (d.id \in DOMAIN recs => d.id \in DOMAIN dirs) /\ d.new \in NewAnswers
    /\ d.op = "create record" =>
          /\ d.id \notin DOMAIN recs /\ d.new \in NewAnswers /\ d.id \in DOMAIN dirs
          /\ \A n \in DOMAIN dirs[d.id] : dirs[d.id][n] = d.gen
    /\ d.op = "update record" =>
          d.id \in DOMAIN recs /\ DOMAIN d.patch \subseteq {"name", "profile", "main"}
CreatesApart ==
    \A q, r \in Requests :
        (doing[q].op = "create record" /\ doing[r].op = "create record" /\ doing[q].id = doing[r].id)
            => q = r
FilesHold == FilesAre /\ CreatesApart /\ \A r \in Requests : JobHas(doing[r], records, files)
FilesIInv == ~clashed => FilesHold

\* The file of every kind has a name.
LEMMA MainFilesAreNamed ==
    \A kind \in DOMAIN MainFileOf : MainFileOf[kind] # ""
<1>1. DOMAIN MainFileOf = {"windows", "debian", "ubuntu", "redhat", "generic"}
    BY DEF MainFileOf
<1>2. /\ MainFileOf["windows"] = "autounattend.xml" /\ MainFileOf["debian"] = "preseed.cfg"
      /\ MainFileOf["ubuntu"] = "user-data" /\ MainFileOf["redhat"] = "ks.cfg"
      /\ MainFileOf["generic"] = "risposta.txt"
    BY DEF MainFileOf
<1> QED
    BY <1>1, <1>2

\* The records keep their fields when one of them is changed.
LEMMA RecordIsKept ==
    ASSUME NEW was, IsRecord(was), NEW patch,
           DOMAIN patch \subseteq {"name", "profile", "main"}
    PROVE  LET is == [f \in DOMAIN was |-> IF f \in DOMAIN patch THEN patch[f] ELSE was[f]]
           IN IsRecord(is) /\ is.gen = was.gen
<1> DEFINE is == [f \in DOMAIN was |-> IF f \in DOMAIN patch THEN patch[f] ELSE was[f]]
<1>1. DOMAIN was = {"name", "kind", "profile", "main", "gen"} /\ was.kind \in DOMAIN MainFileOf
    BY DEF IsRecord
<1>2. DOMAIN is = DOMAIN was /\ is["gen"] = was["gen"] /\ is["kind"] = was["kind"]
    BY <1>1
<1> HIDE DEF is
<1> QED
    BY <1>1, <1>2 DEF IsRecord, is

\* Nothing is wrong with fewer answers and fewer files.
LEMMA FewerFiles ==
    ASSUME FilesAre,
           \A i \in DOMAIN records' : i \in DOMAIN records /\ records'[i] = records[i],
           \A i \in DOMAIN files' : i \in DOMAIN files /\
               \A n \in DOMAIN files'[i] : n \in DOMAIN files[i] /\ files'[i][n] = files[i][n]
    PROVE  FilesAre'
<1>1. ASSUME NEW i \in DOMAIN files', NEW n \in DOMAIN files'[i]
      PROVE  n # "" /\ (i \in DOMAIN records' => files'[i][n] = records'[i].gen)
    <2>1. i \in DOMAIN files /\ n \in DOMAIN files[i] /\ files'[i][n] = files[i][n]
        BY <1>1
    <2>2. n # ""
        BY <2>1 DEF FilesAre
    <2>3. ASSUME i \in DOMAIN records' PROVE files'[i][n] = records'[i].gen
        <3>1. i \in DOMAIN records /\ records'[i] = records[i]
            BY <2>3
        <3>2. files[i][n] = records[i].gen
            BY <2>1, <3>1 DEF FilesAre
        <3> QED
            BY <2>1, <3>1, <3>2
    <2> QED
        BY <2>2, <2>3
<1>2. \A i \in DOMAIN records' : IsRecord(records'[i])
    BY DEF FilesAre
<1> QED
    BY <1>1, <1>2 DEF FilesAre

\* Nor with an answer that is changed, if its files are of it.
ChangedAt(f, g, x, v) ==
    \A y \in DOMAIN g : (y = x /\ g[y] = v) \/ (y \in DOMAIN f /\ g[y] = f[y])
FilesOfGen(aid, gen) ==
    aid \in DOMAIN files => \A n \in DOMAIN files[aid] : files[aid][n] = gen

\* The files stay as their records say when one record changes to one of the same files.
LEMMA OneRecord ==
    ASSUME FilesAre, UNCHANGED files, NEW aid, NEW new, IsRecord(new), FilesOfGen(aid, new.gen),
           ChangedAt(records, records', aid, new)
    PROVE  FilesAre'
<1> USE DEF ChangedAt, FilesOfGen
<1>1. \A i \in DOMAIN records' : IsRecord(records'[i])
    BY DEF FilesAre
<1>2. ASSUME NEW i \in DOMAIN files, NEW n \in DOMAIN files[i]
      PROVE  n # "" /\ (i \in DOMAIN records' => files[i][n] = records'[i].gen)
    <2>1. n # "" /\ (i \in DOMAIN records => files[i][n] = records[i].gen)
        BY <1>2 DEF FilesAre
    <2>2. CASE i \notin DOMAIN records'
        BY <2>1, <2>2
    <2>3. CASE i = aid /\ records'[i] = new
        BY <1>2, <2>1, <2>3
    <2>4. CASE i \in DOMAIN records /\ records'[i] = records[i]
        BY <2>1, <2>4
    <2> QED
        BY <2>2, <2>3, <2>4
<1> QED
    BY <1>1, <1>2 DEF FilesAre

\* Nor with a folder that is changed.
FolderOf(aid, folder) ==
    \A n \in DOMAIN folder : n # "" /\ (aid \in DOMAIN records => folder[n] = records[aid].gen)

\* And when one folder changes to files of its record.
LEMMA OneFolder ==
    ASSUME FilesAre, UNCHANGED records, NEW aid, NEW folder, FolderOf(aid, folder),
           ChangedAt(files, files', aid, folder)
    PROVE  FilesAre'
<1> USE DEF ChangedAt, FolderOf
<1>1. ASSUME NEW i \in DOMAIN files', NEW n \in DOMAIN files'[i]
      PROVE  n # "" /\ (i \in DOMAIN records => files'[i][n] = records[i].gen)
    <2>1. CASE i = aid /\ files'[i] = folder
        BY <1>1, <2>1
    <2>2. CASE i \in DOMAIN files /\ files'[i] = files[i]
        BY <1>1, <2>2 DEF FilesAre
    <2> QED
        BY <2>1, <2>2
<1>2. \A i \in DOMAIN records' : IsRecord(records'[i])
    BY DEF FilesAre
<1> QED
    BY <1>1, <1>2 DEF FilesAre

\* The files are kept until requests overlap.
LEMMA FilesStep ==
    ASSUME AnswersShape, ~clashed => Apart, FilesIInv, [Next]_bootVars
    PROVE  FilesIInv'
<1>1. Idle.op = "idle"
    BY DEF Idle
<1>a. \A recs, dirs : JobHas(Idle, recs, dirs)
    BY <1>1 DEF JobHas
<1>2. CASE UNCHANGED <<records, files, doing, clashed>>
    BY <1>2 DEF FilesIInv, FilesHold, FilesAre, JobHas, CreatesApart
<1>3. CASE Restart
    <2>1. UNCHANGED <<records, files, clashed>> /\ \A r \in Requests : doing'[r] = Idle
        BY <1>3, Zenon DEF Restart
    <2>2. ~clashed => FilesAre'
        BY <2>1 DEF FilesIInv, FilesHold, FilesAre
    <2>3. CreatesApart' /\ \A r \in Requests : JobHas(doing'[r], records', files')
        BY <1>1, <1>a, <2>1 DEF CreatesApart
    <2> QED
        BY <2>1, <2>2, <2>3 DEF FilesIInv, FilesHold, JobHas
<1>4. ASSUME NEW r \in Requests, Request(r) \/ Step(r), AnswersNext, ~clashed' PROVE FilesHold'
    <2> DEFINE d == doing[r]
    <2>a. /\ Apart /\ FilesAre /\ CreatesApart
          /\ \A q \in Requests : JobHas(doing[q], records, files)
        BY <1>4, ApartStep DEF FilesIInv, FilesHold
    <2>14. FilesAre
        BY <2>a
    <2>0. /\ \A q \in Requests : Job(doing[q]) /\ JobHas(doing[q], records, files)
          /\ doing = [q \in Requests |-> doing[q]]
        BY <2>a DEF AnswersShape
    \* What the others have, and the one that makes the step.
    <2>b. ASSUME FilesAre', NEW job, doing' = [doing EXCEPT ![r] = job],
                 JobHas(job, records', files'),
                 \A q \in Requests : q # r => JobHas(doing[q], records', files'),
                 job.op = "create record" =>
                    \A q \in Requests : doing[q].op = "create record" => q = r \/ doing[q].id # job.id
          PROVE  FilesHold'
        <3>1. \A q \in Requests : doing'[q] = IF q = r THEN job ELSE doing[q]
            BY <2>0, <2>b
        <3>2. \A q \in Requests : JobHas(doing'[q], records', files')
            BY <2>b, <3>1
        <3>3. CreatesApart'
            <4> SUFFICES ASSUME NEW q \in Requests, NEW t \in Requests,
                                doing'[q].op = "create record", doing'[t].op = "create record",
                                doing'[q].id = doing'[t].id
                         PROVE  q = t
                BY DEF CreatesApart
            <4>1. CASE q # r /\ t # r
                BY <2>a, <3>1, <4>1 DEF CreatesApart
            <4>2. CASE q = r \/ t = r
                BY <2>b, <3>1, <4>2
            <4> QED
                BY <4>1, <4>2
        <3> QED
            BY <2>b, <3>2, <3>3 DEF FilesHold, JobHas
    <2>c. ASSUME UNCHANGED <<records, files>>, NEW job, doing' = [doing EXCEPT ![r] = job],
                 JobHas(job, records, files), job.op # "create record"
          PROVE  FilesHold'
        <3>1. FilesAre'
            BY <2>a, <2>c DEF FilesAre
        <3>2. JobHas(job, records', files') /\ \A q \in Requests : JobHas(doing[q], records', files')
            BY <2>a, <2>c
        <3> QED
            BY <2>b, <2>c, <3>1, <3>2
    <2>d. ASSUME Deleting(d) PROVE \A q \in Requests : q # r => doing[q] = Idle
        BY <2>a, <2>d DEF Apart
    <2>e. ASSUME FilesAre', NEW job, doing' = [doing EXCEPT ![r] = job], job.op # "create record",
                 JobHas(job, records', files'), \A q \in Requests : q # r => doing[q] = Idle
          PROVE  FilesHold'
        BY <1>a, <2>b, <2>e
    \* With more files, of records there are or of none.
    <2>f. ASSUME UNCHANGED records, NEW q \in Requests, DOMAIN files \subseteq DOMAIN files',
                 doing[q].op = "create record" =>
                    \A n \in DOMAIN files'[doing[q].id] :
                        /\ n \in DOMAIN files[doing[q].id]
                        /\ files'[doing[q].id][n] = files[doing[q].id][n]
          PROVE  JobHas(doing[q], records', files')
        BY <2>a, <2>f DEF JobHas
    \* With more records, of folders there are.
    <2>g. ASSUME UNCHANGED files, NEW q \in Requests, NEW id,
                 DOMAIN records' = DOMAIN records \union {id}, id \in DOMAIN records \union DOMAIN files,
                 doing[q].op = "create record" => (id \in DOMAIN records \/ doing[q].id # id),
                 id \notin DOMAIN records => id \in DOMAIN files
          PROVE  JobHas(doing[q], records', files')
        BY <2>a, <2>g DEF JobHas
    <2>3. ASSUME NEW new \in NewAnswers, CreateFindId(r, new) PROVE FilesHold'
        <3> DEFINE ids == IdsOf[new.name]
                   free == {i \in DOMAIN ids : ids[i] \notin DOMAIN records \union DOMAIN files}
                   job == [op |-> "create folder", id |-> ids[Min(free)], new |-> new, gen |-> 0]
        <3>1. /\ UNCHANGED <<records, files>> /\ free # {}
              /\ doing' = [doing EXCEPT ![r] = job]
            BY <2>3 DEF CreateFindId, Begin
        <3>2. Min(free) \in free
            <4>1. Len(ids) \in Nat /\ DOMAIN ids = 1..Len(ids)
                <5>1. ids \in Seq(STRING)
                    BY FilesAssumption
                <5> HIDE DEF ids
                <5> QED
                    BY <5>1
            <4>2. free \in SUBSET (1..Len(ids))
                BY <4>1
            <4> HIDE DEF ids, free
            <4> QED
                BY <3>1, <4>1, <4>2, FirstIn
        <3>3. ids[Min(free)] \notin DOMAIN records
            BY <3>2
        <3>4. job.op = "create folder" /\ job.id \notin DOMAIN records /\ job.new = new
            BY <3>3
        <3> HIDE DEF job
        <3>5. JobHas(job, records, files)
            BY <3>4 DEF JobHas
        <3> QED
            BY <2>c, <3>1, <3>4, <3>5
    <2>4. ASSUME NEW aid \in Ids, DeleteFolder(r, aid) PROVE FilesHold'
        <3> DEFINE job == [op |-> "delete record", id |-> aid]
        <3>1. /\ UNCHANGED records /\ files' = Without(files, aid)
              /\ doing' = [doing EXCEPT ![r] = job]
            BY <2>4 DEF DeleteFolder, Begin
        <3>4. \A i \in DOMAIN files' : i \in DOMAIN files /\ files'[i] = files[i]
            BY <3>1 DEF Without
        <3>2. FilesAre'
            BY <2>14, <3>1, <3>4, FewerFiles
        <3>5. Begin(r, job)
            BY <2>4 DEF DeleteFolder
        <3>3. job.op = "delete record"
            OBVIOUS
        <3> HIDE DEF job
        <3>6. \A q \in Requests : q # r => doing[q] = Idle
            BY <1>4, <3>3, <3>5, ApartStep DEF Deleting
        <3> QED
            BY <2>e, <3>1, <3>2, <3>3, <3>6 DEF JobHas
    <2>5. ASSUME NEW aid \in Ids, NEW change \in Updates[aid], UpdateStart(r, aid, change)
          PROVE  FilesHold'
        <3> DEFINE target == UpdateTarget(aid, change)
                   folder == [n \in FilesOf(aid) |-> files[aid][n]]
                   patch == UpdatePatch(aid, change)
                   job == [op |-> "update record", id |-> aid, patch |-> patch,
                           gen |-> records[aid].gen]
        <3>1. /\ UNCHANGED records /\ aid \in DOMAIN records
              /\ files' = IF Has(change, "content")
                          THEN With(files, aid, With(folder, target, records[aid].gen)) ELSE files
              /\ doing' = [doing EXCEPT ![r] = job]
            BY <2>5 DEF UpdateStart, Begin
        <3>2. target # ""
            BY <2>14, <3>1, FilesAssumption, MainFilesAreNamed
               DEF UpdateTarget, FilesAre, IsRecord
        <3>3. \A n \in DOMAIN folder : n # "" /\ folder[n] = records[aid].gen
            BY <2>14, <3>1 DEF FilesAre, FilesOf
        <3>4. DOMAIN patch \subseteq {"name", "profile", "main"}
            BY DEF UpdatePatch
        <3>5. job.op = "update record" /\ job.id = aid /\ job.patch = patch
            OBVIOUS
        <3> HIDE DEF target, folder, patch, job
        <3>6. FilesAre'
            <4>1. CASE ~Has(change, "content")
                BY <2>14, <3>1, <4>1 DEF FilesAre
            <4>2. CASE Has(change, "content")
                <5> DEFINE new == With(folder, target, records[aid].gen)
                <5>0. PICK g : g = records[aid].gen
                    OBVIOUS
                <5>4. new = With(folder, target, g)
                    BY <5>0
                <5>5. \A n \in DOMAIN new :
                         (n = target /\ new[n] = g) \/ (n \in DOMAIN folder /\ new[n] = folder[n])
                    <6> HIDE DEF new
                    <6> QED
                        BY <5>4 DEF With
                <5>1. \A n \in DOMAIN new : n # "" /\ new[n] = records[aid].gen
                    <6> HIDE DEF new
                    <6> QED
                        BY <3>2, <3>3, <5>0, <5>5
                <5>2. files' = With(files, aid, new)
                    BY <3>1, <4>2
                <5> HIDE DEF new
                <5>3. \A i \in DOMAIN files' : \/ i = aid /\ files'[i] = new
                                               \/ i \in DOMAIN files /\ files'[i] = files[i]
                    BY <5>2 DEF With
                <5> QED
                    <6>1. FolderOf(aid, new) /\ ChangedAt(files, files', aid, new)
                        BY <5>1, <5>3 DEF FolderOf, ChangedAt
                    <6>2. UNCHANGED records
                        BY <3>1
                    <6> QED
                        BY <2>14, <6>1, <6>2, OneFolder
            <4> QED
                BY <4>1, <4>2
        <3>7. JobHas(job, records', files')
            BY <3>1, <3>4, <3>5 DEF JobHas
        <3>8. DOMAIN files \subseteq DOMAIN files' /\ \A i \in DOMAIN files : i # aid => files'[i] = files[i]
            BY <3>1 DEF With
        <3>9. ASSUME NEW q \in Requests PROVE JobHas(doing[q], records', files')
            <4>1. doing[q].op = "create record" => doing[q].id \in DOMAIN files /\ doing[q].id # aid
                BY <2>a, <3>1 DEF JobHas
            <4>2. doing[q].op = "create record" => files'[doing[q].id] = files[doing[q].id]
                BY <3>8, <4>1
            <4>3. UNCHANGED records
                BY <3>1
            <4> QED
                BY <2>f, <3>8, <4>2, <4>3
        <3> QED
            BY <2>b, <3>1, <3>5, <3>6, <3>7, <3>9
    <2>6. ASSUME NEW aid \in Ids, NEW n, DeleteFile(r, aid, n) PROVE FilesHold'
        <3>1. /\ UNCHANGED <<records, doing>> /\ aid \in DOMAIN files /\ doing[r] = Idle
              /\ files' = [files EXCEPT ![aid] = Without(@, n)]
            BY <2>6 DEF DeleteFile
        <3>5. PICK folder : folder = Without(files[aid], n)
            OBVIOUS
        <3>6. \A m \in DOMAIN folder : m \in DOMAIN files[aid] /\ folder[m] = files[aid][m]
            BY <3>5 DEF Without
        <3>7. files' = [files EXCEPT ![aid] = folder]
            BY <3>1, <3>5
        <3>2. \A i \in DOMAIN files' : i \in DOMAIN files /\
                 \A m \in DOMAIN files'[i] : m \in DOMAIN files[i] /\ files'[i][m] = files[i][m]
            BY <3>6, <3>7
        <3>3. FilesAre'
            BY <2>14, <3>1, <3>2, FewerFiles
        <3>4. DOMAIN files' = DOMAIN files
            BY <3>7
        <3>8. \A q \in Requests : JobHas(doing[q], records', files')
            <4>1. \A q \in Requests : doing[q].op = "create record" => doing[q].id \in DOMAIN files
                BY <2>a DEF JobHas
            <4> QED
                BY <2>f, <3>1, <3>2, <3>4, <4>1
        <3>9. CreatesApart'
            BY <2>a, <3>1 DEF CreatesApart
        <3> QED
            BY <3>1, <3>3, <3>8, <3>9 DEF FilesHold, JobHas
    <2>7. ASSUME NEW s \in Isos, NEW patch \in Patches[s], PatchLoad(r, s, patch)
          PROVE  FilesHold'
        <3> DEFINE job == Saving({s}, [links EXCEPT ![s] = Patched(@, patch)])
        <3>1. /\ UNCHANGED <<records, files>> /\ doing' = [doing EXCEPT ![r] = job]
            BY <2>7 DEF PatchLoad, Begin
        <3>2. job.op = "save"
            BY DEF Saving
        <3> HIDE DEF job
        <3> QED
            BY <2>c, <3>1, <3>2 DEF JobHas
    <2>8. CASE CreateFolder(r)
        <3> DEFINE job == [op |-> "create record", id |-> d.id, new |-> d.new, gen |-> created + 1]
                   names == (IF d.new.content THEN {MainFileOf[d.new.kind]} ELSE {})
                            \union (IF d.new.kind = "ubuntu" THEN {"meta-data"} ELSE {})
                   folder == [n \in names |-> created + 1]
        <3>1. UNCHANGED records /\ d.op = "create folder" /\ d.new \in NewAnswers
              /\ (d.id \in DOMAIN records => d.id \in DOMAIN files)
            BY <2>0, <2>8 DEF CreateFolder, JobHas
        <3>2. CASE End(r) /\ UNCHANGED files
            BY <1>1, <1>a, <2>c, <3>1, <3>2 DEF End
        <3>3. CASE /\ d.id \notin DOMAIN files /\ files' = With(files, d.id, folder)
                   /\ doing' = [doing EXCEPT ![r] = job]
            <4>1. \A n \in DOMAIN folder : n # "" /\ folder[n] = created + 1
                BY <3>1, FilesAssumption, MainFilesAreNamed
            <4>2. /\ job.op = "create record" /\ job.id = d.id /\ job.new = d.new
                  /\ job.gen = created + 1
                OBVIOUS
            <4> HIDE DEF folder, job
            <4>3. \A i \in DOMAIN files' : \/ i = d.id /\ files'[i] = folder
                                           \/ i \in DOMAIN files /\ files'[i] = files[i]
                BY <3>3 DEF With
            <4>4. FilesAre'
                <5>1. d.id \notin DOMAIN records
                    BY <3>1, <3>3
                <5>2. FolderOf(d.id, folder) /\ ChangedAt(files, files', d.id, folder)
                    BY <4>1, <4>3, <5>1 DEF FolderOf, ChangedAt
                <5>3. UNCHANGED records
                    BY <3>1
                <5> QED
                    BY <2>14, <5>2, <5>3, OneFolder
            <4>5. /\ files'[d.id] = folder /\ DOMAIN files' = DOMAIN files \union {d.id}
                  /\ \A i \in DOMAIN files : files'[i] = files[i]
                BY <3>3 DEF With
            <4>6. JobHas(job, records', files')
                BY <3>1, <3>3, <4>1, <4>2, <4>5 DEF JobHas
            <4>7. \A q \in Requests : doing[q].op = "create record" => doing[q].id \in DOMAIN files
                BY <2>a DEF JobHas
            <4>8. \A q \in Requests : JobHas(doing[q], records', files')
                BY <2>f, <3>1, <4>5, <4>7
            <4> QED
                BY <2>b, <3>3, <4>2, <4>4, <4>6, <4>7, <4>8
        <3> QED
            BY <2>8, <3>2, <3>3 DEF CreateFolder
    <2>9. CASE CreateRecord(r)
        <3> DEFINE new == [name |-> d.new.name, kind |-> d.new.kind, profile |-> d.new.profile,
                           main |-> MainFileOf[d.new.kind], gen |-> d.gen]
        <3>1. UNCHANGED files /\ End(r) /\ records' = With(records, d.id, new)
              /\ d.op = "create record"
            BY <2>9 DEF CreateRecord
        <3>2. d.new \in NewAnswers /\ d.id \in DOMAIN files
              /\ \A n \in DOMAIN files[d.id] : files[d.id][n] = d.gen
            BY <2>0, <3>1 DEF JobHas
        <3>3. IsRecord(new) /\ new.gen = d.gen
            <4>1. d.new.kind \in DOMAIN MainFileOf
                BY <3>2, FilesAssumption
            <4>2. /\ DOMAIN new = {"name", "kind", "profile", "main", "gen"}
                  /\ new.kind = d.new.kind /\ new.gen = d.gen
                OBVIOUS
            <4> QED
                BY <4>1, <4>2 DEF IsRecord
        <3> HIDE DEF new
        <3>4. \A i \in DOMAIN records' : \/ i = d.id /\ records'[i] = new
                                         \/ i \in DOMAIN records /\ records'[i] = records[i]
            BY <3>1 DEF With
        <3>5. FilesAre'
            <4>1. UNCHANGED files /\ IsRecord(new) /\ FilesOfGen(d.id, new.gen)
                BY <3>1, <3>2, <3>3 DEF FilesOfGen
            <4>2. ChangedAt(records, records', d.id, new)
                BY <3>4 DEF ChangedAt
            <4> QED
                BY <2>14, <4>1, <4>2, OneRecord
        <3>6. \A q \in Requests : q # r => JobHas(doing[q], records', files')
            <4>1. DOMAIN records' = DOMAIN records \union {d.id}
                BY <3>1 DEF With
            <4>2. \A q \in Requests : (q # r /\ doing[q].op = "create record") => doing[q].id # d.id
                BY <2>a, <3>1 DEF CreatesApart
            <4> QED
                BY <2>g, <3>1, <3>2, <4>1, <4>2
        <3> QED
            BY <1>1, <1>a, <2>b, <3>1, <3>5, <3>6 DEF End
    <2>10. CASE UpdateRecord(r)
        <3>1. UNCHANGED files /\ End(r) /\ d.op = "update record"
            BY <2>10 DEF UpdateRecord
        <3>2. d.id \in DOMAIN records /\ DOMAIN d.patch \subseteq {"name", "profile", "main"}
            BY <2>0, <3>1 DEF JobHas
        <3> DEFINE was == records[d.id]
                   is == [f \in DOMAIN was |-> IF f \in DOMAIN d.patch THEN d.patch[f] ELSE was[f]]
        <3>3. records' = records \/ records' = With(records, d.id, is)
            BY <2>10, <3>2 DEF UpdateRecord
        <3>4. IsRecord(was)
            BY <2>14, <3>2 DEF FilesAre
        <3>5. IsRecord(is) /\ is.gen = was.gen
            BY <3>2, <3>4, RecordIsKept
        <3> HIDE DEF is
        <3>6. \A i \in DOMAIN records' : \/ i = d.id /\ records'[i] = is
                                         \/ i \in DOMAIN records /\ records'[i] = records[i]
            BY <3>3 DEF With
        <3>8. d.id \in DOMAIN files => \A n \in DOMAIN files[d.id] : files[d.id][n] = is.gen
            BY <2>14, <3>2, <3>5 DEF FilesAre
        <3>7. FilesAre'
            <4>1. UNCHANGED files /\ IsRecord(is) /\ FilesOfGen(d.id, is.gen)
                BY <3>1, <3>5, <3>8 DEF FilesOfGen
            <4>2. ChangedAt(records, records', d.id, is)
                BY <3>6 DEF ChangedAt
            <4> QED
                BY <2>14, <4>1, <4>2, OneRecord
        <3>9. \A q \in Requests : JobHas(doing[q], records', files')
            <4>1. DOMAIN records' = DOMAIN records \union {d.id}
                BY <3>2, <3>3 DEF With
            <4> QED
                BY <2>g, <3>1, <3>2, <4>1
        <3> QED
            BY <1>1, <1>a, <2>b, <3>1, <3>7, <3>9 DEF End
    <2>11. CASE DeleteRecord(r)
        <3>1. /\ UNCHANGED files /\ records' = Without(records, d.id)
              /\ doing' = [doing EXCEPT ![r].op = "detach"] /\ d.op = "delete record"
            BY <2>11 DEF DeleteRecord, Go
        <3>8. \A i \in DOMAIN records' : i \in DOMAIN records /\ records'[i] = records[i]
            BY <3>1 DEF Without
        <3>2. FilesAre'
            BY <2>14, <3>1, <3>8, FewerFiles
        <3>3. PICK aid : d = [op |-> "delete record", id |-> aid]
            BY <2>0, <3>1, JobAt
        <3>4. d = [op |-> d.op, id |-> d.id]
            BY <3>3
        <3>5. [d EXCEPT !.op = "detach"] = [op |-> "detach", id |-> d.id]
            <4> HIDE DEF d
            <4> QED
                BY <3>4, DeletedJob, Zenon
        <3> DEFINE job == [op |-> "detach", id |-> d.id]
        <3>6. doing' = [doing EXCEPT ![r] = job]
            BY <3>1, <3>5
        <3>7. job.op = "detach"
            OBVIOUS
        <3> HIDE DEF job
        <3>9. \A q \in Requests : q # r => doing[q] = Idle
            BY <2>d, <3>1 DEF Deleting
        <3> QED
            BY <2>e, <3>2, <3>6, <3>7, <3>9 DEF JobHas
    <2>12. CASE Detach(r)
        <3> DEFINE left == [s \in Isos |-> Detached(links[s], d.id)]
                   job == IF left = links THEN Idle ELSE Saving({}, left)
        <3>1. UNCHANGED <<records, files>> /\ doing' = [doing EXCEPT ![r] = job]
            BY <2>12 DEF Detach
        <3>2. job.op \in {"idle", "save"}
            BY <1>1 DEF Saving
        <3> HIDE DEF job
        <3> QED
            BY <2>c, <3>1, <3>2 DEF JobHas
    <2>13. CASE Save(r)
        BY <1>1, <1>a, <2>c, <2>13 DEF Save, End
    <2> QED
        BY <1>4, <2>3, <2>4, <2>5, <2>6, <2>7, <2>8, <2>9, <2>10, <2>11, <2>12, <2>13
           DEF Request, Step
<1>5. CASE Settings
    BY <1>2, <1>5 DEF Settings, PutMenu, PutWindows, Mount, Unmount, DropProfile, Rest
<1>6. CASE PcNext /\ Admin
    BY <1>2, <1>6 DEF Admin, answerVars
<1>7. CASE UNCHANGED bootVars
    BY <1>2, <1>7 DEF bootVars, answerVars
<1>8. CASE AnswersNext
    BY <1>3, <1>4, <1>8 DEF AnswersNext, FilesIInv
<1> QED
    BY <1>5, <1>6, <1>7, <1>8 DEF Next

-----------------------------------------------------------------------------
(* The PC.                                                                 *)

PcFields == {"at", "main", "label", "slug", "sub", "sublabel", "choice", "gone", "since", "todo",
             "args", "given", "pe"}
Starting == {"loading", "installer"}

\* What comes after the files of the answer.
NoAnswerIn(todo) == \E T : /\ todo \in Seq(T)
                           /\ \A url \in T : url.what \in {"iso", "inject"}

\* Downloads that are of one answer, or of none.
OnlyOf(q, c) == \E T : q \in Seq(T) /\ \A url \in T : url.id \in {c, NoId}

\* What is there to choose for an ISO, and what the PC downloads of it.
OfferedBy(s) == ToSet(AnswersInfo(links[s])) \union {""}
FilesFor(s, id) == IF IsoType[s] = "windows" /\ id # NoId THEN WinpeFiles(id) ELSE <<>>
ArgsFor(s, id) == IF IsoType[s] = "windows" \/ id = NoId THEN <<>> ELSE KernelArgs(id, IsoType[s])
GivenFirst(q) == IF q = <<>> THEN NoFile ELSE Served(q[1])

\* How far a PC is that starts "s" with the answer "id".
StartsWith(s, id) ==
    LET fs == FilesFor(s, id)
        as == ArgsFor(s, id)
    IN /\ pc.at = "loading" =>
             /\ pc.args = as
             /\ \/ NoAnswerIn(pc.todo) /\ pc.given = GivenFirst(fs)
                \/ /\ fs # <<>> /\ pc.todo # <<>> /\ Head(pc.todo) = fs[1]
                   /\ NoAnswerIn(Tail(pc.todo)) /\ pc.given = NoFile
       /\ pc.at = "installer" =>
             \/ pc.args = as /\ pc.given = GivenFirst(fs)
             \/ pc.args = <<>> /\ as # <<>> /\ pc.given = GivenFirst(as)

\* What holds as long as nothing changed since the PC chose.
Undisturbed ==
    /\ \A r \in Requests : doing[r] = Idle
    /\ pc.slug \in Isos
    /\ pc.at = "answers" => AnswersIn(pc.sub, OfferedBy(pc.slug))
    /\ pc.at \in Starting => /\ pc.choice \in OfferedBy(pc.slug) \union {"default"}
                             /\ StartsWith(pc.slug, ResolveAnswer(links[pc.slug], pc.choice))
PcShape ==
    /\ DOMAIN pc = PcFields
    /\ requests \in 0..MaxRequests
    /\ pc.since \in 0..requests \union {MaxRequests + 1}
    /\ pc.sub # <<>> => MenuOfAnswers(pc.sub)
    /\ pc.at = "answers" => pc.sub # <<>> /\ pc.sublabel \in Labels(pc.sub) /\ pc.slug \in Isos
    /\ pc.at \notin Starting => pc.choice = "default" /\ pc.given = NoFile
    /\ (pc.at \in Starting /\ pc.choice = "") =>
          pc.given = NoFile /\ pc.args = <<>> /\ NoAnswerIn(pc.todo)
    /\ pc.at = "installer" => pc.todo = <<>>
    /\ (pc.at \in Starting /\ pc.choice # "default" /\ ~pc.gone) =>
          /\ pc.given.answer \in {pc.choice, NoId}
          /\ OnlyOf(pc.todo, pc.choice) /\ OnlyOf(pc.args, pc.choice)
PcIInv == PcShape /\ ((pc.at \in Starting \union {"answers"} /\ pc.since = requests) => Undisturbed)

\* A PC that is off.
LEMMA OffIs ==
    /\ DOMAIN PcOff = PcFields /\ PcOff.at = "off" /\ PcOff.sub = <<>> /\ PcOff.choice = "default"
    /\ PcOff.since = 0 /\ PcOff.given = NoFile
    BY DEF PcOff, PcFields

\* The same server makes the same files.
LEMMA SameServer ==
    ASSUME UNCHANGED <<records, files, links, profiles>>
    PROVE  /\ \A e, c : ResolveAnswer(e, c)' = ResolveAnswer(e, c)
           /\ \A s : OfferedBy(s)' = OfferedBy(s)
           /\ \A s, id : FilesFor(s, id)' = FilesFor(s, id)
           /\ \A s, id : ArgsFor(s, id)' = ArgsFor(s, id)
           /\ \A q : GivenFirst(q)' = GivenFirst(q)
<1>1. \A id : FilesOf(id)' = FilesOf(id)
    BY DEF FilesOf
<1>2. \A id : MainFile(id)' = MainFile(id)
    BY DEF MainFile, FilesOf
<1>3. \A id : ProfileForAnswer(id)' = ProfileForAnswer(id)
    BY DEF ProfileForAnswer
<1>4. \A e : AnswersInfo(e)' = AnswersInfo(e)
    BY DEF AnswersInfo
<1>5. \A id : WinpeFiles(id)' = WinpeFiles(id)
    BY <1>1, <1>2, <1>3 DEF WinpeFiles
<1>6. \A id, type : KernelArgs(id, type)' = KernelArgs(id, type)
    BY <1>2 DEF KernelArgs, Family
<1>7. \A id, n : StaticFile(id, n)' = StaticFile(id, n)
    BY <1>1 DEF StaticFile
<1>8. \A url : Served(url)' = Served(url)
    BY <1>1, <1>2, <1>3, <1>7 DEF Served, BootAnswer
<1>9. \A e, c : ResolveAnswer(e, c)' = ResolveAnswer(e, c)
    BY <1>4 DEF ResolveAnswer, DefaultAnswer
<1> QED
    BY <1>4, <1>5, <1>6, <1>8, <1>9 DEF OfferedBy, FilesFor, ArgsFor, GivenFirst

\* What the PC downloads besides the files of the answer.
LEMMA NoAnswerLater ==
    ASSUME NEW q, NoAnswerIn(q), q # <<>>
    PROVE  Head(q).what \in {"iso", "inject"} /\ NoAnswerIn(Tail(q))
<1>1. PICK T : q \in Seq(T) /\ \A url \in T : url.what \in {"iso", "inject"}
    BY DEF NoAnswerIn
<1>2. Head(q) \in T /\ Tail(q) \in Seq(T)
    BY <1>1
<1> QED
    BY <1>1, <1>2 DEF NoAnswerIn

\* render: the file of the answer, if there is one, and then the others.
LEMMA RenderGives ==
    ASSUME NEW s, NEW id
    PROVE  /\ Render(s, id).args = ArgsFor(s, id)
           /\ \/ FilesFor(s, id) = <<>> /\ NoAnswerIn(Render(s, id).files)
              \/ /\ FilesFor(s, id) # <<>> /\ Render(s, id).files # <<>>
                 /\ Head(Render(s, id).files) = FilesFor(s, id)[1]
                 /\ NoAnswerIn(Tail(Render(s, id).files))
           /\ id = NoId => FilesFor(s, id) = <<>> /\ ArgsFor(s, id) = <<>>
<1> DEFINE fs == FilesFor(s, id)
           inject == IF IsoType[s] = "windows" /\ Flags.inject
                     THEN <<Url("inject", NoId, "install.cmd")>> ELSE <<>>
           iso == <<Url("iso", NoId, s)>>
<1>1. Render(s, id).files = fs \o inject \o iso /\ Render(s, id).args = ArgsFor(s, id)
    BY DEF Render, FilesFor, ArgsFor
<1>2. PICK a, b : a = Url("inject", NoId, "install.cmd") /\ b = Url("iso", NoId, s)
    OBVIOUS
<1>3. a.what = "inject" /\ b.what = "iso"
    BY <1>2 DEF Url
<1>4. PICK q : q = inject \o iso
    OBVIOUS
<1>5. iso = <<b>> /\ (inject = <<>> \/ inject = <<a>>)
    BY <1>2
<1>9. inject \in Seq({a}) /\ iso \in Seq({b})
    <2> HIDE DEF inject, iso
    <2>1. <<>> \in Seq({a}) /\ <<a>> \in Seq({a}) /\ <<b>> \in Seq({b})
        OBVIOUS
    <2> QED
        BY <1>5, <2>1
<1>6. q \in Seq({a, b})
    <2> HIDE DEF inject, iso
    <2>1. inject \in Seq({a, b}) /\ iso \in Seq({a, b})
        BY <1>9
    <2> QED
        BY <1>4, <2>1
<1>7. NoAnswerIn(q)
    BY <1>3, <1>6 DEF NoAnswerIn
<1>8. fs = <<>> \/ \E u : fs = <<u>>
    BY DEF FilesFor, WinpeFiles
<1> HIDE DEF fs, inject, iso
<1>10. CASE fs = <<>>
    <2>1. fs \o inject \o iso = q
        BY <1>4, <1>9, <1>10
    <2> QED
        BY <1>1, <1>7, <1>10, <2>1 DEF fs, ArgsFor
<1>11. ASSUME NEW u, fs = <<u>>
       PROVE  /\ fs # <<>> /\ Render(s, id).files # <<>> /\ Head(Render(s, id).files) = fs[1]
              /\ NoAnswerIn(Tail(Render(s, id).files)) /\ id # NoId
    <2>1. fs \o inject \o iso = <<u>> \o q
        BY <1>4, <1>9, <1>11
    <2>2. Head(<<u>> \o q) = u /\ Tail(<<u>> \o q) = q /\ <<u>> \o q # <<>>
        BY <1>6
    <2>3. id # NoId
        BY <1>11 DEF fs, FilesFor
    <2> QED
        BY <1>1, <1>7, <1>11, <2>1, <2>2, <2>3
<1>12. id = NoId => ArgsFor(s, id) = <<>>
    BY DEF ArgsFor
<1> QED
    BY <1>1, <1>8, <1>10, <1>11, <1>12 DEF fs

\* What the PC is given of an answer is of it.
LEMMA ServedIsOf ==
    ASSUME NEW url
    PROVE  Served(url).answer \in {url.id, NoId}
<1>1. \A id, n : StaticFile(id, n).answer \in {id, NoId}
    BY DEF StaticFile, NoFile
<1>2. \A id : BootAnswer(id).answer \in {id, NoId}
    BY <1>1 DEF BootAnswer, NoFile
<1> QED
    BY <1>1, <1>2 DEF Served

\* What is of one answer stays so.
LEMMA OnlyOfIs ==
    /\ \A c : OnlyOf(<<>>, c)
    /\ \A q, c : (OnlyOf(q, c) /\ q # <<>>) =>
          Head(q).id \in {c, NoId} /\ OnlyOf(Tail(q), c)
    /\ \A q, id, c : (OnlyOf(q, id) /\ id \in {c, NoId}) => OnlyOf(q, c)
<1>1. ASSUME NEW c PROVE OnlyOf(<<>>, c)
    <2>1. PICK T : T = {}
        OBVIOUS
    <2>2. <<>> \in Seq(T) /\ \A url \in T : url.id \in {c, NoId}
        BY <2>1
    <2> QED
        BY <2>2, Zenon DEF OnlyOf
<1>2. ASSUME NEW q, NEW c, OnlyOf(q, c), q # <<>>
      PROVE  Head(q).id \in {c, NoId} /\ OnlyOf(Tail(q), c)
    <2>1. PICK T : q \in Seq(T) /\ \A url \in T : url.id \in {c, NoId}
        BY <1>2 DEF OnlyOf
    <2>2. Head(q) \in T /\ Tail(q) \in Seq(T)
        BY <1>2, <2>1
    <2> QED
        BY <2>1, <2>2 DEF OnlyOf
<1>3. ASSUME NEW q, NEW id, NEW c, OnlyOf(q, id), id \in {c, NoId}
      PROVE  OnlyOf(q, c)
    <2>1. PICK T : q \in Seq(T) /\ \A url \in T : url.id \in {id, NoId}
        BY <1>3 DEF OnlyOf
    <2> QED
        BY <1>3, <2>1 DEF OnlyOf
<1> QED
    BY <1>1, <1>2, <1>3

\* render: what the PC loads and is told to load is of the answer.
LEMMA RenderIsOf ==
    ASSUME NEW s, NEW id
    PROVE  OnlyOf(Render(s, id).files, id) /\ OnlyOf(Render(s, id).args, id)
<1> DEFINE fs == FilesFor(s, id)
           inject == IF IsoType[s] = "windows" /\ Flags.inject
                     THEN <<Url("inject", NoId, "install.cmd")>> ELSE <<>>
           iso == <<Url("iso", NoId, s)>>
           T == {url \in {u : u \in {fs[1], Head(ArgsFor(s, id)), Url("inject", NoId, "install.cmd"),
                                     Url("iso", NoId, s)}} : url.id \in {id, NoId}}
<1>1. Render(s, id).files = fs \o inject \o iso /\ Render(s, id).args = ArgsFor(s, id)
    BY DEF Render, FilesFor, ArgsFor
<1>2. \A what, n : Url(what, id, n).id = id /\ Url(what, NoId, n).id = NoId
    BY DEF Url
<1>3. fs = <<>> \/ \E what, n : fs = <<Url(what, id, n)>>
    BY DEF FilesFor, WinpeFiles
<1>4. ArgsFor(s, id) = <<>> \/ \E what, n : ArgsFor(s, id) = <<Url(what, id, n)>>
    BY DEF ArgsFor, KernelArgs
<1>5. inject \in Seq(T) /\ iso \in Seq(T)
    <2>1. Url("inject", NoId, "install.cmd") \in T /\ Url("iso", NoId, s) \in T
        BY <1>2
    <2>2. PICK a, b : a = Url("inject", NoId, "install.cmd") /\ b = Url("iso", NoId, s)
        OBVIOUS
    <2>3. (inject = <<a>> \/ inject = <<>>) /\ iso = <<b>>
        BY <2>2
    <2> HIDE DEF inject, iso, T
    <2>4. a \in T /\ b \in T
        BY <2>1, <2>2
    <2>5. <<>> \in Seq(T) /\ <<a>> \in Seq(T) /\ <<b>> \in Seq(T)
        BY <2>4
    <2> QED
        BY <2>3, <2>5
<1>6. fs \in Seq(T)
    <2>1. CASE fs = <<>>
        <3> HIDE DEF fs, T
        <3> QED
            BY <2>1
    <2>2. ASSUME NEW what, NEW n, fs = <<Url(what, id, n)>> PROVE fs \in Seq(T)
        <3>1. PICK u : u = Url(what, id, n)
            OBVIOUS
        <3>2. fs[1] = u /\ u.id = id
            BY <1>2, <2>2, <3>1
        <3>3. u \in T
            BY <3>2
        <3> HIDE DEF fs, T
        <3> QED
            BY <2>2, <3>1, <3>3
    <2> QED
        BY <1>3, <2>1, <2>2
<1>7. ArgsFor(s, id) \in Seq(T)
    <2>1. PICK as : as = ArgsFor(s, id)
        OBVIOUS
    <2>2. CASE as = <<>>
        <3> HIDE DEF T
        <3> QED
            BY <2>1, <2>2
    <2>3. ASSUME NEW what, NEW n, as = <<Url(what, id, n)>> PROVE as \in Seq(T)
        <3>1. PICK u : u = Url(what, id, n)
            OBVIOUS
        <3>2. Head(as) = u /\ u.id = id
            BY <1>2, <2>3, <3>1
        <3>3. u \in T
            BY <2>1, <3>2
        <3> HIDE DEF T
        <3> QED
            BY <2>3, <3>1, <3>3
    <2> QED
        BY <1>4, <2>1, <2>2, <2>3
<1>8. \A url \in T : url.id \in {id, NoId}
    OBVIOUS
<1> HIDE DEF T, fs, inject, iso
<1>9. fs \o inject \o iso \in Seq(T)
    BY <1>5, <1>6
<1> QED
    BY <1>1, <1>7, <1>8, <1>9 DEF OnlyOf

\* The requests are counted.
LEMMA RequestsAreCounted ==
    ASSUME PcIInv
    PROVE  requests \in Nat /\ MaxRequests \in Nat /\ requests <= MaxRequests
           /\ (pc.since \in 0..requests \/ pc.since = MaxRequests + 1)
<1>1. MaxRequests \in Nat
    BY FilesAssumption
<1>2. requests \in 0..MaxRequests
    BY DEF PcIInv, PcShape
<1>3. pc.since \in 0..requests \union {MaxRequests + 1}
    BY DEF PcIInv, PcShape
<1> QED
    BY <1>1, <1>2, <1>3

\* A PC that is neither in the menu of the answers nor starting anything.
LEMMA PcRests ==
    ASSUME PcIInv, Admin, DOMAIN pc' = PcFields, pc'.at \notin Starting \union {"answers"},
           pc'.since \in {0, pc.since}, pc'.sub \in {<<>>, pc.sub}, pc'.choice = "default",
           pc'.given = NoFile
    PROVE  PcIInv'
<1>1. UNCHANGED requests
    BY DEF Admin, answerVars
<1>2. pc'.since \in 0..requests \union {MaxRequests + 1}
    <2>1. PICK n : n = pc.since
        OBVIOUS
    <2>2. requests \in Nat /\ (n \in 0..requests \/ n = MaxRequests + 1)
        BY <2>1, RequestsAreCounted
    <2>3. pc'.since = 0 \/ pc'.since = n
        BY <2>1
    <2> QED
        BY <2>2, <2>3
<1>3. PcShape'
    BY <1>1, <1>2 DEF PcIInv, PcShape, Starting
<1> QED
    BY <1>3 DEF PcIInv

\* A PC that begins to start an ISO with an answer.
LEMMA PcBegins ==
    ASSUME PcIInv, Admin, NEW s, NEW id,
           DOMAIN pc' = PcFields, pc'.at = "loading", pc'.slug = s, pc'.sub = pc.sub,
           pc'.todo = Render(s, id).files, pc'.args = Render(s, id).args, pc'.given = NoFile,
           pc'.since \in 0..requests \union {MaxRequests + 1},
           pc'.choice = "" => id = NoId,
           (pc'.choice # "default" /\ ~pc'.gone) => id \in {pc'.choice, NoId},
           pc'.since = requests => /\ s \in Isos /\ \A r \in Requests : doing[r] = Idle
                                   /\ pc'.choice \in OfferedBy(s) \union {"default"}
                                   /\ id = ResolveAnswer(links[s], pc'.choice)
    PROVE  PcIInv'
<1>1. UNCHANGED <<requests, records, files, links, doing, profiles>>
    BY DEF Admin, answerVars
<1>2. PcShape'
    <2>1. pc'.choice = "" => pc'.args = <<>> /\ NoAnswerIn(pc'.todo)
        BY RenderGives
    <2>2. (pc'.choice # "default" /\ ~pc'.gone) =>
             /\ pc'.given.answer = NoId
             /\ OnlyOf(pc'.todo, pc'.choice) /\ OnlyOf(pc'.args, pc'.choice)
        <3>1. OnlyOf(Render(s, id).files, id) /\ OnlyOf(Render(s, id).args, id)
            BY RenderIsOf
        <3>2. PICK todo, args : todo = Render(s, id).files /\ args = Render(s, id).args
            OBVIOUS
        <3>3. pc'.todo = todo /\ pc'.args = args
            BY <3>2
        <3>4. NoFile.answer = NoId
            BY DEF NoFile
        <3>5. PICK c : c = pc'.choice
            OBVIOUS
        <3>6. id \in {c, NoId} => OnlyOf(todo, c) /\ OnlyOf(args, c)
            BY <3>1, <3>2, OnlyOfIs
        <3> QED
            BY <3>3, <3>4, <3>5, <3>6
    <2> QED
        BY <1>1, <2>1, <2>2 DEF PcIInv, PcShape, Starting
<1>3. ASSUME pc'.since = requests PROVE Undisturbed'
    <2>1. pc'.slug \in Isos /\ pc'.choice \in OfferedBy(s) \union {"default"}
        BY <1>3
    <2>2. /\ OfferedBy(s)' = OfferedBy(s) /\ FilesFor(s, id)' = FilesFor(s, id)
          /\ ArgsFor(s, id)' = ArgsFor(s, id)
          /\ \A q : GivenFirst(q)' = GivenFirst(q)
          /\ \A e, c : ResolveAnswer(e, c)' = ResolveAnswer(e, c)
        BY <1>1, SameServer
    <2>3. StartsWith(s, id)'
        <3>1. pc'.args = ArgsFor(s, id)'
            BY <2>2, RenderGives
        <3>2. \/ NoAnswerIn(pc'.todo) /\ pc'.given = GivenFirst(FilesFor(s, id))'
              \/ /\ FilesFor(s, id)' # <<>> /\ pc'.todo # <<>>
                 /\ Head(pc'.todo) = FilesFor(s, id)'[1]
                 /\ NoAnswerIn(Tail(pc'.todo)) /\ pc'.given = NoFile
            <4>1. PICK f, todo : f = FilesFor(s, id) /\ todo = Render(s, id).files
                OBVIOUS
            <4>2. \/ f = <<>> /\ NoAnswerIn(todo)
                  \/ f # <<>> /\ todo # <<>> /\ Head(todo) = f[1] /\ NoAnswerIn(Tail(todo))
                BY ZenonT(40), <4>1, RenderGives
            <4>3. pc'.todo = todo /\ FilesFor(s, id)' = f /\ GivenFirst(f)' = GivenFirst(f)
                BY <2>2, <4>1
            <4>4. f = <<>> => GivenFirst(f) = NoFile
                BY DEF GivenFirst
            <4> QED
                BY <4>2, <4>3, <4>4
        <3> QED
            BY <3>1, <3>2 DEF StartsWith
    <2>4. ResolveAnswer(links[s], pc.choice)' = id
        BY <1>1, <1>3, <2>2
    <2> QED
        BY <1>1, <1>3, <2>1, <2>2, <2>3, <2>4 DEF Undisturbed
<1> QED
    BY <1>1, <1>2, <1>3 DEF PcIInv

\* A PC that begins to load, and one whose command failed.
Begins(q, p, s, id) ==
    /\ DOMAIN q = PcFields /\ q.at = "loading" /\ q.slug = s /\ q.sub = p.sub
    /\ q.todo = Render(s, id).files /\ q.args = Render(s, id).args
    /\ q.given = p.given /\ q.since = p.since /\ q.choice = p.choice /\ q.gone = p.gone

\* What Loading makes of a PC.
LEMMA LoadingIs ==
    ASSUME NEW p, DOMAIN p = PcFields, NEW s, NEW id
    PROVE  Begins(Loading(p, s, id), p, s, id)
    BY DEF Loading, PcFields, Begins

\* What GoBack makes of a PC.
LEMMA GoBackIs ==
    ASSUME NEW p
    PROVE  /\ DOMAIN GoBack(p) = PcFields /\ GoBack(p).at = "failed" /\ GoBack(p).sub = <<>>
           /\ GoBack(p).choice = "default" /\ GoBack(p).since = 0 /\ GoBack(p).given = NoFile
    BY OffIs DEF GoBack, PcFields

\* The answers of an ISO are chosen from a menu that closes.
LEMMA ChoicesAreOffered ==
    ASSUME AnswersShape, NEW s \in Isos, NEW manual,
           Len(AnswerChoices(AnswersInfo(links[s]), manual)) >= 2, NEW default
    PROVE  LET sub == AnswerMenuScript(menu, AnswerChoices(AnswersInfo(links[s]), manual), default)
           IN MenuOfAnswers(sub) /\ AnswersIn(sub, OfferedBy(s))
<1> DEFINE info == AnswersInfo(links[s])
           given == [n \in DOMAIN info |-> [label |-> AnswerLabels[n], answer |-> info[n]]]
           by_hand == IF info # <<>> /\ manual THEN <<[label |-> "manuale", answer |-> ""]>> ELSE <<>>
           choices == AnswerChoices(info, manual)
           L == {AnswerLabels[i] : i \in DOMAIN AnswerLabels} \union {"manuale"}
           T == OfferedBy(s)
           R == [label : L, answer : T]
<1>1. info \in Seq(Ids) /\ Len(info) \in Nat /\ DOMAIN info = 1..Len(info)
      /\ Len(info) <= Len(AnswerLabels)
    <2>1. PICK e : e = links[s] /\ e \in Links
        BY DEF AnswersShape
    <2>2. AnswersOf(e) \in Seq(Ids) /\ Len(AnswersOf(e)) <= MaxAnswers
        BY <2>1, AnswersOfAreLinked
    <2>3. PICK q, S : q = AnswersOf(e) /\ S = DOMAIN records
        OBVIOUS
    <2>4. info = Among(q, S)
        BY <2>1, <2>3 DEF AnswersInfo
    <2>5. q \in Seq(Ids)
        BY <2>2, <2>3
    <2>6. Among(q, S) \in Seq(Ids) /\ Len(Among(q, S)) <= Len(q)
        BY <2>5, AmongKeeps
    <2>7. PICK a : a = Among(q, S)
        OBVIOUS
    <2>8. /\ a \in Seq(Ids) /\ Len(a) \in Nat /\ DOMAIN a = 1..Len(a)
          /\ Len(a) <= Len(q) /\ Len(q) \in Nat
        BY <2>5, <2>6, <2>7
    <2>9. Len(AnswerLabels) \in Nat
        BY AnswerLabelsAssumption
    <2>10. MaxAnswers <= Len(AnswerLabels) /\ MaxAnswers \in Nat
        BY EnoughLabels DEF MaxAnswers
    <2> HIDE DEF info
    <2> QED
        BY <2>2, <2>3, <2>4, <2>7, <2>8, <2>9, <2>10
<1>2. choices = given \o by_hand
    BY DEF AnswerChoices
<1>3. PICK q, n, h : q = info /\ n = Len(q) /\ h = [label |-> "manuale", answer |-> ""]
    OBVIOUS
<1>4. /\ n \in Nat /\ DOMAIN q = 1..n /\ n <= Len(AnswerLabels)
      /\ \A i \in 1..n : q[i] \in OfferedBy(s)
    <2>1. n \in Nat /\ DOMAIN q = 1..n /\ n <= Len(AnswerLabels)
        BY <1>1, <1>3
    <2>2. OfferedBy(s) = ToSet(q) \union {""}
        BY <1>3 DEF OfferedBy
    <2> QED
        BY <2>1, <2>2 DEF ToSet
<1>5. \A i \in 1..n : i \in DOMAIN AnswerLabels /\ AnswerLabels[i] \in L
    BY <1>4, AnswerLabelsAssumption
<1>6. h \in R /\ h.label = "manuale"
    BY <1>3 DEF OfferedBy
<1>7. PICK g : g = given
    OBVIOUS
<1>8. DOMAIN g = 1..n /\ \A i \in 1..n : g[i] = [label |-> AnswerLabels[i], answer |-> q[i]]
    BY <1>3, <1>4, <1>7
<1>9. \A i \in 1..n : g[i] \in R /\ g[i].label = AnswerLabels[i]
    <2> SUFFICES ASSUME NEW i \in 1..n PROVE g[i] \in R /\ g[i].label = AnswerLabels[i]
        OBVIOUS
    <2>1. PICK l, a : l = AnswerLabels[i] /\ a = q[i] /\ g[i] = [label |-> l, answer |-> a]
        BY <1>8
    <2>2. l \in L /\ a \in T
        BY <1>4, <1>5, <2>1
    <2> HIDE DEF L, T
    <2> QED
        BY <2>1, <2>2
<1>21. g \in Seq(R)
    <2>1. g = [i \in 1..n |-> [label |-> AnswerLabels[i], answer |-> q[i]]]
        BY <1>3, <1>4, <1>7
    <2>2. g = [i \in 1..n |-> g[i]]
        BY <2>1
    <2> HIDE DEF R
    <2>3. g \in [1..n -> R]
        BY <1>9, <2>2
    <2> QED
        BY <1>4, <2>3
<1>10. PICK k : k = choices
    OBVIOUS
<1>11. k = g \/ k = g \o <<h>>
    <2>1. g = given /\ by_hand = IF q # <<>> /\ manual THEN <<h>> ELSE <<>>
        BY <1>3, <1>7
    <2>2. k = g \o by_hand
        BY <1>2, <1>7, <1>10
    <2>3. g \in Seq(R)
        BY <1>21
    <2> HIDE DEF R, given, by_hand, choices
    <2>4. g \o <<>> = g
        BY <2>3
    <2> QED
        BY <2>1, <2>2, <2>4
<1>12. /\ k \in Seq(R) /\ Len(k) \in {n, n + 1} /\ DOMAIN k = 1..Len(k)
       /\ \A i \in DOMAIN k : /\ i \in 1..n => k[i].label = AnswerLabels[i]
                              /\ i \notin 1..n => i = n + 1 /\ k[i].label = "manuale"
    <2> HIDE DEF R, given, by_hand, choices
    <2>1. g \in Seq(R) /\ Len(g) = n
        BY <1>4, <1>8, <1>21
    <2>2. CASE k = g
        BY <1>9, <2>1, <2>2, <1>4
    <2>3. CASE k = g \o <<h>>
        <3>1. /\ k \in Seq(R) /\ Len(k) = n + 1 /\ \A i \in 1..n : k[i] = g[i]
              /\ k[n + 1] = h
            BY <1>4, <1>6, <2>1, <2>3
        <3>2. DOMAIN k = 1..n + 1
            BY <1>4, <3>1
        <3>3. \A i \in 1..n + 1 : i \in 1..n \/ i = n + 1
            BY <1>4
        <3> QED
            BY <1>6, <1>9, <3>1, <3>2, <3>3
    <2> QED
        BY <1>11, <2>2, <2>3
<1>13. \A i, j \in DOMAIN k : k[i].label = k[j].label => i = j
    <2> SUFFICES ASSUME NEW i \in DOMAIN k, NEW j \in DOMAIN k, k[i].label = k[j].label
                 PROVE  i = j
        OBVIOUS
    <2>1. i \in 1..n /\ j \in 1..n => i = j
        BY <1>5, <1>12, AnswerLabelsAssumption
    <2>2. i \in 1..n => AnswerLabels[i] # "manuale"
        BY <1>5, AnswerLabelsAssumption
    <2>3. j \in 1..n => AnswerLabels[j] # "manuale"
        BY <1>5, AnswerLabelsAssumption
    <2> QED
        BY <1>12, <2>1, <2>2, <2>3
<1>14. \A i \in DOMAIN k : k[i].label \notin {"menu", "failed"}
    BY <1>5, <1>12, AnswerLabelsAssumption
<1>15. k # <<>>
    <2>1. Len(k) >= 2
        BY <1>3, <1>10
    <2> QED
        BY <2>1
<1>16. ChoicesOf(k, T)
    <2>1. \E l : k \in Seq([label : l, answer : T])
        BY <1>12
    <2> HIDE DEF L, T, R
    <2> QED
        BY <1>13, <1>14, <1>15, <2>1 DEF ChoicesOf
<1> HIDE DEF choices
<1> QED
    BY <1>3, <1>10, <1>16, AnswerMenuIsClosed DEF MenuOfAnswers, choices

\* Where a PC goes from the menu of the answers.
LEMMA SectionOfAnswers ==
    ASSUME PcIInv, pc.at = "answers"
    PROVE  /\ pc.slug \in Isos /\ pc.sub # <<>> /\ MenuOfAnswers(pc.sub)
           /\ Selectable(There) \subseteq Labels(pc.sub)
           /\ There.does = <<"menu">> => Taken(There) \in Labels(pc.sub)
           /\ (There.does[1] = "answer" /\ pc.since = requests) =>
                 There.does[2] \in OfferedBy(pc.slug)
<1>1. pc.slug \in Isos /\ pc.sub # <<>> /\ MenuOfAnswers(pc.sub) /\ pc.sublabel \in Labels(pc.sub)
    BY DEF PcIInv, PcShape
<1>2. PICK sub, l : sub = pc.sub /\ l = pc.sublabel
    OBVIOUS
<1>3. /\ Len(sub) \in Nat /\ DOMAIN sub = 1..Len(sub) /\ l \in Labels(sub) /\ Closed(sub)
      /\ \A i \in DOMAIN sub : sub[i].does = <<"menu">> => Taken(sub[i]) \in Labels(sub)
    BY <1>1, <1>2 DEF MenuOfAnswers
<1>4. PICK i \in DOMAIN sub : SectionOf(sub, l) = sub[i]
    BY <1>3, SectionIsThere
<1>5. There = sub[i]
    BY <1>2, <1>4 DEF There
<1>6. Selectable(sub[i]) \subseteq Labels(sub)
    BY <1>3 DEF Selectable, Closed, GoesOnly
<1>7. pc.since = requests => AnswersIn(sub, OfferedBy(pc.slug))
    BY <1>2 DEF PcIInv, Undisturbed
<1>8. (sub[i].does[1] = "answer" /\ pc.since = requests) => sub[i].does[2] \in OfferedBy(pc.slug)
    BY <1>7 DEF AnswersIn
<1> QED
    BY <1>1, <1>2, <1>3, <1>5, <1>6, <1>8

\* A PC in the menu of the answers.
LEMMA PcChooses ==
    ASSUME PcIInv, Admin, AnswersShape,
           DOMAIN pc' = PcFields, pc'.at = "answers", pc'.slug \in Isos, pc'.choice = "default",
           pc'.given = NoFile, pc'.since \in 0..requests \union {MaxRequests + 1},
           MenuOfAnswers(pc'.sub), pc'.sublabel \in Labels(pc'.sub),
           pc'.since = requests => /\ AnswersIn(pc'.sub, OfferedBy(pc'.slug))
                                   /\ \A r \in Requests : doing[r] = Idle
    PROVE  PcIInv'
<1>1. UNCHANGED <<requests, records, files, links, doing, profiles>>
    BY DEF Admin, answerVars
<1>2. pc'.sub # <<>>
    BY DEF MenuOfAnswers
<1>3. PcShape'
    BY <1>1, <1>2 DEF PcIInv, PcShape, Starting
<1>4. ASSUME pc'.since = requests PROVE Undisturbed'
    <2>1. PICK s : s = pc'.slug
        OBVIOUS
    <2>2. OfferedBy(s)' = OfferedBy(s)
        BY <1>1, SameServer
    <2>3. AnswersIn(pc'.sub, OfferedBy(s))
        BY <1>4, <2>1
    <2>4. (AnswersIn(pc.sub, OfferedBy(pc.slug)))'
        BY <2>1, <2>2, <2>3
    <2> QED
        BY <1>1, <1>4, <2>4 DEF Undisturbed, Starting
<1> QED
    BY <1>1, <1>3, <1>4 DEF PcIInv

\* The PC starts what it was told to start.
LEMMA PcLoads ==
    ASSUME AnswersShape, PcIInv, Load, Admin
    PROVE  PcIInv'
<1> DEFINE url == Head(pc.todo)
           got == [pc EXCEPT !.todo = Tail(@)]
<1>0. UNCHANGED <<requests, records, files, links, doing, profiles>>
    BY DEF Admin, answerVars
<1>1. pc.at = "loading" /\ pc.todo # <<>> /\ DOMAIN pc = PcFields
    BY DEF Load, PcIInv, PcShape
<1>2. CASE pc' = GoBack(pc)
    <2>1. /\ DOMAIN pc' = PcFields /\ pc'.at = "failed" /\ pc'.sub = <<>> /\ pc'.since = 0
          /\ pc'.choice = "default" /\ pc'.given = NoFile
        BY <1>2, GoBackIs
    <2> QED
        BY <2>1, PcRests DEF Starting
\* What was loaded is left out of what is still to load.
<1>3. ASSUME DOMAIN pc' = PcFields, pc'.at = "loading", pc'.slug = pc.slug, pc'.sub = pc.sub,
             pc'.choice = pc.choice, pc'.gone = pc.gone, pc'.since = pc.since, pc'.args = pc.args,
             pc'.todo = Tail(pc.todo),
             \/ pc'.given = pc.given /\ url.what \in {"iso", "inject"}
             \/ pc'.given = Served(url) /\ url.what \notin {"iso", "inject"}
      PROVE  PcIInv'
    <2>1. PICK todo : todo = pc.todo
        OBVIOUS
    <2>2. NoAnswerIn(todo) => url.what \in {"iso", "inject"} /\ NoAnswerIn(Tail(todo))
        BY <1>1, <2>1, NoAnswerLater
    <2>3. pc.choice = "" => NoAnswerIn(todo) /\ pc.given = NoFile /\ pc.args = <<>>
        BY <1>1, <2>1 DEF PcIInv, PcShape, Starting
    <2>6. (pc.choice # "default" /\ ~pc.gone) =>
             /\ pc'.given.answer \in {pc.choice, NoId}
             /\ OnlyOf(pc'.todo, pc.choice) /\ OnlyOf(pc'.args, pc.choice)
        <3> SUFFICES ASSUME pc.choice # "default", ~pc.gone
                     PROVE  /\ pc'.given.answer \in {pc.choice, NoId}
                            /\ OnlyOf(pc'.todo, pc.choice) /\ OnlyOf(pc'.args, pc.choice)
            OBVIOUS
        <3>1. /\ pc.given.answer \in {pc.choice, NoId}
              /\ OnlyOf(todo, pc.choice) /\ OnlyOf(pc.args, pc.choice)
            BY <1>1, <2>1 DEF PcIInv, PcShape, Starting
        <3>2. url.id \in {pc.choice, NoId} /\ OnlyOf(Tail(todo), pc.choice)
            BY <1>1, <2>1, <3>1, OnlyOfIs
        <3> HIDE DEF url
        <3>3. Served(url).answer \in {pc.choice, NoId}
            BY <3>2, ServedIsOf
        <3> QED
            BY <1>3, <2>1, <3>1, <3>2, <3>3
    <2>4. PcShape'
        BY <1>0, <1>3, <2>1, <2>2, <2>3, <2>6 DEF PcIInv, PcShape, Starting
    <2>5. ASSUME pc.since = requests PROVE Undisturbed'
        <3>1. Undisturbed
            BY <1>1, <2>5 DEF PcIInv, Starting
        <3>2. PICK s, id : s = pc.slug /\ id = ResolveAnswer(links[pc.slug], pc.choice)
            OBVIOUS
        <3>3. PICK fs, as : fs = FilesFor(s, id) /\ as = ArgsFor(s, id)
            OBVIOUS
        <3>4. /\ pc.args = as
              /\ \/ NoAnswerIn(todo) /\ pc.given = GivenFirst(fs)
                 \/ /\ fs # <<>> /\ Head(todo) = fs[1]
                    /\ NoAnswerIn(Tail(todo)) /\ pc.given = NoFile
            BY <1>1, <2>1, <3>1, <3>2, <3>3 DEF Undisturbed, StartsWith, Starting
        <3>5. fs # <<>> => fs[1].what \in {"file", "boot_answer"} /\ GivenFirst(fs) = Served(fs[1])
            BY <3>3 DEF FilesFor, WinpeFiles, Url, GivenFirst
        <3>6. NoAnswerIn(Tail(todo)) /\ pc'.given = GivenFirst(fs)
            <4>1. CASE NoAnswerIn(todo) /\ pc.given = GivenFirst(fs)
                BY <1>3, <2>2, <4>1
            <4>2. CASE /\ fs # <<>> /\ Head(todo) = fs[1]
                       /\ NoAnswerIn(Tail(todo)) /\ pc.given = NoFile
                <5>1. url = fs[1]
                    BY <2>1, <4>2
                <5> HIDE DEF url
                <5>2. url.what \notin {"iso", "inject"}
                    BY <3>5, <4>2, <5>1
                <5> QED
                    BY <1>3, <3>5, <4>2, <5>1, <5>2
            <4> QED
                BY <3>4, <4>1, <4>2
        <3>7. /\ FilesFor(s, id)' = fs /\ ArgsFor(s, id)' = as /\ GivenFirst(fs)' = GivenFirst(fs)
              /\ OfferedBy(s)' = OfferedBy(s)
              /\ ResolveAnswer(links[pc.slug], pc.choice)' = id
            BY <1>0, <1>3, <3>2, <3>3, SameServer
        <3>8. StartsWith(s, id)'
            BY <1>3, <2>1, <3>4, <3>6, <3>7 DEF StartsWith
        <3> QED
            BY <1>0, <1>3, <3>1, <3>2, <3>7, <3>8, <1>1 DEF Undisturbed, Starting
    <2> QED
        BY <1>0, <1>3, <2>4, <2>5 DEF PcIInv
<1>4. CASE pc' = got /\ url.what = "iso"
    <2>1. /\ DOMAIN pc' = PcFields /\ pc'.at = "loading" /\ pc'.slug = pc.slug /\ pc'.sub = pc.sub
          /\ pc'.choice = pc.choice /\ pc'.gone = pc.gone /\ pc'.since = pc.since
          /\ pc'.args = pc.args
          /\ pc'.todo = Tail(pc.todo) /\ pc'.given = pc.given
        BY <1>1, <1>4 DEF PcFields
    <2> QED
        BY <1>3, <1>4, <2>1
<1>5. CASE pc' = [got EXCEPT !.pe = Started(Flags)] /\ url.what = "inject"
    <2>0. PICK o : o = Started(Flags)
        OBVIOUS
    <2>1. /\ DOMAIN pc' = PcFields /\ pc'.at = "loading" /\ pc'.slug = pc.slug /\ pc'.sub = pc.sub
          /\ pc'.choice = pc.choice /\ pc'.gone = pc.gone /\ pc'.since = pc.since
          /\ pc'.args = pc.args
          /\ pc'.todo = Tail(pc.todo) /\ pc'.given = pc.given
        BY <1>1, <1>5, <2>0 DEF PcFields
    <2> QED
        BY <1>3, <1>5, <2>1
<1>6. CASE pc' = [got EXCEPT !.given = Served(url)] /\ url.what \notin {"iso", "inject"}
    <2>1. /\ DOMAIN pc' = PcFields /\ pc'.at = "loading" /\ pc'.slug = pc.slug /\ pc'.sub = pc.sub
          /\ pc'.choice = pc.choice /\ pc'.gone = pc.gone /\ pc'.since = pc.since
          /\ pc'.args = pc.args
          /\ pc'.todo = Tail(pc.todo) /\ pc'.given = Served(url)
        BY <1>1, <1>6 DEF PcFields
    <2> QED
        BY <1>3, <1>6, <2>1
<1> QED
    BY <1>2, <1>4, <1>5, <1>6 DEF Load

\* Every step of the PC.
LEMMA PcStep ==
    ASSUME AnswersShape, PcIInv, PcNext, Admin
    PROVE  PcIInv'
<1>0. /\ UNCHANGED <<requests, records, files, links, doing, profiles>>
      /\ DOMAIN pc = PcFields
    BY DEF Admin, answerVars, PcIInv, PcShape
<1>1. pc.at \notin Starting => pc.choice = "default" /\ pc.given = NoFile
    BY DEF PcIInv, PcShape
<1>2. /\ Now \in 0..requests \union {MaxRequests + 1}
      /\ (Now = requests => \A r \in Requests : doing[r] = Idle)
    <2>1. requests \in Nat /\ requests <= MaxRequests /\ MaxRequests \in Nat
        BY RequestsAreCounted
    <2> QED
        BY <2>1 DEF Now
<1>3. pc.since \in 0..requests \union {MaxRequests + 1}
    BY DEF PcIInv, PcShape
\* A PC that begins again.
<1>4. ASSUME pc' \in {[PcOff EXCEPT !.at = a] : a \in {"bootstrap", "left"}}
                      \union {PcOff, GoBack(pc)}
      PROVE  PcIInv'
    <2>1. /\ DOMAIN pc' = PcFields /\ pc'.at \in {"bootstrap", "left", "off", "failed"}
          /\ pc'.sub = <<>> /\ pc'.since = 0 /\ pc'.choice = "default" /\ pc'.given = NoFile
        <3>1. CASE pc' = GoBack(pc)
            BY <3>1, GoBackIs
        <3>2. CASE pc' = PcOff
            BY <3>2, OffIs
        <3>3. ASSUME NEW a \in {"bootstrap", "left"}, pc' = [PcOff EXCEPT !.at = a]
              PROVE  /\ DOMAIN pc' = PcFields /\ pc'.at = a /\ pc'.sub = <<>> /\ pc'.since = 0
                     /\ pc'.choice = "default" /\ pc'.given = NoFile
            BY <3>3, OffIs DEF PcFields
        <3> QED
            BY <1>4, <3>1, <3>2, <3>3
    <2> QED
        BY <2>1, PcRests DEF Starting
\* A PC in the menu, or one that waits.
<1>5. ASSUME pc.at \notin Starting, NEW a, a \notin Starting \union {"answers"},
             NEW main, NEW label, NEW o,
             \/ pc' = [pc EXCEPT !.at = a, !.main = main, !.label = label]
             \/ pc' = [pc EXCEPT !.at = a, !.label = label]
             \/ pc' = [pc EXCEPT !.at = a]
             \/ pc' = [pc EXCEPT !.label = label] /\ pc.at = a
             \/ pc' = [pc EXCEPT !.pe = o] /\ pc.at = a
      PROVE  PcIInv'
    <2>1. /\ DOMAIN pc' = PcFields /\ pc'.at = a /\ pc'.sub = pc.sub /\ pc'.since = pc.since
          /\ pc'.choice = pc.choice /\ pc'.given = pc.given
        BY <1>0, <1>5 DEF PcFields
    <2> QED
        BY <1>1, <1>5, <2>1, PcRests
<1>6. CASE PowerOn \/ Installed \/ AnswersFailed \/ LoadFails
    BY <1>4, <1>6 DEF PowerOn, Installed, AnswersFailed, LoadFails
<1>7. CASE LeaveMenu
    BY <1>4, <1>7 DEF LeaveMenu
<1>8. ASSUME NEW auto \in AutoBoots, GetMenu(auto) PROVE PcIInv'
    <2>1. PICK main, label :
             pc.at = "bootstrap" /\ pc' = [pc EXCEPT !.at = "ipxe", !.main = main, !.label = label]
        BY <1>8 DEF GetMenu
    <2> QED
        BY <1>5, <2>1 DEF Starting
<1>9. CASE NoMenu
    BY <1>5, <1>9 DEF NoMenu, Starting
<1>10. CASE ChooseEntry \/ TimedOut
    <2>1. PICK label : pc.at = "ipxe" /\ pc' = [pc EXCEPT !.label = label]
        BY <1>10 DEF ChooseEntry, TimedOut
    <2> QED
        BY <1>5, <2>1 DEF Starting
<1>11. CASE AfterFailure
    <2>1. PICK label : pc.at = "failed" /\ pc' = [pc EXCEPT !.at = "ipxe", !.label = label]
        BY <1>11 DEF AfterFailure
    <2> QED
        BY <1>5, <2>1 DEF Starting
<1>12. CASE WinpeRuns \/ WinpeGoesOn
    <2>1. PICK o : pc.at = "winpe" /\ pc' = [pc EXCEPT !.pe = o]
        BY <1>12 DEF WinpeRuns, WinpeGoesOn, Runs
    <2> QED
        BY <1>5, <2>1 DEF Starting
<1>13. CASE Load
    BY <1>13, PcLoads
<1>14. CASE Start
    <2>1. pc.at = "loading" /\ pc.todo = <<>>
        BY <1>14 DEF Start
    <2>2. CASE pc.pe # <<>>
        <3>1. PICK s, o : pc' = [PcOff EXCEPT !.at = "winpe", !.slug = s, !.pe = o]
            BY <1>14, <2>2 DEF Start
        <3>2. /\ DOMAIN pc' = PcFields /\ pc'.at = "winpe" /\ pc'.sub = <<>> /\ pc'.since = 0
              /\ pc'.choice = "default" /\ pc'.given = NoFile
            BY <3>1, OffIs DEF PcFields
        <3> QED
            BY <3>2, PcRests DEF Starting
    <2>3. CASE pc.pe = <<>>
        <3>1. /\ DOMAIN pc' = PcFields /\ pc'.at = "installer" /\ pc'.slug = pc.slug /\ pc'.sub = <<>>
              /\ pc'.choice = pc.choice /\ pc'.gone = pc.gone /\ pc'.since = pc.since
              /\ pc'.args = pc.args
              /\ pc'.todo = pc.todo /\ pc'.given = pc.given
            BY <1>0, <1>14, <2>3 DEF Start, PcFields
        <3>2. PcShape'
            BY <1>0, <2>1, <3>1 DEF PcIInv, PcShape, Starting
        <3>3. ASSUME pc.since = requests PROVE Undisturbed'
            <4>1. Undisturbed
                BY <2>1, <3>3 DEF PcIInv, Starting
            <4>2. PICK s, id : s = pc.slug /\ id = ResolveAnswer(links[pc.slug], pc.choice)
                OBVIOUS
            <4>3. pc.args = ArgsFor(s, id) /\ pc.given = GivenFirst(FilesFor(s, id))
                BY <2>1, <4>1, <4>2 DEF Undisturbed, StartsWith, Starting
            <4>4. /\ ArgsFor(s, id)' = ArgsFor(s, id) /\ FilesFor(s, id)' = FilesFor(s, id)
                  /\ \A q : GivenFirst(q)' = GivenFirst(q)
                  /\ OfferedBy(s)' = OfferedBy(s)
                  /\ ResolveAnswer(links[pc.slug], pc.choice)' = id
                BY <1>0, <3>1, <4>2, SameServer
            <4>5. StartsWith(s, id)'
                BY <3>1, <4>3, <4>4 DEF StartsWith
            <4> QED
                BY <1>0, <2>1, <3>1, <4>1, <4>2, <4>4, <4>5 DEF Undisturbed, Starting
        <3> QED
            BY <1>0, <2>1, <3>1, <3>2, <3>3 DEF PcIInv, Starting
    <2> QED
        BY <2>2, <2>3
<1>15. CASE InstallerLoads
    <2>1. pc.at = "installer" /\ pc.args # <<>> /\ pc.todo = <<>>
        BY <1>15 DEF InstallerLoads, PcIInv, PcShape
    <2>2. /\ DOMAIN pc' = PcFields /\ pc'.at = "installer" /\ pc'.slug = pc.slug /\ pc'.sub = pc.sub
          /\ pc'.choice = pc.choice /\ pc'.gone = pc.gone /\ pc'.since = pc.since
          /\ pc'.args = <<>>
          /\ pc'.todo = pc.todo /\ pc'.given = Served(Head(pc.args))
        BY <1>0, <1>15, <2>1 DEF InstallerLoads, PcFields
    <2>3. pc.choice # ""
        BY <2>1 DEF PcIInv, PcShape, Starting
    <2>6. (pc.choice # "default" /\ ~pc.gone) => pc'.given.answer \in {pc.choice, NoId}
        <3> SUFFICES ASSUME pc.choice # "default", ~pc.gone
                     PROVE  pc'.given.answer \in {pc.choice, NoId}
            OBVIOUS
        <3>1. PICK url : url = Head(pc.args)
            OBVIOUS
        <3>2. OnlyOf(pc.args, pc.choice)
            BY <2>1 DEF PcIInv, PcShape, Starting
        <3>3. url.id \in {pc.choice, NoId}
            BY <2>1, <3>1, <3>2, OnlyOfIs
        <3> QED
            BY <2>2, <3>1, <3>3, ServedIsOf
    <2>7. \A c : OnlyOf(<<>>, c)
        BY OnlyOfIs
    <2>4. PcShape'
        BY <1>0, <2>1, <2>2, <2>3, <2>6, <2>7 DEF PcIInv, PcShape, Starting
    <2>5. ASSUME pc.since = requests PROVE Undisturbed'
        <3>1. Undisturbed
            BY <2>1, <2>5 DEF PcIInv, Starting
        <3>2. PICK s, id : s = pc.slug /\ id = ResolveAnswer(links[pc.slug], pc.choice)
            OBVIOUS
        <3>3. PICK as : as = ArgsFor(s, id)
            OBVIOUS
        <3>4. pc.args = as
            BY <2>1, <3>1, <3>2, <3>3 DEF Undisturbed, StartsWith, Starting
        <3>5. Served(Head(as)) = GivenFirst(as)
            <4>1. as = <<>> \/ \E u : as = <<u>>
                BY <3>3 DEF ArgsFor, KernelArgs
            <4>2. Head(as) = as[1]
                BY <2>1, <3>4, <4>1
            <4> QED
                BY <2>1, <3>4, <4>2 DEF GivenFirst
        <3>6. /\ ArgsFor(s, id)' = as /\ \A q : GivenFirst(q)' = GivenFirst(q)
              /\ OfferedBy(s)' = OfferedBy(s)
              /\ ResolveAnswer(links[pc.slug], pc.choice)' = id
            BY <1>0, <2>2, <3>2, <3>3, SameServer
        <3>7. StartsWith(s, id)'
            BY <2>1, <2>2, <3>4, <3>5, <3>6 DEF StartsWith
        <3> QED
            BY <1>0, <2>1, <2>2, <3>1, <3>2, <3>6, <3>7 DEF Undisturbed, Starting
    <2> QED
        BY <1>0, <2>1, <2>2, <2>4, <2>5 DEF PcIInv, Starting
<1>16. CASE ChooseAnswer \/ AnswerTimedOut
    <2>1. /\ pc.at = "answers" /\ pc.slug \in Isos /\ MenuOfAnswers(pc.sub)
          /\ \E l \in Labels(pc.sub) : pc' = [pc EXCEPT !.sublabel = l]
        BY <1>16, SectionOfAnswers DEF ChooseAnswer, AnswerTimedOut
    <2>2. PICK l \in Labels(pc.sub) : pc' = [pc EXCEPT !.sublabel = l]
        BY <2>1
    <2>3. /\ DOMAIN pc' = PcFields /\ pc'.at = pc.at /\ pc'.slug = pc.slug /\ pc'.sub = pc.sub
          /\ pc'.sublabel = l /\ pc'.choice = pc.choice /\ pc'.given = pc.given
          /\ pc'.since = pc.since
        BY <1>0, <2>2 DEF PcFields
    <2>4. pc.since = requests => /\ AnswersIn(pc.sub, OfferedBy(pc.slug))
                                 /\ \A r \in Requests : doing[r] = Idle
        BY <2>1 DEF PcIInv, Undisturbed
    <2>5. pc.choice = "default" /\ pc.given = NoFile
        BY <1>1, <2>1 DEF Starting
    <2> QED
        BY <1>3, <2>1, <2>2, <2>3, <2>4, <2>5, PcChooses
<1>17. CASE ChainAnswer
    <2>1. PICK s, id, answer, gone :
             /\ s = pc.slug /\ answer = There.does[2] /\ id = ResolveAnswer(links[s], answer)
             /\ gone = (answer # "" /\ ~Contains(AnswersInfo(links[s]), answer))
             /\ pc' = Loading([pc EXCEPT !.choice = answer, !.gone = gone], s, id)
        BY <1>17 DEF ChainAnswer
    <2>2. pc.at = "answers" /\ There.does[1] = "answer"
        BY <1>17 DEF ChainAnswer
    <2>3. PICK p : p = [pc EXCEPT !.choice = answer, !.gone = gone]
        OBVIOUS
    <2>4. /\ DOMAIN p = PcFields /\ p.sub = pc.sub /\ p.choice = answer /\ p.given = NoFile
          /\ p.since = pc.since /\ p.gone = gone
        BY <1>0, <1>1, <2>2, <2>3 DEF PcFields, Starting
    <2>8. Begins(pc', p, s, id)
        BY <2>1, <2>3, <2>4, LoadingIs
    <2>5. /\ DOMAIN pc' = PcFields /\ pc'.at = "loading" /\ pc'.slug = s /\ pc'.sub = pc.sub
          /\ pc'.todo = Render(s, id).files /\ pc'.args = Render(s, id).args
          /\ pc'.given = NoFile /\ pc'.since = pc.since /\ pc'.choice = answer
          /\ pc'.gone = gone
        BY <2>1, <2>3, <2>4, <2>8 DEF Begins
    <2>6. answer = "" => id = NoId
        BY <2>1 DEF ResolveAnswer
    <2>7. pc.since = requests => /\ s \in Isos /\ \A r \in Requests : doing[r] = Idle
                                 /\ answer \in OfferedBy(s)
        BY <2>1, <2>2, SectionOfAnswers DEF PcIInv, Undisturbed
    <2>9. pc'.choice = "" => id = NoId
        BY <2>5, <2>6
    <2>11. (pc'.choice # "default" /\ ~pc'.gone) => id \in {pc'.choice, NoId}
        BY <2>1, <2>5 DEF ResolveAnswer
    <2>10. pc'.since = requests => /\ s \in Isos /\ \A r \in Requests : doing[r] = Idle
                                   /\ pc'.choice \in OfferedBy(s) \union {"default"}
                                   /\ id = ResolveAnswer(links[s], pc'.choice)
        BY <2>1, <2>5, <2>7
    <2> QED
        BY <1>3, <2>5, <2>9, <2>10, <2>11, PcBegins
<1>18. CASE ChainEntry
    <2>0. pc.at = "ipxe"
        BY <1>18 DEF ChainEntry
    <2> DEFINE slug == Here.does[2]
               choices == AnswerChoices(AnswersInfo(links[slug]), links[slug].manual)
    <2>1. CASE slug \notin Isos
        BY <1>4, <1>18, <2>1 DEF ChainEntry
    <2>2. CASE slug \in Isos /\ Len(choices) < 2
        <3>1. PICK s, id, n :
                 /\ s = slug /\ id = ResolveAnswer(links[s], "default") /\ n = Now
                 /\ pc' = Loading([pc EXCEPT !.since = n], s, id)
            BY <1>18, <2>2 DEF ChainEntry
        <3>2. PICK p : p = [pc EXCEPT !.since = n]
            OBVIOUS
        <3>3. /\ DOMAIN p = PcFields /\ p.sub = pc.sub /\ p.choice = "default" /\ p.given = NoFile
              /\ p.since = n
            BY <1>0, <1>1, <2>0, <3>2 DEF PcFields, Starting
        <3>6. Begins(pc', p, s, id)
            BY <3>1, <3>2, <3>3, LoadingIs
        <3>4. /\ DOMAIN pc' = PcFields /\ pc'.at = "loading" /\ pc'.slug = s /\ pc'.sub = pc.sub
              /\ pc'.todo = Render(s, id).files /\ pc'.args = Render(s, id).args
              /\ pc'.given = NoFile /\ pc'.since = n /\ pc'.choice = "default"
            BY <3>1, <3>2, <3>3, <3>6 DEF Begins
        <3>5. s \in Isos
            BY <2>2, <3>1
        <3> HIDE DEF slug, choices
        <3> QED
            BY ZenonT(40), <1>2, <3>1, <3>4, <3>5, PcBegins
    <2>3. CASE slug \in Isos /\ ~(Len(choices) < 2)
        <3>1. PICK s, sub, n :
                 /\ s = slug /\ sub = AnswerMenuScript(menu, choices, DefaultAnswer(links[slug]))
                 /\ n = Now
                 /\ pc' = [pc EXCEPT !.at = "answers", !.slug = s, !.sublabel = "menu",
                                     !.sub = sub, !.since = n]
            BY <1>18, <2>3 DEF ChainEntry
        <3>2. /\ DOMAIN pc' = PcFields /\ pc'.at = "answers" /\ pc'.slug = s /\ pc'.sub = sub
              /\ pc'.sublabel = "menu" /\ pc'.choice = "default" /\ pc'.given = NoFile
              /\ pc'.since = n
            BY <1>0, <1>1, <2>0, <3>1 DEF PcFields, Starting
        <3>3. MenuOfAnswers(sub) /\ AnswersIn(sub, OfferedBy(s))
            <4>1. PICK manual, default : manual = links[s].manual /\ default = DefaultAnswer(links[s])
                OBVIOUS
            <4>2. s \in Isos /\ Len(AnswerChoices(AnswersInfo(links[s]), manual)) >= 2
                BY <2>3, <3>1, <4>1
            <4>3. sub = AnswerMenuScript(menu, AnswerChoices(AnswersInfo(links[s]), manual), default)
                BY <3>1, <4>1
            <4> HIDE DEF slug, choices
            <4> QED
                BY <4>2, <4>3, ChoicesAreOffered
        <3>4. "menu" \in Labels(sub) /\ s \in Isos
            BY <2>3, <3>1, <3>3 DEF MenuOfAnswers
        <3> HIDE DEF slug, choices
        <3> QED
            BY <1>2, <3>1, <3>2, <3>3, <3>4, PcChooses
    <2> QED
        BY <2>1, <2>2, <2>3
<1> QED
    BY <1>6, <1>7, <1>8, <1>9, <1>10, <1>11, <1>12, <1>13, <1>14, <1>15, <1>16, <1>17, <1>18
       DEF PcNext, PcRuns

\* What the server does meanwhile is a request that begins, or goes on.
LEMMA ServerCounts ==
    ASSUME (AnswersNext /\ UNCHANGED pc) \/ Settings
    PROVE  /\ UNCHANGED pc
           /\ \/ requests < MaxRequests /\ requests' = requests + 1
              \/ requests' = requests /\ \E r \in Requests : doing[r] # Idle
<1>0. Idle.op = "idle"
    BY DEF Idle
<1>1. CASE Settings
    BY <1>1 DEF Settings, PutMenu, PutWindows, Mount, Unmount, DropProfile, Rest, Ask
<1>2. CASE Restart /\ UNCHANGED pc
    BY <1>2, Zenon DEF Restart
<1>3. ASSUME NEW r \in Requests, Request(r)
      PROVE  requests < MaxRequests /\ requests' = requests + 1
    BY <1>3 DEF Request, CreateFindId, DeleteFolder, UpdateStart, DeleteFile, PatchLoad, Begin
<1>4. ASSUME NEW r \in Requests, Step(r)
      PROVE  requests' = requests /\ doing[r] # Idle
    BY <1>0, <1>4 DEF Step, CreateFolder, CreateRecord, UpdateRecord, DeleteRecord, Detach, Save,
                      Counters
<1> QED
    BY <1>1, <1>2, <1>3, <1>4 DEF AnswersNext

\* No step of the server's changes what holds of the PC.
LEMMA ServerStep ==
    ASSUME PcIInv, (AnswersNext /\ UNCHANGED pc) \/ Settings
    PROVE  PcIInv'
<1>1. /\ UNCHANGED pc
      /\ \/ requests < MaxRequests /\ requests' = requests + 1
         \/ requests' = requests /\ \E r \in Requests : doing[r] # Idle
    BY ServerCounts
<1>2. PICK n : n = pc.since
    OBVIOUS
<1>3. /\ requests \in Nat /\ MaxRequests \in Nat /\ requests <= MaxRequests
      /\ n \in 0..requests \/ n = MaxRequests + 1
    BY <1>2, RequestsAreCounted
<1>4. requests' \in 0..MaxRequests /\ n \in 0..requests' \union {MaxRequests + 1}
    BY <1>1, <1>3
<1>5. PcShape'
    BY <1>1, <1>2, <1>4 DEF PcIInv, PcShape
<1>6. n = requests' => n = requests /\ requests' = requests
    BY <1>1, <1>3
<1>7. (pc.at \in Starting \union {"answers"} /\ n = requests) => \A r \in Requests : doing[r] = Idle
    BY <1>2 DEF PcIInv, Undisturbed
<1>8. ~(pc'.at \in Starting \union {"answers"} /\ pc'.since = requests')
    BY <1>1, <1>2, <1>3, <1>6, <1>7
<1> QED
    BY <1>5, <1>8 DEF PcIInv

\* What the PC is told to load of an answer, in the end.
GivenOf(s, id) ==
    GivenFirst(IF IsoType[s] = "windows" THEN FilesFor(s, id) ELSE ArgsFor(s, id))

\* What an answer gives an ISO of its own system is the file its record asks for.
LEMMA GivenFits ==
    ASSUME FilesAre, NEW s, NEW id \in DOMAIN records, id # NoId
    PROVE  LET given == GivenOf(s, id) IN
           IF OfAnotherSystem(records[id].kind, IsoType[s]) THEN given = NoFile
           ELSE IF AsksFor(id) \in FilesOf(id)
           THEN /\ given.answer = id /\ given.profile = ProfileForAnswer(id)
                /\ given.gen = records[id].gen
           ELSE given.answer \in {id, NoId}
<1>1. PICK kind, type, main, profile :
          /\ kind = records[id].kind /\ type = IsoType[s] /\ main = MainFile(id)
          /\ profile = ProfileForAnswer(id)
    OBVIOUS
<1>2. kind \in {"windows", "debian", "ubuntu", "redhat", "generic"}
    <2>1. kind \in DOMAIN MainFileOf
        BY <1>1 DEF FilesAre, IsRecord
    <2> QED
        BY <2>1 DEF MainFileOf
<1>3. \A n \in FilesOf(id) : n # "" /\ id \in DOMAIN files /\ files[id][n] = records[id].gen
    BY DEF FilesOf, FilesAre
<1>4. \A n \in FilesOf(id) :
         StaticFile(id, n) = [answer |-> id, profile |-> NoId, gen |-> records[id].gen]
    BY <1>3 DEF StaticFile
<1>5. kind # "windows" => profile = NoId
    BY <1>1 DEF ProfileForAnswer
\* What is asked for.
<1>6. PICK q : q = IF type = "windows" THEN FilesFor(s, id) ELSE ArgsFor(s, id)
    OBVIOUS
<1>7. GivenOf(s, id) = IF q = <<>> THEN NoFile ELSE Served(q[1])
    BY <1>1, <1>6 DEF GivenOf, GivenFirst
<1>8. type = "windows" =>
         q = IF kind # "windows" /\ (kind # "generic" \/ "autounattend.xml" \notin FilesOf(id))
             THEN <<>>
             ELSE IF profile # NoId THEN <<Url("boot_answer", id, "autounattend.xml")>>
             ELSE <<Url("file", id, IF kind = "generic" \/ main = "" THEN "autounattend.xml" ELSE main)>>
    BY <1>1, <1>6 DEF FilesFor, WinpeFiles
<1>9. type # "windows" => q = KernelArgs(id, type)
    BY <1>1, <1>6 DEF ArgsFor
<1>10. \A t : /\ kind = "windows" => KernelArgs(id, t) = <<>>
              /\ kind = "ubuntu" => KernelArgs(id, t) = <<Url("file", id, "user-data")>>
              /\ kind \in {"debian", "redhat"} =>
                    KernelArgs(id, t) = IF main # "" THEN <<Url("file", id, main)>> ELSE <<>>
              /\ KernelArgs(id, t) = <<>> \/ \E n : KernelArgs(id, t) = <<Url("file", id, n)>>
    BY <1>1 DEF KernelArgs, Family
<1>11. \A what, n : Served(Url(what, id, n)).answer \in {id, NoId}
    <2>1. \A what, n : Url(what, id, n).id = id
        BY DEF Url
    <2> QED
        BY <2>1, ServedIsOf
<1>12. q = <<>> \/ \E what, n : q = <<Url(what, id, n)>>
    BY <1>8, <1>9, <1>10
<1>13. GivenOf(s, id).answer \in {id, NoId}
    <2>1. NoFile.answer = NoId
        BY DEF NoFile
    <2> QED
        BY <1>7, <1>11, <1>12, <2>1
<1>14. ASSUME OfAnotherSystem(kind, type) PROVE GivenOf(s, id) = NoFile
    <2>1. q = <<>>
        BY <1>2, <1>8, <1>9, <1>10, <1>14 DEF OfAnotherSystem
    <2> QED
        BY <1>7, <2>1
<1>21. PICK given : given = GivenOf(s, id)
    OBVIOUS
<1>15. ASSUME ~OfAnotherSystem(kind, type), AsksFor(id) \in FilesOf(id)
       PROVE  given.answer = id /\ given.profile = profile /\ given.gen = records[id].gen
    <2>1. kind # "generic"
        BY <1>1, <1>3, <1>15 DEF AsksFor
    <2>2. AsksFor(id) = IF kind = "ubuntu" THEN "user-data" ELSE main
        BY <1>1, <2>1 DEF AsksFor
    <2>3. \A n : Served(Url("file", id, n)) = StaticFile(id, n)
        BY DEF Served, Url
    <2>4. CASE kind = "windows"
        <3>1. type = "windows" /\ main \in FilesOf(id) /\ main # ""
            BY <1>3, <1>15, <2>2, <2>4 DEF OfAnotherSystem
        <3>2. CASE profile # NoId
            <4>1. q = <<Url("boot_answer", id, "autounattend.xml")>>
                BY <1>8, <2>4, <3>1, <3>2
            <4>2. Served(Url("boot_answer", id, "autounattend.xml")) = BootAnswer(id)
                BY DEF Served, Url
            <4>3. BootAnswer(id) = [answer |-> id, profile |-> profile, gen |-> records[id].gen]
                BY <1>1, <3>2 DEF BootAnswer
            <4>4. PICK r : r = [answer |-> id, profile |-> profile, gen |-> records[id].gen]
                OBVIOUS
            <4>5. r.answer = id /\ r.profile = profile /\ r.gen = records[id].gen
                BY <4>4
            <4>6. given = r
                BY <1>7, <1>21, <4>1, <4>2, <4>3, <4>4
            <4> QED
                BY <4>5, <4>6
        <3>3. CASE profile = NoId
            <4>1. q = <<Url("file", id, main)>>
                BY <1>8, <2>4, <3>1, <3>3
            <4>2. PICK r : r = [answer |-> id, profile |-> NoId, gen |-> records[id].gen]
                OBVIOUS
            <4>3. r.answer = id /\ r.profile = NoId /\ r.gen = records[id].gen
                BY <4>2
            <4>4. StaticFile(id, main) = r
                BY <1>4, <3>1, <4>2
            <4>5. given = r
                BY <1>7, <1>21, <2>3, <4>1, <4>4
            <4> QED
                BY <3>3, <4>3, <4>5
        <3> QED
            BY <3>2, <3>3
    <2>5. CASE kind # "windows"
        <3>1. type # "windows"
            BY <1>15, <2>1, <2>5 DEF OfAnotherSystem
        <3>2. PICK n : n = AsksFor(id)
            OBVIOUS
        <3>3. q = <<Url("file", id, n)>>
            BY <1>2, <1>3, <1>9, <1>10, <1>15, <2>1, <2>2, <2>5, <3>1, <3>2
        <3> QED
            BY <1>4, <1>5, <1>7, <1>15, <1>21, <2>3, <2>5, <3>2, <3>3
    <2> QED
        BY <2>4, <2>5
<1>16. given.answer \in {id, NoId}
    BY <1>13, <1>21
<1>17. CASE OfAnotherSystem(kind, type)
    BY <1>1, <1>14, <1>17
<1>18. CASE ~OfAnotherSystem(kind, type) /\ AsksFor(id) \in FilesOf(id)
    BY <1>1, <1>15, <1>18, <1>21
<1>19. CASE ~OfAnotherSystem(kind, type) /\ AsksFor(id) \notin FilesOf(id)
    BY <1>1, <1>16, <1>19, <1>21
<1> QED
    BY <1>17, <1>18, <1>19

\* What is chosen is what is resolved.
LEMMA ChosenIsResolved ==
    ASSUME AnswersShape, pc.slug \in Isos,
           pc.choice \in OfferedBy(pc.slug) \union {"default"}
    PROVE  LET id == ResolveAnswer(links[pc.slug], pc.choice) IN
           /\ id = NoId => Chosen \in {NoId, ""}
           /\ id # NoId => id = Chosen /\ id \in DOMAIN records /\ id \notin {NoId, ""}
<1>1. PICK e, c : e = links[pc.slug] /\ e \in Links /\ c = pc.choice
    BY DEF AnswersShape
<1>2. PICK info : info = AnswersInfo(e)
    OBVIOUS
<1>3. /\ info \in Seq(Ids) /\ ToSet(info) \subseteq DOMAIN records
      /\ \A x : Contains(info, x) <=> x \in ToSet(info)
    <2>1. PICK q, S : q = AnswersOf(e) /\ S = DOMAIN records
        OBVIOUS
    <2>2. q \in Seq(Ids)
        BY <1>1, <2>1, AnswersOfAreLinked
    <2>3. Among(q, S) \in Seq(Ids) /\ ToSet(Among(q, S)) \subseteq S
        BY <2>2, AmongKeeps
    <2>4. info = Among(q, S)
        BY <1>2, <2>1 DEF AnswersInfo
    <2>5. info \in Seq(Ids) /\ ToSet(info) \subseteq DOMAIN records
        BY <2>1, <2>3, <2>4
    <2>6. \A x : Contains(info, x) <=> x \in ToSet(info)
        BY <2>5 DEF Contains, ToSet
    <2> QED
        BY <2>5, <2>6
<1>4. {NoId, "", "default"} \intersect Ids = {}
    BY LinksAssumption
<1>5. \A x \in ToSet(info) : x \in DOMAIN records /\ x \notin {NoId, "", "default"}
    <2>1. \A i \in 1..Len(info) : info[i] \in Ids
        BY <1>3
    <2>2. ToSet(info) \subseteq Ids
        BY <1>3, <2>1 DEF ToSet
    <2>3. PICK S : S = ToSet(info)
        OBVIOUS
    <2> QED
        BY <1>3, <1>4, <2>2, <2>3
<1>6. PICK default : default = DefaultAnswer(e)
    OBVIOUS
<1>7. default = NoId \/ default \in ToSet(info)
    <2>1. info # <<>> => info[1] \in ToSet(info)
        BY <1>3 DEF ToSet
    <2> QED
        BY <1>2, <1>3, <1>6, <2>1 DEF DefaultAnswer
<1>8. ResolveAnswer(e, c) = IF c = "" THEN NoId ELSE IF c \in ToSet(info) THEN c ELSE default
    BY <1>2, <1>3, <1>6 DEF ResolveAnswer
<1>9. Chosen = IF c = "default" THEN default ELSE c
    BY <1>1, <1>6 DEF Chosen
<1>10. c \in ToSet(info) \/ c \in {"", "default"}
    BY <1>1, <1>2 DEF OfferedBy
<1>11. "default" # ""
    OBVIOUS
<1>12. PICK id : id = ResolveAnswer(links[pc.slug], pc.choice)
    OBVIOUS
<1>13. id = IF c = "" THEN NoId ELSE IF c \in ToSet(info) THEN c ELSE default
    BY <1>1, <1>8, <1>12
<1>14. CASE c = ""
    BY <1>9, <1>11, <1>12, <1>13, <1>14
<1>15. CASE c = "default"
    <2>1. id = default /\ Chosen = default
        BY <1>5, <1>9, <1>11, <1>13, <1>15
    <2> QED
        BY <1>5, <1>7, <1>12, <2>1
<1>16. CASE c \in ToSet(info)
    <2>1. id = c /\ Chosen = c
        BY <1>5, <1>9, <1>13, <1>16
    <2> QED
        BY <1>5, <1>12, <1>16, <2>1
<1> QED
    BY <1>10, <1>14, <1>15, <1>16

\* A PC that loaded everything was given the file of its answer.
LEMMA IsGiven ==
    ASSUME NEW s, NEW id, StartsWith(s, id), pc.at \in Starting, pc.todo = <<>>, pc.args = <<>>
    PROVE  /\ id # NoId => pc.given = GivenOf(s, id)
           /\ id = NoId => pc.given = NoFile
<1>1. PICK fs, as : fs = FilesFor(s, id) /\ as = ArgsFor(s, id)
    OBVIOUS
<1>2. /\ IsoType[s] = "windows" => as = <<>>
      /\ IsoType[s] # "windows" => fs = <<>>
      /\ id = NoId => fs = <<>> /\ as = <<>>
    BY <1>1 DEF FilesFor, ArgsFor
<1>3. GivenFirst(<<>>) = NoFile
    BY DEF GivenFirst
<1>4. GivenOf(s, id) = IF IsoType[s] = "windows" THEN GivenFirst(fs) ELSE GivenFirst(as)
    BY <1>1 DEF GivenOf
<1>5. CASE pc.at = "loading"
    <2>1. as = <<>> /\ pc.given = GivenFirst(fs)
        BY <1>1, <1>5 DEF StartsWith
    <2> QED
        BY <1>2, <1>3, <1>4, <2>1
<1>6. CASE pc.at = "installer"
    <2>1. \/ as = <<>> /\ pc.given = GivenFirst(fs)
          \/ as # <<>> /\ pc.given = GivenFirst(as)
        BY <1>1, <1>6 DEF StartsWith
    <2> QED
        BY <1>2, <1>3, <1>4, <2>1
<1> QED
    BY <1>5, <1>6 DEF Starting

\* What the invariants say of a PC that has everything it asked for.
LEMMA WhatWasChosenIsGiven ==
    ASSUME AnswersShape, FilesIInv, PcIInv
    PROVE  GetsWhatWasChosen
<1> SUFFICES ASSUME pc.at \in Starting, pc.todo = <<>>, pc.args = <<>>
             PROVE  /\ pc.choice = "" => pc.given = NoFile
                    /\ (pc.choice # "default" /\ ~pc.gone) => pc.given.answer \in {pc.choice, NoId}
                    /\ (pc.since = requests /\ ~clashed) =>
                          IF Chosen \in {NoId, ""} THEN pc.given = NoFile
                          ELSE IF OfAnotherSystem(records[Chosen].kind, IsoType[pc.slug])
                          THEN pc.given = NoFile
                          ELSE IF AsksFor(Chosen) \in FilesOf(Chosen) THEN GivenIs(Chosen)
                          ELSE pc.given.answer \in {Chosen, NoId}
    BY DEF GetsWhatWasChosen, Starting
<1>1. pc.choice = "" => pc.given = NoFile
    BY DEF PcIInv, PcShape
<1>3. (pc.choice # "default" /\ ~pc.gone) => pc.given.answer \in {pc.choice, NoId}
    BY DEF PcIInv, PcShape
<1>2. ASSUME pc.since = requests, ~clashed
      PROVE  IF Chosen \in {NoId, ""} THEN pc.given = NoFile
             ELSE IF OfAnotherSystem(records[Chosen].kind, IsoType[pc.slug])
             THEN pc.given = NoFile
             ELSE IF AsksFor(Chosen) \in FilesOf(Chosen) THEN GivenIs(Chosen)
             ELSE pc.given.answer \in {Chosen, NoId}
    <2>1. PICK s, id : s = pc.slug /\ id = ResolveAnswer(links[pc.slug], pc.choice)
        OBVIOUS
    <2>2. /\ s \in Isos /\ pc.choice \in OfferedBy(pc.slug) \union {"default"}
          /\ StartsWith(s, id)
        BY <1>2, <2>1 DEF PcIInv, Undisturbed
    <2>3. /\ id = NoId => Chosen \in {NoId, ""}
          /\ id # NoId => id = Chosen /\ id \in DOMAIN records /\ id \notin {NoId, ""}
        BY <2>1, <2>2, ChosenIsResolved
    <2>4. CASE id = NoId
        <3>1. pc.given = NoFile
            BY <2>2, <2>4, IsGiven
        <3> QED
            BY <2>3, <2>4, <3>1
    <2>5. CASE id # NoId
        <3>1. PICK given : given = pc.given
            OBVIOUS
        <3>2. given = GivenOf(s, id)
            BY <2>2, <2>5, <3>1, IsGiven
        <3>3. FilesAre
            BY <1>2 DEF FilesIInv, FilesHold
        <3>4. IF OfAnotherSystem(records[id].kind, IsoType[s]) THEN given = NoFile
              ELSE IF AsksFor(id) \in FilesOf(id)
              THEN /\ given.answer = id /\ given.profile = ProfileForAnswer(id)
                   /\ given.gen = records[id].gen
              ELSE given.answer \in {id, NoId}
            BY <2>3, <2>5, <3>2, <3>3, GivenFits
        <3> QED
            BY <2>1, <2>3, <2>5, <3>1, <3>4 DEF GivenIs
    <2> QED
        BY <2>4, <2>5
<1> QED
    BY <1>1, <1>2, <1>3

\* A step in which nothing happens.
LEMMA StandingStill ==
    ASSUME PcIInv, UNCHANGED bootVars
    PROVE  PcIInv'
<1>1. UNCHANGED <<records, files, links, profiles, doing, requests, pc>>
    BY DEF bootVars, answerVars
<1>2. PcShape'
    BY <1>1 DEF PcIInv, PcShape
<1>3. ASSUME Undisturbed PROVE Undisturbed'
    <2>1. PICK s, id : s = pc.slug /\ id = ResolveAnswer(links[pc.slug], pc.choice)
        OBVIOUS
    <2>2. /\ OfferedBy(s)' = OfferedBy(s) /\ FilesFor(s, id)' = FilesFor(s, id)
          /\ ArgsFor(s, id)' = ArgsFor(s, id) /\ \A q : GivenFirst(q)' = GivenFirst(q)
          /\ ResolveAnswer(links[pc.slug], pc.choice)' = id
        BY <1>1, <2>1, SameServer
    <2>3. StartsWith(s, id) => StartsWith(s, id)'
        BY <1>1, <2>2 DEF StartsWith
    <2> QED
        BY <1>1, <1>3, <2>1, <2>2, <2>3 DEF Undisturbed
<1> QED
    BY <1>1, <1>2, <1>3 DEF PcIInv

(* GetsWhatWasChosen, for any number of threads: whatever is deleted,      *)
(* created and linked meanwhile, a PC is given the files of no other answer*)
(* than the one that was chosen and was still there when the PC came with  *)
(* the choice, and a start by hand of none; and as long as nothing changed *)
(* since the PC came for its ISO, after requests that did not overlap, what*)
(* it has is of that answer, as it was generated or written.               *)
THEOREM PcGetsWhatWasChosen == Spec => []GetsWhatWasChosen
<1> DEFINE IInv == LinksIInv /\ FilesIInv /\ PcIInv
<1>1. Init => IInv
    <2> SUFFICES ASSUME Init PROVE IInv
        OBVIOUS
    <2>1. LinksIInv
        BY LinksAtFirst
    <2>2. FilesIInv
        <3>1. PICK first \in InitialAnswers : records = first.records /\ files = first.files
            BY DEF Init, AnswersInit
        <3>2. doing = [r \in Requests |-> Idle] /\ Idle.op = "idle"
            BY DEF Init, AnswersInit, Idle
        <3>3. FilesAre
            BY <3>1, FilesAssumption DEF FilesAre
        <3>4. \A r \in Requests : doing[r].op = "idle"
            BY <3>2
        <3> QED
            BY <3>3, <3>4 DEF FilesIInv, FilesHold, JobHas, CreatesApart
    <2>3. PcIInv
        <3>1. pc = PcOff /\ requests = 0
            BY DEF Init, AnswersInit
        <3>2. MaxRequests \in Nat
            BY FilesAssumption
        <3> QED
            BY <3>1, <3>2, OffIs DEF PcIInv, PcShape, Starting
    <2> QED
        BY <2>1, <2>2, <2>3
<1>2. IInv /\ [Next]_bootVars => IInv'
    <2> SUFFICES ASSUME IInv, [Next]_bootVars PROVE IInv'
        OBVIOUS
    <2>1. AnswersShape /\ (~clashed => Apart)
        BY DEF LinksIInv
    <2>2. LinksIInv' /\ FilesIInv'
        BY <2>1, LinksStep, FilesStep
    <2>3. CASE (AnswersNext /\ UNCHANGED pc) \/ Settings
        BY <2>2, <2>3, ServerStep
    <2>4. CASE PcNext /\ Admin
        BY <2>1, <2>2, <2>4, PcStep
    <2>5. CASE UNCHANGED bootVars
        <3>1. PcIInv'
            BY <2>5, StandingStill
        <3> QED
            BY <2>2, <3>1
    <2> QED
        BY <2>3, <2>4, <2>5 DEF Next
<1>3. IInv => GetsWhatWasChosen
    BY WhatWasChosenIsGiven DEF LinksIInv
<1> QED
    BY <1>1, <1>2, <1>3, PTL DEF Spec

-----------------------------------------------------------------------------
(* The main menu.                                                         *)

\* Two elements of r are two elements of q.
TakenApart(r, q) == \A i, j \in 1..Len(r) : i # j =>
                       \E a, b \in 1..Len(q) : a # b /\ r[i] = q[a] /\ r[j] = q[b]

\* Among takes elements of q one by one.
LEMMA AmongApart ==
    ASSUME NEW T, NEW q \in Seq(T), NEW S
    PROVE  TakenApart(Among(q, S), q)
<1> DEFINE f == CHOOSE g : Keeping(g, q, S, Len(q))
<1>0. Len(q) \in Nat /\ DOMAIN q = 1..Len(q) /\ \A i \in 1..Len(q) : q[i] \in T
    OBVIOUS
<1>1. Keeping(f, q, S, Len(q))
    BY <1>0, KeepingExists, Zenon
<1>2. Among(q, S) = f[Len(q)]
    BY DEF Among, Keeping
<1> HIDE DEF f
<1>3. f[0] = <<>> /\ \A k \in 1..Len(q) :
          f[k] = IF q[k] \in S THEN Append(f[k - 1], q[k]) ELSE f[k - 1]
    <2>1. \A k \in 0..Len(q) :
            f[k] = IF k = 0 THEN <<>>
                   ELSE IF q[k] \in S THEN Append(f[k - 1], q[k]) ELSE f[k - 1]
        BY <1>1 DEF Keeping
    <2>2. 0 \in 0..Len(q) /\ \A k \in 1..Len(q) : k \in 0..Len(q) /\ k # 0
        BY <1>0
    <2> QED
        BY <2>1, <2>2
<1> DEFINE AllApart(k) ==
               /\ f[k] \in Seq(T)
               /\ \A i \in 1..Len(f[k]) : \E a \in 1..k : f[k][i] = q[a]
               /\ \A i, j \in 1..Len(f[k]) : i # j =>
                     \E a, b \in 1..k : a # b /\ f[k][i] = q[a] /\ f[k][j] = q[b]
           U == {k \in Nat : k <= Len(q) => AllApart(k)}
<1>4. 0 \in U
    <2>1. AllApart(0)
        BY <1>3
    <2> HIDE DEF AllApart
    <2> QED
        BY <2>1
<1>5. ASSUME NEW k \in U PROVE k + 1 \in U
    <2> SUFFICES ASSUME k + 1 <= Len(q) PROVE AllApart(k + 1)
        <3> HIDE DEF AllApart
        <3> QED
            OBVIOUS
    <2>1. /\ k \in Nat /\ k + 1 \in 1..Len(q) /\ (k + 1) - 1 = k /\ q[k + 1] \in T
          /\ 1..k \subseteq 1..k + 1 /\ k + 1 \in 1..k + 1 /\ k + 1 \notin 1..k
        BY <1>0
    <2>2. AllApart(k)
        BY <1>0, <2>1
    <2>3. f[k + 1] = IF q[k + 1] \in S THEN Append(f[k], q[k + 1]) ELSE f[k]
        BY <1>3, <2>1
    <2>4. CASE q[k + 1] \in S
        <3>1. PICK r, n : r = f[k + 1] /\ n = Len(f[k])
            OBVIOUS
        <3>2. /\ r \in Seq(T) /\ n \in Nat /\ Len(r) = n + 1 /\ r[n + 1] = q[k + 1]
              /\ \A j \in 1..n : r[j] = f[k][j]
            <4>1. r = Append(f[k], q[k + 1]) /\ f[k] \in Seq(T)
                BY <2>2, <2>3, <2>4, <3>1
            <4> QED
                BY <2>1, <3>1, <4>1
        <3>3. \A i \in 1..Len(r) : i = n + 1 \/ i \in 1..n
            BY <3>2
        <3>4. \A i \in 1..n : \E a \in 1..k : r[i] = q[a]
            BY <2>2, <3>1, <3>2
        <3>5. \A i, j \in 1..n : i # j =>
                 \E a, b \in 1..k : a # b /\ r[i] = q[a] /\ r[j] = q[b]
            BY <2>2, <3>1, <3>2
        <3>6. \A i \in 1..Len(r) : \E a \in 1..k + 1 : r[i] = q[a]
            BY <2>1, <3>2, <3>3, <3>4
        <3>7. ASSUME NEW i \in 1..Len(r), NEW j \in 1..Len(r), i # j
              PROVE  \E a, b \in 1..k + 1 : a # b /\ r[i] = q[a] /\ r[j] = q[b]
            <4>1. CASE i \in 1..n /\ j \in 1..n
                <5>1. PICK a, b \in 1..k : a # b /\ r[i] = q[a] /\ r[j] = q[b]
                    BY <3>5, <3>7, <4>1
                <5>2. a \in 1..k + 1 /\ b \in 1..k + 1
                    BY <2>1, <5>1
                <5> QED
                    BY <5>1, <5>2
            <4>2. CASE i = n + 1 /\ j \in 1..n
                BY <2>1, <3>2, <3>4, <4>2
            <4>3. CASE j = n + 1 /\ i \in 1..n
                BY <2>1, <3>2, <3>4, <4>3
            <4> QED
                BY <3>3, <3>7, <4>1, <4>2, <4>3
        <3> QED
            BY <3>1, <3>2, <3>6, <3>7
    <2>5. CASE q[k + 1] \notin S
        <3>1. PICK r : r = f[k] /\ r = f[k + 1]
            BY <2>3, <2>5
        <3>2. \A i \in 1..Len(r) : \E a \in 1..k + 1 : r[i] = q[a]
            BY <2>1, <2>2, <3>1
        <3>3. ASSUME NEW i \in 1..Len(r), NEW j \in 1..Len(r), i # j
              PROVE  \E a, b \in 1..k + 1 : a # b /\ r[i] = q[a] /\ r[j] = q[b]
            <4>1. PICK a, b \in 1..k : a # b /\ r[i] = q[a] /\ r[j] = q[b]
                BY <2>2, <3>1, <3>3
            <4>2. a \in 1..k + 1 /\ b \in 1..k + 1
                BY <2>1, <4>1
            <4> QED
                BY <4>1, <4>2
        <3> QED
            BY <2>2, <3>1, <3>2, <3>3
    <2> QED
        BY <2>4, <2>5
<1>6. U = Nat
    <2> HIDE DEF U
    <2>1. U \in SUBSET Nat
        BY DEF U
    <2> QED
        BY <1>4, <1>5, <2>1, SetInduction
<1>7. AllApart(Len(q))
    <2> HIDE DEF AllApart
    <2> QED
        BY <1>0, <1>6
<1>8. PICK r : r = f[Len(q)] /\ r = Among(q, S)
    BY <1>2
<1>9. \A i, j \in 1..Len(r) :
        i # j => \E a, b \in 1..Len(q) : a # b /\ r[i] = q[a] /\ r[j] = q[b]
    BY <1>7, <1>8
<1> QED
    <2> HIDE DEF AllApart, U
    <2> QED
        BY <1>8, <1>9 DEF TakenApart

\* Once has an element once.
LEMMA OnceApart ==
    ASSUME NEW T, NEW q \in Seq(T)
    PROVE  /\ Len(Once(q)) <= Len(q)
           /\ \A i, j \in 1..Len(Once(q)) : Once(q)[i] = Once(q)[j] => i = j
<1>1. PICK f : /\ f[0] = <<>> /\ Once(q) = f[Len(q)]
               /\ \A k \in 1..Len(q) : f[k] = KeepNew(f[k - 1], q[k])
    BY OnceRuns
<1>2. Once(q) = f[Len(q)]
    BY <1>1
<1>0. Len(q) \in Nat /\ DOMAIN q = 1..Len(q) /\ \A i \in 1..Len(q) : q[i] \in T
    OBVIOUS
<1> DEFINE AllApart(k) ==
               /\ f[k] \in Seq(T) /\ Len(f[k]) <= k
               /\ \A i, j \in 1..Len(f[k]) : f[k][i] = f[k][j] => i = j
           U == {k \in Nat : k <= Len(q) => AllApart(k)}
<1>3. 0 \in U
    <2>1. AllApart(0)
        BY <1>1
    <2> HIDE DEF AllApart
    <2> QED
        BY <2>1
<1>4. ASSUME NEW k \in U PROVE k + 1 \in U
    <2> SUFFICES ASSUME k + 1 <= Len(q) PROVE AllApart(k + 1)
        <3> HIDE DEF AllApart
        <3> QED
            OBVIOUS
    <2>1. k \in Nat /\ k + 1 \in 1..Len(q) /\ (k + 1) - 1 = k /\ q[k + 1] \in T
        BY <1>0
    <2>2. AllApart(k)
        BY <1>0, <2>1
    <2>3. f[k + 1] = IF Contains(f[k], q[k + 1]) THEN f[k] ELSE Append(f[k], q[k + 1])
        BY <1>1, <2>1 DEF KeepNew
    <2>4. CASE Contains(f[k], q[k + 1])
        <3>1. f[k + 1] = f[k]
            BY <2>3, <2>4
        <3> QED
            BY <2>1, <2>2, <3>1
    <2>5. CASE ~Contains(f[k], q[k + 1])
        <3>1. PICK r, p, n : r = f[k + 1] /\ p = f[k] /\ n = Len(f[k])
            OBVIOUS
        <3>2. /\ r \in Seq(T) /\ n \in Nat /\ Len(r) = n + 1 /\ r[n + 1] = q[k + 1]
              /\ \A j \in 1..n : r[j] = p[j]
            <4>1. r = Append(p, q[k + 1]) /\ p \in Seq(T)
                BY <2>2, <2>3, <2>5, <3>1
            <4> QED
                BY <2>1, <3>1, <4>1
        <3>3. \A j \in 1..n : p[j] # q[k + 1]
            BY <2>5, <3>1 DEF Contains
        <3>4. \A i \in 1..Len(r) : i = n + 1 \/ i \in 1..n
            BY <3>2
        <3>5. ASSUME NEW i \in 1..Len(r), NEW j \in 1..Len(r), r[i] = r[j] PROVE i = j
            BY SMTT(30), <2>2, <3>1, <3>2, <3>3, <3>4, <3>5
        <3> QED
            BY <2>1, <2>2, <3>1, <3>2, <3>5
    <2> QED
        BY <2>4, <2>5
<1>5. U = Nat
    <2> HIDE DEF U
    <2>1. U \in SUBSET Nat
        BY DEF U
    <2> QED
        BY <1>3, <1>4, <2>1, SetInduction
<1>6. AllApart(Len(q))
    <2> HIDE DEF AllApart
    <2> QED
        BY <1>0, <1>5
<1> QED
    BY <1>2, <1>6

\* What two sequences have, the one after the other has.
LEMMA ConcatHas ==
    ASSUME NEW T, NEW p \in Seq(T), NEW q \in Seq(T)
    PROVE  p \o q \in Seq(T) /\ ToSet(p \o q) = ToSet(p) \union ToSet(q)
<1>1. PICK r : r = p \o q
    OBVIOUS
<1>2. /\ r \in Seq(T) /\ Len(p) \in Nat /\ Len(q) \in Nat /\ Len(r) = Len(p) + Len(q)
      /\ DOMAIN p = 1..Len(p) /\ DOMAIN q = 1..Len(q) /\ DOMAIN r = 1..Len(r)
      /\ \A n \in 1..Len(p) : r[n] = p[n]
      /\ \A n \in 1..Len(q) : r[Len(p) + n] = q[n]
    BY <1>1
<1>3. \A n \in 1..Len(r) :
         n \in 1..Len(p) \/ (n - Len(p) \in 1..Len(q) /\ n = Len(p) + (n - Len(p)))
    BY <1>2
<1>4. 1..Len(p) \subseteq 1..Len(r) /\ \A n \in 1..Len(q) : Len(p) + n \in 1..Len(r)
    BY <1>2
<1>5. ASSUME NEW n \in 1..Len(r) PROVE r[n] \in ToSet(p) \union ToSet(q)
    BY <1>2, <1>3 DEF ToSet
<1>6. \A n \in 1..Len(p) : p[n] \in ToSet(r)
    BY <1>2, <1>4 DEF ToSet
<1>7. \A n \in 1..Len(q) : q[n] \in ToSet(r)
    BY <1>2, <1>4 DEF ToSet
<1>8. ToSet(r) \subseteq ToSet(p) \union ToSet(q)
    BY <1>2, <1>5 DEF ToSet
<1>9. ToSet(p) \subseteq ToSet(r) /\ ToSet(q) \subseteq ToSet(r)
    BY <1>2, <1>6, <1>7 DEF ToSet
<1> QED
    BY <1>1, <1>2, <1>8, <1>9

(* f holds the first sequences of qs, joined.                        *)
JoinedRun(f, qs, n) == f = [k \in 0..n |-> IF k = 0 THEN <<>> ELSE f[k - 1] \o qs[k]]

\* There is one, and Joined is its last value.
LEMMA JoinedRuns ==
    ASSUME NEW T, NEW qs \in Seq(Seq(T))
    PROVE  \E f : /\ f[0] = <<>> /\ Joined(qs) = f[Len(qs)]
                 /\ \A k \in 1..Len(qs) : f[k] = f[k - 1] \o qs[k]
<1> DEFINE Good(g, k) == JoinedRun(g, qs, k)
           U == {k \in Nat : \E g : Good(g, k)}
           f == CHOOSE g : Good(g, Len(qs))
<1>1. 0 \in U
    <2>1. Good([k \in 0..0 |-> <<>>], 0)
        BY DEF JoinedRun
    <2> HIDE DEF Good
    <2> QED
        BY <2>1
<1>2. ASSUME NEW k \in U PROVE k + 1 \in U
    <2>1. PICK g : Good(g, k)
        OBVIOUS
    <2>2. k \in Nat
        OBVIOUS
    <2> DEFINE h == [i \in 0..k + 1 |-> IF i \in 0..k THEN g[i] ELSE g[k] \o qs[i]]
    <2>3. ASSUME NEW i \in 0..k + 1
          PROVE  h[i] = IF i = 0 THEN <<>> ELSE h[i - 1] \o qs[i]
        <3>1. CASE i \in 0..k
            <4>1. h[i] = g[i] /\ (i # 0 => i - 1 \in 0..k /\ h[i - 1] = g[i - 1])
                BY <2>2, <3>1
            <4>2. g[i] = IF i = 0 THEN <<>> ELSE g[i - 1] \o qs[i]
                BY <2>1, <3>1 DEF JoinedRun
            <4> HIDE DEF h, Good
            <4> QED
                BY <4>1, <4>2
        <3>2. CASE i \notin 0..k
            <4>1. i = k + 1 /\ i # 0 /\ i - 1 = k
                BY <2>2, <3>2
            <4>2. h[i] = g[k] \o qs[i]
                BY <3>2
            <4>3. h[k] = g[k]
                BY <2>2
            <4> HIDE DEF h, Good
            <4> QED
                BY <4>1, <4>2, <4>3
        <3> QED
            BY <3>1, <3>2
    <2>4. h = [i \in 0..k + 1 |-> h[i]]
        OBVIOUS
    <2> HIDE DEF h
    <2>5. Good(h, k + 1)
        BY <2>3, <2>4 DEF JoinedRun
    <2> HIDE DEF Good
    <2> QED
        BY <2>2, <2>5
<1>3. U = Nat
    <2> HIDE DEF U
    <2>1. U \in SUBSET Nat
        BY DEF U
    <2> QED
        BY <1>1, <1>2, <2>1, SetInduction
<1>4. Len(qs) \in Nat
    OBVIOUS
<1>5. Good(f, Len(qs))
    <2> HIDE DEF Good
    <2>1. \E g : Good(g, Len(qs))
        BY <1>3, <1>4
    <2> QED
        BY <2>1
<1>6. Joined(qs) = f[Len(qs)]
    BY DEF Joined, JoinedRun
<1> HIDE DEF f
<1>7. \A k \in 0..Len(qs) : f[k] = IF k = 0 THEN <<>> ELSE f[k - 1] \o qs[k]
    BY <1>5 DEF JoinedRun
<1>8. /\ 0 \in 0..Len(qs)
      /\ \A k \in 1..Len(qs) : k \in 0..Len(qs) /\ k # 0
    BY <1>4
<1>9. f[0] = <<>> /\ \A k \in 1..Len(qs) : f[k] = f[k - 1] \o qs[k]
    BY <1>7, <1>8
<1> QED
    BY <1>6, <1>9

\* Joined has the elements of all the sequences.
LEMMA JoinedKeeps ==
    ASSUME NEW T, NEW qs \in Seq(Seq(T))
    PROVE  /\ Joined(qs) \in Seq(T)
           /\ \A x : x \in ToSet(Joined(qs)) <=> \E i \in 1..Len(qs) : x \in ToSet(qs[i])
<1>1. PICK f : /\ f[0] = <<>> /\ Joined(qs) = f[Len(qs)]
               /\ \A k \in 1..Len(qs) : f[k] = f[k - 1] \o qs[k]
    BY JoinedRuns
<1>2. Joined(qs) = f[Len(qs)]
    BY <1>1
<1>0. Len(qs) \in Nat /\ \A i \in 1..Len(qs) : qs[i] \in Seq(T)
    OBVIOUS
<1>3. f[0] = <<>> /\ \A k \in 1..Len(qs) : f[k] = f[k - 1] \o qs[k]
    BY <1>1
<1> DEFINE HasAll(k) ==
               /\ f[k] \in Seq(T)
               /\ \A x : x \in ToSet(f[k]) <=> \E i \in 1..k : x \in ToSet(qs[i])
           U == {k \in Nat : k <= Len(qs) => HasAll(k)}
<1>4. 0 \in U
    <2>1. ToSet(<<>>) = {}
        BY DEF ToSet
    <2>2. HasAll(0)
        BY <1>3, <2>1
    <2> HIDE DEF HasAll
    <2> QED
        BY <2>2
<1>5. ASSUME NEW k \in U PROVE k + 1 \in U
    <2> SUFFICES ASSUME k + 1 <= Len(qs) PROVE HasAll(k + 1)
        <3> HIDE DEF HasAll
        <3> QED
            OBVIOUS
    <2>0. k \in Nat /\ k + 1 \in 1..Len(qs) /\ (k + 1) - 1 = k /\ k <= Len(qs)
        BY <1>0
    <2>1. qs[k + 1] \in Seq(T)
        <3> HIDE DEF HasAll, U
        <3> QED
            BY <1>0, <2>0
    <2>2. HasAll(k)
        BY <1>0, <2>0
    <2>3. PICK p, q, r : p = f[k] /\ q = qs[k + 1] /\ r = f[k + 1]
        OBVIOUS
    <2>4. r = p \o q /\ p \in Seq(T) /\ q \in Seq(T)
        BY <1>3, <2>0, <2>1, <2>2, <2>3
    <2>5. p \o q \in Seq(T) /\ ToSet(p \o q) = ToSet(p) \union ToSet(q)
        <3> HIDE DEF HasAll, U
        <3> QED
            BY <2>4, ConcatHas
    <2>6. r \in Seq(T) /\ ToSet(r) = ToSet(p) \union ToSet(q)
        BY <2>4, <2>5
    <2>7. (\A i \in 1..k + 1 : i = k + 1 \/ i \in 1..k) /\ k + 1 \in 1..k + 1
          /\ 1..k \subseteq 1..k + 1
        BY <2>0
    <2>8. ASSUME NEW x
          PROVE  (\E i \in 1..k + 1 : x \in ToSet(qs[i]))
                    <=> x \in ToSet(q) \/ \E i \in 1..k : x \in ToSet(qs[i])
        BY <2>3, <2>7
    <2> QED
        BY <2>2, <2>3, <2>6, <2>8
<1>6. U = Nat
    <2> HIDE DEF U
    <2>1. U \in SUBSET Nat
        BY DEF U
    <2> QED
        BY <1>4, <1>5, <2>1, SetInduction
<1>7. HasAll(Len(qs))
    <2> HIDE DEF HasAll
    <2> QED
        BY <1>0, <1>6
<1> QED
    BY <1>2, <1>7

\* A script whose sections have a label each.
IsScript(s) == /\ \E R : s \in Seq(R)
               /\ \A i, j \in DOMAIN s : s[i].label = s[j].label => i = j
\* The same but for some labels, which may be several sections'.
IsScriptBut(s, but) ==
    /\ \E R : s \in Seq(R)
    /\ \A i, j \in DOMAIN s : s[i].label = s[j].label => i = j \/ s[i].label \in but
IsCalled(x, l) == x.label = l
\* The section a label leads to: the first one that has it.
FirstIs(s, l, x) == \E i \in DOMAIN s : /\ s[i] = x /\ x.label = l
                                      /\ \A j \in DOMAIN s : j < i => s[j].label # l
GoesTo(x, labels) ==
    ToSet(x.items) \union x.jumps \union (IF x.items = <<>> THEN {} ELSE {x.default})
       \subseteq labels
Only(s, labels) == \A i \in DOMAIN s : GoesTo(s[i], labels)

\* Of a sequence.
LEMMA SeqIs ==
    ASSUME NEW s, \E R : s \in Seq(R)
    PROVE  Len(s) \in Nat /\ DOMAIN s = 1..Len(s) /\ s \in Seq(ToSet(s))
<1>1. PICK R : s \in Seq(R)
    OBVIOUS
<1>2. Len(s) \in Nat /\ DOMAIN s = 1..Len(s)
    BY <1>1
<1>3. PICK n \in Nat : n = Len(s)
    BY <1>2
<1>4. s = [i \in 1..n |-> s[i]]
    BY <1>1, <1>2, <1>3
<1>5. \A i \in 1..n : s[i] \in ToSet(s)
    BY <1>2, <1>3 DEF ToSet
<1>6. PICK T : T = ToSet(s)
    OBVIOUS
<1>7. s \in [1..n -> T]
    BY <1>4, <1>5, <1>6
<1>8. s \in Seq(T)
    BY <1>3, <1>7
<1> QED
    BY <1>2, <1>6, <1>8

\* Two scripts, one after the other, that share at most some labels; the
\* sections of the first come first.
LEMMA ScriptsMeetBut ==
    ASSUME NEW p, NEW q, NEW but, IsScriptBut(p, but), IsScriptBut(q, but),
           Labels(p) \intersect Labels(q) \subseteq but
    PROVE  /\ IsScriptBut(p \o q, but) /\ Labels(p \o q) = Labels(p) \union Labels(q)
           /\ ToSet(p \o q) = ToSet(p) \union ToSet(q)
           /\ \A l, x : FirstIs(p, l, x) => FirstIs(p \o q, l, x)
           /\ \A l, x : l \notin Labels(p) /\ FirstIs(q, l, x) => FirstIs(p \o q, l, x)
<1>0. /\ \E R : p \in Seq(R) 
      /\ \E R : q \in Seq(R)
    BY DEF IsScriptBut
<1>1. PICK T : T = ToSet(p) \union ToSet(q)
    OBVIOUS
<1>2. p \in Seq(T) /\ q \in Seq(T)
    <2>1. PICK P, Q : P = ToSet(p) /\ Q = ToSet(q)
        OBVIOUS
    <2>2. p \in Seq(P) /\ q \in Seq(Q)
        BY <1>0, <2>1, SeqIs
    <2>3. P \subseteq T /\ Q \subseteq T
        BY <1>1, <2>1
    <2> QED
        BY <2>2, <2>3
<1>3. PICK r : r = p \o q
    OBVIOUS
<1>4. /\ r \in Seq(T) /\ Len(p) \in Nat /\ Len(q) \in Nat /\ Len(r) = Len(p) + Len(q)
      /\ DOMAIN p = 1..Len(p) /\ DOMAIN q = 1..Len(q) /\ DOMAIN r = 1..Len(r)
      /\ \A n \in 1..Len(p) : r[n] = p[n]
      /\ \A n \in 1..Len(q) : r[Len(p) + n] = q[n]
    BY <1>2, <1>3
<1>5. \A n \in 1..Len(r) :
         n \in 1..Len(p) \/ (n - Len(p) \in 1..Len(q) /\ n = Len(p) + (n - Len(p)))
    BY <1>4
<1>6. \A n \in 1..Len(p) : r[n].label \in Labels(p)
    BY <1>4 DEF Labels
<1>7. \A n \in 1..Len(q) : r[Len(p) + n].label \in Labels(q)
    BY <1>4 DEF Labels
<1>8. \A i, j \in DOMAIN p : p[i].label = p[j].label => i = j \/ p[i].label \in but
    BY DEF IsScriptBut
<1>9. \A i, j \in DOMAIN q : q[i].label = q[j].label => i = j \/ q[i].label \in but
    BY DEF IsScriptBut
<1>10. ASSUME NEW i \in 1..Len(r), NEW j \in 1..Len(r), r[i].label = r[j].label
       PROVE  i = j \/ r[i].label \in but
    <2>1. CASE i \in 1..Len(p) /\ j \in 1..Len(p)
        BY <1>4, <1>8, <1>10, <2>1
    <2>2. CASE i \in 1..Len(p) /\ j \notin 1..Len(p)
        <3>1. r[i].label \in Labels(p) /\ r[j].label \in Labels(q)
            BY <1>5, <1>6, <1>7, <2>2
        <3> QED
            BY <1>10, <3>1
    <2>3. CASE i \notin 1..Len(p) /\ j \in 1..Len(p)
        <3>1. r[i].label \in Labels(q) /\ r[j].label \in Labels(p)
            BY <1>5, <1>6, <1>7, <2>3
        <3> QED
            BY <1>10, <3>1
    <2>4. CASE i \notin 1..Len(p) /\ j \notin 1..Len(p)
        <3>1. PICK a, b : a = i - Len(p) /\ b = j - Len(p)
            OBVIOUS
        <3>2. a \in 1..Len(q) /\ b \in 1..Len(q) /\ i = Len(p) + a /\ j = Len(p) + b
            BY <1>5, <2>4, <3>1
        <3>3. r[i] = q[a] /\ r[j] = q[b]
            BY <1>4, <3>2
        <3>4. a = b \/ q[a].label \in but
            BY <1>4, <1>9, <1>10, <3>2, <3>3
        <3> QED
            BY <3>2, <3>3, <3>4
    <2> QED
        BY <2>1, <2>2, <2>3, <2>4
<1>11. Labels(r) = Labels(p) \union Labels(q)
    <2>1. ASSUME NEW n \in 1..Len(r) PROVE r[n].label \in Labels(p) \union Labels(q)
        BY <1>5, <1>6, <1>7
    <2>2. \A n \in 1..Len(p) : n \in 1..Len(r) /\ p[n].label = r[n].label
        BY <1>4
    <2>3. \A n \in 1..Len(q) : Len(p) + n \in 1..Len(r) /\ q[n].label = r[Len(p) + n].label
        BY <1>4
    <2>4. \A n \in 1..Len(r) : r[n].label \in Labels(r)
        BY <1>4 DEF Labels
    <2>5. Labels(p) \subseteq Labels(r)
        <3> SUFFICES ASSUME NEW l \in Labels(p) PROVE l \in Labels(r)
            OBVIOUS
        <3>1. PICK n \in 1..Len(p) : p[n].label = l
            BY <1>4 DEF Labels
        <3> QED
            BY <2>2, <2>4, <3>1
    <2>7. Labels(q) \subseteq Labels(r)
        <3> SUFFICES ASSUME NEW l \in Labels(q) PROVE l \in Labels(r)
            OBVIOUS
        <3>1. PICK n \in 1..Len(q) : q[n].label = l
            BY <1>4 DEF Labels
        <3> QED
            BY <2>3, <2>4, <3>1
    <2>6. Labels(r) \subseteq Labels(p) \union Labels(q)
        BY <1>4, <2>1 DEF Labels
    <2> QED
        BY <2>5, <2>6, <2>7
<1>12. IsScriptBut(r, but)
    BY <1>4, <1>10 DEF IsScriptBut
<1>13. ToSet(p \o q) = ToSet(p) \union ToSet(q)
    BY <1>2, ConcatHas
<1>14. ASSUME NEW l, NEW x, FirstIs(p, l, x) PROVE FirstIs(r, l, x)
    <2>1. PICK i \in DOMAIN p : p[i] = x /\ x.label = l /\ \A j \in DOMAIN p : j < i => p[j].label # l
        BY <1>14 DEF FirstIs
    <2>2. i \in DOMAIN r /\ r[i] = x
        BY <1>4, <2>1
    <2>3. \A j \in DOMAIN r : j < i => r[j].label # l
        BY <1>4, <2>1
    <2> QED
        BY <2>1, <2>2, <2>3 DEF FirstIs
<1>15. ASSUME NEW l, NEW x, l \notin Labels(p), FirstIs(q, l, x) PROVE FirstIs(r, l, x)
    <2>1. PICK i \in DOMAIN q : q[i] = x /\ x.label = l /\ \A j \in DOMAIN q : j < i => q[j].label # l
        BY <1>15 DEF FirstIs
    <2>2. PICK k : k = Len(p) + i
        OBVIOUS
    <2>3. k \in DOMAIN r /\ r[k] = x
        BY <1>4, <2>1, <2>2
    <2>4. ASSUME NEW j \in DOMAIN r, j < k PROVE r[j].label # l
        <3>1. CASE j \in 1..Len(p)
            BY <1>6, <1>15, <3>1
        <3>2. CASE j \notin 1..Len(p)
            <4>1. PICK a : a = j - Len(p)
                OBVIOUS
            <4>2. a \in 1..Len(q) /\ j = Len(p) + a
                BY <1>4, <1>5, <3>2, <4>1
            <4>3. a < i
                BY <1>4, <2>2, <2>4, <4>2
            <4> QED
                BY <1>4, <2>1, <4>2, <4>3
        <3> QED
            BY <3>1, <3>2
    <2> QED
        BY <2>1, <2>3, <2>4 DEF FirstIs
<1> QED
    BY <1>3, <1>11, <1>12, <1>13, <1>14, <1>15

\* A script of which no label is there twice, and the section of a label.
LEMMA ButNothing ==
    /\ \A s : IsScript(s) <=> IsScriptBut(s, {})
    /\ \A s, but : IsScript(s) => IsScriptBut(s, but)
    BY DEF IsScript, IsScriptBut

\* Two scripts with different labels, one after the other.
LEMMA ScriptsMeet ==
    ASSUME NEW p, NEW q, IsScript(p), IsScript(q), Labels(p) \intersect Labels(q) = {}
    PROVE  /\ IsScript(p \o q) /\ Labels(p \o q) = Labels(p) \union Labels(q)
           /\ ToSet(p \o q) = ToSet(p) \union ToSet(q)
<1>1. PICK none : none = {}
    OBVIOUS
<1>2. IsScriptBut(p, none) /\ IsScriptBut(q, none) /\ Labels(p) \intersect Labels(q) \subseteq none
    BY <1>1, ButNothing
<1>3. /\ IsScriptBut(p \o q, none) /\ Labels(p \o q) = Labels(p) \union Labels(q)
      /\ ToSet(p \o q) = ToSet(p) \union ToSet(q)
    BY <1>2, ScriptsMeetBut
<1> QED
    BY <1>1, <1>3, ButNothing

\* The first section of a label is the one it leads to.
LEMMA FirstIsTheSection ==
    ASSUME NEW s, \E R : s \in Seq(R), NEW l, NEW x, FirstIs(s, l, x)
    PROVE  SectionOf(s, l) = x
<1>1. Len(s) \in Nat /\ DOMAIN s = 1..Len(s)
    BY SeqIs
<1>2. PICK i \in DOMAIN s : s[i] = x /\ x.label = l /\ \A j \in DOMAIN s : j < i => s[j].label # l
    BY DEF FirstIs
<1>3. PICK S : S = {j \in DOMAIN s : s[j].label = l}
    OBVIOUS
<1>4. S \in SUBSET (0..Len(s)) /\ i \in S
    BY <1>1, <1>2, <1>3
<1>5. Min(S) \in S /\ \A j \in S : Min(S) <= j
    BY <1>1, <1>4, FirstAndLast
<1>6. Min(S) = i
    <2>1. PICK k : k = Min(S)
        OBVIOUS
    <2>2. k \in 1..Len(s) /\ s[k].label = l /\ k <= i
        BY <1>1, <1>3, <1>4, <1>5, <2>1
    <2>3. ~(k < i)
        BY <1>1, <1>2, <2>2
    <2> QED
        BY <1>1, <2>1, <2>2, <2>3
<1>7. SectionOf(s, l) = s[Min(S)]
    BY <1>3 DEF SectionOf
<1> QED
    BY <1>2, <1>6, <1>7


\* A script of one section.
LEMMA OneSection ==
    ASSUME NEW x, NEW l, IsCalled(x, l)
    PROVE  IsScript(<<x>>) /\ Labels(<<x>>) = {l} /\ ToSet(<<x>>) = {x}
<1>1. PICK s : s = <<x>>
    OBVIOUS
<1>2. s \in Seq({x}) /\ DOMAIN s = {1} /\ s[1] = x
    BY <1>1
<1>3. s[1].label = l
    BY <1>2 DEF IsCalled
<1>4. Labels(s) = {l}
    BY <1>2, <1>3 DEF Labels
<1>5. ToSet(s) = {x}
    BY <1>2 DEF ToSet
<1>6. IsScript(s)
    BY <1>2 DEF IsScript
<1> QED
    BY <1>1, <1>4, <1>5, <1>6

\* A script goes on in itself when each section does.
LEMMA ScriptCloses ==
    ASSUME NEW s, \A x \in ToSet(s) : GoesTo(x, Labels(s))
    PROVE  GoesOnly(s)
<1>1. \A i \in DOMAIN s : GoesTo(s[i], Labels(s))
    BY DEF ToSet
<1> QED
    BY <1>1 DEF GoesOnly, GoesTo

\* A section is the first one with its label when no other has it.
LEMMA OnlyIsFirst ==
    ASSUME NEW s, IsScript(s), NEW x \in ToSet(s), NEW l, IsCalled(x, l)
    PROVE  FirstIs(s, l, x)
<1>1. Len(s) \in Nat /\ DOMAIN s = 1..Len(s)
    BY SeqIs DEF IsScript
<1>2. PICK i \in DOMAIN s : s[i] = x
    BY DEF ToSet
<1>3. \A j \in DOMAIN s : s[j].label = s[i].label => i = j
    BY DEF IsScript
<1>4. x.label = l
    BY DEF IsCalled
<1>5. \A j \in DOMAIN s : j < i => s[j].label # l
    BY <1>1, <1>2, <1>3, <1>4
<1> QED
    BY <1>2, <1>4, <1>5 DEF FirstIs

\* The groups of the settings, the labels they and the entries may need, and
\* lists and lists whose elements are all different.
HasGroups(m) == \E R : m.groups \in Seq(R)
Rooms(m, ents) == Len(m.groups) + Len(ents)
AllApart(q) == \A i, j \in DOMAIN q : q[i] = q[j] => i = j
IsList(q) == \E R : q \in Seq(R)

\* What Among keeps of different elements are different elements.
LEMMA AmongStaysApart ==
    ASSUME NEW q, IsList(q), AllApart(q), NEW S
    PROVE  AllApart(Among(q, S))
<1>1. PICK T : T = ToSet(q) /\ q \in Seq(T)
    BY SeqIs DEF IsList
<1>2. PICK r : r = Among(q, S)
    OBVIOUS
<1>3. r \in Seq(T)
    BY <1>1, <1>2, AmongKeeps
<1>4. Len(q) \in Nat /\ DOMAIN q = 1..Len(q) /\ Len(r) \in Nat /\ DOMAIN r = 1..Len(r)
    BY <1>1, <1>3
<1>5. \A i, j \in 1..Len(r) : i # j => \E a, b \in 1..Len(q) : a # b /\ r[i] = q[a] /\ r[j] = q[b]
    <2>1. TakenApart(Among(q, S), q)
        BY <1>1, AmongApart
    <2>2. TakenApart(r, q)
        BY <1>2, <2>1
    <2> QED
        BY <2>2 DEF TakenApart
<1>8. \A a, b \in 1..Len(q) : q[a] = q[b] => a = b
    BY <1>4 DEF AllApart
<1>6. \A i, j \in DOMAIN r : i # j => r[i] # r[j]
    <2> SUFFICES ASSUME NEW i \in 1..Len(r), NEW j \in 1..Len(r), i # j PROVE r[i] # r[j]
        BY <1>4
    <2>1. PICK a, b \in 1..Len(q) : a # b /\ r[i] = q[a] /\ r[j] = q[b]
        BY <1>5
    <2> QED
        BY <1>8, <2>1
<1>7. AllApart(r)
    BY <1>6 DEF AllApart
<1> QED
    BY <1>2, <1>7

\* The list of something of each element.
LEMMA ListOver ==
    ASSUME NEW n \in Nat, NEW q, q = [i \in 1..n |-> q[i]]
    PROVE  IsList(q) /\ Len(q) = n /\ DOMAIN q = 1..n /\ q \in Seq(ToSet(q))
<1>1. PICK T : T = ToSet(q)
    OBVIOUS
<1>2. DOMAIN q = 1..n
    OBVIOUS
<1>3. \A i \in 1..n : q[i] \in T
    BY <1>1, <1>2 DEF ToSet
<1>4. q \in [1..n -> T]
    BY <1>2, <1>3
<1>5. q \in Seq(T) /\ Len(q) = n
    BY <1>4
<1> QED
    BY <1>1, <1>2, <1>5 DEF IsList

\* The names of the groups: each one once, and none is missing.
LEMMA GroupNamesAre ==
    ASSUME NEW m, NEW ents, HasGroups(m), IsList(ents)
    PROVE  /\ IsList(GroupNames(ents, m)) /\ AllApart(GroupNames(ents, m))
           /\ Len(GroupNames(ents, m)) <= Rooms(m, ents) /\ Rooms(m, ents) \in Nat
           /\ "" \notin ToSet(GroupNames(ents, m))
           /\ \A e \in ToSet(ents) : e.group # "" => e.group \in ToSet(GroupNames(ents, m))
<1> DEFINE of == Mapped(ents, LAMBDA e : e.group)
           all == m.groups \o of
           names == GroupNames(ents, m)
<1>1. Len(ents) \in Nat /\ DOMAIN ents = 1..Len(ents)
    BY SeqIs DEF IsList
<1>2. of = [i \in 1..Len(ents) |-> of[i]] /\ \A i \in 1..Len(ents) : of[i] = ents[i].group
    BY <1>1 DEF Mapped
<1>3. IsList(m.groups)
    BY DEF HasGroups, IsList
<1>4. PICK g, o, a, k : g = m.groups /\ o = of /\ a = all /\ k = Len(ents)
    OBVIOUS
<1> HIDE DEF of, all
<1>5. o \in Seq(ToSet(o)) /\ Len(o) = k /\ DOMAIN o = 1..k
    BY <1>1, <1>2, <1>4, ListOver
<1>6. g \in Seq(ToSet(g)) /\ Len(g) \in Nat
    BY <1>3, <1>4, SeqIs DEF IsList
<1>7. PICK T : T = ToSet(g) \union ToSet(o)
    OBVIOUS
<1>8. g \in Seq(T) /\ o \in Seq(T)
    BY <1>5, <1>6, <1>7
<1>9. a = g \o o
    BY <1>4 DEF all
<1>10. a \in Seq(T) /\ ToSet(a) = T
    BY <1>7, <1>8, <1>9, ConcatHas
<1>11. Len(a) = Len(g) + k
    <2>1. Len(a) = Len(g) + Len(o)
        BY <1>8, <1>9
    <2> QED
        BY <1>5, <2>1
<1>12. PICK once : once = Once(a)
    OBVIOUS
<1>13. once \in Seq(T) /\ ToSet(once) = T
    BY <1>10, <1>12, OnceKeeps
<1>14. Len(once) <= Len(a) /\ \A i, j \in 1..Len(once) : once[i] = once[j] => i = j
    BY <1>10, <1>12, OnceApart
<1>15. AllApart(once) /\ IsList(once)
    BY <1>13, <1>14 DEF AllApart, IsList
<1>16. names = Among(once, T \ {""})
    BY <1>4, <1>10, <1>12 DEF GroupNames, all, of
<1> HIDE DEF names
<1>17. names \in Seq(T) /\ Len(names) <= Len(once) /\ ToSet(names) = ToSet(once) \intersect (T \ {""})
    BY ZenonT(40), <1>13, <1>16, AmongKeeps
<1>18. AllApart(names)
    BY <1>15, <1>16, AmongStaysApart
<1>19. Rooms(m, ents) = Len(a)
    BY <1>4, <1>11 DEF Rooms
<1>20. ToSet(names) = T \ {""}
    BY <1>13, <1>17
<1>21. Len(names) <= Len(a) /\ Len(a) \in Nat
    <2>1. Len(a) \in Nat /\ Len(once) \in Nat /\ Len(names) \in Nat
        <3>1. a \in Seq(T) /\ once \in Seq(T) /\ names \in Seq(T)
            BY <1>10, <1>13, <1>17
        <3> QED
            BY <3>1
    <2>2. Len(names) <= Len(once) /\ Len(once) <= Len(a)
        BY <1>14, <1>17
    <2>3. PICK x, y, z : x = Len(names) /\ y = Len(once) /\ z = Len(a)
        OBVIOUS
    <2>4. x \in Nat /\ y \in Nat /\ z \in Nat /\ x <= y /\ y <= z
        BY <2>1, <2>2, <2>3
    <2>5. x <= z
        BY <2>4
    <2> QED
        BY <2>1, <2>3, <2>5
<1>22. ASSUME NEW e \in ToSet(ents) PROVE e.group \in T
    <2>1. PICK i \in 1..Len(ents) : e = ents[i]
        BY <1>1 DEF ToSet
    <2>2. o[i] = e.group /\ i \in DOMAIN o
        BY <1>2, <1>4, <1>5, <2>1
    <2> QED
        BY <1>7, <2>2 DEF ToSet
<1>23. IsList(names)
    BY <1>17 DEF IsList
<1> QED
    BY <1>18, <1>19, <1>20, <1>21, <1>22, <1>23 DEF names

\* The groups of a menu: they are as the entries say.
IsGroup(x, ents) == IsList(x.ents) /\ x.ents # <<>> /\ ToSet(x.ents) \subseteq ToSet(ents)
AreGroups(gs, ents) ==
    /\ IsList(gs) /\ \A i \in DOMAIN gs : IsGroup(gs[i], ents)
    /\ \A i, j \in DOMAIN gs : gs[i].name = gs[j].name => i = j
    /\ \A e \in ToSet(ents) : \E i \in DOMAIN gs : e \in ToSet(gs[i].ents)
AltroTwice(ents) == \E e, f \in ToSet(ents) : e.group = Other /\ f.group = ""

\* The entries of a group.
LEMMA EntriesOfGroup ==
    ASSUME NEW ents, IsList(ents), NEW g
    PROVE  /\ IsList(OfGroup(ents, g))
           /\ OfGroup(ents, g) = <<>> <=> ToSet(OfGroup(ents, g)) = {}
           /\ ToSet(OfGroup(ents, g)) = {e \in ToSet(ents) : e.group = g}
<1>1. PICK T, S : T = ToSet(ents) /\ ents \in Seq(T) /\ S = {e \in ToSet(ents) : e.group = g}
    BY SeqIs DEF IsList
<1>2. PICK q : q = OfGroup(ents, g)
    OBVIOUS
<1>3. q = Among(ents, S)
    BY <1>1, <1>2 DEF OfGroup
<1>4. q \in Seq(T) /\ ToSet(q) = ToSet(ents) \intersect S
    BY <1>1, <1>3, AmongKeeps
<1>5. ToSet(q) = S
    BY <1>1, <1>4
<1>6. q = <<>> <=> ToSet(q) = {}
    BY <1>4, ElementsOf
<1> QED
    BY <1>1, <1>2, <1>4, <1>5, <1>6 DEF IsList

\* group_entries: the groups of a menu cover its entries and differ by name.
LEMMA GroupsAre ==
    ASSUME NEW m, NEW ents, HasGroups(m), IsList(ents), ~AltroTwice(ents)
    PROVE  /\ AreGroups(GroupEntries(ents, m), ents)
           /\ Len(GroupEntries(ents, m)) <= Rooms(m, ents) + 1
<1> DEFINE names == GroupNames(ents, m)
           grouped == Mapped(names, LAMBDA g : [name |-> g, ents |-> OfGroup(ents, g)])
           ungrouped == OfGroup(ents, "")
           filled == {x \in ToSet(grouped) : x.ents # <<>>}
           kept == Among(grouped, filled)
           last == IF ungrouped = <<>> THEN <<>> ELSE <<[name |-> Other, ents |-> ungrouped]>>
<1>1. GroupEntries(ents, m) = kept \o last
    BY DEF GroupEntries
<1>2. /\ IsList(names) /\ AllApart(names) /\ Len(names) <= Rooms(m, ents) /\ Rooms(m, ents) \in Nat
      /\ "" \notin ToSet(names)
      /\ \A e \in ToSet(ents) : e.group # "" => e.group \in ToSet(names)
    BY GroupNamesAre
<1>3. PICK n, N : n = Len(names) /\ N = names
    OBVIOUS
<1>4. n \in Nat /\ DOMAIN N = 1..n
    BY <1>2, <1>3, SeqIs DEF IsList
<1>5. PICK G, K, L, F, u : G = grouped /\ K = kept /\ L = last /\ F = filled /\ u = ungrouped
    OBVIOUS
<1>6. G = [i \in 1..n |-> [name |-> N[i], ents |-> OfGroup(ents, N[i])]]
    BY <1>3, <1>4, <1>5 DEF Mapped
<1>7. /\ F = {x \in ToSet(G) : x.ents # <<>>} /\ K = Among(G, F)
      /\ u = OfGroup(ents, "")
      /\ L = IF u = <<>> THEN <<>> ELSE <<[name |-> Other, ents |-> u]>>
    BY <1>5
<1> HIDE DEF names, grouped, ungrouped, filled, kept, last
<1>8. /\ \A i \in 1..n : G[i].name = N[i] /\ G[i].ents = OfGroup(ents, N[i])
      /\ G = [i \in 1..n |-> G[i]]
    BY <1>6
<1>9. G \in Seq(ToSet(G)) /\ Len(G) = n /\ DOMAIN G = 1..n
    BY <1>4, <1>8, ListOver
<1>10. K \in Seq(ToSet(G)) /\ Len(K) <= n /\ ToSet(K) = F
    <2>1. K \in Seq(ToSet(G)) /\ Len(K) <= Len(G) /\ ToSet(K) = ToSet(G) \intersect F
        BY <1>7, <1>9, AmongKeeps
    <2> QED
        BY <1>7, <1>9, <2>1
<1>11. Len(K) \in Nat /\ DOMAIN K = 1..Len(K)
    BY <1>10
<1>12. \A i, j \in 1..Len(K) : i # j => \E a, b \in 1..n : a # b /\ K[i] = G[a] /\ K[j] = G[b]
    <2>1. PICK X : X = ToSet(G)
        OBVIOUS
    <2>2. G \in Seq(X) /\ K = Among(G, F)
        BY <1>7, <1>9, <2>1
    <2>3. TakenApart(K, G)
        BY <2>2, AmongApart
    <2> QED
        BY <1>9, <2>3 DEF TakenApart
<1>13. \A i, j \in 1..Len(K) : K[i].name = K[j].name => i = j
    <2> SUFFICES ASSUME NEW i \in 1..Len(K), NEW j \in 1..Len(K), i # j
                 PROVE  K[i].name # K[j].name
        OBVIOUS
    <2>1. PICK a, b \in 1..n : a # b /\ K[i] = G[a] /\ K[j] = G[b]
        BY <1>12
    <2>2. K[i].name = N[a] /\ K[j].name = N[b]
        BY <1>8, <2>1
    <2>3. N[a] # N[b]
        BY <1>2, <1>3, <1>4, <2>1 DEF AllApart
    <2> QED
        BY <2>2, <2>3
<1>14. \A g : /\ IsList(OfGroup(ents, g))
              /\ OfGroup(ents, g) = <<>> <=> ToSet(OfGroup(ents, g)) = {}
              /\ ToSet(OfGroup(ents, g)) = {e \in ToSet(ents) : e.group = g}
    BY EntriesOfGroup
<1>15. \A i \in 1..Len(K) : /\ K[i].ents = OfGroup(ents, K[i].name) /\ K[i].ents # <<>>
                            /\ K[i].name \in ToSet(N)
    <2> SUFFICES ASSUME NEW i \in 1..Len(K)
                 PROVE  /\ K[i].ents = OfGroup(ents, K[i].name) /\ K[i].ents # <<>>
                        /\ K[i].name \in ToSet(N)
        OBVIOUS
    <2>1. K[i] \in F
        BY <1>10, <1>11 DEF ToSet
    <2>2. PICK a \in 1..n : K[i] = G[a]
        BY <1>7, <1>9, <2>1 DEF ToSet
    <2>3. K[i].ents = OfGroup(ents, N[a]) /\ K[i].name = N[a]
        BY <1>8, <2>2
    <2>4. N[a] \in ToSet(N)
        BY <1>4 DEF ToSet
    <2> QED
        BY <1>7, <2>1, <2>3, <2>4
<1>16. \A i \in 1..Len(K) : IsGroup(K[i], ents)
    <2> SUFFICES ASSUME NEW i \in 1..Len(K) PROVE IsGroup(K[i], ents)
        OBVIOUS
    <2>1. PICK x : x = K[i]
        OBVIOUS
    <2>2. x.ents = OfGroup(ents, x.name) /\ x.ents # <<>>
        BY <1>15, <2>1
    <2>3. IsList(x.ents) /\ ToSet(x.ents) \subseteq ToSet(ents)
        BY <1>14, <2>2
    <2> QED
        BY <2>1, <2>2, <2>3 DEF IsGroup
<1>17. PICK gs : gs = GroupEntries(ents, m)
    OBVIOUS
<1>18. gs = K \o L
    BY <1>1, <1>5, <1>17
<1>19. CASE u = <<>>
    <2>1. gs = K
        <3>1. PICK X : X = ToSet(G) /\ K \in Seq(X)
            BY <1>10
        <3>2. L = <<>> /\ gs = K \o <<>>
            BY <1>7, <1>18, <1>19
        <3> QED
            BY <3>1, <3>2
    <2>2. ASSUME NEW e \in ToSet(ents) PROVE \E i \in DOMAIN K : e \in ToSet(K[i].ents)
        <3>1. e.group # ""
            BY <1>7, <1>14, <1>19
        <3>2. e.group \in ToSet(N)
            BY <1>2, <1>3, <3>1
        <3>3. PICK a \in 1..n : N[a] = e.group
            BY <1>4, <3>2 DEF ToSet
        <3>4. e \in ToSet(OfGroup(ents, N[a]))
            BY <1>14, <3>3
        <3>5. G[a].ents = OfGroup(ents, N[a]) /\ G[a].ents # <<>> /\ G[a] \in ToSet(G)
            BY <1>8, <1>9, <1>14, <3>4 DEF ToSet
        <3>6. G[a] \in ToSet(K)
            BY <1>7, <1>10, <3>5
        <3>7. PICK i \in DOMAIN K : K[i] = G[a]
            BY <3>6 DEF ToSet
        <3> QED
            BY <3>4, <3>5, <3>7
    <2>3. AreGroups(K, ents)
        BY <1>10, <1>11, <1>13, <1>16, <2>2 DEF AreGroups, IsList
    <2>4. Len(K) <= Rooms(m, ents) + 1
        <3>1. PICK c, l : c = Rooms(m, ents) /\ l = Len(K)
            OBVIOUS
        <3>2. c \in Nat /\ l \in Nat /\ n \in Nat /\ l <= n /\ n <= c
            BY <1>2, <1>3, <1>4, <1>10, <1>11, <3>1
        <3>3. l <= c + 1
            BY <3>2
        <3> QED
            BY <3>1, <3>3
    <2> QED
        BY <1>17, <2>1, <2>3, <2>4
<1>20. CASE u # <<>>
    <2>1. PICK z : z = [name |-> Other, ents |-> u]
        OBVIOUS
    <2>2. z.name = Other /\ z.ents = u
        BY <2>1
    <2>3. PICK T : T = ToSet(G) \union {z}
        OBVIOUS
    <2>4. L = <<z>> /\ K \in Seq(T) /\ z \in T
        <3>1. PICK X : X = ToSet(G) /\ K \in Seq(X)
            BY <1>10
        <3>2. X \subseteq T /\ z \in T
            BY <2>3, <3>1
        <3>3. K \in Seq(T)
            BY <3>1, <3>2
        <3>4. L = <<z>>
            BY <1>7, <1>20, <2>1
        <3> QED
            BY <3>2, <3>3, <3>4
    <2>5. gs = Append(K, z)
        BY <1>18, <2>4
    <2>6. PICK k : k = Len(K)
        OBVIOUS
    <2>7. /\ gs \in Seq(T) /\ Len(gs) = k + 1 /\ gs[k + 1] = z /\ DOMAIN gs = 1..k + 1
          /\ k \in Nat /\ \A i \in 1..k : gs[i] = K[i]
        BY <1>11, <2>4, <2>5, <2>6
    <2>8. \A i \in 1..k + 1 : i \in 1..k \/ i = k + 1
        BY <2>7
    <2>9. IsGroup(z, ents)
        BY <1>7, <1>14, <1>20, <2>2 DEF IsGroup
    <2>10. \A i \in DOMAIN gs : IsGroup(gs[i], ents)
        BY <1>16, <2>6, <2>7, <2>8, <2>9
    <2>11. ASSUME NEW i \in 1..k PROVE K[i].name # Other
        <3>1. K[i].ents = OfGroup(ents, K[i].name) /\ K[i].ents # <<>>
            BY <1>15, <2>6
        <3> SUFFICES ASSUME K[i].name = Other PROVE FALSE
            OBVIOUS
        <3>2. PICK e \in ToSet(ents) : e.group = Other
            BY <1>14, <3>1
        <3>3. PICK f \in ToSet(ents) : f.group = ""
            BY <1>7, <1>14, <1>20
        <3> QED
            BY <3>2, <3>3 DEF AltroTwice
    <2>12. \A i, j \in DOMAIN gs : gs[i].name = gs[j].name => i = j
        <3>1. \A i \in 1..k : gs[i].name = K[i].name
            BY <2>7
        <3>2. gs[k + 1].name = Other
            BY <2>2, <2>7
        <3> QED
            BY <1>13, <2>6, <2>7, <2>8, <2>11, <3>1, <3>2
    <2>13. ASSUME NEW e \in ToSet(ents) PROVE \E i \in DOMAIN gs : e \in ToSet(gs[i].ents)
        <3>1. CASE e.group = ""
            <4>1. e \in ToSet(u)
                BY <1>7, <1>14, <3>1
            <4>2. k + 1 \in DOMAIN gs /\ gs[k + 1].ents = u
                BY <2>2, <2>7
            <4> QED
                BY <4>1, <4>2
        <3>2. CASE e.group # ""
            <4>1. e.group \in ToSet(N)
                BY <1>2, <1>3, <3>2
            <4>2. PICK a \in 1..n : N[a] = e.group
                BY <1>4, <4>1 DEF ToSet
            <4>3. e \in ToSet(OfGroup(ents, N[a]))
                BY <1>14, <4>2
            <4>4. G[a].ents = OfGroup(ents, N[a]) /\ G[a].ents # <<>> /\ G[a] \in ToSet(G)
                BY <1>8, <1>9, <1>14, <4>3 DEF ToSet
            <4>5. G[a] \in ToSet(K)
                BY <1>7, <1>10, <4>4
            <4>6. PICK i \in 1..k : K[i] = G[a]
                BY <1>11, <2>6, <4>5 DEF ToSet
            <4>7. i \in DOMAIN gs /\ gs[i] = G[a]
                BY <2>7, <4>6
            <4> QED
                BY <4>3, <4>4, <4>7
        <3> QED
            BY <3>1, <3>2
    <2>14. AreGroups(gs, ents)
        BY <2>7, <2>10, <2>12, <2>13 DEF AreGroups, IsList
    <2>15. Len(gs) <= Rooms(m, ents) + 1
        <3>1. PICK c : c = Rooms(m, ents)
            OBVIOUS
        <3>2. c \in Nat /\ k \in Nat /\ n \in Nat /\ k <= n /\ n <= c
            BY <1>2, <1>3, <1>4, <1>10, <2>6, <2>7, <3>1
        <3>3. k + 1 <= c + 1
            BY <3>2
        <3> QED
            BY <2>7, <3>1, <3>3
    <2> QED
        BY <1>17, <2>14, <2>15
<1> QED
    BY <1>19, <1>20

\* The labels of the groups, and the pieces of the script of a menu.
NameOf(gs, i) == gs[i].name
LabelAt(taken, i) == FreeLabels(taken)[i]
LabelsFor(gs, taken) == {LabelAt(taken, i) : i \in DOMAIN gs}
Slugs(q) == Mapped(q, LAMBDA e : e.slug)
Submenus(gs, taken, default) ==
    Mapped(gs, LAMBDA g : Submenu(GroupLabel(gs, taken, g.name), g, default))
Chains(ents) == Mapped(ents, Entry)
FixedLabels == {"memtest", "local", "shell", "reboot", "exit", "failed"}
Fixed(memtest) ==
    <<Command("memtest", {"menu"}, <<IF memtest THEN "memtest" ELSE "none">>),
      Command("local", {"menu"}, <<"local">>), Command("shell", {"menu"}, <<"shell">>),
      Command("reboot", {}, <<"reboot">>), Command("exit", {}, <<"exit">>),
      Command("failed", {"menu"}, <<"none">>)>>
Shown(m) == ToSet(SystemEntries) \intersect m.show
ListsIt(x, l) == l \in ToSet(x.items)

\* The lists of the code.
LEMMA ListsMeet ==
    ASSUME NEW p, NEW q, IsList(p), IsList(q)
    PROVE  IsList(p \o q) /\ ToSet(p \o q) = ToSet(p) \union ToSet(q)
<1>1. PICK P, Q, T : P = ToSet(p) /\ Q = ToSet(q) /\ T = P \union Q
    OBVIOUS
<1>2. p \in Seq(P) /\ q \in Seq(Q)
    BY <1>1, SeqIs DEF IsList
<1>3. P \subseteq T /\ Q \subseteq T
    BY <1>1
<1>4. p \in Seq(T) /\ q \in Seq(T)
    BY <1>2, <1>3
<1>5. p \o q \in Seq(T) /\ ToSet(p \o q) = ToSet(p) \union ToSet(q)
    BY <1>4, ConcatHas
<1> QED
    BY <1>5 DEF IsList

\* The empty list, and a list of one.
LEMMA NoneAndOne ==
    /\ IsList(<<>>) /\ ToSet(<<>>) = {}
    /\ \A x : IsList(<<x>>) /\ ToSet(<<x>>) = {x}
<1>1. <<>> \in Seq({}) /\ ToSet(<<>>) = {}
    BY DEF ToSet
<1>2. ASSUME NEW x PROVE <<x>> \in Seq({x}) /\ ToSet(<<x>>) = {x}
    BY DEF ToSet
<1> QED
    BY <1>1, <1>2 DEF IsList

\* The slugs of a list of entries.
LEMMA SlugsAre ==
    ASSUME NEW q, IsList(q)
    PROVE  /\ IsList(Slugs(q)) /\ ToSet(Slugs(q)) = SlugsIn(q)
           /\ SlugsIn(q) = {e.slug : e \in ToSet(q)} /\ Slugs(q) \in Seq(SlugsIn(q))
<1>1. PICK n, r : n = Len(q) /\ r = Slugs(q)
    OBVIOUS
<1>2. n \in Nat /\ DOMAIN q = 1..n
    BY <1>1, SeqIs DEF IsList
<1>3. r = [i \in 1..n |-> q[i].slug]
    BY <1>1, <1>2 DEF Slugs, Mapped
<1>4. r = [i \in 1..n |-> r[i]] /\ \A i \in 1..n : r[i] = q[i].slug
    BY <1>3
<1>5. IsList(r) /\ DOMAIN r = 1..n /\ r \in Seq(ToSet(r))
    BY <1>2, <1>4, ListOver
<1>6. SlugsIn(q) = {q[i].slug : i \in 1..n}
    BY <1>2 DEF SlugsIn
<1>7. ToSet(r) = SlugsIn(q)
    BY <1>4, <1>5, <1>6 DEF ToSet
<1>8. SlugsIn(q) = {e.slug : e \in ToSet(q)}
    <2>1. ToSet(q) = {q[i] : i \in 1..n}
        BY <1>2 DEF ToSet
    <2> QED
        BY <1>6, <2>1
<1> QED
    BY <1>1, <1>5, <1>7, <1>8

\* The labels that are free: each one once, and nobody else's.
LEMMA FreeLabelsAre ==
    ASSUME NEW taken
    PROVE  /\ IsList(FreeLabels(taken)) /\ AllApart(FreeLabels(taken))
           /\ ToSet(FreeLabels(taken)) \intersect (taken \union ReservedLabels \union {""}) = {}
<1>1. /\ GroupLabels \in Seq(STRING) /\ "" \notin ToSet(GroupLabels)
      /\ \A i, j \in DOMAIN GroupLabels : GroupLabels[i] = GroupLabels[j] => i = j
    BY MenusAssumption
<1>2. AllApart(GroupLabels) /\ IsList(GroupLabels)
    BY <1>1 DEF AllApart, IsList
<1>3. PICK S, q : S = ToSet(GroupLabels) \ (taken \union ReservedLabels) /\ q = FreeLabels(taken)
    OBVIOUS
<1>4. q = Among(GroupLabels, S)
    BY <1>3 DEF FreeLabels
<1>5. q \in Seq(STRING) /\ ToSet(q) = ToSet(GroupLabels) \intersect S
    BY <1>1, <1>4, AmongKeeps
<1>6. AllApart(q)
    BY <1>2, <1>4, AmongStaysApart
<1>7. ToSet(q) \intersect (taken \union ReservedLabels \union {""}) = {}
    BY <1>1, <1>3, <1>5
<1> QED
    BY <1>3, <1>5, <1>6, <1>7 DEF IsList

\* _group_labels: a group has the label of its place.
LEMMA GroupLabelIs ==
    ASSUME NEW gs, NEW ents, AreGroups(gs, ents), NEW taken, NEW i \in DOMAIN gs
    PROVE  GroupLabel(gs, taken, NameOf(gs, i)) = LabelAt(taken, i)
<1>1. PICK S : S = {j \in DOMAIN gs : gs[j].name = gs[i].name}
    OBVIOUS
<1>2. S = {i} /\ i \in Nat
    <2>1. Len(gs) \in Nat /\ DOMAIN gs = 1..Len(gs)
        BY SeqIs DEF AreGroups, IsList
    <2>2. \A j \in DOMAIN gs : gs[j].name = gs[i].name => j = i
        BY DEF AreGroups
    <2> QED
        BY <1>1, <2>1, <2>2
<1>3. S \in SUBSET (0..i) /\ S # {}
    BY <1>2
<1>4. Max(S) = i
    BY <1>2, <1>3, FirstAndLast
<1>5. GroupLabel(gs, taken, NameOf(gs, i)) = FreeLabels(taken)[Max(S)]
    BY <1>1 DEF GroupLabel, NameOf
<1> QED
    BY <1>4, <1>5 DEF LabelAt

\* Labels that are enough for the groups: each has one of its own.
LEMMA LabelsForAre ==
    ASSUME NEW gs, IsList(gs), NEW taken, Len(gs) <= Len(FreeLabels(taken))
    PROVE  /\ LabelsFor(gs, taken) \intersect (taken \union ReservedLabels \union {""}) = {}
           /\ \A i, j \in DOMAIN gs : LabelAt(taken, i) = LabelAt(taken, j) => i = j
<1>1. PICK q : q = FreeLabels(taken)
    OBVIOUS
<1>2. /\ IsList(q) /\ AllApart(q)
      /\ ToSet(q) \intersect (taken \union ReservedLabels \union {""}) = {}
    BY <1>1, FreeLabelsAre
<1>3. Len(q) \in Nat /\ DOMAIN q = 1..Len(q) /\ Len(gs) \in Nat /\ DOMAIN gs = 1..Len(gs)
    BY <1>2, SeqIs DEF IsList
<1>4. \A i \in DOMAIN gs : i \in DOMAIN q /\ LabelAt(taken, i) = q[i]
    BY <1>1, <1>3 DEF LabelAt
<1>5. LabelsFor(gs, taken) \subseteq ToSet(q)
    BY <1>4 DEF LabelsFor, ToSet
<1>6. \A i, j \in DOMAIN gs : LabelAt(taken, i) = LabelAt(taken, j) => i = j
    BY <1>2, <1>4 DEF AllApart
<1> QED
    BY <1>2, <1>5, <1>6

\* The entry that is taken by itself is one there is.
LEMMA DefaultIs ==
    ASSUME NEW m, NEW ents
    PROVE  DefaultEntry(m, ents) \in SlugsIn(ents) \union (FixedLabels \ {"failed"})
    BY DEF DefaultEntry, ReservedLabels, FixedLabels

\* What the main menu lists.
Listed(m, gs, taken, subs, default) ==
    Shown(m) \union {"exit"}
    \union (IF subs
            THEN LabelsFor(gs, taken) \union (IF default \in taken THEN {default} ELSE {})
            ELSE taken)

\* MainItems is the list of what is Listed.
LEMMA MainItemsAre ==
    ASSUME NEW m, NEW ents, NEW gs, NEW subs \in BOOLEAN, NEW default,
           IsList(ents), AreGroups(gs, ents)
    PROVE  /\ IsList(MainItems(m, ents, gs, subs, default))
           /\ ToSet(MainItems(m, ents, gs, subs, default)) =
                 Listed(m, gs, SlugsIn(ents), subs, default)
<1> DEFINE taken == SlugsIn(ents)
           own == IF default \in taken THEN <<default>> ELSE <<>>
           labels == Mapped(gs, LAMBDA g : GroupLabel(gs, taken, g.name))
           lists == Mapped(gs, LAMBDA g : Mapped(g.ents, LAMBDA e : e.slug))
           system == Among(SystemEntries, m.show)
           first == IF subs THEN own \o labels ELSE Joined(lists)
<1>1. MainItems(m, ents, gs, subs, default) = first \o system \o <<"exit">>
    BY DEF MainItems
<1>2. IsList(own) /\ ToSet(own) = IF default \in taken THEN {default} ELSE {}
    BY NoneAndOne
<1>3. IsList(gs)
    BY DEF AreGroups
<1>4. PICK n : n = Len(gs)
    OBVIOUS
<1>5. n \in Nat /\ DOMAIN gs = 1..n
    BY <1>3, <1>4, SeqIs DEF IsList
<1>6. IsList(labels) /\ ToSet(labels) = LabelsFor(gs, taken)
    <2>1. PICK q, t : q = labels /\ t = taken
        OBVIOUS
    <2>2. q = [i \in 1..n |-> GroupLabel(gs, t, gs[i].name)]
        BY <1>5, <2>1 DEF Mapped
    <2>3. \A i \in 1..n : GroupLabel(gs, t, NameOf(gs, i)) = LabelAt(t, i)
        BY <1>5, GroupLabelIs
    <2>4. \A i \in 1..n : q[i] = LabelAt(t, i)
        BY <2>2, <2>3 DEF NameOf
    <2>5. q = [i \in 1..n |-> q[i]]
        BY <2>2
    <2>6. IsList(q) /\ DOMAIN q = 1..n
        BY <1>5, <2>5, ListOver
    <2>7. ToSet(q) = LabelsFor(gs, t)
        BY <1>5, <2>4, <2>6 DEF ToSet, LabelsFor
    <2> QED
        BY <2>1, <2>6, <2>7
<1>7. IsList(Joined(lists)) /\ ToSet(Joined(lists)) = taken
    <2>1. PICK q, t : q = lists /\ t = taken
        OBVIOUS
    <2>2. q = [i \in 1..n |-> Slugs(gs[i].ents)]
        BY <1>5, <2>1 DEF Mapped, Slugs
    <2>3. t = {e.slug : e \in ToSet(ents)}
        BY <2>1, SlugsAre
    <2>4. ASSUME NEW i \in 1..n
          PROVE  /\ Slugs(gs[i].ents) \in Seq(t)
                 /\ ToSet(Slugs(gs[i].ents)) = {e.slug : e \in ToSet(gs[i].ents)}
        <3>1. PICK x : x = gs[i].ents
            OBVIOUS
        <3>2. IsList(x) /\ ToSet(x) \subseteq ToSet(ents)
            BY <1>5, <3>1 DEF AreGroups, IsGroup
        <3>3. /\ ToSet(Slugs(x)) = SlugsIn(x) /\ SlugsIn(x) = {e.slug : e \in ToSet(x)}
              /\ Slugs(x) \in Seq(SlugsIn(x))
            BY <3>2, SlugsAre
        <3>4. PICK X : X = SlugsIn(x)
            OBVIOUS
        <3>5. X \subseteq t /\ Slugs(x) \in Seq(X)
            BY <2>3, <3>2, <3>3, <3>4
        <3>6. Slugs(x) \in Seq(t)
            BY <3>5
        <3> QED
            BY <3>1, <3>3, <3>6
    <2>5. q \in [1..n -> Seq(t)]
        BY <2>2, <2>4
    <2>6. q \in Seq(Seq(t)) /\ Len(q) = n
        <3>1. PICK W : W = Seq(t)
            OBVIOUS
        <3>2. q \in [1..n -> W]
            BY <2>5, <3>1
        <3>3. q \in Seq(W) /\ Len(q) = n
            BY <1>5, <3>2
        <3> QED
            BY <3>1, <3>3
    <2>7. PICK j : j = Joined(q)
        OBVIOUS
    <2>8. j \in Seq(t) /\ \A x : x \in ToSet(j) <=> \E i \in 1..n : x \in ToSet(q[i])
        <3>1. j \in Seq(t) /\ \A x : x \in ToSet(j) <=> \E i \in 1..Len(q) : x \in ToSet(q[i])
            BY <2>6, <2>7, JoinedKeeps
        <3> QED
            BY <2>6, <3>1
    <2>9. ToSet(j) \subseteq t
        BY <2>8, ElementsOf
    <2>10. ASSUME NEW l \in t PROVE l \in ToSet(j)
        <3>1. PICK e \in ToSet(ents) : l = e.slug
            BY <2>3
        <3>2. PICK i \in 1..n : e \in ToSet(gs[i].ents)
            BY <1>5 DEF AreGroups
        <3>3. l \in ToSet(q[i])
            BY <2>2, <2>4, <3>1, <3>2
        <3> QED
            BY <2>8, <3>3
    <2>11. ToSet(j) = t
        BY <2>9, <2>10
    <2> QED
        BY <2>1, <2>7, <2>8, <2>11 DEF IsList
<1>8. IsList(system) /\ ToSet(system) = Shown(m)
    <2>1. PICK T : SystemEntries \in Seq(T)
        <3>1. SystemEntries \in Seq({"memtest", "local", "shell", "reboot"})
            BY DEF SystemEntries
        <3> QED
            BY <3>1
    <2>2. PICK S : S = m.show
        OBVIOUS
    <2>3. Among(SystemEntries, S) \in Seq(T)
          /\ ToSet(Among(SystemEntries, S)) = ToSet(SystemEntries) \intersect S
        BY <2>1, AmongKeeps
    <2> QED
        BY <2>2, <2>3 DEF IsList, Shown
<1> DEFINE set == IF subs THEN LabelsFor(gs, taken) \union (IF default \in taken THEN {default} ELSE {})
                  ELSE taken
<1>9. IsList(first) /\ ToSet(first) = set
    <2> HIDE DEF own, labels, lists
    <2>1. CASE subs
        <3>1. IsList(own \o labels) /\ ToSet(own \o labels) = ToSet(own) \union ToSet(labels)
            BY <1>2, <1>6, ListsMeet
        <3> QED
            BY <1>2, <1>6, <2>1, <3>1
    <2>2. CASE ~subs
        BY <1>7, <2>2
    <2> QED
        BY <2>1, <2>2
<1> HIDE DEF first, system, set
<1>10. IsList(first \o system) /\ ToSet(first \o system) = set \union Shown(m)
    BY <1>8, <1>9, ListsMeet
<1>11. IsList(<<"exit">>) /\ ToSet(<<"exit">>) = {"exit"}
    BY NoneAndOne
<1>12. PICK a, b, c, d : a = first \o system /\ b = <<"exit">> /\ c = set \union Shown(m) /\ d = {"exit"}
    OBVIOUS
<1>13. IsList(a \o b) /\ ToSet(a \o b) = ToSet(a) \union ToSet(b)
    BY <1>10, <1>11, <1>12, ListsMeet
<1>14. MainItems(m, ents, gs, subs, default) = a \o b
    BY <1>1, <1>12
<1>15. ToSet(a \o b) = set \union Shown(m) \union {"exit"}
    BY <1>10, <1>11, <1>12, <1>13
<1> QED
    BY <1>13, <1>14, <1>15 DEF set, Listed

\* A command goes where its jumps say.
LEMMA CommandGoes ==
    ASSUME NEW l, NEW jumps, NEW does
    PROVE  /\ IsCalled(Command(l, jumps, does), l)
           /\ \A labels : jumps \subseteq labels => GoesTo(Command(l, jumps, does), labels)
<1>1. PICK x : x = Command(l, jumps, does)
    OBVIOUS
<1>2. x.label = l /\ x.items = <<>> /\ x.jumps = jumps
    BY <1>1 DEF Command, Section
<1>3. ToSet(<<>>) = {}
    BY NoneAndOne
<1>4. \A labels : jumps \subseteq labels => GoesTo(x, labels)
    BY <1>2, <1>3 DEF GoesTo
<1> QED
    BY <1>1, <1>2, <1>4 DEF IsCalled

\* A menu goes to what it lists, to what is taken and where its jumps say.
LEMMA MenuGoes ==
    ASSUME NEW l, NEW items, NEW default, NEW timed, NEW jumps
    PROVE  /\ IsCalled(Section(l, items, default, timed, jumps, <<"menu">>), l)
           /\ \A labels : (ToSet(items) \union jumps \union {default} \subseteq labels)
                 => GoesTo(Section(l, items, default, timed, jumps, <<"menu">>), labels)
           /\ \A i \in ToSet(items) :
                 ListsIt(Section(l, items, default, timed, jumps, <<"menu">>), i)
<1>1. PICK x : x = Section(l, items, default, timed, jumps, <<"menu">>)
    OBVIOUS
<1>2. x.label = l /\ x.items = items /\ x.jumps = jumps /\ x.default = default
    BY <1>1 DEF Section
<1>3. \A labels : (ToSet(items) \union jumps \union {default} \subseteq labels)
                     => GoesTo(x, labels)
    BY <1>2 DEF GoesTo
<1> QED
    BY <1>1, <1>2, <1>3 DEF IsCalled, ListsIt

\* Entries with different slugs.
OwnSlugs(ents) ==
    /\ IsList(ents) /\ \A i, j \in DOMAIN ents : ents[i].slug = ents[j].slug => i = j
    /\ "" \notin SlugsIn(ents)

\* The sections of the entries: each goes to the script of its own.
LEMMA ChainsAre ==
    ASSUME NEW ents, OwnSlugs(ents)
    PROVE  /\ IsScript(Chains(ents)) /\ Labels(Chains(ents)) = SlugsIn(ents)
           /\ \A labels : "failed" \in labels =>
                 \A x \in ToSet(Chains(ents)) : GoesTo(x, labels)
           /\ \A slug \in SlugsIn(ents) :
                 \E x \in ToSet(Chains(ents)) : IsCalled(x, slug) /\ x.does = <<"chain", slug>>
<1>1. PICK n, q : n = Len(ents) /\ q = Chains(ents)
    OBVIOUS
<1>2. n \in Nat /\ DOMAIN ents = 1..n
    BY <1>1, SeqIs DEF OwnSlugs, IsList
<1>3. q = [i \in 1..n |-> Command(ents[i].slug, {"failed"}, <<"chain", ents[i].slug>>)]
    BY <1>1, <1>2 DEF Chains, Mapped, Entry
<1>4. q = [i \in 1..n |-> q[i]]
    BY <1>3
<1>5. IsList(q) /\ DOMAIN q = 1..n
    BY <1>2, <1>4, ListOver
<1>6. ASSUME NEW i \in 1..n
      PROVE  /\ q[i].label = ents[i].slug /\ q[i].does = <<"chain", ents[i].slug>>
             /\ \A labels : "failed" \in labels => GoesTo(q[i], labels)
    <2>1. PICK l, does : l = ents[i].slug /\ does = <<"chain", ents[i].slug>>
        OBVIOUS
    <2>2. q[i] = Command(l, {"failed"}, does)
        BY <1>3, <2>1
    <2>3. /\ IsCalled(Command(l, {"failed"}, does), l)
          /\ \A labels : {"failed"} \subseteq labels => GoesTo(Command(l, {"failed"}, does), labels)
        BY CommandGoes
    <2>4. Command(l, {"failed"}, does).does = does
        BY DEF Command, Section
    <2>5. q[i].does = does
        BY <2>2, <2>4
    <2> QED
        BY <2>1, <2>2, <2>3, <2>5 DEF IsCalled
<1>7. IsScript(q)
    BY ZenonT(40), <1>2, <1>5, <1>6 DEF IsScript, IsList, OwnSlugs
<1>8. Labels(q) = SlugsIn(ents)
    BY <1>2, <1>5, <1>6 DEF Labels, SlugsIn
<1>9. \A labels : "failed" \in labels => \A x \in ToSet(q) : GoesTo(x, labels)
    BY <1>5, <1>6 DEF ToSet
<1>10. ASSUME NEW slug \in SlugsIn(ents)
       PROVE  \E x \in ToSet(q) : IsCalled(x, slug) /\ x.does = <<"chain", slug>>
    <2>1. PICK i \in 1..n : slug = ents[i].slug
        BY <1>2 DEF SlugsIn
    <2>2. q[i] \in ToSet(q)
        BY <1>5 DEF ToSet
    <2>3. q[i].label = slug /\ q[i].does = <<"chain", slug>>
        BY <1>6, <2>1
    <2> QED
        BY <2>2, <2>3 DEF IsCalled
<1> QED
    BY <1>1, <1>7, <1>8, <1>9, <1>10

\* The sections that every menu has.
LEMMA FixedAre ==
    ASSUME NEW memtest
    PROVE  /\ IsScript(Fixed(memtest)) /\ Labels(Fixed(memtest)) = FixedLabels
           /\ \A labels : "menu" \in labels =>
                 \A x \in ToSet(Fixed(memtest)) : GoesTo(x, labels)
<1>1. PICK a : a = Command("memtest", {"menu"}, <<IF memtest THEN "memtest" ELSE "none">>)
    OBVIOUS
<1>2. PICK b, c : b = Command("local", {"menu"}, <<"local">>)
                  /\ c = Command("shell", {"menu"}, <<"shell">>)
    OBVIOUS
<1>3. PICK d, e : d = Command("reboot", {}, <<"reboot">>) /\ e = Command("exit", {}, <<"exit">>)
    OBVIOUS
<1>4. PICK f : f = Command("failed", {"menu"}, <<"none">>)
    OBVIOUS
<1>5. /\ a.label = "memtest" /\ b.label = "local" /\ c.label = "shell" /\ d.label = "reboot"
      /\ e.label = "exit" /\ f.label = "failed"
    BY <1>1, <1>2, <1>3, <1>4 DEF Command, Section
<1>6. \A labels : "menu" \in labels => \A x \in {a, b, c, d, e, f} : GoesTo(x, labels)
    <2> SUFFICES ASSUME NEW labels, "menu" \in labels
                 PROVE  \A x \in {a, b, c, d, e, f} : GoesTo(x, labels)
        OBVIOUS
    <2>1. {"menu"} \subseteq labels /\ {} \subseteq labels
        OBVIOUS
    <2>2. GoesTo(a, labels)
        BY <1>1, <2>1, CommandGoes
    <2>3. GoesTo(b, labels) /\ GoesTo(c, labels)
        BY <1>2, <2>1, CommandGoes
    <2>4. GoesTo(d, labels) /\ GoesTo(e, labels)
        BY <1>3, <2>1, CommandGoes
    <2>5. GoesTo(f, labels)
        BY <1>4, <2>1, CommandGoes
    <2> QED
        BY <2>2, <2>3, <2>4, <2>5
<1>7. PICK q : q = <<a, b, c, d, e, f>>
    OBVIOUS
<1>8. Fixed(memtest) = q
    BY <1>1, <1>2, <1>3, <1>4, <1>7 DEF Fixed
<1>9. q \in Seq({a, b, c, d, e, f}) /\ DOMAIN q = 1..6
    BY <1>7
<1>10. q[1] = a /\ q[2] = b /\ q[3] = c /\ q[4] = d /\ q[5] = e /\ q[6] = f
    BY <1>7
<1>11. \A i \in 1..6 : i \in {1, 2, 3, 4, 5, 6}
    OBVIOUS
<1>12. ToSet(q) \subseteq {a, b, c, d, e, f}
    BY <1>9, <1>10, <1>11 DEF ToSet
<1>13. Labels(q) = FixedLabels
    <2>1. Labels(q) \subseteq FixedLabels
        BY <1>5, <1>9, <1>10, <1>11 DEF Labels, FixedLabels
    <2>2. \A i \in {1, 2, 3, 4, 5, 6} : q[i].label \in Labels(q)
        BY <1>9 DEF Labels
    <2>3. FixedLabels \subseteq Labels(q)
        BY <1>5, <1>10, <2>2 DEF FixedLabels
    <2> QED
        BY <2>1, <2>3
<1>14. \A i, j \in DOMAIN q : q[i].label = q[j].label => i = j
    BY <1>5, <1>9, <1>10, <1>11
<1>15. IsScript(q)
    BY <1>9, <1>14 DEF IsScript
<1> QED
    BY <1>6, <1>8, <1>12, <1>13, <1>15

\* The submenus of the groups: each with its entries, and back.
LEMMA SubmenusAre ==
    ASSUME NEW gs, NEW ents, AreGroups(gs, ents), IsList(ents), NEW taken, NEW default,
           taken = SlugsIn(ents), Len(gs) <= Len(FreeLabels(taken))
    PROVE  /\ IsScript(Submenus(gs, taken, default))
           /\ Labels(Submenus(gs, taken, default)) = LabelsFor(gs, taken)
           /\ \A labels : (taken \union {"menu"} \subseteq labels) =>
                 \A x \in ToSet(Submenus(gs, taken, default)) : GoesTo(x, labels)
           /\ \A s \in taken : \E x \in ToSet(Submenus(gs, taken, default)) :
                 \E l \in LabelsFor(gs, taken) : IsCalled(x, l) /\ ListsIt(x, s)
<1>0. IsList(gs)
    BY DEF AreGroups
<1>1. PICK n, q : n = Len(gs) /\ q = Submenus(gs, taken, default)
    OBVIOUS
<1>2. n \in Nat /\ DOMAIN gs = 1..n
    BY <1>0, <1>1, SeqIs DEF IsList
<1>3. \A i \in 1..n : GroupLabel(gs, taken, NameOf(gs, i)) = LabelAt(taken, i)
    BY <1>2, GroupLabelIs
<1>4. q = [i \in 1..n |-> Submenu(LabelAt(taken, i), gs[i], default)]
    BY <1>1, <1>2, <1>3 DEF Submenus, Mapped, NameOf
<1>5. q = [i \in 1..n |-> q[i]]
    BY <1>4
<1>6. IsList(q) /\ DOMAIN q = 1..n
    BY <1>2, <1>5, ListOver
<1>7. \A i, j \in 1..n : LabelAt(taken, i) = LabelAt(taken, j) => i = j
    BY <1>0, <1>2, LabelsForAre
<1>8. taken = {e.slug : e \in ToSet(ents)}
    BY SlugsAre
<1>9. ASSUME NEW i \in 1..n
      PROVE  /\ IsCalled(q[i], LabelAt(taken, i))
             /\ \A labels : (taken \union {"menu"} \subseteq labels) => GoesTo(q[i], labels)
             /\ \A e \in ToSet(gs[i].ents) : ListsIt(q[i], e.slug)
    <2>1. PICK l, es, d :
             /\ l = LabelAt(taken, i) /\ es = gs[i].ents
             /\ d = IF default \in SlugsIn(es) THEN default ELSE es[1].slug
        OBVIOUS
    <2>2. PICK items : items = Slugs(es) \o <<"menu">>
        OBVIOUS
    <2>3. q[i] = Section(l, items, d, FALSE, {"menu"}, <<"menu">>)
        BY <1>4, <2>1, <2>2 DEF Submenu, Slugs
    <2>4. IsList(es) /\ es # <<>> /\ ToSet(es) \subseteq ToSet(ents)
        BY <1>2, <2>1 DEF AreGroups, IsGroup
    <2>5. /\ IsList(Slugs(es)) /\ ToSet(Slugs(es)) = SlugsIn(es)
          /\ SlugsIn(es) = {e.slug : e \in ToSet(es)}
        BY <2>4, SlugsAre
    <2>6. IsList(<<"menu">>) /\ ToSet(<<"menu">>) = {"menu"}
        BY NoneAndOne
    <2>7. PICK a, b : a = Slugs(es) /\ b = <<"menu">>
        OBVIOUS
    <2>8. IsList(a \o b) /\ ToSet(a \o b) = ToSet(a) \union ToSet(b)
        BY <2>5, <2>6, <2>7, ListsMeet
    <2>9. ToSet(items) = SlugsIn(es) \union {"menu"}
        BY <2>2, <2>5, <2>6, <2>7, <2>8
    <2>10. SlugsIn(es) \subseteq taken
        BY <1>8, <2>4, <2>5
    <2>11. d \in SlugsIn(es)
        <3>1. es[1] \in ToSet(es)
            <4>1. PICK T : es \in Seq(T)
                BY <2>4 DEF IsList
            <4> QED
                BY <2>4, <4>1, ElementsOf
        <3> QED
            BY <2>1, <2>5, <3>1
    <2>12. /\ IsCalled(q[i], l)
           /\ \A labels : (ToSet(items) \union {"menu"} \union {d} \subseteq labels)
                             => GoesTo(q[i], labels)
           /\ \A x \in ToSet(items) : ListsIt(q[i], x)
        <3>1. PICK js, f : js = {"menu"} /\ f = FALSE
            OBVIOUS
        <3>2. PICK x : x = Section(l, items, d, f, js, <<"menu">>)
            OBVIOUS
        <3>3. /\ IsCalled(x, l)
              /\ \A labels : (ToSet(items) \union js \union {d} \subseteq labels) => GoesTo(x, labels)
              /\ \A y \in ToSet(items) : ListsIt(x, y)
            BY <3>2, MenuGoes
        <3>4. x = q[i]
            BY <2>3, <3>1, <3>2
        <3> QED
            BY <3>1, <3>3, <3>4
    <2> QED
        BY <2>1, <2>5, <2>9, <2>10, <2>11, <2>12
<1>10. IsScript(q)
    <2>1. \A i \in 1..n : q[i].label = LabelAt(taken, i)
        BY <1>9 DEF IsCalled
    <2> QED
        BY <1>6, <1>7, <2>1 DEF IsScript, IsList
<1>11. Labels(q) = LabelsFor(gs, taken)
    <2>1. \A i \in 1..n : q[i].label = LabelAt(taken, i)
        BY <1>9 DEF IsCalled
    <2> QED
        BY <1>2, <1>6, <2>1 DEF Labels, LabelsFor
<1>12. \A labels : (taken \union {"menu"} \subseteq labels) => \A x \in ToSet(q) : GoesTo(x, labels)
    BY <1>6, <1>9 DEF ToSet
<1>13. ASSUME NEW s \in taken
       PROVE  \E x \in ToSet(q) : \E l \in LabelsFor(gs, taken) : IsCalled(x, l) /\ ListsIt(x, s)
    <2>1. PICK e \in ToSet(ents) : s = e.slug
        BY <1>8
    <2>2. PICK i \in 1..n : e \in ToSet(gs[i].ents)
        BY <1>2 DEF AreGroups
    <2>3. q[i] \in ToSet(q) /\ LabelAt(taken, i) \in LabelsFor(gs, taken)
        BY <1>2, <1>6 DEF ToSet, LabelsFor
    <2>4. IsCalled(q[i], LabelAt(taken, i)) /\ ListsIt(q[i], s)
        BY <1>9, <2>1, <2>2
    <2> QED
        BY <2>3, <2>4
<1> QED
    BY <1>1, <1>10, <1>11, <1>12, <1>13

\* MenuIsClosed, of any settings and entries.
IsClosedMenu(script, m, ents) ==
    LET main == SectionOf(script, "menu") IN
    /\ GoesOnly(script)
    /\ LabelledApart(script, SlugsIn(ents) \intersect ReservedLabels)
    /\ \A slug \in SlugsIn(ents) :
          /\ slug \in Reached(script)
          /\ slug # "menu" => SectionOf(script, slug).does = <<"chain", slug>>
    /\ Taken(main) = main.default \/ main.default \in ToSet(SystemEntries) \ m.show

\* A script of no section.
LEMMA NoSection == IsScript(<<>>) /\ Labels(<<>>) = {}
<1>1. PICK s : s = <<>>
    OBVIOUS
<1>2. s \in Seq({}) /\ Len(s) = 0
    BY <1>1
<1>3. DOMAIN s = 1..0
    BY <1>2
<1>4. DOMAIN s = {}
    BY <1>3
<1>5. IsScript(s) /\ Labels(s) = {}
    BY <1>2, <1>4 DEF IsScript, Labels
<1> QED
    BY <1>1, <1>5

\* Nothing, and the script of an entry that starts by itself.
LEMMA AutoIs ==
    ASSUME NEW auto, NEW head,
           head = IF auto = "" THEN <<>>
                  ELSE <<Section("", <<>>, "", TRUE, {"menu"}, <<"chain", auto>>)>>
    PROVE  /\ IsScript(head) /\ Labels(head) \subseteq {""}
           /\ \A labels : "menu" \in labels => \A x \in ToSet(head) : GoesTo(x, labels)
<1>1. CASE auto = ""
    <2>1. head = <<>>
        BY <1>1
    <2>2. IsScript(head) /\ Labels(head) = {}
        BY <2>1, NoSection
    <2>3. ToSet(head) = {}
        BY <2>1, NoneAndOne
    <2> QED
        BY <2>2, <2>3
<1>2. CASE auto # ""
    <2>1. PICK x : x = Section("", <<>>, "", TRUE, {"menu"}, <<"chain", auto>>)
        OBVIOUS
    <2>2. x.label = "" /\ x.items = <<>> /\ x.jumps = {"menu"}
        BY <2>1 DEF Section
    <2>3. \A labels : "menu" \in labels => GoesTo(x, labels)
        BY <2>2, NoneAndOne DEF GoesTo
    <2>4. head = <<x>>
        BY <1>2, <2>1
    <2>5. IsScript(<<x>>) /\ Labels(<<x>>) = {""} /\ ToSet(<<x>>) = {x}
        BY <2>2, OneSection DEF IsCalled
    <2>6. IsScript(head) /\ Labels(head) = {""} /\ ToSet(head) = {x}
        BY <2>4, <2>5
    <2>7. \A labels : "menu" \in labels => \A y \in ToSet(head) : GoesTo(y, labels)
        BY <2>3, <2>6
    <2> QED
        BY <2>6, <2>7
<1> QED
    BY <1>1, <1>2

\* menu_script: closed, with a way to every entry.
LEMMA MenuCloses ==
    ASSUME NEW m, NEW ents, NEW auto, NEW memtest, HasGroups(m), OwnSlugs(ents),
           ~AltroTwice(ents), Rooms(m, ents) < Len(FreeLabels(SlugsIn(ents)))
    PROVE  IsClosedMenu(MenuScript(m, ents, auto, memtest), m, ents)
<1>0. IsList(ents)
    BY DEF OwnSlugs
<1>1. PICK gs, taken, default :
         gs = GroupEntries(ents, m) /\ taken = SlugsIn(ents) /\ default = DefaultEntry(m, ents)
    OBVIOUS
<1>2. PICK subs \in BOOLEAN : subs = (gs # <<>> /\ SubmenusOn(m, Len(ents)))
    OBVIOUS
<1>3. PICK items : items = MainItems(m, ents, gs, subs, default)
    OBVIOUS
<1>4. PICK jumps, timed :
         /\ jumps = {"menu", IF m.timeout > 0 THEN default ELSE "local"}
         /\ timed = (m.timeout > 0)
    OBVIOUS
<1>5. PICK main : main = Section("menu", items, default, timed, jumps, <<"menu">>)
    OBVIOUS
<1>6. PICK head : head = IF auto = "" THEN <<>>
                         ELSE <<Section("", <<>>, "", TRUE, {"menu"}, <<"chain", auto>>)>>
    OBVIOUS
<1>7. PICK submenus : submenus = IF subs THEN Submenus(gs, taken, default) ELSE <<>>
    OBVIOUS
<1>8. PICK chains, fixed : chains = Chains(ents) /\ fixed = Fixed(memtest)
    OBVIOUS
<1>9. PICK s : s = head \o <<main>> \o submenus \o chains \o fixed
    OBVIOUS
<1>10. MenuScript(m, ents, auto, memtest) = s
    <2> DEFINE groups == GroupEntries(ents, m)
               slugs == SlugsIn(ents)
               taken0 == DefaultEntry(m, ents)
    <2>0. MenuScript(m, ents, auto, memtest) =
             (IF auto = "" THEN <<>>
              ELSE <<Section("", <<>>, "", TRUE, {"menu"}, <<"chain", auto>>)>>)
             \o <<Section("menu", MainItems(m, ents, groups,
                                           groups # <<>> /\ SubmenusOn(m, Len(ents)), taken0),
                          taken0, m.timeout > 0,
                          {"menu", IF m.timeout > 0 THEN taken0 ELSE "local"}, <<"menu">>)>>
             \o (IF groups # <<>> /\ SubmenusOn(m, Len(ents))
                 THEN Submenus(groups, slugs, taken0) ELSE <<>>)
             \o Chains(ents) \o Fixed(memtest)
        BY Zenon DEF MenuScript, Submenus, Chains, Fixed, Mapped
    <2>1. MenuScript(m, ents, auto, memtest) =
             (IF auto = "" THEN <<>>
              ELSE <<Section("", <<>>, "", TRUE, {"menu"}, <<"chain", auto>>)>>)
             \o <<Section("menu", MainItems(m, ents, gs, gs # <<>> /\ SubmenusOn(m, Len(ents)), default),
                          default, m.timeout > 0,
                          {"menu", IF m.timeout > 0 THEN default ELSE "local"}, <<"menu">>)>>
             \o (IF gs # <<>> /\ SubmenusOn(m, Len(ents)) THEN Submenus(gs, taken, default) ELSE <<>>)
             \o Chains(ents) \o Fixed(memtest)
        BY <1>1, <2>0, Zenon
    <2>2. MainItems(m, ents, gs, gs # <<>> /\ SubmenusOn(m, Len(ents)), default) = items
        BY <1>2, <1>3, Zenon
    <2>3. Section("menu", items, default, m.timeout > 0,
                  {"menu", IF m.timeout > 0 THEN default ELSE "local"}, <<"menu">>) = main
        BY <1>4, <1>5, Zenon
    <2>4. (IF gs # <<>> /\ SubmenusOn(m, Len(ents)) THEN Submenus(gs, taken, default) ELSE <<>>)
             = submenus
        BY <1>2, <1>7, Zenon
    <2> QED
        BY <1>6, <1>8, <1>9, <2>1, <2>2, <2>3, <2>4, Zenon
<1>11. AreGroups(gs, ents) /\ Len(gs) <= Rooms(m, ents) + 1
    BY <1>0, <1>1, GroupsAre
<1>12. Len(gs) <= Len(FreeLabels(taken))
    <2>1. PICK a, b, c : a = Len(gs) /\ b = Rooms(m, ents) /\ c = Len(FreeLabels(taken))
        OBVIOUS
    <2>2. a \in Nat
        BY <1>11, <2>1, SeqIs DEF AreGroups, IsList
    <2>3. b \in Nat
        BY <1>0, <2>1, GroupNamesAre
    <2>4. c \in Nat
        <3>1. IsList(FreeLabels(taken))
            BY FreeLabelsAre
        <3> QED
            BY <2>1, <3>1, SeqIs DEF IsList
    <2>5. a <= b + 1 /\ b < c
        BY <1>1, <1>11, <2>1
    <2>6. a <= c
        BY <2>2, <2>3, <2>4, <2>5
    <2> QED
        BY <2>1, <2>6
<1>13. default \in taken \union (FixedLabels \ {"failed"})
    BY <1>1, DefaultIs
<1>14. "" \notin taken
    BY <1>1 DEF OwnSlugs
<1>15. /\ IsList(items)
       /\ ToSet(items) = Shown(m) \union {"exit"}
             \union (IF subs THEN LabelsFor(gs, taken)
                                  \union (IF default \in taken THEN {default} ELSE {})
                     ELSE taken)
    <2>1. IsList(items) /\ ToSet(items) = Listed(m, gs, SlugsIn(ents), subs, default)
        BY <1>0, <1>3, <1>11, MainItemsAre
    <2> QED
        BY <1>1, <2>1 DEF Listed
\* The pieces of the script, each with its labels.
<1> DEFINE groupLabels == IF subs THEN LabelsFor(gs, taken) ELSE {}
<1>16. /\ IsScript(head) /\ Labels(head) \subseteq {""}
       /\ \A labels : "menu" \in labels => \A x \in ToSet(head) : GoesTo(x, labels)
    BY <1>6, AutoIs
<1>17. /\ IsCalled(main, "menu")
       /\ \A labels : (ToSet(items) \union jumps \union {default} \subseteq labels)
             => GoesTo(main, labels)
       /\ \A i \in ToSet(items) : ListsIt(main, i)
    BY <1>5, MenuGoes
<1>18. IsScript(<<main>>) /\ Labels(<<main>>) = {"menu"} /\ ToSet(<<main>>) = {main}
    BY <1>17, OneSection
<1>19. /\ IsScript(submenus) /\ Labels(submenus) = groupLabels
       /\ \A labels : (taken \union {"menu"} \subseteq labels) =>
             \A x \in ToSet(submenus) : GoesTo(x, labels)
       /\ subs => \A t \in taken : \E x \in ToSet(submenus) :
                     \E l \in groupLabels : IsCalled(x, l) /\ ListsIt(x, t)
    <2>1. CASE subs
        <3>1. PICK q : q = Submenus(gs, taken, default)
            OBVIOUS
        <3>2. /\ IsScript(q) /\ Labels(q) = LabelsFor(gs, taken)
              /\ \A labels : (taken \union {"menu"} \subseteq labels) =>
                    \A x \in ToSet(q) : GoesTo(x, labels)
              /\ \A t \in taken : \E x \in ToSet(q) :
                    \E l \in LabelsFor(gs, taken) : IsCalled(x, l) /\ ListsIt(x, t)
            BY <1>0, <1>1, <1>11, <1>12, <3>1, SubmenusAre
        <3>3. submenus = q
            BY <1>7, <2>1, <3>1
        <3> QED
            BY <2>1, <3>2, <3>3
    <2>2. CASE ~subs
        <3>1. submenus = <<>> /\ submenus \in Seq({}) /\ DOMAIN submenus = {} /\ ToSet(submenus) = {}
            BY <1>7, <2>2, NoneAndOne
        <3>2. IsScript(submenus) /\ Labels(submenus) = {}
            BY <3>1 DEF IsScript, Labels
        <3> QED
            BY <2>2, <3>1, <3>2
    <2> QED
        BY <2>1, <2>2
<1>20. /\ IsScript(chains) /\ Labels(chains) = taken
       /\ \A labels : "failed" \in labels => \A x \in ToSet(chains) : GoesTo(x, labels)
       /\ \A slug \in taken :
             \E x \in ToSet(chains) : IsCalled(x, slug) /\ x.does = <<"chain", slug>>
    BY <1>1, <1>8, ChainsAre
<1>21. /\ IsScript(fixed) /\ Labels(fixed) = FixedLabels
       /\ \A labels : "menu" \in labels => \A x \in ToSet(fixed) : GoesTo(x, labels)
    BY <1>8, FixedAre
<1>22. groupLabels \intersect (taken \union ReservedLabels \union {""}) = {}
    <2>1. IsList(gs)
        BY <1>11 DEF AreGroups
    <2>2. LabelsFor(gs, taken) \intersect (taken \union ReservedLabels \union {""}) = {}
        BY <1>12, <2>1, LabelsForAre
    <2> QED
        BY <2>2
<1>23. /\ FixedLabels \subseteq ReservedLabels /\ "menu" \in ReservedLabels
       /\ "menu" \notin FixedLabels \union {""} /\ "" \notin FixedLabels
       /\ ReservedLabels = FixedLabels \union {"menu"}
    BY DEF FixedLabels, ReservedLabels
<1> HIDE DEF groupLabels
\* One after the other.
<1>24. PICK one : one = <<main>>
    OBVIOUS
<1>25. PICK a : a = head \o one
    OBVIOUS
<1>26. IsScript(a) /\ Labels(a) = Labels(head) \union {"menu"} /\ ToSet(a) = ToSet(head) \union {main}
    <2>1. IsScript(one) /\ Labels(one) = {"menu"} /\ ToSet(one) = {main}
        BY <1>18, <1>24
    <2>2. Labels(head) \intersect Labels(one) = {}
        BY <1>16, <2>1
    <2>3. /\ IsScript(head \o one) /\ Labels(head \o one) = Labels(head) \union Labels(one)
          /\ ToSet(head \o one) = ToSet(head) \union ToSet(one)
        BY <1>16, <2>1, <2>2, ScriptsMeet
    <2> QED
        BY <1>25, <2>1, <2>3
<1>27. PICK b : b = a \o submenus
    OBVIOUS
<1>28. /\ IsScript(b) /\ Labels(b) = Labels(head) \union {"menu"} \union groupLabels
       /\ ToSet(b) = ToSet(head) \union {main} \union ToSet(submenus)
    <2>1. Labels(a) \intersect Labels(submenus) = {}
        BY <1>16, <1>19, <1>22, <1>23, <1>26
    <2>2. /\ IsScript(a \o submenus) /\ Labels(a \o submenus) = Labels(a) \union Labels(submenus)
          /\ ToSet(a \o submenus) = ToSet(a) \union ToSet(submenus)
        BY <1>19, <1>26, <2>1, ScriptsMeet
    <2> QED
        BY <1>19, <1>26, <1>27, <2>2
<1>29. PICK c, but : c = b \o chains /\ but = taken \intersect ReservedLabels
    OBVIOUS
<1>30. /\ IsScriptBut(c, but)
       /\ Labels(c) = Labels(head) \union {"menu"} \union groupLabels \union taken
       /\ ToSet(c) = ToSet(head) \union {main} \union ToSet(submenus) \union ToSet(chains)
       /\ \A l, x : FirstIs(b, l, x) => FirstIs(c, l, x)
       /\ \A l, x : l \notin Labels(b) /\ FirstIs(chains, l, x) => FirstIs(c, l, x)
    <2>1. Labels(b) \intersect Labels(chains) \subseteq but
        BY <1>14, <1>16, <1>20, <1>22, <1>23, <1>28, <1>29
    <2>2. IsScriptBut(b, but) /\ IsScriptBut(chains, but)
        BY <1>20, <1>28, ButNothing
    <2>3. /\ IsScriptBut(b \o chains, but)
          /\ Labels(b \o chains) = Labels(b) \union Labels(chains)
          /\ ToSet(b \o chains) = ToSet(b) \union ToSet(chains)
          /\ \A l, x : FirstIs(b, l, x) => FirstIs(b \o chains, l, x)
          /\ \A l, x : l \notin Labels(b) /\ FirstIs(chains, l, x) => FirstIs(b \o chains, l, x)
        BY <2>1, <2>2, ScriptsMeetBut
    <2> QED
        BY <1>20, <1>28, <1>29, <2>3
<1>31. s = c \o fixed
    BY <1>9, <1>24, <1>25, <1>27, <1>29
<1>32. /\ IsScriptBut(s, but)
       /\ Labels(s) = Labels(head) \union {"menu"} \union groupLabels \union taken \union FixedLabels
       /\ ToSet(s) = ToSet(head) \union {main} \union ToSet(submenus) \union ToSet(chains)
                     \union ToSet(fixed)
       /\ \A l, x : FirstIs(c, l, x) => FirstIs(s, l, x)
    <2>1. Labels(c) \intersect Labels(fixed) \subseteq but
        BY <1>14, <1>16, <1>21, <1>22, <1>23, <1>29, <1>30
    <2>2. IsScriptBut(fixed, but)
        BY <1>21, ButNothing
    <2>3. /\ IsScriptBut(c \o fixed, but)
          /\ Labels(c \o fixed) = Labels(c) \union Labels(fixed)
          /\ ToSet(c \o fixed) = ToSet(c) \union ToSet(fixed)
          /\ \A l, x : FirstIs(c, l, x) => FirstIs(c \o fixed, l, x)
        BY <1>30, <2>1, <2>2, ScriptsMeetBut
    <2> QED
        BY <1>21, <1>30, <1>31, <2>3
<1>44. \E R : s \in Seq(R)
    BY <1>32 DEF IsScriptBut
<1>45. \A l, x : FirstIs(b, l, x) => SectionOf(s, l) = x
    <2> SUFFICES ASSUME NEW l, NEW x, FirstIs(b, l, x) PROVE SectionOf(s, l) = x
        OBVIOUS
    <2>1. FirstIs(s, l, x)
        BY <1>30, <1>32
    <2> QED
        BY <1>44, <2>1, FirstIsTheSection
\* Every command goes to a label there is.
<1>33. PICK labels : labels = Labels(s)
    OBVIOUS
<1>34. /\ taken \union {"menu", "failed", "local"} \union FixedLabels \subseteq labels
       /\ groupLabels \subseteq labels
    BY <1>32, <1>33 DEF FixedLabels
<1>35. Shown(m) \union {"exit"} \subseteq FixedLabels
    <2>1. ToSet(SystemEntries) \subseteq FixedLabels
        BY DEF SystemEntries, ToSet, FixedLabels
    <2> QED
        BY <2>1 DEF Shown, FixedLabels
<1>36. ToSet(items) \union jumps \union {default} \subseteq labels
    <2>1. default \in labels
        BY <1>13, <1>34
    <2>2. jumps \subseteq labels
        BY <1>4, <1>34, <2>1
    <2>3. ToSet(items) \subseteq labels
        BY <1>15, <1>34, <1>35, <2>1 DEF groupLabels
    <2> QED
        BY <2>1, <2>2, <2>3
<1>37. \A x \in ToSet(s) : GoesTo(x, labels)
    <2>1. \A x \in ToSet(head) : GoesTo(x, labels)
        BY <1>16, <1>34
    <2>2. GoesTo(main, labels)
        BY <1>17, <1>36
    <2>3. \A x \in ToSet(submenus) : GoesTo(x, labels)
        BY <1>19, <1>34
    <2>4. \A x \in ToSet(chains) : GoesTo(x, labels)
        BY <1>20, <1>34
    <2>5. \A x \in ToSet(fixed) : GoesTo(x, labels)
        BY <1>21, <1>34
    <2> QED
        BY <1>32, <2>1, <2>2, <2>3, <2>4, <2>5
<1>38. GoesOnly(s) /\ LabelledApart(s, but)
    <2>1. GoesOnly(s)
        BY <1>33, <1>37, ScriptCloses
    <2>2. LabelledApart(s, but)
        BY <1>32 DEF LabelledApart, IsScriptBut
    <2> QED
        BY <2>1, <2>2
\* The label of an entry is that of its own section.
<1>46. ASSUME NEW t \in taken, t # "menu" PROVE SectionOf(s, t).does = <<"chain", t>>
    <2>1. PICK x \in ToSet(chains) : IsCalled(x, t) /\ x.does = <<"chain", t>>
        BY <1>20
    <2>2. FirstIs(chains, t, x)
        BY <1>20, <2>1, OnlyIsFirst
    <2>3. t \notin Labels(b)
        BY <1>14, <1>16, <1>22, <1>28, <1>46
    <2>4. FirstIs(s, t, x)
        BY <1>30, <1>32, <2>2, <2>3
    <2>5. SectionOf(s, t) = x
        BY <1>44, <2>4, FirstIsTheSection
    <2> QED
        BY <2>1, <2>5
\* From the menu one comes to every entry.
<1>39. SectionOf(s, "menu") = main
    <2>1. main \in ToSet(b)
        BY <1>28
    <2>2. FirstIs(b, "menu", main)
        BY <1>17, <1>28, <2>1, OnlyIsFirst
    <2> QED
        BY <1>45, <2>2
<1>40. \A l \in ToSet(items) : l \in Offered(s, "menu")
    BY <1>17, <1>39 DEF Offered, ListsIt
<1>41. taken \subseteq Reached(s)
    <2> SUFFICES ASSUME NEW t \in taken PROVE t \in Reached(s)
        OBVIOUS
    <2>1. CASE ~subs
        <3>1. t \in Offered(s, "menu")
            BY <1>15, <1>40, <2>1
        <3> QED
            BY <3>1 DEF Reached
    <2>2. CASE subs
        <3>1. PICK x \in ToSet(submenus) : \E l \in groupLabels : IsCalled(x, l) /\ ListsIt(x, t)
            BY <1>19, <2>2
        <3>2. PICK l \in groupLabels : IsCalled(x, l) /\ ListsIt(x, t)
            BY <3>1
        <3>3. l \in Offered(s, "menu")
            BY <1>15, <1>40, <2>2, <3>2 DEF groupLabels
        <3>4. x \in ToSet(b)
            BY <1>28
        <3>7. FirstIs(b, l, x)
            BY <1>28, <3>2, <3>4, OnlyIsFirst
        <3>5. SectionOf(s, l) = x
            BY <1>45, <3>7
        <3>6. t \in Offered(s, l)
            BY <3>2, <3>5 DEF Offered, ListsIt
        <3> QED
            BY <3>3, <3>6 DEF Reached
    <2> QED
        BY <2>1, <2>2
\* What is taken.
<1>42. main.items = items /\ main.default = default
    BY <1>5 DEF Section
<1>43. Taken(main) = default \/ default \in ToSet(SystemEntries) \ m.show
    <2>1. CASE default \in ToSet(items)
        <3>1. PICK T : items \in Seq(T)
            BY <1>15 DEF IsList
        <3>2. Contains(items, default)
            BY <2>1, <3>1, ElementsOf
        <3> QED
            BY <1>42, <3>2 DEF Taken
    <2>2. CASE default \notin ToSet(items)
        <3>1. default \notin taken /\ default # "exit" /\ default \notin Shown(m)
            BY <1>15, <2>2
        <3>2. default \in {"memtest", "local", "shell", "reboot"}
            BY <1>13, <3>1 DEF FixedLabels
        <3>3. {"memtest", "local", "shell", "reboot"} \subseteq ToSet(SystemEntries)
            <4>1. PICK q : q = SystemEntries
                OBVIOUS
            <4>2. /\ DOMAIN q = 1..4 /\ q[1] = "memtest" /\ q[2] = "local" /\ q[3] = "shell"
                  /\ q[4] = "reboot"
                BY <4>1 DEF SystemEntries
            <4>3. \A i \in {1, 2, 3, 4} : q[i] \in ToSet(q)
                BY <4>2 DEF ToSet
            <4> QED
                BY <4>1, <4>2, <4>3
        <3> QED
            BY <3>1, <3>2, <3>3 DEF Shown
    <2> QED
        BY <2>1, <2>2
<1> QED
    BY <1>1, <1>10, <1>29, <1>38, <1>39, <1>41, <1>42, <1>43, <1>46 DEF IsClosedMenu

\* The settings are some that may be, and so are the images.
MenusIInv == menu \in Menus /\ up \in SUBSET Isos /\ AnswersShape /\ PcIInv

\* entries: what the menu is made of is of the catalogue, and fits.
LEMMA EntriesAre ==
    ASSUME NEW mounted, NEW m \in Menus
    PROVE  /\ HasGroups(m) /\ OwnSlugs(EntriesOf(mounted))
           /\ Rooms(m, EntriesOf(mounted)) < Len(FreeLabels(SlugsIn(EntriesOf(mounted))))
<1>1. PICK C, T : C = Catalogue /\ T = ToSet(Catalogue)
    OBVIOUS
<1>2. /\ C \in Seq(T) /\ \A i, j \in DOMAIN C : C[i].slug = C[j].slug => i = j
      /\ "" \notin SlugsIn(C)
    BY <1>1, MenusAssumption
<1>3. /\ m.groups \in Seq(STRING)
      /\ \A slugs \in SUBSET SlugsIn(C) : Len(FreeLabels(slugs)) > Len(m.groups) + Len(C)
    BY <1>1, MenusAssumption
<1>4. PICK q, S : /\ S = {e \in T : e.slug \in mounted /\ Platform \in e.platforms}
                  /\ q = EntriesOf(mounted)
    OBVIOUS
<1>5. q = Among(C, S)
    BY <1>1, <1>4 DEF EntriesOf
<1>6. q \in Seq(T) /\ Len(q) <= Len(C) /\ ToSet(q) = ToSet(C) \intersect S
    BY <1>2, <1>5, AmongKeeps
<1>7. \A i, j \in 1..Len(q) : i # j =>
         \E a, b \in 1..Len(C) : a # b /\ q[i] = C[a] /\ q[j] = C[b]
    <2>1. C \in Seq(T)
        BY <1>2
    <2>2. TakenApart(q, C)
        BY <1>5, <2>1, AmongApart
    <2> QED
        BY <2>2 DEF TakenApart
<1>8. DOMAIN q = 1..Len(q) /\ DOMAIN C = 1..Len(C) /\ Len(q) \in Nat /\ Len(C) \in Nat
    <2>1. C \in Seq(T) /\ q \in Seq(T)
        BY <1>2, <1>6
    <2> QED
        BY <2>1
<1>9. \A i, j \in DOMAIN q : q[i].slug = q[j].slug => i = j
    <2> SUFFICES ASSUME NEW i \in DOMAIN q, NEW j \in DOMAIN q, i # j
                 PROVE  q[i].slug # q[j].slug
        OBVIOUS
    <2>1. PICK a, b \in 1..Len(C) : a # b /\ q[i] = C[a] /\ q[j] = C[b]
        BY <1>7, <1>8
    <2> QED
        BY <1>2, <1>8, <2>1
<1>10. IsList(q) /\ IsList(C)
    BY <1>2, <1>6 DEF IsList
<1>11. SlugsIn(q) \subseteq SlugsIn(C)
    <2>1. SlugsIn(q) = {e.slug : e \in ToSet(q)} /\ SlugsIn(C) = {e.slug : e \in ToSet(C)}
        BY <1>10, SlugsAre
    <2> QED
        BY <1>6, <2>1
<1>12. OwnSlugs(q)
    BY <1>2, <1>9, <1>10, <1>11 DEF OwnSlugs
<1>13. PICK k, g, f : k = Len(q) /\ g = Len(m.groups) /\ f = Len(FreeLabels(SlugsIn(q)))
    OBVIOUS
<1>14. f > g + Len(C)
    BY <1>3, <1>11, <1>13
<1>15. g \in Nat
    BY <1>3, <1>13
<1>16. f \in Nat
    <2>1. IsList(FreeLabels(SlugsIn(q)))
        BY FreeLabelsAre
    <2> QED
        BY <1>13, <2>1, SeqIs DEF IsList
<1>17. g + k < f
    BY <1>6, <1>8, <1>13, <1>14, <1>15, <1>16
<1>18. HasGroups(m)
    BY <1>3 DEF HasGroups
<1> QED
    BY <1>4, <1>12, <1>13, <1>17, <1>18 DEF Rooms

\* The scripts that were worked out are those of the menu.
LEMMA ScriptsAre ==
    ASSUME NEW m \in Menus, NEW mounted \in SUBSET Isos, NEW auto \in AutoBoots
    PROVE  Scripts[<<m, mounted, auto>>] = MenuScript(m, EntriesOf(mounted), auto, TRUE)
<1>1. PICK f : f = [s \in Menus \X (SUBSET Isos) \X AutoBoots |->
                       MenuScript(s[1], EntriesOf(s[2]), s[3], TRUE)]
    OBVIOUS
<1>2. PICK w : w = <<m, mounted, auto>>
    OBVIOUS
<1>3. w \in DOMAIN f /\ f[w] = MenuScript(m, EntriesOf(mounted), auto, TRUE)
    <2>1. w \in Menus \X (SUBSET Isos) \X AutoBoots
        BY <1>2
    <2>2. w[1] = m /\ w[2] = mounted /\ w[3] = auto
        BY <1>2
    <2> QED
        BY <1>1, <2>1, <2>2
<1>4. Scripts = f
    BY <1>1 DEF Scripts
<1> QED
    BY <1>2, <1>3, <1>4

(* MenusAreClosed: whatever is set, mounted and changed meanwhile, the menu*)
(* that a PC is given goes only to labels it has, leads to every entry and *)
(* has the section of the entry as the first one with its label, whatever  *)
(* the ISOs are called (but one called "menu"); only a label that is both  *)
(* an ISO's and the menu's own is there twice.  A group called "Altro"     *)
(* beside entries without a group is left out.  The menu of the answers has*)
(* no label twice.                                                         *)
THEOREM MenusAreAlwaysClosed == Spec => []MenusAreClosed
<1>1. Init => MenusIInv
    <2> SUFFICES ASSUME Init PROVE MenusIInv
        OBVIOUS
    <2>1. AnswersShape
        BY LinksAtFirst DEF LinksIInv
    <2>2. PcIInv
        <3>1. pc = PcOff /\ requests = 0
            BY DEF Init, AnswersInit
        <3>2. MaxRequests \in Nat
            BY FilesAssumption
        <3> QED
            BY <3>1, <3>2, OffIs DEF PcIInv, PcShape, Starting
    <2>3. menu \in Menus /\ up = Isos
        BY MenusAssumption DEF Init
    <2> QED
        BY <2>1, <2>2, <2>3 DEF MenusIInv
<1>2. MenusIInv /\ [Next]_bootVars => MenusIInv'
    <2> SUFFICES ASSUME MenusIInv, [Next]_bootVars PROVE MenusIInv'
        OBVIOUS
    <2>0. menu \in Menus /\ up \in SUBSET Isos /\ AnswersShape /\ PcIInv
        BY DEF MenusIInv
    <2>1. CASE AnswersNext /\ UNCHANGED <<menu, windows, up, profiles, pc>>
        <3>1. AnswersShape'
            BY <2>0, <2>1, ShapeStep
        <3>2. PcIInv'
            BY <2>0, <2>1, ServerStep
        <3> QED
            BY <2>0, <2>1, <3>1, <3>2 DEF MenusIInv
    <2>2. CASE Settings
        <3>1. PcIInv'
            BY <2>0, <2>2, ServerStep
        <3>2. menu' \in Menus /\ up' \in SUBSET Isos
            BY <2>0, <2>2 DEF Settings, PutMenu, PutWindows, Mount, Unmount, DropProfile
        <3>3. UNCHANGED <<links, doing, restarts>>
            BY <2>2 DEF Settings, PutMenu, PutWindows, Mount, Unmount, DropProfile, Rest
        <3>4. AnswersShape'
            BY <2>0, <3>3 DEF AnswersShape
        <3> QED
            BY <3>1, <3>2, <3>4 DEF MenusIInv
    <2>3. CASE PcNext /\ Admin
        <3>1. PcIInv'
            BY <2>0, <2>3, PcStep
        <3>2. UNCHANGED <<links, doing, restarts, menu, up>>
            BY <2>3 DEF Admin, answerVars
        <3>3. AnswersShape'
            BY <2>0, <3>2 DEF AnswersShape
        <3> QED
            BY <2>0, <3>1, <3>2, <3>3 DEF MenusIInv
    <2>4. CASE UNCHANGED bootVars
        <3>1. PcIInv'
            BY <2>0, <2>4, StandingStill
        <3>2. UNCHANGED <<links, doing, restarts, menu, up>>
            BY <2>4 DEF bootVars, answerVars
        <3>3. AnswersShape'
            BY <2>0, <3>2 DEF AnswersShape
        <3> QED
            BY <2>0, <3>1, <3>2, <3>3 DEF MenusIInv
    <2> QED
        BY <2>1, <2>2, <2>3, <2>4 DEF Next
<1>3. MenusIInv => MenusAreClosed
    <2> SUFFICES ASSUME MenusIInv PROVE MenusAreClosed
        OBVIOUS
    <2>0. menu \in Menus /\ up \in SUBSET Isos /\ PcIInv
        BY DEF MenusIInv
    <2>1. ASSUME ~TwoAltro, NEW auto \in AutoBoots PROVE MenuIsClosed(Scripts[<<menu, up, auto>>])
        <3>1. PICK ents, m : ents = EntriesOf(up) /\ m = menu
            OBVIOUS
        <3>2. PICK s : s = MenuScript(m, ents, auto, TRUE)
            OBVIOUS
        <3>3. Scripts[<<menu, up, auto>>] = s
            BY <2>0, <3>1, <3>2, ScriptsAre
        <3>4. ~AltroTwice(ents)
            BY <2>1, <3>1 DEF TwoAltro, AltroTwice, EntriesNow
        <3>5. /\ HasGroups(m) /\ OwnSlugs(ents)
              /\ Rooms(m, ents) < Len(FreeLabels(SlugsIn(ents)))
            BY <2>0, <3>1, EntriesAre
        <3>6. IsClosedMenu(s, m, ents)
            BY <3>2, <3>4, <3>5, MenuCloses
        <3> QED
            BY <3>1, <3>3, <3>6 DEF IsClosedMenu, MenuIsClosed, EntriesNow
    <2>2. pc.sub # <<>> => /\ GoesOnly(pc.sub) /\ LabelledApart(pc.sub, {})
                           /\ Taken(SectionOf(pc.sub, "menu")) = SectionOf(pc.sub, "menu").default
        <3>1. pc.sub # <<>> => MenuOfAnswers(pc.sub)
            BY <2>0 DEF PcIInv, PcShape
        <3>2. PICK sub : sub = pc.sub
            OBVIOUS
        <3>3. sub # <<>> => MenuOfAnswers(sub)
            BY <3>1, <3>2
        <3>4. sub # <<>> => /\ GoesOnly(sub) /\ LabelledApart(sub, {})
                            /\ Taken(SectionOf(sub, "menu")) = SectionOf(sub, "menu").default
            BY <3>3 DEF MenuOfAnswers, Closed
        <3> QED
            BY <3>2, <3>4
    <2> QED
        BY <2>1, <2>2 DEF MenusAreClosed
<1> QED
    BY <1>1, <1>2, <1>3, PTL DEF Spec
=============================================================================
